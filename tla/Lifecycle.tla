------------------------------ MODULE Lifecycle ------------------------------
(***************************************************************************)
(* app.Run from the parsed flags to the exit of the process: cluster       *)
(* creation, readiness, CRDs, proxy, metrics server, fixtures, benchmark,  *)
(* report and cleanup.  Beside the main goroutine run the proxy's          *)
(* shutdown goroutine and the metrics server's; the interrupt may arrive   *)
(* between any two steps, and SIGTERM or a crash ends the process at once  *)
(* (main catches os.Interrupt only).                                       *)
(***************************************************************************)
EXTENDS Integers

CONSTANT WaitAttempts    \* --wait-attempts
ASSUME LifecycleAssumption == WaitAttempts \in Nat

DeleteRetries == 3
Flags == [skipSetup : BOOLEAN, cleanup : BOOLEAN, onError : BOOLEAN, latency : BOOLEAN, metrics : BOOLEAN]
Sources == {"istio", "dnsendpoint", "pod", "service"}

VARIABLES flags, source,      \* parsed command line; source of the selected scenario
          pc, runner, attempt,    \* step of Run; runner of the current loop; retry counter
          clusterExists,      \* Run's guard for deleteCluster
          failed,             \* Run returns an error
          cluster,            \* "absent", "partial" (creation failed half-way), "up"
          created,            \* history: Create returned nil, so that the cluster is this run's
          api,                \* its API server: "down", "serving", "ready" (/readyz passes)
          crds, fixtures,     \* its CRDs; runners whose fixtures are complete
          proxy,              \* toxiproxy: "off", "on", "stopped"
          port, server,       \* owner of the metrics port; our server goroutine
          scraping,           \* metricsEnabled
          measured, printed,  \* runners with results; the report is out
          gaveUp,             \* the last Delete failed DeleteRetries times
          cancelled

main  == <<pc, runner, attempt, clusterExists, failed, measured, printed, gaveUp>>
world == <<cluster, created, api, crds, fixtures>>
side  == <<proxy, port, server, scraping>>
fixed == <<flags, source, cancelled>>
vars  == <<main, world, side, fixed>>

\* runnersForScenario: gateways and virtual services for istio, one runner otherwise.
Runners    == IF source = "istio" THEN 1 .. 2 ELSE 1 .. 1
NeededCRDs == {source} \cap {"istio", "dnsendpoint"}

\* A cluster of an earlier run may be there, with all of its contents or with none.
Init ==
  /\ flags \in Flags /\ source \in Sources
  /\ pc = "preflight" /\ runner = 1 /\ attempt = 0
  /\ clusterExists = flags.skipSetup /\ failed = FALSE
  /\ cluster \in {"absent", "up"} /\ api = IF cluster = "up" THEN "ready" ELSE "down"
  /\ created = FALSE
  /\ \/ crds = {} /\ fixtures = {}
     \/ cluster = "up" /\ crds = NeededCRDs /\ fixtures = Runners
  /\ proxy = "off" /\ port \in {"free", "foreign"} /\ server = "off" /\ scraping = flags.metrics
  /\ measured = {} /\ printed = FALSE /\ gaveUp = FALSE /\ cancelled = FALSE

Step(from, to) ==
  /\ pc = from /\ pc' = to
  /\ UNCHANGED <<runner, attempt, clusterExists, failed, measured, printed, gaveUp, fixed>>

NextRunner(r) == IF r + 1 \in Runners THEN r + 1 ELSE 1    \* runner the next loop step is for

ErrorTarget == IF flags.cleanup /\ flags.onError THEN "errorDelete" ELSE "deferred"

\* The errorf closure: delete at once when onError asks for it, return the error.
Errorf ==
  /\ pc' = ErrorTarget /\ failed' = TRUE /\ attempt' = 0
  /\ UNCHANGED <<runner, clusterExists, measured, printed, gaveUp, fixed>>

\* Cluster --------------------------------------------------------------------

SkipCreation ==
  /\ flags.skipSetup /\ Step("preflight", "kubeconfig") /\ UNCHANGED <<world, side>>

\* CheckDocker; its error is returned without errorf.
Preflight ==
  /\ ~flags.skipSetup /\ UNCHANGED <<world, side>>
  /\ \/ Step("preflight", "create")
     \/ /\ pc = "preflight" /\ pc' = "deferred" /\ failed' = TRUE
        /\ UNCHANGED <<runner, attempt, clusterExists, measured, printed, gaveUp, fixed>>

\* kwokctl succeeds, too, for a cluster of that name that is up already.
CreateCluster ==
  /\ pc = "create" /\ pc' = "kubeconfig" /\ clusterExists' = TRUE
  /\ cluster' = "up" /\ created' = TRUE /\ UNCHANGED <<api, crds, fixtures, side>>
  /\ UNCHANGED <<runner, attempt, failed, measured, printed, gaveUp, fixed>>

CreateFailsOnTaken ==
  /\ pc = "create" /\ pc' = ErrorTarget /\ failed' = TRUE /\ clusterExists' = TRUE
  /\ cluster' \in {cluster, "partial"} /\ UNCHANGED <<created, api, crds, fixtures, side>>
  /\ UNCHANGED <<runner, attempt, measured, printed, gaveUp, fixed>>

CreateFails ==
  /\ pc = "create" /\ Errorf
  /\ cluster' \in {cluster, "partial"} /\ UNCHANGED <<created, api, crds, fixtures, side>>

Kubeconfig ==
  /\ UNCHANGED <<world, side>>
  /\ \/ cluster = "up" /\ Step("kubeconfig", IF flags.skipSetup THEN "proxy" ELSE "wait")
     \/ pc = "kubeconfig" /\ Errorf

\* WaitReady: the first half of the attempts probes /readyz, the rest cluster-info.
ProbePasses == IF attempt < WaitAttempts \div 2 THEN api = "ready" ELSE api # "down"

ProbeOk ==
  /\ pc = "wait" /\ attempt < WaitAttempts /\ ProbePasses
  /\ pc' = "crds" /\ attempt' = 0
  /\ UNCHANGED <<runner, clusterExists, failed, measured, printed, gaveUp, fixed, world, side>>

ProbeForever ==
  /\ pc = "wait" /\ attempt < WaitAttempts
  /\ UNCHANGED <<pc, attempt>>
  /\ UNCHANGED <<runner, clusterExists, failed, measured, printed, gaveUp, fixed, world, side>>

ProbeFails ==
  /\ pc = "wait" /\ attempt < WaitAttempts
  /\ attempt' = attempt + 1
  /\ UNCHANGED <<pc, runner, clusterExists, failed, measured, printed, gaveUp, fixed, world, side>>

WaitGivesUpQuietly ==
  /\ pc = "wait" /\ attempt = WaitAttempts
  /\ pc' = "crds" /\ attempt' = 0
  /\ UNCHANGED <<runner, clusterExists, failed, measured, printed, gaveUp, fixed, world, side>>

WaitGivesUp ==
  /\ pc = "wait" /\ attempt = WaitAttempts /\ Errorf
  /\ UNCHANGED <<world, side>>

ApplyCRDs ==
  /\ UNCHANGED <<cluster, created, api, fixtures, side>>
  /\ \/ Step("crds", "proxy") /\ crds' = crds \cup NeededCRDs
     \/ pc = "crds" /\ Errorf /\ UNCHANGED crds

\* Clients, proxy, metrics server ---------------------------------------------

\* The REST configs and clients are built here too; each of them may fail.
StartProxy ==
  /\ UNCHANGED <<world, port, server, scraping>>
  /\ \/ /\ Step("proxy", "metrics")
        /\ proxy' = IF flags.latency THEN "on" ELSE "off"
     \/ /\ pc = "proxy" /\ Errorf
        /\ proxy' \in {proxy, IF flags.latency THEN "on" ELSE "off"}

\* StartServer parses the URL and leaves binding the port to its goroutine.
StartServer ==
  /\ UNCHANGED <<world, proxy, port>>
  /\ \/ scraping /\ Step("metrics", "ping") /\ server' = "binding" /\ UNCHANGED scraping
     \/ Step("metrics", "build") /\ UNCHANGED server /\ scraping' = FALSE

\* Ping asks whoever listens on the port for /healthz.
Ping ==
  /\ Step("ping", "build") /\ UNCHANGED <<world, proxy, port, server>>
  /\ \/ port # "free" /\ UNCHANGED scraping
     \/ port # "ours" /\ scraping' = FALSE

Bind ==
  /\ server = "binding"
  /\ server' = IF port = "free" THEN "listening" ELSE "exited"
  /\ port' = IF port = "free" THEN "ours" ELSE port
  /\ UNCHANGED <<main, world, proxy, scraping, fixed>>

StopProxy ==
  /\ proxy = "on" /\ cancelled
  /\ proxy' = "stopped"
  /\ UNCHANGED <<main, world, port, server, scraping, fixed>>

\* Scenario -------------------------------------------------------------------

BuildRunners ==
  /\ UNCHANGED <<world, side>>
  /\ \/ Step("build", IF flags.skipSetup THEN "source" ELSE "setup")
     \/ pc = "build" /\ Errorf

\* One runner's Setup returned nil.  When ctx was done meanwhile, that does not
\* mean that it created everything (RunConcurrent, NilMeansAllRan).
SetupOk ==
  /\ pc = "setup" /\ pc' = IF runner + 1 \in Runners THEN "setup" ELSE "source"
  /\ runner' = NextRunner(runner)
  /\ \/ fixtures' = fixtures \cup {runner}
     \/ cancelled /\ UNCHANGED fixtures
  /\ UNCHANGED <<attempt, clusterExists, failed, measured, printed, gaveUp, fixed>>
  /\ UNCHANGED <<cluster, created, api, crds, side>>

SetupErrorLogged ==
  /\ pc = "setup" /\ pc' = IF runner + 1 \in Runners THEN "setup" ELSE "source"
  /\ runner' = NextRunner(runner)
  /\ UNCHANGED <<attempt, clusterExists, failed, measured, printed, gaveUp, fixed, world, side>>

SetupFails ==
  /\ pc = "setup" /\ Errorf /\ UNCHANGED <<world, side>>

\* NewSource waits for its informers with ctx and fails once ctx is done.
NewSource ==
  /\ ~cancelled /\ Step("source", "measure") /\ UNCHANGED <<world, side>>

NewSourceFails ==
  /\ pc = "source" /\ Errorf /\ UNCHANGED <<world, side>>

\* Warmup and steady state: without a pause nothing looks at ctx.
Measure ==
  /\ pc = "measure" /\ pc' = IF runner + 1 \in Runners THEN "source" ELSE "report"
  /\ runner' = NextRunner(runner) /\ measured' = measured \cup {runner}
  /\ UNCHANGED <<attempt, clusterExists, failed, printed, gaveUp, fixed, world, side>>

MeasureFails ==
  /\ pc = "measure" /\ Errorf /\ UNCHANGED <<world, side>>

Report ==
  /\ pc = "report" /\ pc' = "deferred" /\ printed' = TRUE
  /\ UNCHANGED <<runner, attempt, clusterExists, failed, measured, gaveUp, fixed, world, side>>

\* Cleanup --------------------------------------------------------------------

\* The deleteCluster closure runs from errorf and, with cleanup, from the defer.
After == IF pc = "errorDelete" THEN "deferred" ELSE "exited"
Deletes == clusterExists /\ (pc = "errorDelete" \/ (pc = "deferred" /\ flags.cleanup))

DeleteOk ==
  /\ Deletes
  /\ pc' = After /\ attempt' = 0 /\ gaveUp' = FALSE
  /\ cluster' = "absent" /\ api' = "down" /\ crds' = {} /\ fixtures' = {}
  /\ UNCHANGED <<runner, clusterExists, failed, measured, printed, created, fixed, side>>

DeleteFailsWithCtx ==
  /\ Deletes
  /\ IF attempt + 1 < DeleteRetries /\ ~cancelled
       THEN attempt' = attempt + 1 /\ UNCHANGED <<pc, gaveUp>>
       ELSE pc' = After /\ attempt' = 0 /\ gaveUp' = (attempt + 1 = DeleteRetries)
  /\ UNCHANGED <<runner, clusterExists, failed, measured, printed, fixed, world, side>>

DeleteFailsOnceMore ==
  /\ Deletes
  /\ IF attempt < DeleteRetries
       THEN attempt' = attempt + 1 /\ UNCHANGED <<pc, gaveUp>>
       ELSE pc' = After /\ attempt' = 0 /\ gaveUp' = TRUE
  /\ UNCHANGED <<runner, clusterExists, failed, measured, printed, fixed, world, side>>

\* The error is logged and dropped after the last attempt.
DeleteFails ==
  /\ Deletes
  /\ IF attempt + 1 < DeleteRetries
       THEN attempt' = attempt + 1 /\ UNCHANGED <<pc, gaveUp>>
       ELSE pc' = After /\ attempt' = 0 /\ gaveUp' = TRUE
  /\ UNCHANGED <<runner, clusterExists, failed, measured, printed, fixed, world, side>>

NoDelete ==
  /\ pc \in {"errorDelete", "deferred"} /\ ~Deletes /\ pc' = After
  /\ UNCHANGED <<runner, attempt, clusterExists, failed, measured, printed, gaveUp, fixed, world, side>>

\* Environment ----------------------------------------------------------------

ApiProgress ==
  /\ cluster = "up" /\ api # "ready"
  /\ api' = IF api = "down" THEN "serving" ELSE "ready"
  /\ UNCHANGED <<main, cluster, created, crds, fixtures, side, fixed>>

Ended == pc \in {"exited", "crashed"}

Interrupt ==
  /\ ~Ended /\ ~cancelled /\ cancelled' = TRUE
  /\ UNCHANGED <<main, world, side, flags, source>>

Crash ==
  /\ ~Ended /\ pc' = "crashed"
  /\ UNCHANGED <<runner, attempt, clusterExists, failed, measured, printed, gaveUp, fixed, world, side>>

\* The steps that end by themselves: polling and deletion count their attempts, and
\* the rest are single commands and calls.
Bounded ==
  \/ SkipCreation \/ Preflight \/ CreateCluster \/ CreateFails \/ Kubeconfig
  \/ ProbeOk \/ ProbeFails \/ WaitGivesUp \/ ApplyCRDs
  \/ StartProxy \/ StartServer \/ Ping
  \/ BuildRunners \/ NewSource \/ NewSourceFails \/ Measure \/ MeasureFails \/ Report
  \/ DeleteOk \/ DeleteFails \/ NoDelete

\* A Setup need not end: its tasks retry UpdateStatus without a limit (helpers.go:187).
SetupEnds == SetupOk \/ SetupFails

Run == Bounded \/ SetupEnds

Next ==
  \/ Run
  \/ ~Ended /\ (Bind \/ StopProxy)
  \/ ApiProgress \/ Interrupt \/ Crash
  \/ Ended /\ UNCHANGED vars

Spec == Init /\ [][Next]_vars

\* Every external command and API call that Run makes ends, one way or the other; a
\* Setup is only sure to once ctx is done (CancelEnds of StatusUpdate).
LiveSpec == Spec /\ WF_vars(Bounded) /\ WF_vars(cancelled /\ SetupEnds)
-----------------------------------------------------------------------------
TypeRun ==
  /\ flags \in Flags /\ source \in Sources
  /\ pc \in {"preflight", "create", "kubeconfig", "wait", "crds", "proxy", "metrics", "ping",
             "build", "setup", "source", "measure", "report", "errorDelete", "deferred",
             "exited", "crashed"}
  /\ runner \in Runners /\ measured \subseteq Runners
  /\ attempt \in 0 .. (WaitAttempts + DeleteRetries)
  /\ pc \in {"errorDelete", "deferred"} => attempt < DeleteRetries
  /\ clusterExists \in BOOLEAN /\ failed \in BOOLEAN /\ printed \in BOOLEAN /\ gaveUp \in BOOLEAN

TypeWorld ==
  /\ cluster \in {"absent", "partial", "up"} /\ created \in BOOLEAN /\ api \in {"down", "serving", "ready"}
  /\ crds \subseteq {"istio", "dnsendpoint"} /\ fixtures \subseteq Runners
  /\ proxy \in {"off", "on", "stopped"} /\ port \in {"free", "foreign", "ours"}
  /\ server \in {"off", "binding", "listening", "exited"} /\ scraping \in BOOLEAN
  /\ cancelled \in BOOLEAN

TypeOK == TypeRun /\ TypeWorld

\* Fixtures are created, and sources built on them, only against an API server
\* that answers and that knows the custom resources the scenario uses; and what
\* is scraped meanwhile is served by someone, although the port is bound, or not,
\* by a goroutine that Run does not wait for.
SetupPrepared ==
  pc \in {"setup", "source", "measure"} =>
    /\ ~flags.skipSetup => cluster = "up" /\ api # "down" /\ NeededCRDs \subseteq crds
    /\ scraping => port # "free"

\* What is about to be reported is complete, belongs to a run without error and
\* was taken over the complete fixture set, although an interrupted Setup may return nil.
ReportSound ==
  pc = "report" => ~failed /\ measured = Runners /\ (flags.skipSetup \/ fixtures = Runners)

\* With cleanup enabled no cluster that this run took charge of outlives it,
\* interrupted or not, unless Delete used up its attempts.
CleanupDone ==
  pc = "exited" /\ flags.cleanup /\ clusterExists => cluster = "absent" \/ gaveUp

\* A cluster is deleted only with cleanup enabled, and only if this run was told to
\* reuse it or its own Create returned nil: neither a cluster of an earlier run that is
\* still up after a failed Create, nor one left half-made (app.go:36), ever goes.
DeletesOnlyOwn ==
  [][cluster # "absent" /\ cluster' = "absent" => flags.cleanup /\ (flags.skipSetup \/ created)]_vars

\* Run ends, on whatever path, unless it retries in a Setup for ever and nobody interrupts
\* it there; an interrupt ends it wherever it arrives.
EventuallyEnds == <>Ended \/ <>[](pc = "setup" /\ ~cancelled)

\* config.go:130: without onError the "cluster is preserved on error so the
\* state can be inspected".
PreservedOnError ==
  pc = "exited" /\ failed /\ ~flags.onError /\ clusterExists /\ ~flags.skipSetup =>
    cluster = "up"
=============================================================================
