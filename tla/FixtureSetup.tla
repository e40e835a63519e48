---------------------------- MODULE FixtureSetup ----------------------------
(***************************************************************************)
(* The fixture phase of app.Run: the Setup of every runner of a scenario,  *)
(* as the sequence of its calls, each a single request or a RunConcurrent  *)
(* of independent requests.  Here RunConcurrent is what FanOut promises.   *)
(* Interrupts, crashes and failed calls end a run between any two          *)
(* requests, and later runs, possibly with other counts, meet what the     *)
(* earlier ones left in the cluster.                                       *)
(***************************************************************************)
EXTENDS Integers, Sequences, FiniteSets

CONSTANT Histories    \* set of sequences of scenarios run against one cluster

Source == {"istio", "pod", "service", "dnsendpoint"}
Scenario == [source : Source, services : Nat, gateways : Nat, virtualservices : Nat,
             nodes : Nat, pods : Nat, spread : Seq(STRING)]   \* spread: nsForIndex

ASSUME HistoriesAssumption ==
  \A h \in Histories : h \in Seq(Scenario) /\ h # <<>>

VARIABLES history, run,     \* scenarios of this cluster; index of the current run
          objects,          \* server: the objects stored
          pc, step, todo,   \* "setup", "ok", "error", "crashed"; call; its pending requests
          failed,           \* some request of the current call failed
          cancelled,
          rejected,         \* requests the API server did not admit
          calm              \* no more failures, interrupts or crashes

vars == <<history, run, objects, pc, step, todo, failed, cancelled, rejected, calm>>
control == <<history, run, pc, step, cancelled, calm>>

-----------------------------------------------------------------------------
\* Objects.  An identity is <<kind, namespace, index>>; ref is what the spec of the
\* object names: the node of a pod, the service a gateway selects, a gateway.

NoRef == <<>>
Obj(k, n, i, r) == [kind |-> k, ns |-> n, index |-> i, ref |-> r]
Id(o) == <<o.kind, o.ns, o.index>>
Exists(id) == \E o \in objects : Id(o) = id

Namespace(n)   == Obj("namespace", n, 0, NoRef)
DefaultAccount == Obj("serviceaccount", "default", 0, NoRef)
Node(i)        == Obj("node", "", i, NoRef)
Service(i)     == Obj("service", "default", i, NoRef)
SvcPod(i, nNodes) == Obj("svcpod", "default", i, <<"node", "", i % nNodes>>)
Pod(i)         == Obj("pod", "default", i, NoRef)
Ingress(i)     == Obj("service", "istio-system", i, NoRef)
Gateway(i, nServices) == Obj("gateway", "default", i, Id(Ingress(i % nServices)))
SharedGateway  == Obj("gateway", "istio-system", 0, Id(Ingress(0)))
VirtualService(i) == Obj("virtualservice", "default", i, Id(SharedGateway))
Endpoint(i, n) == Obj("dnsendpoint", n, i, NoRef)

\* What the API server makes of itself.  Its own Service, default/kubernetes, is no
\* fixture, but the service source lists it with the others.
KubernetesService == Obj("service", "default", -1, NoRef)
Fresh == {Namespace("default"), DefaultAccount, KubernetesService}

\* KWOK's API server rejects objects of an unknown namespace, and pods without account.
Admits(o) ==
  /\ o.kind \notin {"namespace", "node"} => Exists(Id(Namespace(o.ns)))
  /\ o.kind \in {"pod", "svcpod"} => Exists(Id(DefaultAccount))

-----------------------------------------------------------------------------
\* The calls of each Setup, in order.

AtLeast(val, min) == IF val < min THEN min ELSE val
Indexes(n) == 0 .. n-1

Ensure(o)   == [fan |-> FALSE, tasks |-> {o}]
FanOver(S)  == [fan |-> TRUE, tasks |-> S]
NoCall      == [fan |-> FALSE, tasks |-> {}]

PodSetupWithoutAccount(nPods) ==
  << Ensure(Namespace("default")), FanOver({Pod(i) : i \in Indexes(nPods)}) >>

PodSetup(nPods) ==
  << Ensure(Namespace("default")), Ensure(DefaultAccount),
     FanOver({Pod(i) : i \in Indexes(nPods)}) >>

ServiceSetup(nServices, nNodes, nPods) ==
  << Ensure(Namespace("default")), Ensure(DefaultAccount),
     FanOver({Node(i) : i \in Indexes(nNodes)}),
     FanOver({Service(i) : i \in Indexes(nServices)}),
     FanOver({SvcPod(i, AtLeast(nNodes, 1)) : i \in Indexes(nPods)}) >>

GatewaySetup(services, nGateways) ==
  LET nServices == AtLeast(services, 1)
  IN  << Ensure(Namespace("istio-system")),
         FanOver({Ingress(i) : i \in Indexes(nServices)}),
         FanOver({Gateway(i, nServices) : i \in Indexes(nGateways)}) >>

VirtualServiceSetup(nVS) ==
  << Ensure(SharedGateway), FanOver({VirtualService(i) : i \in Indexes(nVS)}) >>

\* Every namespace once, where it is first used.
DNSEndpointSetup(spread) ==
  [i \in 1 .. Len(spread) |-> IF \E j \in 1 .. i-1 : spread[j] = spread[i] THEN NoCall
                              ELSE Ensure(Namespace(spread[i]))]
  \o << FanOver({Endpoint(i, spread[i + 1]) : i \in Indexes(Len(spread))}) >>

\* The Setup of each runner of a scenario.
RunnersForScenario(s) ==
  CASE s.source = "istio" -> << GatewaySetup(s.services, s.gateways), VirtualServiceSetup(s.virtualservices) >>
    [] s.source = "pod" -> << PodSetup(s.pods) >>
    [] s.source = "service" -> << ServiceSetup(s.services, s.nodes, s.pods) >>
    [] s.source = "dnsendpoint" -> << DNSEndpointSetup(s.spread) >>

\* The loop of Run over the runners' Setup.
Plan(s) ==
  LET runners == RunnersForScenario(s)
  IN  IF Len(runners) = 2 THEN runners[1] \o runners[2] ELSE runners[1]

Scen == history[run]
Call == Plan(Scen)[step]

-----------------------------------------------------------------------------
\* In a cluster that has just come up, the API server has made its objects, or will.
Init ==
  /\ history \in Histories /\ run = 1
  /\ objects \in SUBSET Fresh /\ \A o \in objects : Admits(o)
  /\ pc = "setup" /\ step = 1 /\ todo = Plan(history[1])[1].tasks
  /\ failed = FALSE /\ cancelled = FALSE /\ rejected = {} /\ calm = FALSE

Request(o) ==
  /\ pc = "setup" /\ o \in todo /\ ~cancelled
  /\ todo' = todo \ {o}
  /\ UNCHANGED <<history, run, pc, step, cancelled, calm>>

Create(o) ==
  /\ Request(o) /\ Admits(o) /\ ~Exists(Id(o))
  /\ objects' = objects \cup {o}
  /\ UNCHANGED <<failed, rejected>>

AlreadyExistsFails(o) ==
  /\ Request(o) /\ Exists(Id(o)) /\ failed' = TRUE
  /\ UNCHANGED <<objects, rejected>>

\* AlreadyExists is not an error: the object is skipped, and left as it is.
AlreadyExists(o) ==
  /\ Request(o) /\ Exists(Id(o))
  /\ UNCHANGED <<objects, failed, rejected>>

Rejected(o) ==
  /\ Request(o) /\ ~Admits(o)
  /\ failed' = TRUE /\ rejected' = rejected \cup {o}
  /\ UNCHANGED objects

CallFailsQuietly(o) ==
  /\ Request(o) /\ ~calm /\ UNCHANGED <<objects, failed, rejected>>

CallFailsHalfWritten(o) ==
  /\ Request(o) /\ ~calm /\ failed' = TRUE
  /\ \/ UNCHANGED objects
     \/ Admits(o) /\ ~Exists(Id(o)) /\ objects' = objects \cup {[o EXCEPT !.ref = NoRef]}
  /\ UNCHANGED rejected

\* Any other error; the object may have been stored nevertheless.
CallFails(o) ==
  /\ Request(o) /\ ~calm /\ failed' = TRUE
  /\ \/ UNCHANGED objects
     \/ Admits(o) /\ ~Exists(Id(o)) /\ objects' = objects \cup {o}
  /\ UNCHANGED rejected

\* A request made with a done ctx fails; a goroutine of RunConcurrent that finds ctx
\* done returns without one.
RequestCancelled(o) ==
  /\ pc = "setup" /\ o \in todo /\ cancelled
  /\ todo' = todo \ {o} /\ failed' = (failed \/ ~Call.fan)
  /\ UNCHANGED <<control, objects, rejected>>

\* RunConcurrent's dispatch loop sees ctx done, waits and returns its error.
GiveUp ==
  /\ pc = "setup" /\ cancelled /\ Call.fan /\ todo # {}
  /\ pc' = "error"
  /\ UNCHANGED <<history, run, objects, step, todo, failed, cancelled, rejected, calm>>

NextStepIgnoresError ==
  /\ pc = "setup" /\ todo = {}
  /\ IF step = Len(Plan(Scen)) THEN pc' = "ok" /\ UNCHANGED <<step, todo>>
     ELSE step' = step + 1 /\ todo' = Plan(Scen)[step + 1].tasks /\ UNCHANGED pc
  /\ UNCHANGED <<history, run, objects, failed, cancelled, rejected, calm>>

NextStepPastEnd ==
  /\ pc = "setup" /\ todo = {} /\ ~failed
  /\ IF step = Len(Plan(Scen)) THEN pc' = "ok" /\ step' = step + 1 /\ UNCHANGED todo
     ELSE step' = step + 1 /\ todo' = Plan(Scen)[step + 1].tasks /\ UNCHANGED pc
  /\ UNCHANGED <<history, run, objects, failed, cancelled, rejected, calm>>

NextStepFails ==
  /\ pc = "setup" /\ todo = {} /\ failed
  /\ pc' = "error"
  /\ UNCHANGED <<history, run, objects, step, todo, failed, cancelled, rejected, calm>>

NextStep ==
  /\ pc = "setup" /\ todo = {} /\ ~failed
  /\ IF step = Len(Plan(Scen)) THEN pc' = "ok" /\ UNCHANGED <<step, todo>>
     ELSE step' = step + 1 /\ todo' = Plan(Scen)[step + 1].tasks /\ UNCHANGED pc
  /\ UNCHANGED <<history, run, objects, failed, cancelled, rejected, calm>>

-----------------------------------------------------------------------------
\* Environment.

ApiServerCreates ==
  /\ \E o \in Fresh :
       /\ ~Exists(Id(o)) /\ Admits(o) /\ objects' = objects \cup {o}
  /\ UNCHANGED <<control, todo, failed, rejected>>

Cancel ==
  /\ pc = "setup" /\ ~cancelled /\ ~calm /\ cancelled' = TRUE
  /\ UNCHANGED <<history, run, objects, pc, step, todo, failed, rejected, calm>>

Crash ==
  /\ pc = "setup" /\ ~calm /\ pc' = "crashed"
  /\ UNCHANGED <<history, run, objects, step, todo, failed, cancelled, rejected, calm>>

\* The cluster was kept; the program is run again.
Rerun ==
  /\ pc # "setup" /\ run < Len(history)
  /\ run' = run + 1 /\ pc' = "setup" /\ step' = 1 /\ todo' = Plan(history[run + 1])[1].tasks
  /\ failed' = FALSE /\ cancelled' = FALSE
  /\ UNCHANGED <<history, objects, rejected, calm>>

CalmDown ==
  /\ ~calm /\ calm' = TRUE
  /\ UNCHANGED <<history, run, objects, pc, step, todo, failed, cancelled, rejected>>

Ended == pc # "setup" /\ run = Len(history) /\ UNCHANGED vars

Setup ==
  \/ \E o \in todo : \/ Create(o) \/ AlreadyExists(o) \/ Rejected(o) \/ CallFails(o)
                     \/ RequestCancelled(o)
  \/ GiveUp \/ NextStep \/ NextStepFails
Next == Setup \/ ApiServerCreates \/ Cancel \/ Crash \/ Rerun \/ CalmDown \/ Ended

Spec == Init /\ [][Next]_vars

\* Go runs the goroutines, every API call is answered or fails, and a task's own retries
\* end once failures have ceased (Converges of StatusUpdate), for which calm stands here.
LiveSpec == Spec /\ WF_vars(calm /\ Setup)
-----------------------------------------------------------------------------
Tasks(s) == UNION {Plan(s)[k].tasks : k \in 1 .. Len(Plan(s))}
Known    == Fresh \cup UNION {Tasks(history[r]) : r \in 1 .. run}

TypeOK ==
  /\ history \in Histories /\ run \in 1 .. Len(history)
  /\ pc \in {"setup", "ok", "error", "crashed"} /\ step \in 1 .. Len(Plan(Scen))
  /\ objects \subseteq Known /\ todo \subseteq Call.tasks /\ rejected \subseteq Known
  /\ failed \in BOOLEAN /\ cancelled \in BOOLEAN /\ calm \in BOOLEAN

\* What an object names exists before the object does: a pod's node, the service a
\* gateway selects, the shared gateway of the virtual services.  Neither a failed
\* or interrupted run, nor a rerun with other counts, leaves a dangling reference.
\* (Of scenarios that have a node: with none, the pods are bound to one all the same.)
NoDangling ==
  \A o \in objects : o.ref # NoRef => Exists(o.ref)

\* A Setup that was not interrupted and returned nil left every object of the
\* scenario in the cluster, whatever it found there.
CompleteOnSuccess ==
  pc = "ok" /\ ~cancelled => \A o \in Tasks(Scen) : Exists(Id(o))

\* No request is refused for want of a namespace or an account: each Setup makes
\* what its objects need first.  The Istio objects of the default namespace rely on
\* the API server for it.
NeverRejected ==
  \A o \in rejected : o.kind \in {"gateway", "virtualservice"} /\ o.ns = "default"

\* Once failures cease, a Setup that starts or goes on succeeds over whatever the
\* earlier runs left behind.
Recovers ==
  (/\ calm /\ pc = "setup" /\ ~failed /\ ~cancelled
   /\ Scen.source = "istio" => Exists(Id(Namespace("default")))) ~> (pc = "ok")

\* A scenario that was run again after failures, interrupts or crashes, however often and
\* wherever they hit, has left what an undisturbed run of it leaves: each object as the
\* scenario has it, down to what it refers to, and nothing besides the API server's own.
LeftAsDeclared ==
  pc = "ok" /\ ~cancelled /\ (\A r \in 1 .. run : history[r] = Scen) =>
    objects \ Fresh = Tasks(Scen) \ Fresh
=============================================================================
