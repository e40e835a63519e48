--------------------------- MODULE LifecycleProofs ---------------------------
(***************************************************************************)
(* Run for any number of wait attempts.  The argument follows Run from     *)
(* step to step: each fact the properties need is established by one step  *)
(* and nothing but the deletion of the cluster takes it back, which only   *)
(* the last two steps do.  What an interrupt spoils, NewSource finds out.  *)
(***************************************************************************)
EXTENDS Lifecycle, TLAPS

Early   == {"preflight", "create"}
Late    == {"errorDelete", "deferred", "exited", "crashed"}
Ready   == {"proxy", "metrics", "ping", "build", "setup", "source", "measure", "report"}
Looping == {"setup", "source", "measure"}

\* Retry counters start from zero, loops from the first runner, and only the last
\* steps know of an error.
Counters ==
  /\ pc \notin {"wait", "errorDelete", "deferred", "exited", "crashed"} => attempt = 0
  /\ pc \notin Looping \cup Late => runner = 1
  /\ pc \notin Late => ~failed

\* The cluster that Run has taken charge of.
OwnCluster ==
  /\ pc \in Early => clusterExists = flags.skipSetup
  /\ pc \in {"create", "wait", "crds"} => ~flags.skipSetup
  /\ clusterExists => cluster # "partial" /\ (flags.skipSetup \/ created)
  /\ pc = "errorDelete" => flags.cleanup
  /\ ~flags.skipSetup =>
       /\ pc \in Ready \cup {"kubeconfig", "wait", "crds"} => cluster = "up"
       /\ pc \in Ready \cup {"crds"} => api # "down"
       /\ pc \in Ready => NeededCRDs \subseteq crds

\* Somebody listens on the port once it has been pinged.
Scraped == pc \in {"build", "setup", "source", "measure", "report"} /\ scraping => port # "free"

\* The runners the loops have dealt with; an interrupt before NewSource leaves it open
\* whether the fixtures are complete.
Progress ==
  /\ pc \in {"source", "measure"} => (runner = 2 => 1 \in measured)
  /\ pc = "report" => measured = Runners
  /\ ~flags.skipSetup =>
       /\ pc = "setup" => cancelled \/ (runner = 2 => 1 \in fixtures)
       /\ pc = "source" => cancelled \/ fixtures = Runners
       /\ pc \in {"measure", "report"} => fixtures = Runners

IInv == TypeOK /\ Counters /\ OwnCluster /\ Scraped /\ Progress /\ CleanupDone

\* A scenario has one runner or two, and the loops go through them in order.
LEMMA RunnersLemma ==
  ASSUME NEW r \in Runners
  PROVE  /\ r \in {1, 2} /\ (r = 2 => Runners = {1, 2})
         /\ r + 1 \in Runners => r = 1 /\ NextRunner(r) = 2 /\ Runners = {1, 2}
         /\ r + 1 \notin Runners => NextRunner(r) = 1 /\ (r = 1 => Runners = {1})
         /\ NextRunner(r) \in Runners /\ 1 \in Runners
<1>1. Runners = IF source = "istio" THEN {1, 2} ELSE {1}
  BY DEF Runners
<1>. QED  BY <1>1 DEF NextRunner

\* The initial state satisfies the invariant.
LEMMA InitIInv == Init => IInv
<1> SUFFICES ASSUME Init PROVE IInv
  OBVIOUS
<1>1. flags.skipSetup \in BOOLEAN /\ flags.metrics \in BOOLEAN
  BY DEF Init, Flags
<1>2. TypeRun
  <2>1. runner \in Runners /\ measured \subseteq Runners
    BY DEF Init, Runners
  <2>2. attempt \in 0 .. (WaitAttempts + DeleteRetries)
    BY LifecycleAssumption DEF Init, DeleteRetries
  <2>. QED  BY <1>1, <2>1, <2>2 DEF Init, TypeRun
<1>3. TypeWorld
  BY <1>1 DEF Init, TypeWorld, NeededCRDs
<1>4. Counters /\ OwnCluster /\ Scraped /\ Progress /\ CleanupDone
  BY <1>1 DEF Init, Counters, OwnCluster, Scraped, Progress, CleanupDone, Early, Late, Ready, Looping
<1>. QED  BY <1>2, <1>3, <1>4 DEF IInv, TypeOK

\* Every step preserves the invariant.
LEMMA NextIInv == IInv /\ [Next]_vars => IInv'
<1> SUFFICES ASSUME IInv, [Next]_vars PROVE IInv'
  OBVIOUS
<1> USE DEF IInv, Early, Late, Ready, Looping, DeleteRetries, Step, main, world, side, fixed
<1>1. /\ flags.skipSetup \in BOOLEAN /\ flags.cleanup \in BOOLEAN /\ flags.onError \in BOOLEAN
      /\ flags.latency \in BOOLEAN /\ flags.metrics \in BOOLEAN
  BY DEF TypeOK, TypeRun, TypeWorld, Flags
<1>2. flags' = flags /\ source' = source /\ Runners' = Runners /\ NeededCRDs' = NeededCRDs
  BY DEF vars, Next, Run, Bounded, SetupEnds, SkipCreation, Preflight, CreateCluster, CreateFails, Kubeconfig,
         ProbeOk,
         ProbeFails, WaitGivesUp, ApplyCRDs, StartProxy, StartServer, Ping, BuildRunners, SetupOk,
         SetupFails, NewSource, NewSourceFails, Measure, MeasureFails, Report, DeleteOk, DeleteFails,
         NoDelete, Bind, StopProxy, ApiProgress, Interrupt, Crash, Errorf, Runners, NeededCRDs
<1>3. /\ runner \in {1, 2} /\ (runner = 2 => Runners = {1, 2})
      /\ runner + 1 \in Runners => runner = 1 /\ NextRunner(runner) = 2 /\ Runners = {1, 2}
      /\ runner + 1 \notin Runners => NextRunner(runner) = 1 /\ (runner = 1 => Runners = {1})
      /\ NextRunner(runner) \in Runners /\ 1 \in Runners
  BY RunnersLemma DEF TypeOK, TypeRun, TypeWorld
<1>4. NeededCRDs \subseteq {"istio", "dnsendpoint"}
  BY DEF NeededCRDs
<1> USE <1>1, <1>2
<1>5. ASSUME Errorf, pc \notin Late, UNCHANGED <<created, api, crds, fixtures, port, server, scraping>>,
             cluster' = cluster \/ (~clusterExists /\ cluster' = "partial"), proxy' \in {proxy, "off", "on"}
      PROVE  IInv'
  <2>1. /\ pc' \in {"errorDelete", "deferred"} /\ attempt' = 0 /\ failed' = TRUE
        /\ pc' = "errorDelete" => flags.cleanup
        /\ UNCHANGED <<runner, clusterExists, measured, printed, gaveUp, cancelled>>
    BY <1>5 DEF Errorf, ErrorTarget
  <2>2. TypeOK'
    BY <1>5, <2>1, LifecycleAssumption DEF TypeOK, TypeRun, TypeWorld
  <2>3. Counters' /\ OwnCluster' /\ Scraped' /\ Progress' /\ CleanupDone'
    BY <1>5, <2>1 DEF Counters, OwnCluster, Scraped, Progress, CleanupDone
  <2>. QED  BY <2>2, <2>3
<1>6. CASE SkipCreation
  <2>1. TypeOK'
    BY <1>6, LifecycleAssumption DEF SkipCreation, TypeOK, TypeRun, TypeWorld, Counters
  <2>2. Counters' /\ OwnCluster' /\ Scraped'
    BY <1>6 DEF SkipCreation, Counters, OwnCluster, Scraped
  <2>3. Progress' /\ CleanupDone'
    BY <1>6 DEF SkipCreation, Counters, Progress, CleanupDone
  <2>. QED  BY <2>1, <2>2, <2>3
<1>7. CASE Preflight
  <2>1. TypeRun'
    <3>1. /\ attempt' \in 0 .. (WaitAttempts + DeleteRetries)
          /\ pc' \in {"errorDelete", "deferred"} => attempt' < DeleteRetries
      BY <1>7, LifecycleAssumption DEF Preflight, TypeOK, TypeRun, Counters
    <3>. QED  BY <1>7, <3>1 DEF Preflight, TypeOK, TypeRun
  <2>2. TypeWorld'
    BY <1>7 DEF Preflight, TypeOK, TypeRun, TypeWorld
  <2>3. Counters' /\ OwnCluster' /\ Scraped'
    BY <1>7 DEF Preflight, Counters, OwnCluster, Scraped
  <2>4. Progress' /\ CleanupDone'
    BY <1>7 DEF Preflight, Counters, Progress, CleanupDone
  <2>. QED  BY <2>1, <2>2, <2>3, <2>4 DEF TypeOK
<1>8. CASE CreateCluster
  <2>1. TypeOK'
    BY <1>8, LifecycleAssumption DEF CreateCluster, TypeOK, TypeRun, TypeWorld, Counters
  <2>2. Counters' /\ OwnCluster' /\ Scraped'
    BY <1>8 DEF CreateCluster, Counters, OwnCluster, Scraped
  <2>3. Progress' /\ CleanupDone'
    BY <1>8 DEF CreateCluster, Counters, Progress, CleanupDone
  <2>. QED  BY <2>1, <2>2, <2>3
<1>9. CASE CreateFails
  <2>1. ~clusterExists
    BY <1>9 DEF CreateFails, OwnCluster
  <2>. QED  BY <1>9, <1>5, <2>1 DEF CreateFails
<1>10. CASE Kubeconfig
  <2>1. CASE Errorf
    BY <2>1, <1>10, <1>5 DEF Kubeconfig
  <2>2. CASE cluster = "up" /\ Step("kubeconfig", IF flags.skipSetup THEN "proxy" ELSE "wait")
    <3>1. TypeOK'
      BY <2>2, <1>10, LifecycleAssumption DEF Kubeconfig, TypeOK, TypeRun, TypeWorld, Counters
    <3>2. Counters' /\ OwnCluster' /\ Scraped'
      BY <2>2, <1>10 DEF Kubeconfig, Counters, OwnCluster, Scraped
    <3>3. Progress' /\ CleanupDone'
      BY <2>2, <1>10 DEF Kubeconfig, Counters, Progress, CleanupDone
    <3>. QED  BY <3>1, <3>2, <3>3
  <2>. QED  BY <1>10, <2>1, <2>2 DEF Kubeconfig
<1>11. CASE ProbeOk
  <2>1. TypeOK'
    BY <1>11, LifecycleAssumption DEF ProbeOk, ProbePasses, TypeOK, TypeRun, TypeWorld, Counters
  <2>2. Counters' /\ OwnCluster' /\ Scraped'
    BY <1>11 DEF ProbeOk, ProbePasses, Counters, OwnCluster, Scraped
  <2>3. Progress' /\ CleanupDone'
    BY <1>11 DEF ProbeOk, ProbePasses, Counters, Progress, CleanupDone
  <2>. QED  BY <2>1, <2>2, <2>3
<1>12. CASE ProbeFails
  <2>1. TypeOK'
    BY <1>12, LifecycleAssumption DEF ProbeFails, TypeOK, TypeRun, TypeWorld, Counters
  <2>2. Counters' /\ OwnCluster' /\ Scraped'
    BY <1>12 DEF ProbeFails, Counters, OwnCluster, Scraped
  <2>3. Progress' /\ CleanupDone'
    BY <1>12 DEF ProbeFails, Counters, Progress, CleanupDone
  <2>. QED  BY <2>1, <2>2, <2>3
<1>13. CASE WaitGivesUp
  BY <1>13, <1>5 DEF WaitGivesUp
<1>14. CASE ApplyCRDs
  <2>1. CASE pc = "crds" /\ Errorf /\ UNCHANGED crds
    BY <2>1, <1>14, <1>5 DEF ApplyCRDs
  <2>2. CASE Step("crds", "proxy") /\ crds' = crds \cup NeededCRDs
    <3>1. TypeOK'
      BY <2>2, <1>14, <1>4, LifecycleAssumption DEF ApplyCRDs, TypeOK, TypeRun, TypeWorld, Counters
    <3>2. Counters' /\ OwnCluster' /\ Scraped'
      BY <2>2, <1>14 DEF ApplyCRDs, Counters, OwnCluster, Scraped
    <3>3. Progress' /\ CleanupDone'
      BY <2>2, <1>14 DEF ApplyCRDs, Counters, Progress, CleanupDone
    <3>. QED  BY <3>1, <3>2, <3>3
  <2>. QED  BY <1>14, <2>1, <2>2 DEF ApplyCRDs
<1>15. CASE StartProxy
  <2>1. CASE Errorf
    BY <2>1, <1>15, <1>5 DEF StartProxy
  <2>2. CASE Step("proxy", "metrics") /\ proxy' = IF flags.latency THEN "on" ELSE "off"
    <3>1. TypeOK'
      BY <2>2, <1>15, LifecycleAssumption DEF StartProxy, TypeOK, TypeRun, TypeWorld, Counters
    <3>2. Counters' /\ OwnCluster' /\ Scraped'
      BY <2>2, <1>15 DEF StartProxy, Counters, OwnCluster, Scraped
    <3>3. Progress' /\ CleanupDone'
      BY <2>2, <1>15 DEF StartProxy, Counters, Progress, CleanupDone
    <3>. QED  BY <3>1, <3>2, <3>3
  <2>. QED  BY <1>15, <2>1, <2>2 DEF StartProxy
<1>16. CASE StartServer
  <2>1. TypeRun'
    BY <1>16, LifecycleAssumption DEF StartServer, TypeOK, TypeRun, Counters
  <2>2. TypeWorld'
    BY <1>16 DEF StartServer, TypeOK, TypeRun, TypeWorld
  <2>3. Counters' /\ OwnCluster' /\ Scraped'
    BY <1>16 DEF StartServer, Counters, OwnCluster, Scraped
  <2>4. Progress' /\ CleanupDone'
    BY <1>16 DEF StartServer, Counters, Progress, CleanupDone
  <2>. QED  BY <2>1, <2>2, <2>3, <2>4 DEF TypeOK
<1>17. CASE Ping
  <2>1. TypeRun'
    BY <1>17, LifecycleAssumption DEF Ping, TypeOK, TypeRun, Counters
  <2>2. TypeWorld'
    BY <1>17 DEF Ping, TypeOK, TypeRun, TypeWorld
  <2>3. Counters' /\ OwnCluster' /\ Scraped'
    BY <1>17 DEF Ping, Counters, OwnCluster, Scraped
  <2>4. Progress' /\ CleanupDone'
    BY <1>17 DEF Ping, Counters, Progress, CleanupDone
  <2>. QED  BY <2>1, <2>2, <2>3, <2>4 DEF TypeOK
<1>18. CASE BuildRunners
  <2>1. CASE Errorf
    BY <2>1, <1>18, <1>5 DEF BuildRunners
  <2>2. CASE Step("build", IF flags.skipSetup THEN "source" ELSE "setup")
    <3>1. TypeOK'
      BY <2>2, <1>18, LifecycleAssumption DEF BuildRunners, TypeOK, TypeRun, TypeWorld, Counters
    <3>2. Counters' /\ OwnCluster' /\ Scraped'
      BY <2>2, <1>18 DEF BuildRunners, Counters, OwnCluster, Scraped
    <3>3. Progress' /\ CleanupDone'
      BY <2>2, <1>18 DEF BuildRunners, Counters, Progress, CleanupDone
    <3>. QED  BY <3>1, <3>2, <3>3
  <2>. QED  BY <1>18, <2>1, <2>2 DEF BuildRunners
<1>19. CASE SetupOk
  <2>1. TypeRun'
    <3>1. /\ pc' \in {"setup", "source"} /\ runner' \in Runners /\ attempt' = 0
          /\ UNCHANGED <<clusterExists, failed, measured, printed, gaveUp>>
      BY <1>19, <1>3 DEF SetupOk, Counters
    <3>2. attempt' \in 0 .. (WaitAttempts + DeleteRetries)
      BY <3>1, LifecycleAssumption
    <3>. QED  BY <3>1, <3>2 DEF TypeOK, TypeRun
  <2>2. TypeWorld'
    <3>1. /\ fixtures' \subseteq fixtures \cup {runner}
          /\ UNCHANGED <<cluster, created, api, crds, side, cancelled>>
      BY <1>19 DEF SetupOk
    <3>. QED  BY <3>1 DEF TypeOK, TypeRun, TypeWorld
  <2>3. Counters' /\ OwnCluster' /\ Scraped'
    BY <1>19 DEF SetupOk, Counters, OwnCluster, Scraped
  <2>4. Progress' /\ CleanupDone'
    <3>1. CASE runner + 1 \in Runners
      BY <1>19, <1>3, <3>1 DEF SetupOk, Counters, Progress, CleanupDone
    <3>2. CASE runner + 1 \notin Runners
      <4>1. fixtures \subseteq Runners /\ pc = "setup" /\ pc' = "source" /\ runner' = 1
        BY <1>19, <1>3, <3>2 DEF SetupOk, TypeOK, TypeWorld
      <4>2. ~flags.skipSetup => cancelled' \/ fixtures' = Runners
        BY <1>19, <1>3, <3>2, <4>1 DEF SetupOk, Progress
      <4>. QED  BY <4>1, <4>2 DEF Progress, CleanupDone
    <3>. QED  BY <3>1, <3>2
  <2>. QED  BY <2>1, <2>2, <2>3, <2>4 DEF TypeOK
<1>20. CASE SetupFails
  BY <1>20, <1>5 DEF SetupFails
<1>21. CASE NewSource
  <2>1. TypeOK'
    BY <1>21, LifecycleAssumption DEF NewSource, TypeOK, TypeRun, TypeWorld, Counters
  <2>2. Counters' /\ OwnCluster' /\ Scraped'
    BY <1>21 DEF NewSource, Counters, OwnCluster, Scraped
  <2>3. Progress' /\ CleanupDone'
    BY <1>21 DEF NewSource, Counters, Progress, CleanupDone
  <2>. QED  BY <2>1, <2>2, <2>3
<1>22. CASE NewSourceFails
  BY <1>22, <1>5 DEF NewSourceFails
<1>23. CASE Measure
  <2>1. TypeOK'
    BY <1>23, LifecycleAssumption, <1>3 DEF Measure, TypeOK, TypeRun, TypeWorld, Counters
  <2>2. Counters' /\ OwnCluster' /\ Scraped'
    BY <1>23, <1>3 DEF Measure, Counters, OwnCluster, Scraped
  <2>3. Progress' /\ CleanupDone'
    <3>1. CASE runner + 1 \in Runners
      BY <1>23, <1>3, <3>1 DEF Measure, Counters, Progress, CleanupDone
    <3>2. CASE runner + 1 \notin Runners
      BY <1>23, <1>3, <3>2 DEF Measure, TypeOK, TypeRun, TypeWorld, Progress, CleanupDone
    <3>. QED  BY <3>1, <3>2
  <2>. QED  BY <2>1, <2>2, <2>3
<1>24. CASE MeasureFails
  BY <1>24, <1>5 DEF MeasureFails
<1>25. CASE Report
  <2>1. TypeOK'
    BY <1>25, LifecycleAssumption DEF Report, TypeOK, TypeRun, TypeWorld, Counters
  <2>2. Counters' /\ OwnCluster' /\ Scraped'
    BY <1>25 DEF Report, Counters, OwnCluster, Scraped
  <2>3. Progress' /\ CleanupDone'
    BY <1>25 DEF Report, Counters, Progress, CleanupDone
  <2>. QED  BY <2>1, <2>2, <2>3
<1>26. CASE DeleteOk
  <2>1. TypeRun'
    <3>1. /\ attempt' \in 0 .. (WaitAttempts + DeleteRetries)
          /\ pc' \in {"errorDelete", "deferred"} => attempt' < DeleteRetries
      BY <1>26, LifecycleAssumption DEF DeleteOk, Deletes, After, TypeOK, TypeRun, Counters
    <3>. QED  BY <1>26, <3>1 DEF DeleteOk, Deletes, After, TypeOK, TypeRun
  <2>2. TypeWorld'
    BY <1>26 DEF DeleteOk, Deletes, After, TypeOK, TypeRun, TypeWorld
  <2>3. Counters' /\ OwnCluster' /\ Scraped'
    BY <1>26 DEF DeleteOk, Deletes, After, Counters, OwnCluster, Scraped
  <2>4. Progress' /\ CleanupDone'
    BY <1>26 DEF DeleteOk, Deletes, After, Counters, Progress, CleanupDone
  <2>. QED  BY <2>1, <2>2, <2>3, <2>4 DEF TypeOK
<1>27. CASE DeleteFails
  <2>1. TypeRun'
    <3>1. /\ attempt' \in 0 .. (WaitAttempts + DeleteRetries)
          /\ pc' \in {"errorDelete", "deferred"} => attempt' < DeleteRetries
      BY <1>27, LifecycleAssumption DEF DeleteFails, Deletes, After, TypeOK, TypeRun, Counters
    <3>. QED  BY <1>27, <3>1 DEF DeleteFails, Deletes, After, TypeOK, TypeRun
  <2>2. TypeWorld'
    BY <1>27 DEF DeleteFails, Deletes, After, TypeOK, TypeRun, TypeWorld
  <2>3. Counters' /\ OwnCluster' /\ Scraped'
    BY <1>27 DEF DeleteFails, Deletes, After, Counters, OwnCluster, Scraped
  <2>4. Progress' /\ CleanupDone'
    BY <1>27 DEF DeleteFails, Deletes, After, Counters, Progress, CleanupDone
  <2>. QED  BY <2>1, <2>2, <2>3, <2>4 DEF TypeOK
<1>28. CASE NoDelete
  <2>1. TypeOK'
    BY <1>28, LifecycleAssumption DEF NoDelete, Deletes, After, TypeOK, TypeRun, TypeWorld, Counters
  <2>2. Counters' /\ OwnCluster' /\ Scraped'
    BY <1>28 DEF NoDelete, Deletes, After, Counters, OwnCluster, Scraped
  <2>3. Progress' /\ CleanupDone'
    BY <1>28 DEF NoDelete, Deletes, After, Counters, Progress, CleanupDone
  <2>. QED  BY <2>1, <2>2, <2>3
<1>29. CASE ~Ended /\ Bind
  <2>1. TypeOK'
    BY <1>29, LifecycleAssumption DEF Bind, Ended, TypeOK, TypeRun, TypeWorld, Counters
  <2>2. Counters' /\ OwnCluster' /\ Scraped'
    BY <1>29 DEF Bind, Ended, Counters, OwnCluster, Scraped
  <2>3. Progress' /\ CleanupDone'
    BY <1>29 DEF Bind, Ended, Counters, Progress, CleanupDone
  <2>. QED  BY <2>1, <2>2, <2>3
<1>30. CASE ~Ended /\ StopProxy
  <2>1. TypeOK'
    BY <1>30, LifecycleAssumption DEF StopProxy, Ended, TypeOK, TypeRun, TypeWorld, Counters
  <2>2. Counters' /\ OwnCluster' /\ Scraped'
    BY <1>30 DEF StopProxy, Ended, Counters, OwnCluster, Scraped
  <2>3. Progress' /\ CleanupDone'
    BY <1>30 DEF StopProxy, Ended, Counters, Progress, CleanupDone
  <2>. QED  BY <2>1, <2>2, <2>3
<1>31. CASE ApiProgress
  <2>1. TypeOK'
    BY <1>31, LifecycleAssumption DEF ApiProgress, TypeOK, TypeRun, TypeWorld, Counters
  <2>2. Counters' /\ OwnCluster' /\ Scraped'
    BY <1>31 DEF ApiProgress, Counters, OwnCluster, Scraped
  <2>3. Progress' /\ CleanupDone'
    BY <1>31 DEF ApiProgress, Counters, Progress, CleanupDone
  <2>. QED  BY <2>1, <2>2, <2>3
<1>32. CASE Interrupt
  <2>1. TypeOK'
    BY <1>32, LifecycleAssumption DEF Interrupt, Ended, TypeOK, TypeRun, TypeWorld, Counters
  <2>2. Counters' /\ OwnCluster' /\ Scraped'
    BY <1>32 DEF Interrupt, Ended, Counters, OwnCluster, Scraped
  <2>3. Progress' /\ CleanupDone'
    BY <1>32 DEF Interrupt, Ended, Counters, Progress, CleanupDone
  <2>. QED  BY <2>1, <2>2, <2>3
<1>33. CASE Crash
  <2>1. TypeOK'
    BY <1>33, LifecycleAssumption DEF Crash, Ended, TypeOK, TypeRun, TypeWorld, Counters
  <2>2. Counters' /\ OwnCluster' /\ Scraped'
    BY <1>33 DEF Crash, Ended, Counters, OwnCluster, Scraped
  <2>3. Progress' /\ CleanupDone'
    BY <1>33 DEF Crash, Ended, Counters, Progress, CleanupDone
  <2>. QED  BY <2>1, <2>2, <2>3
<1>34. CASE UNCHANGED vars
  BY <1>34 DEF vars, TypeOK, TypeRun, TypeWorld, Counters, OwnCluster, Scraped, Progress, CleanupDone
<1>. QED
  BY <1>6, <1>7, <1>8, <1>9, <1>10, <1>11, <1>12, <1>13, <1>14, <1>15, <1>16, <1>17, <1>18, <1>19,
     <1>20, <1>21, <1>22, <1>23, <1>24, <1>25, <1>26, <1>27, <1>28, <1>29, <1>30, <1>31, <1>32,
     <1>33, <1>34 DEF Next, Run, Bounded, SetupEnds

\* The invariant holds in every reachable state.
LEMMA Invariant == Spec => []IInv
  BY InitIInv, NextIInv, PTL DEF Spec

\* Every variable keeps its type: retry counters stay within their bounds, and the
\* index of the runner within the runners of the scenario.
THEOREM TypeCorrect == Spec => []TypeOK
<1>. IInv => TypeOK
  BY DEF IInv
<1>. QED  BY Invariant, PTL

\* Run never creates fixtures or builds sources on a cluster that does not answer or
\* lacks the custom resources, and never scrapes a port nobody listens on.
THEOREM SetupIsPrepared == Spec => []SetupPrepared
<1>. IInv => SetupPrepared
  BY DEF IInv, OwnCluster, Scraped, SetupPrepared, Ready
<1>. QED  BY Invariant, PTL

\* Whatever is reported is complete and was measured over complete fixtures.
THEOREM ReportIsSound == Spec => []ReportSound
<1>. IInv => ReportSound
  <2> SUFFICES ASSUME IInv PROVE ReportSound
    OBVIOUS
  <2>1. flags.skipSetup \in BOOLEAN
    BY DEF IInv, TypeOK, TypeRun, TypeWorld, Flags
  <2>. QED  BY <2>1 DEF IInv, Counters, Progress, ReportSound, Late, Looping
<1>. QED  BY Invariant, PTL

\* With cleanup, the cluster is gone when Run returns or its deletion was given up.
THEOREM CleanupIsDone == Spec => []CleanupDone
<1>. IInv => CleanupDone
  BY DEF IInv
<1>. QED  BY Invariant, PTL

\* Whatever became of earlier runs and of its own Create, a run deletes no cluster that
\* it neither created nor was told to reuse, and none at all without cleanup.
THEOREM OnlyOwnIsDeleted == Spec => DeletesOnlyOwn
<1>1. IInv /\ [Next]_vars =>
        [cluster # "absent" /\ cluster' = "absent" => flags.cleanup /\ (flags.skipSetup \/ created)]_vars
  <2> SUFFICES ASSUME IInv, Next, cluster # "absent", cluster' = "absent"
               PROVE  flags.cleanup /\ (flags.skipSetup \/ created)
    BY DEF vars, main, world, side, fixed
  <2>1. cluster' # cluster
    OBVIOUS
  <2>2. DeleteOk
    BY <2>1 DEF Next, Run, Bounded, SetupEnds, SkipCreation, Preflight, CreateCluster, CreateFails, Kubeconfig,
           ProbeOk,
           ProbeFails, WaitGivesUp, ApplyCRDs, StartProxy, StartServer, Ping, BuildRunners, SetupOk,
           SetupFails, NewSource, NewSourceFails, Measure, MeasureFails, Report, DeleteFails,
           NoDelete, Bind, StopProxy, ApiProgress, Interrupt, Crash, vars, main, world, side
  <2>. QED  BY <2>2 DEF DeleteOk, Deletes, IInv, TypeOK, TypeRun, TypeWorld, OwnCluster
<1>. QED  BY Invariant, <1>1, PTL DEF Spec, DeletesOnlyOwn
=============================================================================
