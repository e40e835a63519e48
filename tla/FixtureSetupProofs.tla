------------------------- MODULE FixtureSetupProofs -------------------------
(***************************************************************************)
(* Theorems about FixtureSetup: references never dangle, a Setup that      *)
(* returns nil is complete, no request is refused for want of a namespace  *)
(* or an account, and a scenario run again leaves what one run of it does; *)
(* for every history of scenarios.  Two facts carry them: what a call of a *)
(* Setup needs is made by an earlier call of the same Setup (Founded), and *)
(* the earlier calls of an uninterrupted run are complete (Progress).  At  *)
(* the end, theorems about the addresses that the tasks generate.          *)
(***************************************************************************)
EXTENDS FixtureSetup, Addresses, NaturalsInduction, WellFoundedInduction, TLAPS

Before(plan, k, id) == \E j \in 1 .. k-1 : \E p \in plan[j].tasks : Id(p) = id

\* The API server makes the default namespace for the Istio objects, no call does.
OwnNamespace(o) ==
  o.kind \notin {"namespace", "node"} /\ ~(o.kind \in {"gateway", "virtualservice"} /\ o.ns = "default")

Founded(plan, staffed) ==
  \A k \in 1 .. Len(plan) : \A o \in plan[k].tasks :
    /\ staffed /\ o.ref # NoRef => Before(plan, k, o.ref)
    /\ OwnNamespace(o) => Before(plan, k, Id(Namespace(o.ns)))
    /\ o.kind \in {"pod", "svcpod"} => Before(plan, k, Id(DefaultAccount))

\* Pods are bound to nodes that exist only if there are nodes.
Staffed(s) == s.source = "service" => s.nodes >= 1
-----------------------------------------------------------------------------
\* Every Setup makes what its objects need before them.

LEMMA PodFounded ==
  ASSUME NEW n \in Nat
  PROVE  Len(PodSetup(n)) = 3 /\ Founded(PodSetup(n), TRUE)
<1>. DEFINE plan == PodSetup(n)
<1>1. /\ Len(plan) = 3
      /\ plan[1].tasks = {Namespace("default")} /\ plan[2].tasks = {DefaultAccount}
      /\ plan[3].tasks = {Pod(i) : i \in Indexes(n)}
  BY DEF PodSetup, Ensure, FanOver
<1>2. ASSUME NEW k \in 1 .. 3, NEW o \in plan[k].tasks
      PROVE  /\ o.ref # NoRef => Before(plan, k, o.ref)
             /\ OwnNamespace(o) => Before(plan, k, Id(Namespace(o.ns)))
             /\ o.kind \in {"pod", "svcpod"} => Before(plan, k, Id(DefaultAccount))
  <2>1. CASE k = 1
    BY <1>1, <1>2, <2>1 DEF OwnNamespace, Namespace, Obj, NoRef
  <2>2. CASE k = 2
    BY <1>1, <1>2, <2>2 DEF Before, DefaultAccount, Namespace, Obj, NoRef
  <2>3. CASE k = 3
    BY <1>1, <1>2, <2>3 DEF Before, Pod, DefaultAccount, Namespace, Obj, NoRef
  <2>. QED  BY <2>1, <2>2, <2>3
<1>. QED  BY <1>1, <1>2 DEF Founded

LEMMA ServiceFounded ==
  ASSUME NEW nServices \in Nat, NEW nNodes \in Nat, NEW nPods \in Nat
  PROVE  LET plan == ServiceSetup(nServices, nNodes, nPods)
         IN  Len(plan) = 5 /\ Founded(plan, nNodes >= 1)
<1>. DEFINE plan == ServiceSetup(nServices, nNodes, nPods)
<1>1. /\ Len(plan) = 5
      /\ plan[1].tasks = {Namespace("default")} /\ plan[2].tasks = {DefaultAccount}
      /\ plan[3].tasks = {Node(i) : i \in Indexes(nNodes)}
      /\ plan[4].tasks = {Service(i) : i \in Indexes(nServices)}
      /\ plan[5].tasks = {SvcPod(i, AtLeast(nNodes, 1)) : i \in Indexes(nPods)}
  BY DEF ServiceSetup, Ensure, FanOver
<1>2. ASSUME NEW k \in 1 .. 5, NEW o \in plan[k].tasks
      PROVE  /\ nNodes >= 1 /\ o.ref # NoRef => Before(plan, k, o.ref)
             /\ OwnNamespace(o) => Before(plan, k, Id(Namespace(o.ns)))
             /\ o.kind \in {"pod", "svcpod"} => Before(plan, k, Id(DefaultAccount))
  <2>1. CASE k = 1
    BY <1>1, <1>2, <2>1 DEF OwnNamespace, Namespace, Obj, NoRef
  <2>2. CASE k = 2
    BY <1>1, <1>2, <2>2 DEF Before, DefaultAccount, Namespace, Obj, NoRef
  <2>3. CASE k = 3
    <3>1. PICK i \in Indexes(nNodes) : o = Node(i)
      BY <1>1, <1>2, <2>3
    <3>2. o.kind = "node" /\ o.ref = NoRef
      BY <3>1 DEF Node, Obj
    <3>. QED  BY <3>2 DEF OwnNamespace
  <2>4. CASE k = 4
    BY <1>1, <1>2, <2>4 DEF Before, Service, Namespace, Obj, NoRef
  <2>5. CASE k = 5
    <3>1. PICK i \in Indexes(nPods) : o = SvcPod(i, AtLeast(nNodes, 1))
      BY <1>1, <1>2, <2>5
    <3>2. ASSUME nNodes >= 1
          PROVE  o.ref = Id(Node(i % nNodes)) /\ Node(i % nNodes) \in plan[3].tasks
      <4>1. AtLeast(nNodes, 1) = nNodes /\ i % nNodes \in Indexes(nNodes)
        BY <3>2 DEF AtLeast, Indexes
      <4>. QED  BY <1>1, <3>1, <4>1 DEF SvcPod, Node, Obj, Id
    <3>4. o.ns = "default"
      BY <3>1 DEF SvcPod, Obj
    <3>5. 1 \in 1 .. k-1 /\ 2 \in 1 .. k-1 /\ 3 \in 1 .. k-1
      BY <2>5
    <3>. QED  BY <1>1, <3>2, <3>4, <3>5 DEF Before
  <2>. QED  BY <2>1, <2>2, <2>3, <2>4, <2>5
<1>. QED  BY <1>1, <1>2 DEF Founded

LEMMA IstioFounded ==
  ASSUME NEW services \in Nat, NEW nGateways \in Nat, NEW nVS \in Nat
  PROVE  LET plan == GatewaySetup(services, nGateways) \o VirtualServiceSetup(nVS)
         IN  Len(plan) = 5 /\ Founded(plan, TRUE)
<1>. DEFINE plan == GatewaySetup(services, nGateways) \o VirtualServiceSetup(nVS)
            nServices == AtLeast(services, 1)
<1>1. nServices \in Nat /\ nServices >= 1
  BY DEF AtLeast
<1>2. /\ Len(plan) = 5
      /\ plan[1].tasks = {Namespace("istio-system")}
      /\ plan[2].tasks = {Ingress(i) : i \in Indexes(nServices)}
      /\ plan[3].tasks = {Gateway(i, nServices) : i \in Indexes(nGateways)}
      /\ plan[4].tasks = {SharedGateway}
      /\ plan[5].tasks = {VirtualService(i) : i \in Indexes(nVS)}
  BY DEF GatewaySetup, VirtualServiceSetup, Ensure, FanOver
<1>3. ASSUME NEW k \in 1 .. 5, NEW o \in plan[k].tasks
      PROVE  /\ o.ref # NoRef => Before(plan, k, o.ref)
             /\ OwnNamespace(o) => Before(plan, k, Id(Namespace(o.ns)))
             /\ o.kind \in {"pod", "svcpod"} => Before(plan, k, Id(DefaultAccount))
  <2>1. CASE k = 1
    BY <1>2, <1>3, <2>1 DEF OwnNamespace, Namespace, Obj, NoRef
  <2>2. CASE k = 2
    BY <1>2, <1>3, <2>2 DEF Before, Ingress, Namespace, Obj, NoRef
  <2>3. CASE k = 3
    <3>1. PICK i \in Indexes(nGateways) : o = Gateway(i, nServices)
      BY <1>2, <1>3, <2>3
    <3>2. i % nServices \in Indexes(nServices)
      BY <1>1 DEF Indexes
    <3>3. o.ref = Id(Ingress(i % nServices)) /\ Ingress(i % nServices) \in plan[2].tasks
      BY <1>2, <3>1, <3>2 DEF Gateway, Obj
    <3>4. o.kind = "gateway" /\ o.ns = "default" /\ 2 \in 1 .. k-1
      BY <2>3, <3>1 DEF Gateway, Obj
    <3>. QED  BY <3>3, <3>4 DEF Before, OwnNamespace
  <2>4. CASE k = 4
    <3>1. o = SharedGateway
      BY <1>2, <1>3, <2>4
    <3>2. o.ref = Id(Ingress(0)) /\ Ingress(0) \in plan[2].tasks
      BY <1>1, <1>2, <3>1 DEF SharedGateway, Obj, Indexes
    <3>3. o.kind = "gateway" /\ o.ns = "istio-system" /\ 1 \in 1 .. k-1 /\ 2 \in 1 .. k-1
      BY <2>4, <3>1 DEF SharedGateway, Obj
    <3>. QED  BY <1>2, <3>2, <3>3 DEF Before
  <2>5. CASE k = 5
    <3>1. PICK i \in Indexes(nVS) : o = VirtualService(i)
      BY <1>2, <1>3, <2>5
    <3>2. o.ref = Id(SharedGateway) /\ o.kind = "virtualservice" /\ o.ns = "default" /\ 4 \in 1 .. k-1
      BY <2>5, <3>1 DEF VirtualService, Obj
    <3>. QED  BY <1>2, <3>2 DEF Before, OwnNamespace
  <2>. QED  BY <2>1, <2>2, <2>3, <2>4, <2>5
<1>. QED  BY <1>2, <1>3 DEF Founded

LEMMA EndpointFounded ==
  ASSUME NEW spread \in Seq(STRING)
  PROVE  LET plan == DNSEndpointSetup(spread)
         IN  Len(plan) = Len(spread) + 1 /\ Founded(plan, TRUE)
<1>. DEFINE plan == DNSEndpointSetup(spread)
            N == Len(spread)
            First(i) == ~\E j \in 1 .. i-1 : spread[j] = spread[i]
<1>1. N \in Nat
  OBVIOUS
<1>2. /\ Len(plan) = N + 1
      /\ \A k \in 1 .. N : plan[k] = IF First(k) THEN Ensure(Namespace(spread[k])) ELSE NoCall
      /\ plan[N + 1].tasks = {Endpoint(i, spread[i + 1]) : i \in Indexes(N)}
  BY DEF DNSEndpointSetup, FanOver
<1>3. \A k \in 1 .. N : /\ plan[k].tasks \subseteq {Namespace(spread[k])}
                        /\ First(k) => Namespace(spread[k]) \in plan[k].tasks
  <2>1. ASSUME NEW k \in 1 .. N, First(k)
        PROVE  plan[k].tasks = {Namespace(spread[k])}
    <3>1. plan[k] = Ensure(Namespace(spread[k]))
      BY <1>2, <2>1
    <3>. QED  BY <3>1 DEF Ensure
  <2>2. ASSUME NEW k \in 1 .. N, ~First(k)
        PROVE  plan[k].tasks = {}
    <3>1. plan[k] = NoCall
      BY <1>2, <2>2
    <3>. QED  BY <3>1 DEF NoCall
  <2>. HIDE DEF plan, First
  <2>. QED  BY <2>1, <2>2
<1>4. ASSUME NEW k \in 1 .. N
      PROVE  \E j \in 1 .. N : spread[j] = spread[k] /\ First(j)
  <2>. DEFINE T == {j \in 1 .. N : spread[j] = spread[k]}
  <2>1. T \subseteq Nat /\ T # {}
    OBVIOUS
  <2>2. PICK j \in T : \A y \in T : ~(<<y, j>> \in OpToRel(<, Nat))
    <3>. HIDE DEF T
    <3>. QED  BY <2>1, NatLessThanWellFounded, WFMin
  <2>3. \A y \in T : ~(y < j)
    BY <2>1, <2>2 DEF OpToRel
  <2>. QED  BY <2>3
<1>5. ASSUME NEW k \in 1 .. N + 1, NEW o \in plan[k].tasks
      PROVE  /\ o.ref # NoRef => Before(plan, k, o.ref)
             /\ OwnNamespace(o) => Before(plan, k, Id(Namespace(o.ns)))
             /\ o.kind \in {"pod", "svcpod"} => Before(plan, k, Id(DefaultAccount))
  <2>1. CASE k \in 1 .. N
    <3>1. o = Namespace(spread[k])
      BY <1>3, <1>5, <2>1
    <3>2. o.kind = "namespace" /\ o.ref = NoRef
      BY <3>1 DEF Namespace, Obj
    <3>. QED  BY <3>2 DEF OwnNamespace
  <2>2. CASE k = N + 1
    <3>1. PICK i \in Indexes(N) : o = Endpoint(i, spread[i + 1])
      BY <1>2, <1>5, <2>2
    <3>2. i + 1 \in 1 .. N /\ o.ref = NoRef /\ o.ns = spread[i + 1] /\ o.kind = "dnsendpoint"
      BY <3>1 DEF Indexes, Endpoint, Obj
    <3>3. PICK j \in 1 .. N : spread[j] = spread[i + 1] /\ First(j)
      BY <1>4, <3>2
    <3>4. Namespace(o.ns) \in plan[j].tasks
      BY <1>3, <3>2, <3>3
    <3>. QED  BY <2>2, <3>2, <3>3, <3>4 DEF Before
  <2>. QED  BY <1>1, <2>1, <2>2
<1>. QED  BY <1>2, <1>5 DEF Founded

LEMMA PlanFounded ==
  ASSUME NEW s \in Scenario
  PROVE  /\ Len(Plan(s)) \in Nat \ {0}
         /\ Founded(Plan(s), Staffed(s))
<1>1. /\ s.source \in Source /\ s.services \in Nat /\ s.gateways \in Nat /\ s.virtualservices \in Nat
      /\ s.nodes \in Nat /\ s.pods \in Nat /\ s.spread \in Seq(STRING)
  BY DEF Scenario
<1>2. CASE s.source = "pod"
  <2>1. Plan(s) = PodSetup(s.pods)
    BY <1>2 DEF Plan, RunnersForScenario
  <2>2. Len(PodSetup(s.pods)) = 3 /\ Founded(PodSetup(s.pods), TRUE)
    BY <1>1, PodFounded
  <2>. QED  BY <2>1, <2>2 DEF Founded
<1>3. CASE s.source = "service"
  <2>1. Plan(s) = ServiceSetup(s.services, s.nodes, s.pods)
    BY <1>3 DEF Plan, RunnersForScenario
  <2>2. /\ Len(ServiceSetup(s.services, s.nodes, s.pods)) = 5
        /\ Founded(ServiceSetup(s.services, s.nodes, s.pods), s.nodes >= 1)
    BY <1>1, ServiceFounded
  <2>. QED  BY <1>3, <2>1, <2>2 DEF Founded, Staffed
<1>4. CASE s.source = "istio"
  <2>1. Plan(s) = GatewaySetup(s.services, s.gateways) \o VirtualServiceSetup(s.virtualservices)
    BY <1>4 DEF Plan, RunnersForScenario
  <2>2. /\ Len(GatewaySetup(s.services, s.gateways) \o VirtualServiceSetup(s.virtualservices)) = 5
        /\ Founded(GatewaySetup(s.services, s.gateways) \o VirtualServiceSetup(s.virtualservices), TRUE)
    BY <1>1, IstioFounded
  <2>. QED  BY <2>1, <2>2 DEF Founded
<1>5. CASE s.source = "dnsendpoint"
  <2>1. Plan(s) = DNSEndpointSetup(s.spread)
    BY <1>5 DEF Plan, RunnersForScenario
  <2>2. /\ Len(DNSEndpointSetup(s.spread)) = Len(s.spread) + 1
        /\ Founded(DNSEndpointSetup(s.spread), TRUE)
    BY <1>1, EndpointFounded
  <2>. QED  BY <1>1, <2>1, <2>2 DEF Founded
<1>. QED  BY <1>1, <1>2, <1>3, <1>4, <1>5 DEF Source
-----------------------------------------------------------------------------
\* The earlier calls of a run that was not interrupted are complete, and of the current
\* one what is no longer pending.
Progress ==
  /\ pc = "ok" => step = Len(Plan(Scen)) /\ todo = {} /\ ~failed
  /\ pc \in {"setup", "ok"} /\ ~cancelled =>
       /\ \A k \in 1 .. step-1 : \A o \in Plan(Scen)[k].tasks : Exists(Id(o))
       /\ ~failed => \A o \in Call.tasks \ todo : Exists(Id(o))

IInv == TypeOK /\ Progress /\ NeverRejected

\* A scenario of a history, and its first call.
LEMMA HistoryFacts ==
  ASSUME TypeOK
  PROVE  /\ Len(history) \in Nat /\ run \in Nat
         /\ \A r \in 1 .. Len(history) : history[r] \in Scenario /\ 1 \in 1 .. Len(Plan(history[r]))
         /\ Scen \in Scenario /\ Len(Plan(Scen)) \in Nat /\ step \in Nat
<1>1. history \in Seq(Scenario) /\ run \in 1 .. Len(history)
  BY HistoriesAssumption DEF TypeOK
<1>2. \A r \in 1 .. Len(history) : history[r] \in Scenario /\ Len(Plan(history[r])) \in Nat \ {0}
  BY <1>1, PlanFounded
<1>. QED  BY <1>1, <1>2 DEF Scen, TypeOK

\* What a call makes belongs to the run's scenario.
LEMMA CallKnown ==
  ASSUME TypeOK
  PROVE  Call.tasks \subseteq Known
<1>1. Call.tasks \subseteq Tasks(Scen)
  BY DEF Call, Tasks, TypeOK
<1>2. run \in 1 .. run
  BY HistoryFacts DEF TypeOK
<1>3. Tasks(Scen) \in {Tasks(history[r]) : r \in 1 .. run}
  BY <1>2 DEF Scen
<1>. QED  BY <1>1, <1>3 DEF Known

\* What a call needs is in the cluster, or its run has been interrupted.
LEMMA Supplied ==
  ASSUME IInv, pc = "setup", ~cancelled, NEW o \in todo
  PROVE  /\ Staffed(Scen) /\ o.ref # NoRef => Exists(o.ref)
         /\ OwnNamespace(o) => Admits(o)
<1>1. Founded(Plan(Scen), Staffed(Scen)) /\ o \in Plan(Scen)[step].tasks /\ step \in 1 .. Len(Plan(Scen))
  BY PlanFounded, HistoryFacts DEF IInv, TypeOK, Call
<1>2. ASSUME NEW id, Before(Plan(Scen), step, id)
      PROVE  Exists(id)
  BY <1>2 DEF Before, IInv, Progress
<1>3. /\ Staffed(Scen) /\ o.ref # NoRef => Before(Plan(Scen), step, o.ref)
      /\ OwnNamespace(o) => Before(Plan(Scen), step, Id(Namespace(o.ns)))
      /\ o.kind \in {"pod", "svcpod"} => Before(Plan(Scen), step, Id(DefaultAccount))
  BY <1>1 DEF Founded
<1>. QED  BY <1>2, <1>3 DEF Admits, OwnNamespace

-----------------------------------------------------------------------------
LEMMA InitIInv == Init => IInv
<1> SUFFICES ASSUME Init PROVE IInv
  OBVIOUS
<1>1. history \in Seq(Scenario) /\ 1 \in 1 .. Len(history)
  BY HistoriesAssumption DEF Init
<1>2. Scen = history[1] /\ Len(Plan(Scen)) \in Nat \ {0} /\ step = 1
  BY <1>1, PlanFounded DEF Init, Scen
<1>3. TypeOK
  <2>1. todo = Call.tasks
    BY <1>2 DEF Init, Call
  <2>2. objects \subseteq Known
    BY DEF Init, Known, Fresh
  <2>3. run \in 1 .. Len(history) /\ step \in 1 .. Len(Plan(Scen))
    BY <1>1, <1>2 DEF Init
  <2>. QED  BY <2>1, <2>2, <2>3 DEF Init, TypeOK
<1>4. Progress
  <2>1. todo = Call.tasks
    BY <1>2 DEF Init, Call
  <2>. QED  BY <1>2, <2>1 DEF Init, Progress
<1>. QED  BY <1>3, <1>4 DEF Init, IInv, NeverRejected

\* One request of the current call.
LEMMA TaskNext ==
  ASSUME IInv, NEW o \in todo,
         Create(o) \/ AlreadyExists(o) \/ Rejected(o) \/ CallFails(o) \/ RequestCancelled(o)
  PROVE  IInv'
<1>. USE DEF IInv
<1>1. UNCHANGED <<history, run, pc, step, cancelled, calm>> /\ pc = "setup" /\ todo' = todo \ {o}
  BY DEF Create, AlreadyExists, Rejected, CallFails, RequestCancelled, Request, control
<1>2. Scen' = Scen /\ Call' = Call /\ Known' = Known
  BY <1>1 DEF Scen, Call, Known
<1>3. o \in Known
  BY CallKnown DEF TypeOK
<1>4. objects \subseteq objects' /\ objects' \subseteq objects \cup {o}
  BY DEF Create, AlreadyExists, Rejected, CallFails, RequestCancelled
<1>5. TypeOK'
  BY <1>1, <1>2, <1>3, <1>4 DEF TypeOK, Create, AlreadyExists, Rejected, CallFails, RequestCancelled
<1>6. \A id : Exists(id) => Exists(id)'
  BY <1>4 DEF Exists
<1>7. ~cancelled /\ ~failed' => Exists(Id(o))' /\ ~failed
  BY DEF Create, AlreadyExists, Rejected, CallFails, RequestCancelled, Exists
<1>8. Progress'
  BY <1>1, <1>2, <1>6, <1>7 DEF Progress
<1>9. NeverRejected'
  <2>1. CASE Rejected(o)
    <3>1. ~OwnNamespace(o)
      BY <1>1, <2>1, Supplied DEF Rejected, Request
    <3>2. o.kind \notin {"namespace", "node"}
      BY <2>1 DEF Rejected, Admits
    <3>. QED  BY <2>1, <3>1, <3>2 DEF NeverRejected, OwnNamespace, Rejected
  <2>2. CASE ~Rejected(o)
    BY <2>2 DEF NeverRejected, Create, AlreadyExists, CallFails, RequestCancelled
  <2>. QED  BY <2>1, <2>2
<1>. QED  BY <1>5, <1>8, <1>9

LEMMA StepIInv == IInv /\ [Next]_vars => IInv'
<1> SUFFICES ASSUME IInv, [Next]_vars PROVE IInv'
  OBVIOUS
<1>. USE DEF IInv
<1>1. CASE UNCHANGED vars
  BY <1>1 DEF vars, TypeOK, Progress, NeverRejected, Scen, Call, Known, Exists
<1>2. CASE GiveUp \/ NextStepFails \/ Cancel \/ Crash \/ CalmDown
  <2>1. /\ UNCHANGED <<history, run, objects, step, todo, failed, rejected>>
        /\ pc' = pc \/ pc' \in {"error", "crashed"}
        /\ cancelled' = cancelled \/ cancelled'
        /\ cancelled' \in BOOLEAN /\ calm' \in BOOLEAN
    BY <1>2 DEF GiveUp, NextStepFails, Cancel, Crash, CalmDown, TypeOK
  <2>2. Scen' = Scen /\ Call' = Call /\ Known' = Known /\ \A id : Exists(id)' <=> Exists(id)
    BY <2>1 DEF Scen, Call, Known, Exists
  <2>3. TypeOK'
    BY <2>1, <2>2 DEF TypeOK
  <2>4. Progress'
    BY <2>1, <2>2 DEF Progress
  <2>. QED  BY <2>1, <2>3, <2>4 DEF NeverRejected
<1>3. CASE NextStep
  <2>1. UNCHANGED <<history, run, objects, failed, cancelled, rejected, calm>> /\ pc = "setup" /\ todo = {} /\ ~failed
    BY <1>3 DEF NextStep
  <2>2. Scen' = Scen /\ Known' = Known /\ \A id : Exists(id)' <=> Exists(id)
    BY <2>1 DEF Scen, Known, Exists
  <2>3. CASE step = Len(Plan(Scen))
    <3>1. pc' = "ok" /\ UNCHANGED <<step, todo>>
      BY <1>3, <2>3 DEF NextStep
    <3>2. Call' = Call
      BY <2>2, <3>1 DEF Call
    <3>3. TypeOK'
      BY <2>1, <2>2, <3>1, <3>2 DEF TypeOK
    <3>4. Progress'
      BY <2>1, <2>2, <2>3, <3>1, <3>2 DEF Progress
    <3>. QED  BY <2>1, <3>3, <3>4 DEF NeverRejected
  <2>4. CASE step # Len(Plan(Scen))
    <3>1. pc' = pc /\ step' = step + 1 /\ todo' = Plan(Scen)[step + 1].tasks
      BY <1>3, <2>4 DEF NextStep
    <3>2. step' \in 1 .. Len(Plan(Scen)) /\ Call'.tasks = todo'
      BY <2>2, <2>4, <3>1, HistoryFacts DEF Call, TypeOK
    <3>3. TypeOK'
      BY <2>1, <2>2, <3>1, <3>2 DEF TypeOK
    <3>4. ASSUME ~cancelled, NEW k \in 1 .. step, NEW o \in Plan(Scen)[k].tasks
          PROVE  Exists(Id(o))
      <4>1. CASE k = step
        BY <2>1, <3>4, <4>1 DEF Progress, Call
      <4>2. CASE k # step
        BY <2>1, <3>4, <4>2, HistoryFacts DEF Progress
      <4>. QED  BY <4>1, <4>2
    <3>5. Progress'
      BY <2>1, <2>2, <3>1, <3>2, <3>4, HistoryFacts DEF Progress
    <3>. QED  BY <2>1, <3>3, <3>5 DEF NeverRejected
  <2>. QED  BY <2>3, <2>4
<1>4. CASE ApiServerCreates
  <2>1. UNCHANGED <<history, run, pc, step, cancelled, calm, todo, failed, rejected>>
    BY <1>4 DEF ApiServerCreates, control
  <2>2. objects \subseteq objects' /\ objects' \subseteq objects \cup Fresh
    BY <1>4 DEF ApiServerCreates, Fresh
  <2>3. Scen' = Scen /\ Call' = Call /\ Known' = Known /\ \A id : Exists(id) => Exists(id)'
    BY <2>1, <2>2 DEF Scen, Call, Known, Exists
  <2>4. TypeOK'
    BY <2>1, <2>2, <2>3 DEF TypeOK, Known
  <2>5. Progress'
    BY <2>1, <2>3 DEF Progress
  <2>. QED  BY <2>1, <2>4, <2>5 DEF NeverRejected
<1>5. CASE Rerun
  <2>1. /\ UNCHANGED <<history, objects, rejected, calm>> /\ run' = run + 1 /\ run < Len(history)
        /\ pc' = "setup" /\ step' = 1 /\ todo' = Plan(history[run + 1])[1].tasks
        /\ failed' = FALSE /\ cancelled' = FALSE
    BY <1>5 DEF Rerun
  <2>2. run' \in 1 .. Len(history) /\ Scen' = history[run'] /\ Call'.tasks = todo'
    BY <2>1, HistoryFacts DEF Scen, Call, TypeOK
  <2>3. Known \subseteq Known'
    BY <2>1, HistoryFacts DEF Known
  <2>4. step' \in 1 .. Len(Plan(Scen'))
    BY <2>1, <2>2, HistoryFacts
  <2>5. TypeOK'
    BY <2>1, <2>2, <2>3, <2>4 DEF TypeOK, Scen
  <2>6. Progress'
    BY <2>1, <2>2 DEF Progress
  <2>. QED  BY <2>1, <2>5, <2>6 DEF NeverRejected
<1>. QED
  BY <1>1, <1>2, <1>3, <1>4, <1>5, TaskNext DEF Next, Setup, Ended

LEMMA Invariant == Spec => []IInv
<1>. QED  BY InitIInv, StepIInv, PTL DEF Spec

\* Every variable keeps its type; nothing but what the scenarios ask for is ever stored.
THEOREM TypeCorrect == Spec => []TypeOK
<1>. IInv => TypeOK
  BY DEF IInv
<1>. QED  BY Invariant, PTL

\* A Setup that returned nil without an interrupt left every object of its scenario,
\* over whatever earlier, failed or crashed runs left in the cluster.
THEOREM SuccessIsComplete == Spec => []CompleteOnSuccess
<1>. IInv => CompleteOnSuccess
  BY HistoryFacts DEF IInv, Progress, CompleteOnSuccess, Tasks, Call
<1>. QED  BY Invariant, PTL

\* The order of the calls of each Setup spares it the API server's refusals.
THEOREM RequestsAreAdmitted == Spec => []NeverRejected
<1>. IInv => NeverRejected
  BY DEF IInv
<1>. QED  BY Invariant, PTL

\* Nothing names an object that is not there, as long as scenarios with pods bound to
\* nodes have nodes.
THEOREM ReferencesExist ==
  ASSUME \A h \in Histories : \A r \in 1 .. Len(h) : Staffed(h[r])
  PROVE  Spec => []NoDangling
<1>1. Init => NoDangling
  BY DEF Init, NoDangling, Fresh, Namespace, DefaultAccount, KubernetesService, Obj
<1>2. IInv /\ NoDangling /\ [Next]_vars => NoDangling'
  <2> SUFFICES ASSUME IInv, NoDangling, [Next]_vars PROVE NoDangling'
    OBVIOUS
  <2>1. CASE UNCHANGED objects
    BY <2>1 DEF NoDangling, Exists
  <2>2. ASSUME NEW o \in todo, Create(o) \/ CallFails(o)
        PROVE  NoDangling'
    <3>1. objects' \subseteq objects \cup {o} /\ objects \subseteq objects' /\ pc = "setup" /\ ~cancelled
      BY <2>2 DEF Create, CallFails, Request
    <3>2. Staffed(Scen)
      BY DEF IInv, TypeOK, Scen
    <3>3. o.ref # NoRef => Exists(o.ref)
      BY <3>1, <3>2, Supplied
    <3>. QED  BY <3>1, <3>3 DEF NoDangling, Exists
  <2>3. CASE ApiServerCreates
    BY <2>3 DEF ApiServerCreates, NoDangling, Exists, Fresh, Namespace, DefaultAccount, KubernetesService, Obj
  <2>. QED
    BY <2>1, <2>2, <2>3 DEF Next, Setup, vars, AlreadyExists, Rejected, RequestCancelled, GiveUp, NextStep,
       NextStepFails, Cancel, Crash, Rerun, CalmDown, Ended
<1>. QED  BY <1>1, <1>2, Invariant, PTL DEF Spec
-----------------------------------------------------------------------------
\* What one scenario makes: the identity of an object determines what it refers to.
RefOf(s, kind, ns, index) ==
  IF kind = "svcpod" THEN <<"node", "", index % AtLeast(s.nodes, 1)>>
  ELSE IF kind = "gateway" /\ ns = "default" THEN Id(Ingress(index % AtLeast(s.services, 1)))
  ELSE IF kind = "gateway" THEN Id(Ingress(0))
  ELSE IF kind = "virtualservice" THEN Id(SharedGateway)
  ELSE NoRef

Shaped(s, o) == o = Obj(o.kind, o.ns, o.index, RefOf(s, o.kind, o.ns, o.index))

LEMMA TaskShape ==
  ASSUME NEW s \in Scenario, NEW o \in Tasks(s) \cup Fresh
  PROVE  Shaped(s, o)
<1>1. /\ s.source \in Source /\ s.services \in Nat /\ s.gateways \in Nat /\ s.virtualservices \in Nat
      /\ s.nodes \in Nat /\ s.pods \in Nat /\ s.spread \in Seq(STRING)
  BY DEF Scenario
<1>2. /\ \A n : Shaped(s, Namespace(n))
      /\ Shaped(s, DefaultAccount) /\ Shaped(s, KubernetesService)
  BY DEF Shaped, RefOf, Namespace, DefaultAccount, KubernetesService, Obj, NoRef
<1>3. CASE o \in Fresh
  BY <1>2, <1>3 DEF Fresh
<1>4. CASE o \in Tasks(s) /\ s.source = "pod"
  <2>1. Plan(s) = PodSetup(s.pods)
    BY <1>4 DEF Plan, RunnersForScenario
  <2>2. Tasks(s) = {Namespace("default"), DefaultAccount} \cup {Pod(i) : i \in Indexes(s.pods)}
    BY <2>1 DEF Tasks, PodSetup, Ensure, FanOver
  <2>3. \A i : Shaped(s, Pod(i))
    BY DEF Shaped, RefOf, Pod, Obj, NoRef
  <2>. QED  BY <1>2, <1>4, <2>2, <2>3
<1>5. CASE o \in Tasks(s) /\ s.source = "service"
  <2>1. Plan(s) = ServiceSetup(s.services, s.nodes, s.pods)
    BY <1>5 DEF Plan, RunnersForScenario
  <2>2. Tasks(s) = {Namespace("default"), DefaultAccount} \cup {Node(i) : i \in Indexes(s.nodes)}
                   \cup {Service(i) : i \in Indexes(s.services)}
                   \cup {SvcPod(i, AtLeast(s.nodes, 1)) : i \in Indexes(s.pods)}
    BY <2>1 DEF Tasks, ServiceSetup, Ensure, FanOver
  <2>3. \A i : Shaped(s, Node(i)) /\ Shaped(s, Service(i)) /\ Shaped(s, SvcPod(i, AtLeast(s.nodes, 1)))
    BY DEF Shaped, RefOf, Node, Service, SvcPod, Obj, NoRef
  <2>. QED  BY <1>2, <1>5, <2>2, <2>3
<1>6. CASE o \in Tasks(s) /\ s.source = "istio"
  <2>. DEFINE nServices == AtLeast(s.services, 1)
  <2>1. Plan(s) = GatewaySetup(s.services, s.gateways) \o VirtualServiceSetup(s.virtualservices)
    BY <1>6 DEF Plan, RunnersForScenario
  <2>2. Tasks(s) = {Namespace("istio-system"), SharedGateway} \cup {Ingress(i) : i \in Indexes(nServices)}
                   \cup {Gateway(i, nServices) : i \in Indexes(s.gateways)}
                   \cup {VirtualService(i) : i \in Indexes(s.virtualservices)}
    BY <2>1 DEF Tasks, GatewaySetup, VirtualServiceSetup, Ensure, FanOver
  <2>3. \A i : Shaped(s, Ingress(i)) /\ Shaped(s, Gateway(i, nServices)) /\ Shaped(s, VirtualService(i))
    BY DEF Shaped, RefOf, Ingress, Gateway, VirtualService, Obj, NoRef
  <2>4. Shaped(s, SharedGateway)
    BY DEF Shaped, RefOf, SharedGateway, Obj
  <2>. QED  BY <1>2, <1>6, <2>2, <2>3, <2>4
<1>7. CASE o \in Tasks(s) /\ s.source = "dnsendpoint"
  <2>. DEFINE N == Len(s.spread)
  <2>1. Plan(s) = DNSEndpointSetup(s.spread)
    BY <1>7 DEF Plan, RunnersForScenario
  <2>2. /\ N \in Nat /\ Len(Plan(s)) = N + 1
        /\ \A j \in 1 .. N : Plan(s)[j] = NoCall \/ Plan(s)[j] = Ensure(Namespace(s.spread[j]))
        /\ Plan(s)[N + 1].tasks = {Endpoint(i, s.spread[i + 1]) : i \in Indexes(N)}
    BY <1>1, <2>1 DEF DNSEndpointSetup, FanOver
  <2>3. PICK j \in 1 .. Len(Plan(s)) : o \in Plan(s)[j].tasks
    BY <1>7 DEF Tasks
  <2>4. CASE j \in 1 .. N
    <3>1. Plan(s)[j] = NoCall \/ Plan(s)[j] = Ensure(Namespace(s.spread[j]))
      BY <2>2, <2>4
    <3>2. o = Namespace(s.spread[j])
      BY <2>3, <3>1 DEF NoCall, Ensure
    <3>. QED  BY <1>2, <3>2
  <2>5. CASE j = N + 1
    <3>1. \A i, n : Shaped(s, Endpoint(i, n))
      BY DEF Shaped, RefOf, Endpoint, Obj, NoRef
    <3>. QED  BY <2>2, <2>3, <2>5, <3>1
  <2>. QED  BY <2>2, <2>3, <2>4, <2>5
<1>. QED  BY <1>1, <1>3, <1>4, <1>5, <1>6, <1>7 DEF Source

\* However often a scenario was tried before, and wherever those runs failed or broke off,
\* the run that succeeds leaves the objects of the scenario, references included, and
\* no others but what the API server makes.
THEOREM RetriesLeaveNoTrace == Spec => []LeftAsDeclared
<1>1. IInv => LeftAsDeclared
  <2>. SUFFICES ASSUME IInv, pc = "ok", ~cancelled, \A r \in 1 .. run : history[r] = Scen
       PROVE  objects \ Fresh = Tasks(Scen) \ Fresh
    BY DEF LeftAsDeclared
  <2>1. Scen \in Scenario
    BY HistoryFacts DEF IInv
  <2>2. objects \subseteq Tasks(Scen) \cup Fresh
    BY DEF IInv, TypeOK, Known
  <2>3. ASSUME NEW o \in Tasks(Scen)
        PROVE  o \in objects
    <3>1. PICK p \in objects : Id(p) = Id(o)
      BY HistoryFacts DEF IInv, Progress, Tasks, Call, Exists
    <3>2. p.kind = o.kind /\ p.ns = o.ns /\ p.index = o.index
      BY <3>1 DEF Id
    <3>3. Shaped(Scen, o) /\ Shaped(Scen, p)
      BY <2>1, <2>2, TaskShape
    <3>. QED  BY <3>2, <3>3 DEF Shaped
  <2>. QED  BY <2>2, <2>3
<1>. QED  BY <1>1, Invariant, PTL

-----------------------------------------------------------------------------
\* The addresses of the objects, for every count: below the supported one no conversion
\* drops anything, so that the parts of an address are the digits of the index.

\* The parts of an index to the base 256.
LEMMA Digits ==
  ASSUME NEW n \in Nat
  PROVE  /\ n \div 256 \in Nat /\ n % 256 \in 0 .. 255 /\ n = 256 * (n \div 256) + (n % 256)
         /\ n \div 65536 = (n \div 256) \div 256
         /\ n < 65536 => n \div 256 \in 0 .. 255
<1>1. n \div 256 \in Nat /\ n % 256 \in Nat /\ n % 256 <= 255
  OBVIOUS
<1>2. n = 256 * (n \div 256) + (n % 256)
  OBVIOUS
<1>3. n \div 65536 = (n \div 256) \div 256
  OBVIOUS
<1>4. n < 65536 => n \div 256 <= 255
  OBVIOUS
<1>. QED  BY <1>1, <1>2, <1>3, <1>4

LEMMA Halves ==
  ASSUME NEW n \in Nat
  PROVE  n \div 2 \in Nat /\ (n % 2 = 0 \/ n % 2 = 1) /\ n = 2 * (n \div 2) + (n % 2)
<1>1. n \div 2 \in Nat /\ (n % 2 = 0 \/ n % 2 = 1)
  OBVIOUS
<1>2. n = 2 * (n \div 2) + (n % 2)
  OBVIOUS
<1>. QED  BY <1>1, <1>2

LEMMA IngressAddresses ==
  ASSUME NEW i \in Nat, i < 131072
  PROVE  IngressIndex(IngressIP(i)) = i /\ IsAddress(IngressIP(i))
<1>. DEFINE n == i \div 2
<1>1. n \in Nat /\ n < 65536 /\ (i % 2 = 0 \/ i % 2 = 1) /\ i = 2 * n + (i % 2)
  BY Halves
<1>2. n \div 256 \in 0 .. 255 /\ n % 256 \in 0 .. 255 /\ n = 256 * (n \div 256) + (n % 256)
  BY <1>1, Digits
<1>3. CASE i % 2 = 0
  <2>. DEFINE a == IngressIP(i)
  <2>1. a = <<10, n \div 256, n % 256, 1>>
    BY <1>2, <1>3 DEF IngressIP, Byte
  <2>2. Len(a) = 4 /\ a[1] = 10 /\ a[2] = n \div 256 /\ a[3] = n % 256 /\ a[4] = 1
    BY <2>1
  <2>. HIDE DEF a, n
  <2>3. IngressIndex(a) = 2 * (256 * a[2] + a[3])
    BY <2>2 DEF IngressIndex
  <2>4. IsAddress(a)
    BY <1>2, <2>2 DEF IsAddress
  <2>. QED  BY <1>1, <1>2, <1>3, <2>2, <2>3, <2>4 DEF a
<1>4. CASE i % 2 = 1
  <2>. DEFINE a == IngressIP(i)
              m == Uint16(n + 1)
  <2>1. a = <<"fd00::", m \div 256, m % 256>>
    BY <1>4 DEF IngressIP, Byte
  <2>2. Len(a) = 3 /\ a[1] = "fd00::" /\ a[2] = m \div 256 /\ a[3] = m % 256
    BY <2>1
  <2>3. m \in Nat /\ m < 65536 /\ (m + 65535) % 65536 = n
    <3>1. CASE n = 65535
      BY <3>1 DEF Uint16
    <3>2. CASE n < 65535
      BY <1>1, <3>2 DEF Uint16
    <3>. QED  BY <1>1, <3>1, <3>2
  <2>. HIDE DEF a, m, n
  <2>4. m \div 256 \in 0 .. 255 /\ m % 256 \in 0 .. 255 /\ m = 256 * (m \div 256) + (m % 256)
    BY <2>3, Digits
  <2>5. IngressIndex(a) = 2 * Uint16(256 * a[2] + a[3] + 65535) + 1
    BY <2>2 DEF IngressIndex
  <2>6. 256 * a[2] + a[3] + 65535 = m + 65535
    BY <2>2, <2>3, <2>4
  <2>7. IsAddress(a)
    BY <2>2, <2>4 DEF IsAddress
  <2>. QED  BY <1>1, <1>4, <2>3, <2>5, <2>6, <2>7 DEF a, Uint16
<1>. QED  BY <1>1, <1>3, <1>4

LEMMA NodeAddresses ==
  ASSUME NEW i \in Nat, i < 65536
  PROVE  NodeIndex(NodeExternalIP(i)) = i /\ IsAddress(NodeExternalIP(i))
<1>1. i \div 256 \in 0 .. 255 /\ i % 256 \in 0 .. 255 /\ i = 256 * (i \div 256) + (i % 256)
  BY Digits
<1>. QED  BY <1>1 DEF NodeExternalIP, NodeIndex, IsAddress

LEMMA SvcPodAddresses ==
  ASSUME NEW i \in Nat, i < 16777216
  PROVE  SvcPodIndex(PodSvcIP(i)) = i /\ IsAddress(PodSvcIP(i))
<1>. DEFINE n == i \div 256
<1>1. n \in Nat /\ n < 65536 /\ i % 256 \in 0 .. 255 /\ i = 256 * n + (i % 256) /\ i \div 65536 = n \div 256
  BY Digits
<1>2. n \div 256 \in 0 .. 255 /\ n % 256 \in 0 .. 255 /\ n = 256 * (n \div 256) + (n % 256)
  BY <1>1, Digits
<1>3. PodSvcIP(i) = <<10, n \div 256, n % 256, i % 256>>
  BY <1>1 DEF PodSvcIP
<1>. HIDE DEF n
<1>. QED  BY <1>1, <1>2, <1>3 DEF SvcPodIndex, IsAddress

LEMMA TargetAddresses ==
  ASSUME NEW i \in Nat, i < 65536
  PROVE  TargetIndex(Target(i)) = i /\ (IsAddress(Target(i)) <=> i % 256 # 255)
<1>. DEFINE n == i \div 256
            d == i % 256
<1>1. n \in 0 .. 255 /\ d \in 0 .. 255 /\ i = 256 * n + d /\ n % 256 = n
  BY Digits
<1>2. Target(i) = <<192, 168, n, d + 1>>
  BY <1>1 DEF Target
<1>. HIDE DEF n, d
<1>3. TargetIndex(Target(i)) = i
  BY <1>1, <1>2 DEF TargetIndex
<1>4. IsAddress(Target(i)) <=> d # 255
  BY <1>1, <1>2 DEF IsAddress
<1>. QED  BY <1>3, <1>4 DEF d

\* No two objects get the same address for the same use, up to the count that the
\* documents promise (helpers.go:49-76).
THEOREM AddressesAreUnique ==
  \A u \in Uses : \A i, j \in Nat :
    i < Supported(u) /\ j < Supported(u) /\ Address(u, i) = Address(u, j) => i = j
<1>1. ASSUME NEW u \in Uses, NEW i \in Nat, i < Supported(u)
      PROVE  IndexOf(u, Address(u, i)) = i
  <2>1. CASE u = "ingress"  BY <1>1, <2>1, IngressAddresses DEF Supported, Address, IndexOf
  <2>2. CASE u = "node"     BY <1>1, <2>2, NodeAddresses DEF Supported, Address, IndexOf
  <2>3. CASE u = "svcpod"   BY <1>1, <2>3, SvcPodAddresses DEF Supported, Address, IndexOf
  <2>4. CASE u = "target"   BY <1>1, <2>4, TargetAddresses DEF Supported, Address, IndexOf
  <2>. QED  BY <2>1, <2>2, <2>3, <2>4 DEF Uses
<1>. TAKE u \in Uses
<1>. TAKE i, j \in Nat
<1>. HAVE i < Supported(u) /\ j < Supported(u) /\ Address(u, i) = Address(u, j)
<1>2. IndexOf(u, Address(u, i)) = i /\ IndexOf(u, Address(u, j)) = j
  BY <1>1
<1>. QED  BY <1>2

\* Each is an address up to that count, but for every 256th target (pod.go:46,
\* dnsendpoint.go:81).
THEOREM AddressesAreValid == \A u \in Uses : \A i \in Nat : ValidAddress(u, i)
<1> SUFFICES ASSUME NEW u \in Uses, NEW i \in Nat, i < Supported(u)
             PROVE  IsAddress(Address(u, i)) <=> u # "target" \/ i % 256 # 255
  BY DEF ValidAddress
<1>1. CASE u = "ingress"  BY <1>1, IngressAddresses DEF Supported, Address
<1>2. CASE u = "node"     BY <1>2, NodeAddresses DEF Supported, Address
<1>3. CASE u = "svcpod"   BY <1>3, SvcPodAddresses DEF Supported, Address
<1>4. CASE u = "target"   BY <1>4, TargetAddresses DEF Supported, Address
<1>. QED  BY <1>1, <1>2, <1>3, <1>4 DEF Uses
=============================================================================
