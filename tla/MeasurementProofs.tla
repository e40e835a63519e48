-------------------------- MODULE MeasurementProofs --------------------------
(***************************************************************************)
(* The windows of a benchmark, for any number of iterations, keys and      *)
(* requests.  What was reported for a window that is over lies at or below *)
(* the mark of its key, from the moment that the mark is set; what the     *)
(* call under way issues is appended above it.  A key that the iteration   *)
(* over the marks misses has no calls recorded yet.                        *)
(***************************************************************************)
EXTENDS Measurement, FiniteSetTheorems, TLAPS

\* The recorder: slices hold recorded requests only, of their key.
Recorded ==
  /\ \A k \in Key : durations[k] # <<>> => k \in stored
  /\ \A k \in Key : \A i \in 1 .. Len(durations[k]) :
       state[durations[k][i]] = "recorded" /\ key[durations[k][i]] = k
  /\ \A r \in Req : state[r] \in {"stored", "recorded"} => key[r] \in stored
  /\ \A r \in Req : state[r] = "idle" => owner[r] = None
  /\ \A p \in Phase : \A r \in breakdown[p] : state[r] = "recorded"

\* count is the number of the requests past CountAdd.
Counted == {r \in Req : state[r] \in {"counted", "stored", "recorded"}}
Counts  == count = Cardinality(Counted) /\ startReqs <= count

\* Phases whose window is over, and keys whose mark is set.
Over(p)   == p < phase \/ (p = phase /\ pc \in {"warmup", "marks", "done"})
Marked(k) == \/ pc \in {"call", "pause", "window"}
             \/ pc \in {"snapshot", "marks"} /\ (k \in visited \/ k \notin must)

Marks ==
  /\ \A k \in Key : idx[k] <= Len(durations[k])
  /\ \A k \in Key : Marked(k) =>
       \A i \in 1 .. Len(durations[k]) : \A p \in Phase :
         Over(p) /\ durations[k][i] \in breakdown[p] => i <= idx[k]
  /\ \A p \in Phase : p > phase => breakdown[p] = {}
  /\ breakdown[phase] # {} => pc \notin {"begin", "snapshot", "call", "pause"}

\* The requests of the calls.
Owners ==
  /\ \A r \in Req : owner[r] <= phase
  /\ pc \in {"begin", "snapshot", "pause"} => \A r \in Req : owner[r] # phase
  /\ pc \in {"call", "window"} =>
       \A r \in Req : owner[r] = phase /\ state[r] = "recorded" => r \in After(key[r])
  /\ pc = "window" =>
       \A r \in Req : owner[r] = phase =>
         /\ state[r] = "recorded" /\ key[r] \in must
         /\ key[r] \in visited => r \in breakdown[phase]

\* The order of the phases.
Sequence ==
  /\ pc \in {"begin", "warmup"} => phase = 0
  /\ pc \in {"pause", "marks", "done"} => phase >= 1
  /\ pc = "done" => phase = Iterations
  /\ phase = 0 => bar = 0
  /\ phase >= 1 /\ pc \in {"snapshot", "call", "pause"} => bar = phase - 1
  /\ phase >= 1 /\ pc \in {"window", "marks"} => bar = phase

\* The last sample is where the next delta starts, and is older than this phase.
Samples ==
  /\ Len(deltas) = Len(snapshots)
  /\ phase = 0 => snapshots = <<>> /\ prevSnap \in {None, 0}
  /\ phase >= 1 /\ pc # "done" => prevSnap < phase
  /\ IF snapshots = <<>> THEN prevSnap \in {None, 0} ELSE prevSnap = snapshots[Len(snapshots)]

IInv ==
  /\ TypeOK /\ Recorded /\ Counts /\ Marks /\ Owners /\ Sequence /\ Samples
  /\ WindowsDisjoint /\ OwnWindow /\ DeltasChain

\* The initial state satisfies the invariant.
LEMMA InitIInv == Init => IInv
<1> SUFFICES ASSUME Init PROVE IInv
  OBVIOUS
<1> USE MeasurementAssumption DEF Init
<1>1. 0 \in Phase /\ \A p \in Phase : p \in Nat
  BY DEF Phase
<1>2. TypeBench
  BY <1>1 DEF TypeBench
<1>3. TypeScrapes
  BY <1>1 DEF TypeScrapes, None
<1>4. TypeRequests
  BY <1>1 DEF TypeRequests
<1>5. Counts
  <2>1. Counted = {}
    BY DEF Counted
  <2>. QED  BY <2>1, FS_EmptySet DEF Counts
<1>6. Recorded /\ Marks
  BY <1>1 DEF Recorded, Marks, Marked, Over
<1>7. Owners /\ Sequence /\ Samples
  BY <1>1 DEF Owners, Sequence, Samples, None, After
<1>8. WindowsDisjoint /\ OwnWindow /\ DeltasChain
  BY <1>1 DEF WindowsDisjoint, OwnWindow, DeltasChain, None
<1>. QED  BY <1>2, <1>3, <1>4, <1>5, <1>6, <1>7, <1>8 DEF IInv, TypeOK

\* The types of the variables of the benchmark, the scrapes and the recorder.
LEMMA TypeNext == IInv /\ [Next]_vars => TypeOK'
<1> SUFFICES ASSUME IInv, [Next]_vars PROVE TypeOK'
  OBVIOUS
<1>. USE MeasurementAssumption DEF IInv, TypeOK
<1>1. \A p \in Phase : p \in Nat /\ (p < Iterations => p + 1 \in Phase)
  BY DEF Phase
<1>2. 0 \in Phase /\ (1 \in Phase)
  BY DEF Phase
<1>3. ASSUME NEW r \in Req, Record(r)
      PROVE  TypeOK'
  <2>1. TypeBench' /\ TypeScrapes'
    BY <1>3 DEF Record, Issue, CountAdd, LoadOrStore, AppendDuration, TypeBench, TypeScrapes, bench, scrapes
  <2>2. count' \in 0 .. MaxReq
    <3>1. CASE CountAdd(r)
      <4>1. Counted \subseteq Req /\ r \in Req \ Counted
        BY <1>3, <3>1 DEF CountAdd, Counted
      <4>2. IsFiniteSet(Req) /\ Cardinality(Req) = MaxReq
        BY FS_Interval DEF Req
      <4>3. Cardinality(Counted) < MaxReq
        <5>1. Cardinality(Counted \cup {r}) = Cardinality(Counted) + 1 /\ IsFiniteSet(Counted)
          BY <4>1, <4>2, FS_Subset, FS_AddElement
        <5>2. Cardinality(Counted \cup {r}) <= Cardinality(Req)
          BY <4>1, <4>2, FS_Subset
        <5>. QED  BY <4>2, <5>1, <5>2, FS_CardinalityType
      <4>. QED  BY <3>1, <4>3 DEF CountAdd, Counts, TypeRequests
    <3>2. CASE ~CountAdd(r)
      BY <1>3, <3>2 DEF Record, Issue, LoadOrStore, AppendDuration, TypeRequests, transport
    <3>. QED  BY <3>1, <3>2
  <2>3. durations' \in [Key -> Seq(Req)]
    <3>1. CASE AppendDuration(r)
      <4>1. key[r] \in Key /\ Append(durations[key[r]], r) \in Seq(Req)
        BY DEF TypeRequests
      <4>. QED  BY <3>1, <4>1 DEF AppendDuration, TypeRequests
    <3>2. CASE ~AppendDuration(r)
      BY <1>3, <3>2 DEF Record, Issue, LoadOrStore, CountAdd, TypeRequests, transport
    <3>. QED  BY <3>1, <3>2
  <2>4. /\ stored' \subseteq Key /\ state' \in [Req -> {"idle", "sent", "counted", "stored", "recorded"}]
        /\ key' \in [Req -> Key] /\ owner' \in [Req -> Phase \cup {None}]
    BY <1>3 DEF Record, Issue, CountAdd, LoadOrStore, AppendDuration, TypeRequests, TypeBench, transport
  <2>. QED  BY <2>1, <2>2, <2>3, <2>4 DEF TypeRequests
<1>4. CASE RunSourceBenchmark
  <2>1. TypeRequests'
    BY <1>4 DEF RunSourceBenchmark, BeginSetup, Call, PauseOver, CallReturns, Fail, EndSetup, NewRunner,
           EndWindow, AfterIter, Finish, SnapshotVisit, WindowVisit, TypeRequests, transport, requests
  <2>2. TypeScrapes'
    <3>1. phase \in Phase /\ <<prevSnap, phase>> \in (Phase \cup {None}) \X Phase
      BY DEF TypeBench, TypeScrapes
    <3>2. Append(snapshots, phase) \in Seq(Phase)
      BY <3>1 DEF TypeScrapes
    <3>3. Append(deltas, <<prevSnap, phase>>) \in Seq((Phase \cup {None}) \X Phase)
      BY <3>1 DEF TypeScrapes
    <3>4. CASE AfterIter \/ Finish
      BY <3>1, <3>2, <3>3, <3>4 DEF AfterIter, Finish, Sample, TypeScrapes, scrapes
    <3>5. CASE ~(AfterIter \/ Finish)
      BY <1>2, <1>4, <3>5 DEF RunSourceBenchmark, BeginSetup, Call, PauseOver, CallReturns, Fail, EndSetup,
             NewRunner, EndWindow, SnapshotVisit, WindowVisit, TypeScrapes, scrapes
    <3>. QED  BY <3>4, <3>5
  <2>3. TypeBench'
    <3>1. CASE BeginSetup \/ Call \/ PauseOver
      BY <3>1 DEF BeginSetup, BeginSnapshot, BeginRange, EndRange, Call, PauseOver, TypeBench, TypeRequests
    <3>2. CASE CallReturns \/ Fail
      BY <3>2, <1>1 DEF CallReturns, BeginRange, Fail, Inc, Done, TypeBench, TypeRequests, Sequence, Phase
    <3>3. CASE EndSetup \/ NewRunner \/ EndWindow
      BY <3>3, <1>2 DEF EndSetup, EndRange, NewRunner, EndWindow, TypeBench, TypeRequests
    <3>4. CASE AfterIter \/ Finish
      BY <3>4, <1>1 DEF AfterIter, Finish, EndRange, Done, TypeBench, TypeRequests, Counts, Phase
    <3>5. ASSUME NEW k \in Key, SnapshotVisit(k)
          PROVE  TypeBench'
      <4>1. Len(durations[k]) \in Nat
        BY DEF TypeRequests
      <4>. QED  BY <3>5, <4>1 DEF SnapshotVisit, Visit, TypeBench, TypeRequests
    <3>6. ASSUME NEW k \in Key, WindowVisit(k)
          PROVE  TypeBench'
      <4>1. After(k) \subseteq Req
        BY DEF After, TypeRequests, TypeBench
      <4>. QED  BY <3>6, <4>1 DEF WindowVisit, Visit, TypeBench, TypeRequests
    <3>. QED  BY <1>4, <3>1, <3>2, <3>3, <3>4, <3>5, <3>6 DEF RunSourceBenchmark
  <2>. QED  BY <2>1, <2>2, <2>3
<1>5. CASE UNCHANGED vars
  BY <1>5 DEF vars, bench, scrapes, transport, requests, TypeBench, TypeScrapes, TypeRequests
<1>. QED  BY <1>3, <1>4, <1>5 DEF Next, Stopped

\* What the recorder guarantees of its slices and keys.
LEMMA RecordedNext == IInv /\ [Next]_vars => Recorded'
<1> SUFFICES ASSUME IInv, [Next]_vars PROVE Recorded'
  OBVIOUS
<1>. USE DEF IInv, TypeOK
<1>1. ASSUME NEW r \in Req, Issue(r) \/ CountAdd(r) \/ LoadOrStore(r)
      PROVE  Recorded'
  <2>1. state[r] # "recorded" /\ state'[r] # "recorded"
        /\ \A q \in Req \ {r} : state'[q] = state[q] /\ owner'[q] = owner[q]
    BY <1>1 DEF Issue, CountAdd, LoadOrStore, TypeRequests
  <2>2. UNCHANGED <<durations, key, breakdown, phase>> /\ stored \subseteq stored'
    BY <1>1 DEF Issue, CountAdd, LoadOrStore, transport, bench
  <2>3. /\ state'[r] = "idle" => owner'[r] = None
        /\ state'[r] \in {"stored", "recorded"} => key[r] \in stored'
    BY <1>1 DEF Issue, CountAdd, LoadOrStore, TypeRequests
  <2>4. ASSUME NEW k \in Key, NEW i \in 1 .. Len(durations[k])
        PROVE  state'[durations[k][i]] = "recorded" /\ key[durations[k][i]] = k
    <3>1. durations[k][i] \in Req /\ state[durations[k][i]] = "recorded" /\ key[durations[k][i]] = k
      <4>1. durations[k] \in Seq(Req)
        BY DEF TypeRequests
      <4>. QED  BY <4>1 DEF Recorded
    <3>. QED  BY <2>1, <3>1
  <2>5. \A p \in Phase : \A q \in breakdown[p] : state'[q] = "recorded"
    BY <2>1 DEF Recorded, TypeBench
  <2>6. /\ \A q \in Req : state'[q] \in {"stored", "recorded"} => key[q] \in stored'
        /\ \A q \in Req : state'[q] = "idle" => owner'[q] = None
        /\ \A k \in Key : durations[k] # <<>> => k \in stored'
    BY <2>1, <2>2, <2>3 DEF Recorded
  <2>. QED  BY <2>2, <2>4, <2>5, <2>6 DEF Recorded
<1>2. ASSUME NEW r \in Req, AppendDuration(r)
      PROVE  Recorded'
  <2>1. /\ state' = [state EXCEPT ![r] = "recorded"] /\ state[r] = "stored"
        /\ durations' = [durations EXCEPT ![key[r]] = Append(@, r)]
        /\ UNCHANGED <<stored, key, owner, breakdown>>
    BY <1>2 DEF AppendDuration, bench
  <2>2. ASSUME NEW k \in Key, NEW i \in 1 .. Len(durations'[k])
        PROVE  state'[durations'[k][i]] = "recorded" /\ key[durations'[k][i]] = k
    <3>1. CASE k = key[r] /\ i = Len(durations[k]) + 1
      BY <2>1, <3>1 DEF TypeRequests
    <3>2. CASE ~(k = key[r] /\ i = Len(durations[k]) + 1)
      <4>1. i \in 1 .. Len(durations[k]) /\ durations'[k][i] = durations[k][i] /\ durations[k][i] \in Req
        BY <2>1, <3>2 DEF TypeRequests
      <4>. QED  BY <2>1, <4>1 DEF Recorded, TypeRequests
    <3>. QED  BY <3>1, <3>2
  <2>3. \A k \in Key : durations'[k] # <<>> => k \in stored
    BY <2>1 DEF Recorded, TypeRequests
  <2>4. /\ \A q \in Req : state'[q] \in {"stored", "recorded"} => key[q] \in stored
        /\ \A q \in Req : state'[q] = "idle" => owner[q] = None
        /\ \A p \in Phase : \A q \in breakdown[p] : state'[q] = "recorded"
    BY <2>1 DEF Recorded, TypeRequests, TypeBench
  <2>. QED  BY <2>1, <2>2, <2>3, <2>4 DEF Recorded
<1>3. ASSUME NEW k \in Key, WindowVisit(k)
      PROVE  Recorded'
  <2>1. /\ breakdown' = [breakdown EXCEPT ![phase] = @ \cup After(k)]
        /\ UNCHANGED <<stored, key, owner, durations, state>>
    BY <1>3 DEF WindowVisit, transport, requests
  <2>2. \A r \in After(k) : state[r] = "recorded"
    BY DEF After, Recorded, TypeBench, TypeRequests
  <2>3. \A p \in Phase : \A r \in breakdown'[p] : state[r] = "recorded"
    BY <2>1, <2>2 DEF Recorded, TypeBench
  <2>. QED  BY <2>1, <2>3 DEF Recorded
<1>4. CASE UNCHANGED <<stored, key, owner, durations, state, breakdown>>
  BY <1>4 DEF Recorded
<1>. QED
  BY <1>1, <1>2, <1>3, <1>4 DEF Next, Record, Stopped, RunSourceBenchmark, BeginSetup, BeginSnapshot, Call,
     PauseOver, CallReturns, Fail, EndSetup, NewRunner, EndWindow, AfterIter, Finish, SnapshotVisit,
     vars, bench, transport, requests

\* The counter agrees with the requests past CountAdd.
LEMMA CountsNext == IInv /\ [Next]_vars => Counts'
<1> SUFFICES ASSUME IInv, [Next]_vars PROVE Counts'
  OBVIOUS
<1>. USE DEF IInv, TypeOK
<1>1. IsFiniteSet(Counted)
  <2>1. IsFiniteSet(Req) /\ Counted \subseteq Req
    BY FS_Interval, MeasurementAssumption DEF Counted, Req
  <2>. QED  BY <2>1, FS_Subset
<1>2. ASSUME NEW r \in Req, CountAdd(r)
      PROVE  Counts'
  <2>1. r \notin Counted /\ Counted' = Counted \cup {r}
    BY <1>2 DEF CountAdd, Counted, TypeRequests
  <2>2. Cardinality(Counted') = Cardinality(Counted) + 1
    BY <1>1, <2>1, FS_AddElement
  <2>. QED  BY <1>2, <2>2 DEF CountAdd, Counts, bench, TypeBench, TypeRequests
<1>3. ASSUME NEW r \in Req, Issue(r) \/ LoadOrStore(r) \/ AppendDuration(r)
      PROVE  Counts'
  <2>1. Counted' = Counted
    BY <1>3 DEF Issue, LoadOrStore, AppendDuration, Counted, TypeRequests
  <2>. QED  BY <1>3, <2>1 DEF Issue, LoadOrStore, AppendDuration, Counts, bench, transport
<1>4. CASE NewRunner
  BY <1>4 DEF NewRunner, Counts, Counted, transport, requests, TypeRequests
<1>5. CASE UNCHANGED <<count, startReqs, state>>
  BY <1>5 DEF Counts, Counted
<1>. QED
  BY <1>2, <1>3, <1>4, <1>5 DEF Next, Record, Stopped, RunSourceBenchmark, BeginSetup, BeginSnapshot, Call,
     PauseOver, CallReturns, Fail, EndSetup, EndWindow, AfterIter, Finish, SnapshotVisit, WindowVisit,
     vars, bench, transport, requests

\* Phases follow each other, and the bar with them.
LEMMA SequenceNext == IInv /\ [Next]_vars => Sequence'
<1> SUFFICES ASSUME IInv, [Next]_vars PROVE Sequence'
  OBVIOUS
<1>. USE MeasurementAssumption DEF IInv, TypeOK, TypeBench, Phase, Sequence
<1>1. ASSUME NEW r \in Req, Record(r)
      PROVE  Sequence'
  BY <1>1 DEF Record, Issue, CountAdd, LoadOrStore, AppendDuration, bench
<1>2. CASE RunSourceBenchmark
  BY <1>2 DEF RunSourceBenchmark, BeginSetup, BeginSnapshot, BeginRange, EndRange, Call, PauseOver,
     CallReturns, Fail, EndSetup, NewRunner, EndWindow, AfterIter, Finish, SnapshotVisit, WindowVisit, Inc, Done
<1>3. CASE UNCHANGED vars
  BY <1>3 DEF vars, bench
<1>. QED  BY <1>1, <1>2, <1>3 DEF Next, Stopped

\* Each delta starts where the one before ended.
LEMMA SamplesNext == IInv /\ [Next]_vars => Samples' /\ DeltasChain'
<1> SUFFICES ASSUME IInv, [Next]_vars PROVE Samples' /\ DeltasChain'
  OBVIOUS
<1>. USE DEF IInv, TypeOK
<1>1. phase \in Nat /\ phase <= Iterations
  BY MeasurementAssumption DEF TypeBench, Phase
<1>2. CASE AfterIter \/ Finish
  <2>1. phase >= 1 /\ prevSnap < phase /\ (pc' = "done" \/ phase' = phase + 1)
    BY <1>2 DEF AfterIter, Finish, EndRange, Sequence, Samples
  <2>2. CASE UNCHANGED scrapes
    <3>1. UNCHANGED <<prevSnap, snapshots, deltas>> /\ prevSnap \in Int
      BY <2>2 DEF scrapes, TypeScrapes, Phase, None
    <3>2. phase' >= 1 /\ (pc' # "done" => prevSnap < phase')
      BY <1>1, <1>2, <2>1, <3>1 DEF AfterIter, Finish
    <3>3. Samples'
      BY <3>1, <3>2 DEF Samples
    <3>. QED  BY <3>1, <3>3 DEF DeltasChain
  <2>3. CASE /\ deltas' = Append(deltas, <<prevSnap, phase>>)
             /\ snapshots' = Append(snapshots, phase) /\ prevSnap' = phase
    <3>1. Samples'
      <4>1. /\ Len(deltas') = Len(deltas) + 1 /\ Len(snapshots') = Len(snapshots) + 1
            /\ snapshots' # <<>> /\ snapshots'[Len(snapshots')] = phase
        BY <2>3 DEF TypeScrapes, TypeBench
      <4>2. phase' >= 1 /\ (pc' # "done" => phase < phase')
        BY <1>1, <1>2, <2>1 DEF AfterIter, Finish
      <4>. QED  BY <1>1, <2>3, <4>1, <4>2 DEF Samples
    <3>2. ASSUME NEW i \in 1 .. Len(deltas')
          PROVE  /\ deltas'[i][2] = snapshots'[i] /\ deltas'[i][1] < deltas'[i][2]
                 /\ IF i = 1 THEN deltas'[i][1] \in {None, 0} ELSE deltas'[i][1] = snapshots'[i - 1]
      <4>1. CASE i = Len(deltas) + 1
        BY <2>1, <2>3, <4>1 DEF Samples, TypeScrapes
      <4>2. CASE i # Len(deltas) + 1
        <5>1. /\ i \in 1 .. Len(deltas) /\ deltas'[i] = deltas[i] /\ snapshots'[i] = snapshots[i]
              /\ i # 1 => snapshots'[i - 1] = snapshots[i - 1]
          BY <2>3, <4>2 DEF Samples, TypeScrapes
        <5>2. /\ deltas[i][2] = snapshots[i] /\ deltas[i][1] < deltas[i][2]
              /\ IF i = 1 THEN deltas[i][1] \in {None, 0} ELSE deltas[i][1] = snapshots[i - 1]
          <6>1. i \in DOMAIN deltas
            BY <5>1 DEF TypeScrapes
          <6>. QED  BY <6>1 DEF DeltasChain
        <5>. QED  BY <5>1, <5>2
      <4>. QED  BY <4>1, <4>2
    <3>3. DOMAIN deltas' = 1 .. Len(deltas')
      BY <2>3 DEF TypeScrapes
    <3>. QED  BY <3>1, <3>2, <3>3 DEF DeltasChain, Samples
  <2>. QED  BY <1>2, <2>2, <2>3 DEF AfterIter, Finish, Sample
<1>3. CASE EndSetup
  BY <1>3 DEF EndSetup, Samples, DeltasChain
<1>4. CASE NewRunner
  BY <1>4 DEF NewRunner, Sequence, Samples, DeltasChain, scrapes, None
<1>5. CASE UNCHANGED <<phase, scrapes>> /\ (pc = "done" => pc' = "done")
  BY <1>5 DEF Samples, DeltasChain, scrapes
<1>. QED
  BY <1>2, <1>3, <1>4, <1>5 DEF Next, Record, Issue, CountAdd, LoadOrStore, AppendDuration, Stopped,
     RunSourceBenchmark, BeginSetup, BeginSnapshot, BeginRange, EndRange, Call, PauseOver, CallReturns,
     Fail, EndWindow, SnapshotVisit, WindowVisit, vars, bench, scrapes

\* What a call under way records lies above the mark; an element that lies there is of
\* no window that is over.
LEMMA AfterLemma ==
  ASSUME TypeOK, Recorded, Marks, NEW k \in Key, Marked(k), NEW r \in After(k)
  PROVE  /\ r \in Req /\ state[r] = "recorded" /\ key[r] = k
         /\ \A p \in Phase : Over(p) => r \notin breakdown[p]
<1>1. idx[k] \in Nat /\ durations[k] \in Seq(Req)
  BY DEF TypeOK, TypeBench, TypeRequests
<1>2. PICK i \in (idx[k] + 1) .. Len(durations[k]) : r = durations[k][i]
  BY DEF After
<1>3. i \in 1 .. Len(durations[k]) /\ ~(i <= idx[k])
  BY <1>1, <1>2
<1>. QED  BY <1>1, <1>2, <1>3 DEF Recorded, Marks

\* Marks stay below the calls that follow, and windows disjoint.
LEMMA MarksNext == IInv /\ [Next]_vars => Marks' /\ WindowsDisjoint'
<1> SUFFICES ASSUME IInv, [Next]_vars PROVE Marks' /\ WindowsDisjoint'
  OBVIOUS
<1>. USE DEF IInv
<1>1. /\ \A k \in Key : durations[k] \in Seq(Req) /\ Len(durations[k]) \in Nat /\ idx[k] \in Nat
      /\ phase \in Nat /\ phase \in Phase /\ \A p \in Phase : p \in Nat
      /\ \A k \in Key : k \notin stored => durations[k] = <<>>
  BY DEF TypeOK, TypeBench, TypeRequests, Phase, Recorded
<1>2. CASE UNCHANGED <<durations, bench>>
  BY <1>2 DEF bench, Marks, Marked, Over, WindowsDisjoint
<1>3. ASSUME NEW r \in Req, AppendDuration(r)
      PROVE  Marks' /\ WindowsDisjoint'
  <2>1. /\ durations' = [durations EXCEPT ![key[r]] = Append(@, r)] /\ state[r] = "stored" /\ key[r] \in Key
        /\ UNCHANGED <<pc, phase, idx, must, visited, breakdown>>
    BY <1>3 DEF AppendDuration, bench, TypeOK, TypeRequests
  <2>2. \A p \in Phase : r \notin breakdown[p]
    BY <2>1 DEF Recorded
  <2>3. \A k \in Key : Len(durations'[k]) >= Len(durations[k])
    BY <1>1, <2>1 DEF TypeOK, TypeRequests
  <2>4. ASSUME NEW k \in Key, Marked(k), NEW i \in 1 .. Len(durations'[k]), NEW p \in Phase,
               Over(p), durations'[k][i] \in breakdown[p]
        PROVE  i <= idx[k]
    <3>1. CASE k = key[r] /\ i = Len(durations[k]) + 1
      BY <1>1, <2>1, <2>2, <2>4, <3>1 DEF TypeOK, TypeRequests
    <3>2. CASE ~(k = key[r] /\ i = Len(durations[k]) + 1)
      <4>1. i \in 1 .. Len(durations[k]) /\ durations'[k][i] = durations[k][i]
        BY <1>1, <2>1, <3>2 DEF TypeOK, TypeRequests
      <4>. QED  BY <2>4, <4>1 DEF Marks
    <3>. QED  BY <3>1, <3>2
  <2>5. Marks'
    <3>1. \A k \in Key : idx'[k] <= Len(durations'[k])
      BY <1>1, <2>1, <2>3 DEF Marks, TypeOK, TypeRequests
    <3>2. \A k \in Key : Marked(k)' <=> Marked(k)
      BY <2>1 DEF Marked
    <3>3. \A p \in Phase : Over(p)' <=> Over(p)
      BY <2>1 DEF Over
    <3>4. \A k \in Key : Marked(k)' =>
            \A i \in 1 .. Len(durations'[k]) : \A p \in Phase :
              Over(p)' /\ durations'[k][i] \in breakdown'[p] => i <= idx'[k]
      BY <2>1, <2>4, <3>2, <3>3
    <3>5. /\ \A p \in Phase : p > phase' => breakdown'[p] = {}
          /\ breakdown'[phase'] # {} => pc' \notin {"begin", "snapshot", "call", "pause"}
      BY <2>1 DEF Marks
    <3>. QED  BY <3>1, <3>4, <3>5 DEF Marks
  <2>. QED  BY <2>1, <2>5 DEF WindowsDisjoint
<1>4. CASE BeginSetup \/ NewRunner \/ EndWindow
  <2>1. /\ must' = stored /\ visited' = {} /\ idx' = [k \in Key |-> 0] /\ pc' \in {"snapshot", "marks"}
        /\ UNCHANGED <<breakdown, durations>>
    BY <1>4 DEF BeginSetup, BeginSnapshot, BeginRange, NewRunner, EndWindow, transport
  <2>2. \A k \in Key : Marked(k)' => durations[k] = <<>>
    BY <1>1, <2>1 DEF Marked
  <2>3. /\ \A p \in Phase : p > phase' => breakdown[p] = {}
        /\ breakdown[phase'] # {} => pc' = "marks"
    <3>1. CASE BeginSetup \/ EndWindow
      BY <1>1, <3>1 DEF BeginSetup, BeginSnapshot, BeginRange, EndWindow, Marks
    <3>2. CASE NewRunner
      <4>1. phase = 0 /\ phase' = 1 /\ 1 \in Phase /\ breakdown' = breakdown
        BY <3>2, MeasurementAssumption DEF NewRunner, Sequence, Phase
      <4>. QED  BY <1>1, <4>1 DEF Marks
    <3>. QED  BY <1>4, <3>1, <3>2
  <2>. QED  BY <1>1, <2>1, <2>2, <2>3 DEF Marks, WindowsDisjoint
<1>5. CASE Call \/ PauseOver \/ CallReturns
  <2>1. UNCHANGED <<idx, durations, breakdown, phase>> /\ pc' \in {"call", "window"}
    BY <1>5 DEF Call, EndRange, PauseOver, CallReturns, BeginRange, transport
  <2>2. (\A k \in Key : Marked(k)) /\ (\A p \in Phase : Over(p)' => Over(p)) /\ breakdown[phase] = {}
    BY <1>5, <2>1 DEF Call, EndRange, PauseOver, CallReturns, BeginRange, Marked, Over, Marks
  <2>. QED  BY <2>1, <2>2 DEF Marks, WindowsDisjoint
<1>6. CASE Fail \/ EndSetup \/ Finish
  <2>1. UNCHANGED <<idx, durations, breakdown, phase>> /\ pc' \in {"failed", "warmup", "done"}
    BY <1>6 DEF Fail, EndSetup, EndRange, Finish, transport
  <2>. QED  BY <2>1 DEF Marks, Marked, WindowsDisjoint
<1>7. CASE AfterIter
  <2>1. /\ UNCHANGED <<idx, durations, breakdown>> /\ pc' = "pause" /\ pc = "marks" /\ phase' = phase + 1
        /\ must \subseteq visited /\ phase' \in Phase
    BY <1>1, <1>7, MeasurementAssumption DEF AfterIter, EndRange, transport, Phase
  <2>2. (\A k \in Key : Marked(k)) /\ (\A p \in Phase : Over(p)' => Over(p))
    BY <1>1, <2>1 DEF Marked, Over
  <2>3. \A p \in Phase : p >= phase' => breakdown[p] = {}
    BY <1>1, <2>1 DEF Marks
  <2>. QED  BY <1>1, <2>1, <2>2, <2>3 DEF Marks, WindowsDisjoint
<1>8. ASSUME NEW k \in Key, SnapshotVisit(k)
      PROVE  Marks' /\ WindowsDisjoint'
  <2>1. /\ UNCHANGED <<durations, breakdown, phase, pc, must>> /\ visited' = visited \cup {k}
        /\ idx' = [idx EXCEPT ![k] = Len(durations[k])]
    BY <1>8 DEF SnapshotVisit, Visit, transport
  <2>2. \A q \in Key \ {k} : Marked(q)' => Marked(q) /\ idx'[q] = idx[q]
    BY <2>1 DEF Marked, TypeOK, TypeBench
  <2>3. idx'[k] = Len(durations[k])
    BY <2>1 DEF TypeOK, TypeBench
  <2>4. \A p \in Phase : Over(p)' <=> Over(p)
    BY <2>1 DEF Over
  <2>5. \A q \in Key : idx'[q] <= Len(durations[q])
    BY <1>1, <2>1, <2>3 DEF Marks, TypeOK, TypeBench
  <2>6. \A q \in Key : Marked(q)' =>
          \A i \in 1 .. Len(durations[q]) : \A p \in Phase :
            Over(p)' /\ durations[q][i] \in breakdown[p] => i <= idx'[q]
    BY <1>1, <2>2, <2>3, <2>4 DEF Marks
  <2>. QED  BY <2>1, <2>5, <2>6 DEF Marks, WindowsDisjoint
<1>9. ASSUME NEW k \in Key, WindowVisit(k)
      PROVE  Marks' /\ WindowsDisjoint'
  <2>1. /\ UNCHANGED <<durations, idx, phase, pc, must>> /\ pc = "window"
        /\ breakdown' = [breakdown EXCEPT ![phase] = @ \cup After(k)]
    BY <1>9 DEF WindowVisit, transport
  <2>2. /\ \A p \in Phase : p # phase => breakdown'[p] = breakdown[p]
        /\ breakdown'[phase] = breakdown[phase] \cup After(k)
    BY <1>1, <2>1 DEF TypeOK, TypeBench
  <2>3. \A p \in Phase : (Over(p)' <=> Over(p)) /\ (Over(p) <=> p < phase)
    BY <1>1, <2>1 DEF Over
  <2>4. Marks'
    BY <1>1, <2>1, <2>2, <2>3 DEF Marks, Marked
  <2>5. \A p \in Phase : p # phase => breakdown[p] \cap After(k) = {}
    <3>1. ASSUME NEW p \in Phase, p # phase
          PROVE  breakdown[p] \cap After(k) = {}
      <4>1. CASE p < phase
        BY <2>1, <2>3, <4>1, AfterLemma DEF Marked
      <4>2. CASE p > phase
        BY <4>2 DEF Marks
      <4>. QED  BY <1>1, <3>1, <4>1, <4>2
    <3>. QED  BY <3>1
  <2>6. WindowsDisjoint'
    BY <1>1, <2>2, <2>5 DEF WindowsDisjoint
  <2>. QED  BY <2>4, <2>6
<1>. QED
  BY <1>2, <1>3, <1>4, <1>5, <1>6, <1>7, <1>8, <1>9 DEF Next, Record, Issue, CountAdd, LoadOrStore, Stopped,
     RunSourceBenchmark, vars, transport

\* Every call's requests end up in the window of its phase.
LEMMA OwnersNext == IInv /\ [Next]_vars => Owners' /\ OwnWindow'
<1> SUFFICES ASSUME IInv, [Next]_vars PROVE Owners' /\ OwnWindow'
  OBVIOUS
<1>. USE DEF IInv
<1>1. /\ \A k \in Key : durations[k] \in Seq(Req) /\ Len(durations[k]) \in Nat /\ idx[k] \in Nat
      /\ \A r \in Req : key[r] \in Key /\ owner[r] \in Int /\ (owner[r] # None => owner[r] \in Phase)
      /\ phase \in Nat /\ phase \in Phase /\ \A p \in Phase : p \in Nat
      /\ \A p \in Phase : breakdown[p] \subseteq Req
  <2>1. \A k \in Key : durations[k] \in Seq(Req) /\ Len(durations[k]) \in Nat /\ idx[k] \in Nat
    BY DEF TypeOK, TypeBench, TypeRequests
  <2>2. phase \in Phase /\ \A p \in Phase : p \in Nat
    BY MeasurementAssumption DEF TypeOK, TypeBench, Phase
  <2>3. \A r \in Req : key[r] \in Key /\ owner[r] \in Phase \cup {None}
    BY DEF TypeOK, TypeRequests
  <2>4. \A p \in Phase : breakdown[p] \subseteq Req
    BY DEF TypeOK, TypeBench
  <2>. QED  BY <2>1, <2>2, <2>3, <2>4 DEF None
<1>2. CASE UNCHANGED vars
  BY <1>2 DEF vars, bench, requests, transport, Owners, OwnWindow, After
<1>3. ASSUME NEW r \in Req, Record(r)
      PROVE  Owners' /\ OwnWindow'
  <2>1. UNCHANGED <<pc, phase, idx, must, visited, breakdown, key>>
    BY <1>3 DEF Record, Issue, CountAdd, LoadOrStore, AppendDuration, bench
  <2>2. /\ state[r] \notin {"recorded"} /\ \A q \in Req \ {r} : state'[q] = state[q] /\ owner'[q] = owner[q]
        /\ owner'[r] = owner[r] \/ (pc = "call" /\ owner'[r] = phase /\ state'[r] = "sent")
        /\ state'[r] = "recorded" => AppendDuration(r) /\ owner'[r] = owner[r]
    BY <1>3 DEF Record, Issue, CountAdd, LoadOrStore, AppendDuration, TypeOK, TypeRequests
  <2>3. \A p \in Phase : r \notin breakdown[p]
    BY <2>2 DEF Recorded
  <2>4. pc = "window" => owner[r] # phase
    BY <2>2 DEF Owners
  <2>5. \A k \in Key : After(k) \subseteq After(k)'
    <3>1. ASSUME NEW k \in Key, NEW i \in (idx[k] + 1) .. Len(durations[k])
          PROVE  i \in (idx'[k] + 1) .. Len(durations'[k]) /\ durations'[k][i] = durations[k][i]
      <4>1. CASE AppendDuration(r) /\ k = key[r]
        <5>1. durations'[k] = Append(durations[k], r)
          BY <1>1, <4>1 DEF AppendDuration, TypeOK, TypeRequests
        <5>. QED  BY <1>1, <2>1, <5>1
      <4>2. CASE ~(AppendDuration(r) /\ k = key[r])
        <5>1. durations'[k] = durations[k]
          BY <1>1, <1>3, <4>2 DEF Record, Issue, CountAdd, LoadOrStore, AppendDuration, transport,
             TypeOK, TypeRequests
        <5>. QED  BY <2>1, <5>1
      <4>. QED  BY <4>1, <4>2
    <3>. QED  BY <3>1 DEF After
  <2>6. state'[r] = "recorded" => r \in After(key[r])'
    <3>1. ASSUME AppendDuration(r)
          PROVE  r \in After(key[r])'
      <4>1. durations'[key[r]] = Append(durations[key[r]], r) /\ idx[key[r]] <= Len(durations[key[r]])
        BY <1>1, <3>1 DEF AppendDuration, Marks, TypeOK, TypeRequests
      <4>2. /\ Len(durations'[key[r]]) \in (idx'[key[r]] + 1) .. Len(durations'[key[r]])
            /\ durations'[key[r]][Len(durations'[key[r]])] = r
        BY <1>1, <2>1, <4>1
      <4>. QED  BY <2>1, <4>2 DEF After
    <3>. QED  BY <2>2, <3>1
  <2>7. Owners'
    <3>1. \A q \in Req : owner'[q] <= phase'
      BY <1>1, <2>1, <2>2 DEF Owners
    <3>2. pc' \in {"begin", "snapshot", "pause"} => \A q \in Req : owner'[q] # phase'
      BY <2>1, <2>2 DEF Owners
    <3>3. pc' \in {"call", "window"} =>
            \A q \in Req : owner'[q] = phase' /\ state'[q] = "recorded" => q \in After(key[q])'
      BY <1>1, <2>1, <2>2, <2>5, <2>6 DEF Owners
    <3>4. pc' = "window" =>
            \A q \in Req : owner'[q] = phase' =>
              /\ state'[q] = "recorded" /\ key[q] \in must'
              /\ key[q] \in visited' => q \in breakdown'[phase']
      BY <2>1, <2>2, <2>4 DEF Owners
    <3>. QED  BY <2>1, <3>1, <3>2, <3>3, <3>4 DEF Owners
  <2>8. OwnWindow'
    BY <1>1, <2>1, <2>2, <2>3 DEF OwnWindow, None
  <2>. QED  BY <2>7, <2>8
<1>4. CASE BeginSetup \/ Call \/ PauseOver
  <2>1. /\ UNCHANGED <<phase, breakdown, durations, state, key, owner>>
        /\ pc \in {"begin", "snapshot", "pause"} /\ pc' \in {"snapshot", "call"}
    BY <1>4 DEF BeginSetup, BeginSnapshot, BeginRange, Call, EndRange, PauseOver, transport, requests
  <2>2. \A r \in Req : owner[r] # phase
    BY <2>1 DEF Owners
  <2>. QED  BY <2>1, <2>2 DEF Owners, OwnWindow
<1>5. CASE CallReturns
  <2>1. /\ UNCHANGED <<phase, breakdown, durations, state, key, owner, idx>>
        /\ pc = "call" /\ pc' = "window" /\ must' = stored /\ visited' = {}
    BY <1>5 DEF CallReturns, BeginRange, transport, requests
  <2>2. \A r \in Req : owner[r] = phase => state[r] = "recorded" /\ key[r] \in stored
    BY <1>1, <1>5 DEF CallReturns, Returned, Recorded, None
  <2>. QED  BY <2>1, <2>2 DEF Owners, OwnWindow, After
<1>6. CASE Fail
  BY <1>6 DEF Fail, Owners, OwnWindow, transport, requests
<1>7. CASE EndSetup \/ EndWindow
  <2>1. /\ UNCHANGED <<phase, breakdown, durations, state, key, owner>>
        /\ pc = "window" /\ must \subseteq visited /\ pc' \in {"warmup", "marks"}
    BY <1>7 DEF EndSetup, EndRange, EndWindow, transport, requests
  <2>2. \A r \in Req : owner[r] = phase => r \in breakdown[phase]
    BY <2>1 DEF Owners
  <2>. QED  BY <1>1, <2>1, <2>2 DEF Owners, OwnWindow
<1>8. CASE NewRunner \/ AfterIter \/ Finish
  <2>1. /\ UNCHANGED <<breakdown, durations, state, key, owner>> /\ pc \in {"warmup", "marks"}
        /\ \/ pc' \in {"snapshot", "pause"} /\ phase' = phase + 1
           \/ pc' = "done" /\ phase' = phase
    <3>1. CASE NewRunner
      BY <3>1 DEF NewRunner, transport, requests, Sequence
    <3>2. CASE AfterIter
      BY <3>2 DEF AfterIter, EndRange, transport, requests
    <3>3. CASE Finish
      BY <3>3 DEF Finish, EndRange, transport, requests
    <3>. QED  BY <1>8, <3>1, <3>2, <3>3
  <2>2. \A r \in Req : owner[r] # None => r \in breakdown[owner[r]]
    BY <2>1 DEF OwnWindow
  <2>. QED  BY <1>1, <2>1, <2>2 DEF Owners, OwnWindow
<1>9. ASSUME NEW k \in Key, SnapshotVisit(k)
      PROVE  Owners' /\ OwnWindow'
  BY <1>9 DEF SnapshotVisit, Owners, OwnWindow, transport, requests
<1>10. ASSUME NEW k \in Key, WindowVisit(k)
      PROVE  Owners' /\ OwnWindow'
  <2>1. /\ UNCHANGED <<phase, pc, idx, must, durations, state, key, owner>> /\ pc = "window"
        /\ visited' = visited \cup {k} /\ breakdown' = [breakdown EXCEPT ![phase] = @ \cup After(k)]
    BY <1>10 DEF WindowVisit, Visit, transport, requests
  <2>2. /\ \A p \in Phase : p # phase => breakdown'[p] = breakdown[p]
        /\ breakdown'[phase] = breakdown[phase] \cup After(k)
    BY <1>1, <2>1 DEF TypeOK, TypeBench
  <2>3. \A r \in After(k) : owner[r] \in {phase, None}
    <3>1. ASSUME NEW r \in After(k), owner[r] \notin {phase, None}
          PROVE  FALSE
      <4>1. r \in Req /\ \A p \in Phase : Over(p) => r \notin breakdown[p]
        BY <2>1, AfterLemma DEF Marked
      <4>2. owner[r] \in Phase /\ owner[r] < phase
        BY <1>1, <3>1, <4>1 DEF Owners
      <4>3. r \in breakdown[owner[r]]
        BY <1>1, <4>1, <4>2 DEF OwnWindow, None
      <4>. QED  BY <4>1, <4>2, <4>3 DEF Over
    <3>. QED  BY <3>1
  <2>4. Owners'
    <3>1. \A r \in Req : key[r] = k /\ owner[r] = phase => r \in breakdown'[phase]
      BY <2>1, <2>2 DEF Owners
    <3>. QED  BY <2>1, <2>2, <3>1 DEF Owners, After
  <2>5. OwnWindow'
    BY <1>1, <2>1, <2>2, <2>3 DEF OwnWindow, None
  <2>. QED  BY <2>4, <2>5
<1>. QED
  BY <1>2, <1>3, <1>4, <1>5, <1>6, <1>7, <1>8, <1>9, <1>10 DEF Next, Stopped, RunSourceBenchmark
-----------------------------------------------------------------------------
\* The invariant holds in every reachable state.
LEMMA Invariant == Spec => []IInv
<1>1. IInv /\ [Next]_vars => IInv'
  BY TypeNext, RecordedNext, CountsNext, SequenceNext, SamplesNext, MarksNext, OwnersNext DEF IInv
<1>. QED  BY InitIInv, <1>1, PTL DEF Spec

\* Every variable keeps its type; the counter is bounded by the requests, the bar by
\* the iterations.
THEOREM TypeCorrect == Spec => []TypeOK
<1>. IInv => TypeOK
  BY DEF IInv
<1>. QED  BY Invariant, PTL

\* CallWindow never makes a slice of negative length.
THEOREM WindowsFit == Spec => []WindowNonNegative
<1>. IInv => WindowNonNegative
  BY DEF IInv, Marks, WindowNonNegative
<1>. QED  BY Invariant, PTL

\* No request is reported for two phases, whatever is recorded while the maps are read.
THEOREM WindowsAreDisjoint == Spec => []WindowsDisjoint
<1>. IInv => WindowsDisjoint
  BY DEF IInv
<1>. QED  BY Invariant, PTL

\* The requests of a call are reported for its phase, and for no other.
THEOREM OwnWindowHolds == Spec => []OwnWindow
<1>. IInv => OwnWindow
  BY DEF IInv
<1>. QED  BY Invariant, PTL

\* The deltas chain, whichever scrapes fail.
THEOREM DeltasAreChained == Spec => []DeltasChain
<1>. IInv => DeltasChain
  BY DEF IInv
<1>. QED  BY Invariant, PTL
-----------------------------------------------------------------------------
\* The totals: requests of the source's creation were counted before NewRunner read the
\* counter, requests of the calls after.
SetupReqs    == {r \in Req : owner[r] = 0}
CallReqs     == {r \in Req : owner[r] >= 1}
CountedCalls == CallReqs \cap Counted

Totals ==
  /\ phase >= 1 => /\ Cardinality(SetupReqs) <= startReqs
                   /\ startReqs + Cardinality(CountedCalls) <= count
  /\ pc = "done" => total >= Cardinality(CallReqs) /\ total + Cardinality(SetupReqs) <= count

LEMMA ReqFinite ==
  /\ \A S \in SUBSET Req : IsFiniteSet(S) /\ Cardinality(S) \in Nat
  /\ \A S, T \in SUBSET Req : S \subseteq T => Cardinality(S) <= Cardinality(T)
<1>1. IsFiniteSet(Req)
  BY MeasurementAssumption, FS_Interval DEF Req
<1>. QED  BY <1>1, FS_Subset, FS_CardinalityType

LEMMA TotalsNext == IInv /\ Totals /\ [Next]_vars => Totals'
<1> SUFFICES ASSUME IInv, Totals, [Next]_vars PROVE Totals'
  OBVIOUS
<1>. USE DEF IInv
<1>1. /\ phase \in Nat /\ count \in Nat /\ startReqs \in Nat /\ total \in Nat
      /\ \A r \in Req : owner[r] \in Int
  <2>1. phase \in Nat /\ \A p \in Phase : p \in Nat
    BY MeasurementAssumption DEF TypeOK, TypeBench, Phase
  <2>2. \A r \in Req : owner[r] \in Phase \cup {None}
    BY DEF TypeOK, TypeRequests
  <2>3. count \in Nat /\ startReqs \in Nat /\ total \in Nat
    BY MeasurementAssumption DEF TypeOK, TypeBench, TypeRequests
  <2>. QED  BY <2>1, <2>2, <2>3 DEF None
<1>2. /\ Cardinality(SetupReqs) \in Nat /\ Cardinality(CallReqs) \in Nat
      /\ Cardinality(CountedCalls) \in Nat
  BY ReqFinite DEF SetupReqs, CallReqs, CountedCalls
<1>3. CASE UNCHANGED <<owner, state>> /\ UNCHANGED <<count, startReqs, total>> /\ pc' # "done"
           /\ (phase' >= 1 => phase >= 1)
  <2>1. SetupReqs' = SetupReqs /\ CountedCalls' = CountedCalls
    BY <1>3 DEF SetupReqs, CountedCalls, CallReqs, Counted
  <2>. QED  BY <1>3, <2>1 DEF Totals
<1>4. ASSUME NEW r \in Req, Record(r)
      PROVE  Totals'
  <2>1. UNCHANGED <<pc, phase, startReqs, total>>
    BY <1>4 DEF Record, Issue, CountAdd, LoadOrStore, AppendDuration, bench
  <2>2. CASE phase = 0
    BY <2>1, <2>2 DEF Totals, Sequence
  <2>3. CASE phase # 0
    <3>1. SetupReqs' = SetupReqs
      <4>1. CASE Issue(r)
        BY <1>1, <2>3, <4>1 DEF Issue, SetupReqs, Recorded, None, TypeOK, TypeRequests
      <4>2. CASE ~Issue(r)
        BY <1>4, <4>2 DEF Record, CountAdd, LoadOrStore, AppendDuration, SetupReqs
      <4>. QED  BY <4>1, <4>2
    <3>2. CASE CountAdd(r)
      <4>1. CallReqs' = CallReqs /\ CountedCalls' \subseteq CountedCalls \cup {r} /\ count' = count + 1
        BY <3>2 DEF CountAdd, CallReqs, CountedCalls, Counted, TypeOK, TypeRequests
      <4>2. Cardinality(CountedCalls') <= Cardinality(CountedCalls) + 1
        <5>1. IsFiniteSet(CountedCalls) /\ CountedCalls \cup {r} \in SUBSET Req /\ CountedCalls' \in SUBSET Req
          BY ReqFinite DEF CountedCalls, CallReqs
        <5>2. Cardinality(CountedCalls \cup {r}) <= Cardinality(CountedCalls) + 1
          BY <1>2, <5>1, FS_AddElement
        <5>3. Cardinality(CountedCalls') <= Cardinality(CountedCalls \cup {r})
          BY <4>1, <5>1, ReqFinite
        <5>4. Cardinality(CountedCalls') \in Nat /\ Cardinality(CountedCalls \cup {r}) \in Nat
          BY <5>1, ReqFinite
        <5>. QED  BY <1>2, <5>2, <5>3, <5>4
      <4>3. Cardinality(CountedCalls') \in Nat
        BY ReqFinite DEF CountedCalls, CallReqs
      <4>. QED  BY <1>1, <1>2, <2>1, <3>1, <4>1, <4>2, <4>3 DEF Totals
    <3>3. CASE Issue(r) \/ LoadOrStore(r) \/ AppendDuration(r)
      <4>1. count' = count /\ Counted' = Counted
        BY <3>3 DEF Issue, LoadOrStore, AppendDuration, Counted, transport, TypeOK, TypeRequests
      <4>2. CountedCalls' = CountedCalls
        <5>1. \A q \in Counted : owner'[q] = owner[q]
          BY <3>3 DEF Issue, LoadOrStore, AppendDuration, Counted, TypeOK, TypeRequests
        <5>. QED  BY <4>1, <5>1 DEF CountedCalls, CallReqs, Counted
      <4>3. pc = "done" => CallReqs' = CallReqs
        BY <3>3 DEF Issue, LoadOrStore, AppendDuration, CallReqs
      <4>. QED  BY <2>1, <3>1, <4>1, <4>2, <4>3 DEF Totals
    <3>. QED  BY <1>4, <3>2, <3>3 DEF Record
  <2>. QED  BY <2>2, <2>3
<1>5. CASE NewRunner
  <2>1. UNCHANGED <<owner, state, count>> /\ startReqs' = count /\ pc' = "snapshot" /\ pc = "warmup" /\ phase = 0
    BY <1>5 DEF NewRunner, transport, requests, Sequence
  <2>2. SetupReqs' = SetupReqs /\ SetupReqs \subseteq Counted
    <3>1. \A r \in Req : owner[r] # None => r \in breakdown[owner[r]] /\ owner[r] \in Phase
      BY <2>1 DEF OwnWindow, TypeOK, TypeRequests
    <3>. QED  BY <2>1, <3>1 DEF SetupReqs, Counted, Recorded, None
  <2>3. CountedCalls' = {}
    BY <1>1, <2>1 DEF CountedCalls, CallReqs, Owners
  <2>4. Cardinality(SetupReqs) <= count
    BY <2>2, ReqFinite DEF Counts, SetupReqs, Counted
  <2>. QED  BY <1>1, <2>1, <2>2, <2>3, <2>4, FS_EmptySet DEF Totals
<1>6. CASE Finish
  <2>1. /\ UNCHANGED <<owner, state, count, startReqs>> /\ total' = count - startReqs
        /\ pc = "marks" /\ phase >= 1 /\ phase' = phase
    BY <1>6 DEF Finish, EndRange, transport, requests, Sequence
  <2>2. CallReqs \subseteq Counted
    <3>1. \A r \in Req : owner[r] # None => r \in breakdown[owner[r]] /\ owner[r] \in Phase
      BY <2>1 DEF OwnWindow, TypeOK, TypeRequests
    <3>. QED  BY <3>1 DEF CallReqs, Counted, Recorded, None
  <2>3. CallReqs' = CallReqs /\ SetupReqs' = SetupReqs /\ CountedCalls' = CountedCalls /\ CountedCalls = CallReqs
    BY <2>1, <2>2 DEF CallReqs, SetupReqs, CountedCalls, Counted
  <2>. QED  BY <1>1, <1>2, <2>1, <2>3 DEF Totals
<1>7. CASE UNCHANGED vars
  BY <1>7 DEF vars, bench, requests, transport, Totals, SetupReqs, CallReqs, CountedCalls, Counted
<1>8. ASSUME RunSourceBenchmark, ~NewRunner, ~Finish
      PROVE  Totals'
  <2>1. UNCHANGED <<owner, state, count, startReqs, total>> /\ pc' # "done"
    BY <1>8 DEF RunSourceBenchmark, BeginSetup, BeginSnapshot, BeginRange, Call, EndRange, PauseOver,
       CallReturns, Fail, EndSetup, EndWindow, AfterIter, SnapshotVisit, WindowVisit, transport, requests
  <2>2. phase' >= 1 => phase >= 1
    BY <1>1, <1>8 DEF RunSourceBenchmark, BeginSetup, BeginSnapshot, Call, PauseOver,
       CallReturns, Fail, EndSetup, EndWindow, AfterIter, EndRange, SnapshotVisit, WindowVisit, Sequence
  <2>. QED  BY <1>3, <2>1, <2>2
<1>. QED  BY <1>4, <1>5, <1>6, <1>7, <1>8 DEF Next, Stopped

\* The total of a run counts every request of its calls and none of the source's creation.
THEOREM TotalIsSound == Spec => []TotalCoversCalls
<1>1. Init => Totals
  BY DEF Init, Totals
<1>2. Totals => TotalCoversCalls
  BY DEF Totals, TotalCoversCalls, SetupReqs, CallReqs
<1>. QED  BY <1>1, <1>2, TotalsNext, Invariant, PTL DEF Spec
=============================================================================
