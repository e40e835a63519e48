----------------------------- MODULE Measurement -----------------------------
(***************************************************************************)
(* One source's benchmark: runSourceBenchmark drives bench.Runner and, as  *)
(* its IterObserver, cuts the requests recorded by CountingTransport into  *)
(* windows, one for the source's setup (phase 0), one for the warmup call  *)
(* (phase 1) and one for every steady-state iteration (phase 2 and on).    *)
(* Requests are recorded by other goroutines at the same time: those the   *)
(* measured call waits for and those of informers in the background.       *)
(***************************************************************************)
EXTENDS Integers, Sequences, FiniteSets

CONSTANTS Iterations,    \* scenario.Iterations, the warmup included
          Key,           \* normalized method and path of a request
          MaxReq         \* bound on the number of requests

\* Steady(iterations-1) would make a slice of negative capacity for 0 iterations.
ASSUME MeasurementAssumption == Iterations \in Nat \ {0} /\ MaxReq \in Nat

Req   == 1 .. MaxReq
Phase == 0 .. Iterations
None  == -1    \* no phase: a background request; an empty metrics sample

VARIABLES pc, phase,       \* runSourceBenchmark
          idx,             \* the "before" marks, 0 for an absent key
          must, visited,   \* the sync.Map iteration under way
          breakdown,       \* requests reported for each phase
          startReqs, total,    \* Runner.startReqs; Stats.APIRequests
          bar,
          prevSnap, snapshots, deltas,    \* a sample is the phase it ends, 0 the baseline
          count, stored, durations,       \* CountingTransport: Count, keys and slices of calls
          state, key, owner               \* a request's point in record, its key, its phase

bench     == <<pc, phase, idx, must, visited, breakdown, startReqs, total, bar>>
scrapes   == <<prevSnap, snapshots, deltas>>
transport == <<count, stored, durations>>
requests  == <<state, key, owner>>
vars == <<bench, scrapes, transport, requests>>

Init ==
  /\ pc = "begin" /\ phase = 0 /\ idx = [k \in Key |-> 0]
  /\ must = {} /\ visited = {} /\ breakdown = [p \in Phase |-> {}]
  /\ startReqs = 0 /\ total = 0 /\ bar = 0
  /\ prevSnap = None /\ snapshots = <<>> /\ deltas = <<>>
  /\ count = 0 /\ stored = {} /\ durations = [k \in Key |-> <<>>]
  /\ state = [r \in Req |-> "idle"] /\ key \in [Req -> Key] /\ owner = [r \in Req |-> None]

\* progress.Bar, with total Iterations.
Inc  == bar' = bar + 1
Done == bar' = Iterations

-----------------------------------------------------------------------------
\* CountingTransport.record, by the goroutine whose round trip has ended.

\* During a call the measured source may issue requests of its own.
Issue(r) ==
  /\ state[r] = "idle" /\ \A q \in Req : q < r => state[q] # "idle"
  /\ state' = [state EXCEPT ![r] = "sent"]
  /\ \/ UNCHANGED owner
     \/ pc = "call" /\ owner' = [owner EXCEPT ![r] = phase]
  /\ UNCHANGED <<key, bench, scrapes, transport>>

CountAdd(r) ==
  /\ state[r] = "sent" /\ state' = [state EXCEPT ![r] = "counted"]
  /\ count' = count + 1
  /\ UNCHANGED <<stored, durations, key, owner, bench, scrapes>>

LoadOrStore(r) ==
  /\ state[r] = "counted" /\ state' = [state EXCEPT ![r] = "stored"]
  /\ stored' = stored \cup {key[r]}
  /\ UNCHANGED <<count, durations, key, owner, bench, scrapes>>

AppendDuration(r) ==
  /\ state[r] = "stored" /\ state' = [state EXCEPT ![r] = "recorded"]
  /\ durations' = [durations EXCEPT ![key[r]] = Append(@, r)]
  /\ UNCHANGED <<count, stored, key, owner, bench, scrapes>>

-----------------------------------------------------------------------------
\* sync.Map.Range: every key present from the start is visited once; a key stored
\* meanwhile may be missed.  Each visit holds the key's mutex.

BeginRange(from, to) ==
  /\ pc = from /\ pc' = to
  /\ must' = stored /\ visited' = {}

Visit(k) ==
  /\ k \in stored \ visited
  /\ visited' = visited \cup {k}

EndRange(from, to) ==
  /\ pc = from /\ must \subseteq visited /\ pc' = to

BeginSnapshot(from) ==
  /\ BeginRange(from, "snapshot") /\ idx' = [k \in Key |-> 0]
  /\ UNCHANGED <<phase, breakdown, startReqs, total, bar>>

SnapshotCountsInFlight(k) ==
  /\ pc \in {"snapshot", "marks"} /\ Visit(k)
  /\ idx' = [idx EXCEPT ![k] = Cardinality({r \in Req : key[r] = k /\ state[r] # "idle"})]
  /\ UNCHANGED <<pc, phase, must, breakdown, startReqs, total, bar, scrapes, transport, requests>>

SnapshotVisit(k) ==
  /\ pc \in {"snapshot", "marks"} /\ Visit(k)
  /\ idx' = [idx EXCEPT ![k] = Len(durations[k])]
  /\ UNCHANGED <<pc, phase, must, breakdown, startReqs, total, bar, scrapes, transport, requests>>

\* CallWindow copies durations[start:] of every key.
After(k) == {durations[k][i] : i \in (idx[k] + 1) .. Len(durations[k])}

WindowVisit(k) ==
  /\ pc = "window" /\ Visit(k)
  /\ breakdown' = [breakdown EXCEPT ![phase] = @ \cup After(k)]
  /\ UNCHANGED <<pc, phase, idx, must, startReqs, total, bar, scrapes, transport, requests>>

-----------------------------------------------------------------------------
\* runSourceBenchmark

BeginSetup ==
  /\ BeginSnapshot("begin")
  /\ UNCHANGED <<scrapes, transport, requests>>

Call ==
  /\ EndRange("snapshot", "call")
  /\ UNCHANGED <<phase, idx, must, visited, breakdown, startReqs, total, bar>>
  /\ UNCHANGED <<scrapes, transport, requests>>

\* Steady looks at ctx only while it pauses before a call.
PauseOver ==
  /\ pc = "pause" /\ pc' = "call"
  /\ UNCHANGED <<phase, idx, must, visited, breakdown, startReqs, total, bar>>
  /\ UNCHANGED <<scrapes, transport, requests>>

\* The call waited for every request that it issued.
Returned == \A r \in Req : owner[r] = phase => state[r] \in {"idle", "recorded"}

CallReturnsEarly ==
  /\ BeginRange("call", "window")
  /\ IF phase = 0 THEN UNCHANGED bar ELSE Inc
  /\ UNCHANGED <<phase, idx, breakdown, startReqs, total>>
  /\ UNCHANGED <<scrapes, transport, requests>>

CallReturns ==
  /\ Returned /\ BeginRange("call", "window")
  /\ IF phase = 0 THEN UNCHANGED bar ELSE Inc
  /\ UNCHANGED <<phase, idx, breakdown, startReqs, total>>
  /\ UNCHANGED <<scrapes, transport, requests>>

\* NewSource or Endpoints fails, or ctx is done during a pause: no statistics.
Fail ==
  /\ pc \in {"call", "pause"}
  /\ pc' = "failed" /\ IF phase = 0 THEN UNCHANGED bar ELSE Done
  /\ UNCHANGED <<phase, idx, must, visited, breakdown, startReqs, total>>
  /\ UNCHANGED <<scrapes, transport, requests>>

SampleAdvancing(p) ==
  \/ /\ deltas' = Append(deltas, <<prevSnap, p>>)
     /\ snapshots' = Append(snapshots, p) /\ prevSnap' = p
  \/ prevSnap' = p /\ UNCHANGED <<snapshots, deltas>>

\* A scrape of the metrics endpoint succeeds or not.
Sample(p) ==
  \/ /\ deltas' = Append(deltas, <<prevSnap, p>>)
     /\ snapshots' = Append(snapshots, p) /\ prevSnap' = p
  \/ UNCHANGED scrapes

\* After the setup window: the baseline sample, whose error is ignored, then
\* NewRunner reads the request counter and the warmup's marks are taken.
EndSetup ==
  /\ EndRange("window", "warmup") /\ phase = 0
  /\ prevSnap' \in {None, 0} /\ UNCHANGED <<snapshots, deltas>>
  /\ UNCHANGED <<phase, idx, must, visited, breakdown, startReqs, total, bar>>
  /\ UNCHANGED <<transport, requests>>

NewRunnerKeepsStart ==
  /\ pc = "warmup" /\ phase' = 1
  /\ pc' = "snapshot" /\ must' = stored /\ visited' = {} /\ idx' = [k \in Key |-> 0]
  /\ UNCHANGED <<breakdown, startReqs, total, bar, scrapes, transport, requests>>

NewRunner ==
  /\ pc = "warmup" /\ phase' = 1 /\ startReqs' = count
  /\ pc' = "snapshot" /\ must' = stored /\ visited' = {} /\ idx' = [k \in Key |-> 0]
  /\ UNCHANGED <<breakdown, total, bar, scrapes, transport, requests>>

\* AfterIter, and the same after the warmup: window, the next marks, a sample.
EndWindowKeepsMarks ==
  /\ pc = "window" /\ must \subseteq visited /\ phase > 0
  /\ pc' = "marks" /\ must' = {} /\ visited' = Key
  /\ UNCHANGED <<phase, idx, breakdown, startReqs, total, bar, scrapes, transport, requests>>

EndWindow ==
  /\ pc = "window" /\ must \subseteq visited /\ phase > 0
  /\ pc' = "marks" /\ must' = stored /\ visited' = {} /\ idx' = [k \in Key |-> 0]
  /\ UNCHANGED <<phase, breakdown, startReqs, total, bar, scrapes, transport, requests>>

AfterIter ==
  /\ phase < Iterations /\ EndRange("marks", "pause") /\ Sample(phase)
  /\ phase' = phase + 1
  /\ UNCHANGED <<idx, must, visited, breakdown, startReqs, total, bar, transport, requests>>

FinishTicks ==
  /\ phase = Iterations /\ EndRange("marks", "done") /\ Sample(phase)
  /\ total' = count - startReqs /\ Inc
  /\ UNCHANGED <<phase, idx, must, visited, breakdown, startReqs, transport, requests>>

Finish ==
  /\ phase = Iterations /\ EndRange("marks", "done") /\ Sample(phase)
  /\ total' = count - startReqs /\ Done
  /\ UNCHANGED <<phase, idx, must, visited, breakdown, startReqs, transport, requests>>

Stopped == pc \in {"done", "failed"} /\ UNCHANGED vars

Record(r) == Issue(r) \/ CountAdd(r) \/ LoadOrStore(r) \/ AppendDuration(r)
RunSourceBenchmark ==
  \/ BeginSetup \/ Call \/ PauseOver \/ CallReturns \/ Fail
  \/ EndSetup \/ NewRunner \/ EndWindow \/ AfterIter \/ Finish
  \/ \E k \in Key : SnapshotVisit(k) \/ WindowVisit(k)
Next ==
  RunSourceBenchmark \/ (\E r \in Req : Record(r)) \/ Stopped

Spec == Init /\ [][Next]_vars
-----------------------------------------------------------------------------
TypeBench ==
  /\ pc \in {"begin", "snapshot", "call", "pause", "window", "warmup", "marks", "done", "failed"}
  /\ phase \in Phase /\ idx \in [Key -> Nat] /\ must \subseteq Key /\ visited \subseteq Key
  /\ breakdown \in [Phase -> SUBSET Req] /\ startReqs \in Nat /\ total \in Nat
  /\ bar \in 0 .. Iterations

TypeScrapes ==
  /\ prevSnap \in Phase \cup {None}
  /\ snapshots \in Seq(Phase) /\ deltas \in Seq((Phase \cup {None}) \X Phase)

TypeRequests ==
  /\ count \in 0 .. MaxReq /\ stored \subseteq Key /\ durations \in [Key -> Seq(Req)]
  /\ state \in [Req -> {"idle", "sent", "counted", "stored", "recorded"}]
  /\ key \in [Req -> Key] /\ owner \in [Req -> Phase \cup {None}]

TypeOK == TypeBench /\ TypeScrapes /\ TypeRequests

\* CallWindow never asks for more calls than were recorded: its make() with a
\* negative length would panic in the middle of a benchmark.
WindowNonNegative ==
  pc \in {"snapshot", "marks", "call", "pause", "window"} => \A k \in Key : idx[k] <= Len(durations[k])

\* Windows are disjoint: no request is reported for two phases.
WindowsDisjoint ==
  \A p, q \in Phase : p # q => breakdown[p] \cap breakdown[q] = {}

\* A request that a phase's call issued and waited for is reported for exactly
\* that phase, whatever informers record meanwhile.
OwnWindow ==
  \A r \in Req :
    /\ \A p \in Phase : r \in breakdown[p] => owner[r] \in {p, None}
    /\ owner[r] # None /\ (owner[r] < phase \/ pc \in {"warmup", "marks", "done"}) => r \in breakdown[owner[r]]

\* The total of a run counts every request that the warmup and the iterations issued
\* and none that the creation of the source did.
TotalCoversCalls ==
  pc = "done" =>
    /\ total >= Cardinality({r \in Req : owner[r] >= 1})
    /\ total + Cardinality({r \in Req : owner[r] = 0}) <= count

\* The metric deltas chain: the first starts at the baseline, each other at the sample
\* where the one before ended, so that their sum is the change over the run even
\* when a scrape failed.
DeltasChain ==
  /\ Len(deltas) = Len(snapshots)
  /\ \A i \in DOMAIN deltas :
       /\ deltas[i][2] = snapshots[i] /\ deltas[i][1] < deltas[i][2]
       /\ IF i = 1 THEN deltas[i][1] \in {None, 0} ELSE deltas[i][1] = snapshots[i - 1]

\* flags.go:53: "show per-iteration metric deltas"; report.go:224-225 labels the
\* i-th delta with iteration i.  (A first delta without a baseline is left out.)
DeltaPerIteration ==
  pc = "done" => \A i \in DOMAIN deltas : deltas[i][1] # None => deltas[i] = <<i - 1, i>>
=============================================================================
