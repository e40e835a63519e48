--------------------------- MODULE ReportingProofs ---------------------------
(***************************************************************************)
(* Theorems about Reporting, for all calls, times and scrapes.  A summary  *)
(* describes a sequence of times (Describes): how many they are, their     *)
(* extremes, and their mean but for what divisions have lost.  Merging the *)
(* summaries of two sequences describes the one after the other, whatever  *)
(* was merged before (MergeDescribes); so the merge over the windows       *)
(* describes the calls of each key so far (Merged), and that over the keys *)
(* those of each method (Aggregated), in whatever order.                   *)
(***************************************************************************)
EXTENDS Reporting, Loops, FiniteSetTheorems, TLAPS

\* A sum, turn by turn.
LEMMA SumLoop ==
  ASSUME NEW q \in Seq(Int)
  PROVE  \E g \in [0 .. Len(q) -> Int] :
           /\ g[0] = 0 /\ Sum(q) = g[Len(q)]
           /\ \A i \in 1 .. Len(q) : g[i] = g[i-1] + q[i]
<1>. DEFINE n == Len(q)
            S == Int
            base == 0
            step == [p \in (1 .. n) \X Int |-> p[2] + q[p[1]]]
<1>1. n \in Nat /\ \A i \in 1 .. n : q[i] \in Int
  OBVIOUS
<1>2. base \in S /\ step \in [(1 .. n) \X S -> S]
  BY <1>1
<1>3. PICK g : g \in Loops(n, S, base, step)
  <2>. HIDE DEF n, S, base, step
  <2>. QED  BY <1>1, <1>2, LoopExists
<1>4. g \in [0 .. n -> Int] /\ g[0] = 0 /\ \A i \in 1 .. n : g[i] = step[<<i, g[i-1]>>]
  BY <1>3 DEF Loops
<1>5. ASSUME NEW i \in 1 .. n PROVE g[i] = g[i-1] + q[i]
  <2>1. g[i-1] \in Int
    BY <1>1, <1>4
  <2>2. step[<<i, g[i-1]>>] = g[i-1] + q[i]
    BY <2>1
  <2>. HIDE DEF step
  <2>. QED  BY <1>4, <2>2
<1>. HIDE DEF step
<1>. DEFINE F(f) == [i \in 0 .. Len(q) |-> IF i = 0 THEN 0 ELSE f[i-1] + q[i]]
            h == CHOOSE f : f = F(f)
<1>6. g = F(g)
  BY <1>1, <1>4, <1>5
<1>7. h = F(h)
  BY <1>6
<1>8. Sum(q) = h[n]
  BY DEF Sum
<1>. HIDE DEF h
<1>9. h[0] = 0 /\ \A i \in 1 .. n : h[i] = h[i-1] + q[i]
  BY <1>1, <1>7
<1>10. DOMAIN h = 0 .. n /\ h = [i \in 0 .. n |-> h[i]]
  BY <1>7
<1>11. h[0] \in Int /\ \A i \in 1 .. n : h[i-1] \in Int => h[i] \in Int
  <2>1. ASSUME NEW i \in 1 .. n, h[i-1] \in Int PROVE h[i] \in Int
    <3>1. q[i] \in Int /\ h[i] = h[i-1] + q[i]
      BY <1>1, <1>9
    <3>. QED  BY <2>1, <3>1
  <2>. QED  BY <1>9, <2>1
<1>12. \A i \in 0 .. n : h[i] \in Int
  <2>. HIDE DEF n
  <2>. QED  BY <1>1, <1>11, LoopType
<1>13. h \in [0 .. n -> Int]
  BY <1>10, <1>12
<1>. HIDE DEF F
<1>. QED  BY <1>8, <1>9, <1>13

\* The turns of Times.
Kept(calls, reqs, i, q) == IF calls[i].req \in reqs THEN Append(q, calls[i].time) ELSE q

LEMMA CallsFacts ==
  ASSUME NEW calls \in Seq(Call)
  PROVE  /\ Len(calls) \in Nat /\ DOMAIN calls = 1 .. Len(calls)
         /\ \A i \in 1 .. Len(calls) : calls[i].req \in Request /\ calls[i].time \in Nat
<1>1. Len(calls) \in Nat /\ DOMAIN calls = 1 .. Len(calls) /\ \A i \in 1 .. Len(calls) : calls[i] \in Call
  OBVIOUS
<1>2. \A c \in Call : c.req \in Request /\ c.time \in Nat
  BY DEF Call
<1>. QED  BY <1>1, <1>2

LEMMA TimesLoop ==
  ASSUME NEW calls \in Seq(Call), NEW reqs
  PROVE  \E g \in [0 .. Len(calls) -> Seq(Nat)] :
           /\ g[0] = <<>> /\ Times(calls, reqs) = g[Len(calls)]
           /\ \A i \in 1 .. Len(calls) : g[i] = Kept(calls, reqs, i, g[i-1])
<1>. DEFINE n == Len(calls)
            S == Seq(Nat)
            base == <<>>
            C(i, q) == Kept(calls, reqs, i, q)
            step == [p \in (1 .. n) \X S |-> C(p[1], p[2])]
<1>1. n \in Nat /\ \A i \in 1 .. n : \A q \in S : C(i, q) \in S
  <2>1. ASSUME NEW i \in 1 .. n, NEW q \in S PROVE C(i, q) \in S
    <3>1. calls[i].time \in Nat
      BY CallsFacts
    <3>. QED  BY <3>1 DEF Kept
  <2>. QED  BY <2>1, CallsFacts
<1>. HIDE DEF C
<1>2. base \in S /\ step \in [(1 .. n) \X S -> S]
  BY <1>1
<1>3. PICK g : g \in Loops(n, S, base, step)
  <2>. HIDE DEF n, S, base, step
  <2>. QED  BY <1>1, <1>2, LoopExists
<1>4. g \in [0 .. n -> S] /\ g[0] = <<>> /\ \A i \in 1 .. n : g[i] = step[<<i, g[i-1]>>]
  BY <1>3 DEF Loops
<1>5. ASSUME NEW i \in 1 .. n PROVE g[i] = C(i, g[i-1])
  <2>1. g[i-1] \in S
    BY <1>1, <1>4
  <2>2. step[<<i, g[i-1]>>] = C(i, g[i-1])
    BY <2>1
  <2>. HIDE DEF step
  <2>. QED  BY <1>4, <2>2
<1>. HIDE DEF step
<1>. DEFINE F(f) == [i \in 0 .. Len(calls) |->
                       IF i = 0 THEN <<>>
                       ELSE IF calls[i].req \in reqs THEN Append(f[i-1], calls[i].time) ELSE f[i-1]]
            h == CHOOSE f : f = F(f)
<1>6. g = F(g)
  <2>1. DOMAIN g = 0 .. n /\ g = [i \in 0 .. n |-> g[i]]
    BY <1>4
  <2>2. ASSUME NEW i \in 0 .. n PROVE g[i] = F(g)[i]
    <3>1. CASE i = 0
      BY <1>1, <1>4, <3>1
    <3>2. CASE i \in 1 .. n
      BY <1>1, <1>5, <3>2 DEF C, Kept
    <3>. QED  BY <1>1, <3>1, <3>2
  <2>3. DOMAIN F(g) = 0 .. n /\ F(g) = [i \in 0 .. n |-> F(g)[i]]
    OBVIOUS
  <2>. HIDE DEF F
  <2>. QED  BY <2>1, <2>2, <2>3
<1>7. h = F(h)
  BY <1>6
<1>8. Times(calls, reqs) = h[n]
  BY DEF Times
<1>. HIDE DEF h
<1>9. h[0] = <<>> /\ \A i \in 1 .. n : h[i] = C(i, h[i-1])
  <2>1. h[0] = <<>>
    BY <1>1, <1>7
  <2>2. ASSUME NEW i \in 1 .. n PROVE h[i] = C(i, h[i-1])
    <3>1. i \in 0 .. Len(calls) /\ i # 0
      BY <1>1
    <3>. QED  BY <1>7, <3>1 DEF C, Kept
  <2>. QED  BY <2>1, <2>2
<1>10. DOMAIN h = 0 .. n /\ h = [i \in 0 .. n |-> h[i]]
  BY <1>7
<1>11. h[0] \in S /\ \A i \in 1 .. n : h[i-1] \in S => h[i] \in S
  <2>. HIDE DEF S, n
  <2>. QED  BY <1>1, <1>2, <1>9
<1>12. \A i \in 0 .. n : h[i] \in S
  <2>. HIDE DEF n, S
  <2>. QED  BY <1>1, <1>11, LoopType
<1>13. h \in [0 .. n -> S]
  BY <1>10, <1>12
<1>. HIDE DEF F
<1>. QED  BY <1>8, <1>9, <1>13 DEF C

-----------------------------------------------------------------------------
\* The scrapes.

LEMMA CollectFacts ==
  ASSUME NEW lines, AreLines(lines), NEW k \in DOMAIN Collect(lines, "value")
  PROVE  Collect(lines, "value")[k] \in Int
<1>. DEFINE wanted == {i \in DOMAIN lines : lines[i].kind = "value" /\ BaseName(lines[i].key) \in Families}
            Is(i)  == lines[i].key = k /\ \A j \in wanted : lines[j].key = k => j <= i
            A      == {i \in wanted : lines[i].key = k}
            n      == Len(lines)
<1>1. n \in Nat /\ DOMAIN lines = 1 .. n /\ \A i \in wanted : lines[i].value \in Int
  BY DEF AreLines
<1>2. A \subseteq 1 .. n /\ A # {}
  BY <1>1 DEF Collect
<1>3. \E i \in A : \A j \in A : j <= i
  <2>. HIDE DEF A, n
  <2>. QED  BY <1>1, <1>2, GreatestIndex
<1>4. \E i \in wanted : Is(i)
  <2>. HIDE DEF wanted
  <2>. QED  BY <1>3
<1>5. (CHOOSE i \in wanted : Is(i)) \in wanted
  <2>. HIDE DEF wanted, Is
  <2>. QED  BY <1>4
<1>6. Collect(lines, "value")[k] = lines[CHOOSE i \in wanted : Is(i)].value
  BY DEF Collect
<1>. HIDE DEF wanted, Is
<1>. QED  BY <1>1, <1>5, <1>6

\* The samples of the input.
Parsed == {Parse(input.scrapes[i].lines) : i \in DOMAIN input.scrapes}
First  == Parse(input.scrapes[1].lines)
Deltas == {Delta(a, b) : a, b \in Parsed}
Before(i) == IF i = 1 THEN First ELSE snapshots[i-1]
Figures == [k \in AllKeys(snapshots) |-> IF IsGauge(Types(snapshots), k) THEN SumValues(snapshots, k)
                                          ELSE At(SumDeltas(deltas), k)]

Flow ==
  /\ input \in Inputs
  /\ pc \in {"measure", "merge", "aggregate", "done"}
  /\ at \in Nat \ {0} /\ (pc = "measure" => at <= Len(input.windows) + 1)

\* Every delta is that of the sample before, the baseline for the first.
Sampled ==
  /\ snapshots \in Seq(Parsed) /\ deltas \in Seq(Deltas) /\ Len(deltas) = Len(snapshots)
  /\ \A i \in 1 .. Len(snapshots) : deltas[i] = Delta(Before(i), snapshots[i])
  /\ IF pc = "measure" /\ at = 1 THEN snapshots = <<>> ELSE prevSnap = Before(Len(snapshots) + 1)
  /\ pc = "done" => memory = Figures

LEMMA InputFacts ==
  ASSUME Flow
  PROVE  /\ input.windows \in Seq(Seq(Call)) /\ Len(input.windows) \in Nat /\ Len(input.windows) >= 2
         /\ DOMAIN input.windows = 1 .. Len(input.windows) /\ DOMAIN input.scrapes = 1 .. Len(input.windows)
         /\ \A i \in DOMAIN input.scrapes : AreLines(input.scrapes[i].lines)
         /\ input.times \in Seq(Nat) /\ input.times # <<>> /\ Len(input.times) \in Nat
<1>1. input \in Inputs
  BY DEF Flow
<1>2. /\ input.windows \in Seq(Seq(Call))
      /\ input.times \in Seq(Nat) /\ Len(input.windows) = Len(input.times) + 1 /\ input.times # <<>>
      /\ DOMAIN input.scrapes = DOMAIN input.windows
      /\ \A i \in DOMAIN input.scrapes : AreLines(input.scrapes[i].lines)
  BY <1>1, InputsAssumption
<1>3. Len(input.times) \in Nat /\ Len(input.times) # 0
  <2>. DEFINE t == input.times
  <2>1. t \in Seq(Nat) /\ t # <<>>
    BY <1>2
  <2>. HIDE DEF t
  <2>2. Len(t) \in Nat /\ Len(t) # 0
    BY <2>1
  <2>. QED  BY <2>2 DEF t
<1>4. Len(input.windows) \in Nat /\ DOMAIN input.windows = 1 .. Len(input.windows)
  <2>. DEFINE w == input.windows
            S == Seq(Call)
  <2>1. w \in Seq(S)
    BY <1>2
  <2>. HIDE DEF w, S
  <2>2. Len(w) \in Nat /\ DOMAIN w = 1 .. Len(w)
    BY <2>1
  <2>. QED  BY <2>2 DEF w
<1>. QED  BY <1>2, <1>3, <1>4

LEMMA FlowStep == Flow /\ [Next]_vars => Flow'
<1> SUFFICES ASSUME Flow, [Next]_vars PROVE Flow'
  OBVIOUS
<1>0. Len(input.windows) \in Nat
  BY InputFacts
<1>1. CASE EndWindow
  BY <1>0, <1>1 DEF Flow, EndWindow
<1>2. CASE Finish
  BY <1>2 DEF Flow, Finish
<1>3. CASE MergeWindow
  BY <1>3 DEF Flow, MergeWindow
<1>4. CASE BeginAggregate
  BY <1>4 DEF Flow, BeginAggregate
<1>5. ASSUME NEW k \in pending, Aggregate(k) PROVE Flow'
  BY <1>5 DEF Flow, Aggregate
<1>6. CASE PrintStats
  BY <1>6 DEF Flow, PrintStats
<1>7. CASE UNCHANGED vars
  BY <1>7 DEF Flow, vars
<1>. QED  BY <1>1, <1>2, <1>3, <1>4, <1>5, <1>6, <1>7 DEF Next, Ended

LEMMA ParseFacts ==
  ASSUME NEW lines, AreLines(lines), NEW k \in DOMAIN Parse(lines).values
  PROVE  Parse(lines).values[k] \in Int
<1>1. Parse(lines).values = Collect(lines, "value")
  BY DEF Parse
<1>. QED  BY <1>1, CollectFacts

LEMMA SampledStep == Flow /\ Sampled /\ [Next]_vars => Sampled'
<1> SUFFICES ASSUME Flow, Sampled, [Next]_vars PROVE Sampled'
  OBVIOUS
<1>. DEFINE n == Len(snapshots)
<1>1. CASE EndWindow /\ Baseline
  <2>1. UNCHANGED <<input, pc, snapshots, deltas, memory>> /\ at' = 2 /\ pc = "measure"
        /\ prevSnap' = First /\ snapshots = <<>>
    BY <1>1 DEF EndWindow, Baseline, First, Sampled, printed
  <2>2. Len(snapshots) = 0
    BY <2>1
  <2>3. Parsed' = Parsed /\ Deltas' = Deltas /\ First' = First
    BY <2>1 DEF Parsed, Deltas, First
  <2>. QED  BY <2>1, <2>2, <2>3 DEF Sampled, Before
<1>2. CASE EndWindow /\ Scrape /\ input.scrapes[at].ok
  <2>. DEFINE snap == Parse(input.scrapes[at].lines)
              d    == Delta(prevSnap, snap)
              P    == Parsed
              D    == Deltas
  <2>1. UNCHANGED <<input, pc, memory>> /\ at' = at + 1 /\ pc = "measure" /\ at > 1 /\ at \in Nat
    BY <1>2 DEF EndWindow, Scrape, printed, Flow
  <2>2. deltas' = Append(deltas, d) /\ snapshots' = Append(snapshots, snap) /\ prevSnap' = snap
    BY <1>2 DEF Scrape
  <2>3. snap \in P /\ First \in P
    <3>1. at \in DOMAIN input.scrapes /\ 1 \in DOMAIN input.scrapes
      BY <1>2, <2>1, InputFacts DEF EndWindow
    <3>. QED  BY <3>1 DEF Parsed, First
  <2>4. snapshots \in Seq(P) /\ deltas \in Seq(D) /\ n \in Nat /\ Len(deltas) = n
    BY DEF Sampled
  <2>5. prevSnap = Before(n + 1) /\ Before(n + 1) \in P
    <3>1. prevSnap = Before(n + 1)
      BY <2>1 DEF Sampled
    <3>2. n # 0 => snapshots[n] \in P
      <4>. HIDE DEF P
      <4>. QED  BY <2>4
    <3>. QED  BY <2>3, <2>4, <3>1, <3>2 DEF Before
  <2>6. d \in D
    BY <2>3, <2>5 DEF Deltas
  <2>7. Parsed' = P /\ Deltas' = D /\ First' = First
    BY <2>1 DEF Parsed, Deltas, First
  <2>. HIDE DEF snap, d, P, D
  <2>8. snapshots' \in Seq(P) /\ deltas' \in Seq(D) /\ Len(snapshots') = n + 1 /\ Len(deltas') = n + 1
    BY <2>2, <2>3, <2>4, <2>6
  <2>9. /\ snapshots'[n + 1] = snap /\ deltas'[n + 1] = d
        /\ \A i \in 1 .. n : snapshots'[i] = snapshots[i] /\ deltas'[i] = deltas[i]
    BY <2>2, <2>3, <2>4, <2>6
  <2>10. ASSUME NEW i \in 1 .. n + 1 PROVE deltas'[i] = Delta(Before(i)', snapshots'[i])
    <3>1. Before(i)' = Before(i)
      BY <2>4, <2>7, <2>9 DEF Before
    <3>2. CASE i = n + 1
      BY <2>5, <2>9, <3>1, <3>2 DEF d
    <3>3. CASE i \in 1 .. n
      <4>1. deltas[i] = Delta(Before(i), snapshots[i])
        BY <3>3 DEF Sampled
      <4>. QED  BY <2>9, <3>1, <3>3, <4>1
    <3>. QED  BY <2>4, <3>2, <3>3
  <2>11. (prevSnap = Before(Len(snapshots) + 1))'
    BY <2>2, <2>4, <2>8, <2>9 DEF Before
  <2>12. ~(pc' = "measure" /\ at' = 1) /\ pc' # "done"
    BY <2>1
  <2>. QED  BY <2>4, <2>7, <2>8, <2>10, <2>11, <2>12 DEF Sampled, P, D
<1>3. CASE EndWindow /\ Scrape /\ ~input.scrapes[at].ok
  <2>1. UNCHANGED <<input, pc, memory, snapshots, deltas, prevSnap>> /\ at' = at + 1 /\ pc = "measure"
        /\ at > 1 /\ at \in Nat
    BY <1>3 DEF EndWindow, Scrape, printed, scraped, Flow
  <2>2. Parsed' = Parsed /\ Deltas' = Deltas /\ First' = First
    BY <2>1 DEF Parsed, Deltas, First
  <2>. QED  BY <2>1, <2>2 DEF Sampled, Before
<1>4. CASE PrintStats
  <2>1. UNCHANGED <<input, at, snapshots, deltas, prevSnap>> /\ pc = "aggregate" /\ pc' = "done"
        /\ memory' = Figures
    BY <1>4 DEF PrintStats, scraped, Figures
  <2>2. Parsed' = Parsed /\ Deltas' = Deltas /\ First' = First /\ Figures' = Figures
    BY <2>1 DEF Parsed, Deltas, First, Figures
  <2>. QED  BY <2>1, <2>2 DEF Sampled, Before
<1>5. CASE Finish
  <2>1. UNCHANGED <<input, snapshots, deltas, prevSnap>> /\ pc = "measure" /\ at # 1 /\ pc' = "merge"
    BY <1>5, InputFacts DEF Finish, scraped
  <2>2. Parsed' = Parsed /\ Deltas' = Deltas /\ First' = First
    BY <2>1 DEF Parsed, Deltas, First
  <2>. QED  BY <2>1, <2>2 DEF Sampled, Before
<1>6. CASE MergeWindow \/ BeginAggregate \/ (\E k \in pending : Aggregate(k))
  <2>1. UNCHANGED <<input, snapshots, deltas, prevSnap>> /\ pc # "measure" /\ pc' # "measure" /\ pc' # "done"
    BY <1>6 DEF MergeWindow, BeginAggregate, Aggregate, scraped
  <2>2. Parsed' = Parsed /\ Deltas' = Deltas /\ First' = First
    BY <2>1 DEF Parsed, Deltas, First
  <2>. QED  BY <2>1, <2>2 DEF Sampled, Before
<1>7. CASE UNCHANGED vars
  BY <1>7 DEF Sampled, Before, Parsed, Deltas, First, Figures, vars
<1>. QED  BY <1>1, <1>2, <1>3, <1>4, <1>5, <1>6, <1>7 DEF Next, Ended, EndWindow

\* The sum of the differences of a sequence of values.
LEMMA Differences ==
  ASSUME NEW n \in Nat \ {0}, NEW b \in Int, NEW v \in [1 .. n -> Int], NEW q \in Seq(Int), Len(q) = n,
         \A i \in 1 .. n : q[i] = v[i] - (IF i = 1 THEN b ELSE v[i-1])
  PROVE  Sum(q) = v[n] - b
<1>1. PICK g \in [0 .. n -> Int] : g[0] = 0 /\ Sum(q) = g[n] /\ \A i \in 1 .. n : g[i] = g[i-1] + q[i]
  BY SumLoop
<1>. DEFINE P == {i \in Nat : i + 1 <= n => g[i+1] = v[i+1] - b}
<1>2. 0 \in P
  <2>1. 1 \in 1 .. n
    OBVIOUS
  <2>2. g[1] = g[0] + q[1] /\ q[1] = v[1] - b /\ v[1] \in Int
    BY <1>1, <2>1
  <2>. QED  BY <1>1, <2>2
<1>3. ASSUME NEW i \in Nat, i \in P PROVE i + 1 \in P
  <2> SUFFICES ASSUME i + 2 <= n PROVE g[i+2] = v[i+2] - b
    OBVIOUS
  <2>1. g[i+1] = v[i+1] - b
    BY <1>3
  <2>2. i + 2 \in 1 .. n /\ i + 1 \in 1 .. n /\ (i + 2) - 1 = i + 1
    OBVIOUS
  <2>3. g[i+2] = g[i+1] + q[i+2]
    BY <1>1, <2>2
  <2>4. q[i+2] = v[i+2] - v[i+1]
    BY <2>2
  <2>5. v[i+1] \in Int /\ v[i+2] \in Int
    BY <2>2
  <2>. QED  BY <2>1, <2>3, <2>4, <2>5
<1>4. n - 1 \in P
  <2>1. Nat \subseteq P
    <3>. HIDE DEF P
    <3>. QED  BY <1>2, <1>3, SetInduction
  <2>2. n - 1 \in Nat
    OBVIOUS
  <2>. HIDE DEF P
  <2>. QED  BY <2>1, <2>2
<1>. QED  BY <1>1, <1>4

LEMMA Telescoped ==
  ASSUME Flow, Sampled, NEW k \in AllKeys(snapshots),
         \A i \in DOMAIN snapshots : k \in DOMAIN snapshots[i].values
  PROVE  At(SumDeltas(deltas), k) = snapshots[Len(snapshots)].values[k] - At(First.values, k)
<1>. DEFINE n == Len(snapshots)
            b == At(First.values, k)
            v == [i \in 1 .. n |-> snapshots[i].values[k]]
            q == [i \in DOMAIN deltas |-> At(deltas[i], k)]
<1>1. n \in Nat /\ DOMAIN snapshots = 1 .. n /\ DOMAIN deltas = 1 .. n /\ \A i \in 1 .. n : snapshots[i] \in Parsed
  <2>. DEFINE P == Parsed
              D == Deltas
  <2>1. snapshots \in Seq(P) /\ deltas \in Seq(D) /\ Len(deltas) = Len(snapshots)
    BY DEF Sampled
  <2>. HIDE DEF P, D
  <2>2. n \in Nat /\ DOMAIN snapshots = 1 .. n /\ DOMAIN deltas = 1 .. n /\ \A i \in 1 .. n : snapshots[i] \in P
    BY <2>1
  <2>. QED  BY <2>2 DEF P
<1>2. n \in Nat \ {0}
  BY <1>1 DEF AllKeys
<1>3. ASSUME NEW i \in 1 .. n
      PROVE  snapshots[i].values[k] \in Int /\ k \in DOMAIN snapshots[i].values
  <2>1. PICK j \in DOMAIN input.scrapes : snapshots[i] = Parse(input.scrapes[j].lines)
    BY <1>1 DEF Parsed
  <2>2. k \in DOMAIN snapshots[i].values
    BY <1>1
  <2>. QED  BY <2>1, <2>2, InputFacts, ParseFacts
<1>4. b \in Int
  <2>1. AreLines(input.scrapes[1].lines)
    BY InputFacts
  <2>2. k \in DOMAIN First.values => First.values[k] \in Int
    BY <2>1, ParseFacts DEF First
  <2>. QED  BY <2>2 DEF At
<1>5. v \in [1 .. n -> Int] /\ \A i \in 1 .. n : v[i] = snapshots[i].values[k]
  BY <1>3
<1>6. ASSUME NEW i \in 1 .. n
      PROVE  /\ DOMAIN deltas[i] = DOMAIN snapshots[i].values
             /\ At(deltas[i], k) = v[i] - (IF i = 1 THEN b ELSE v[i-1])
  <2>1. deltas[i] = Delta(Before(i), snapshots[i])
    BY DEF Sampled
  <2>2. DOMAIN deltas[i] = DOMAIN snapshots[i].values
    BY <2>1 DEF Delta
  <2>3. At(deltas[i], k) = v[i] - At(Before(i).values, k)
    BY <1>3, <1>5, <2>1, <2>2 DEF Delta, At
  <2>4. At(Before(i).values, k) = IF i = 1 THEN b ELSE v[i-1]
    <3>1. CASE i = 1
      BY <3>1 DEF Before
    <3>2. CASE i # 1
      <4>1. i - 1 \in 1 .. n
        BY <1>1, <3>2
      <4>2. k \in DOMAIN snapshots[i-1].values /\ v[i-1] = snapshots[i-1].values[k]
        BY <1>3, <1>5, <4>1
      <4>. QED  BY <3>2, <4>2 DEF Before, At
    <3>. QED  BY <3>1, <3>2
  <2>. QED  BY <2>2, <2>3, <2>4
<1>7. At(SumDeltas(deltas), k) = Sum(q)
  <2>. DEFINE K == UNION {DOMAIN deltas[i] : i \in DOMAIN deltas}
  <2>1. k \in K
    <3>1. 1 \in 1 .. n
      BY <1>2
    <3>2. 1 \in DOMAIN deltas /\ k \in DOMAIN deltas[1]
      BY <1>1, <1>3, <1>6, <3>1
    <3>. QED  BY <3>2
  <2>2. SumDeltas(deltas) = [l \in K |-> Sum([i \in DOMAIN deltas |-> At(deltas[i], l)])]
    BY DEF SumDeltas
  <2>. HIDE DEF K
  <2>. QED  BY <2>1, <2>2 DEF At
<1>8. q \in Seq(Int) /\ Len(q) = n /\ \A i \in 1 .. n : q[i] = v[i] - (IF i = 1 THEN b ELSE v[i-1])
  <2>1. q = [i \in 1 .. n |-> v[i] - (IF i = 1 THEN b ELSE v[i-1])]
    <3>. HIDE DEF v, b, n
    <3>. QED  BY <1>1, <1>6
  <2>2. \A i \in 1 .. n : v[i] - (IF i = 1 THEN b ELSE v[i-1]) \in Int
    <3>. HIDE DEF v, b, n
    <3>. QED  BY <1>1, <1>4, <1>5
  <2>. HIDE DEF q, v, b, n
  <2>. QED  BY <1>1, <2>1, <2>2
<1>9. Sum(q) = v[n] - b
  <2>. HIDE DEF q, v, b, n
  <2>. QED  BY <1>2, <1>4, <1>5, <1>8, Differences
<1>. QED  BY <1>1, <1>2, <1>5, <1>7, <1>9

LEMMA DeltasFollow == Flow /\ Sampled => DeltasTelescope
<1> SUFFICES ASSUME Flow, Sampled, pc = "done", NEW k \in DOMAIN memory, ~IsGauge(Types(snapshots), k),
                    \A i \in DOMAIN snapshots : k \in DOMAIN snapshots[i].values
             PROVE  memory[k] = snapshots[Len(snapshots)].values[k] - At(Parse(input.scrapes[1].lines).values, k)
  BY DEF DeltasTelescope
<1>1. memory = Figures
  BY DEF Sampled
<1>2. k \in AllKeys(snapshots) /\ memory[k] = At(SumDeltas(deltas), k)
  BY <1>1 DEF Figures
<1>. QED  BY <1>2, Telescoped DEF First

-----------------------------------------------------------------------------
\* Sorting.

AtMost(q, t) == {i \in DOMAIN q : q[i] <= t}
Under(q, t)  == {i \in DOMAIN q : q[i] < t}

LEMMA Counts ==
  ASSUME NEW n \in Nat, NEW B, B \subseteq 1 .. n, NEW A, A \subseteq B
  PROVE  /\ Cardinality(A) \in Nat /\ Cardinality(B) \in Nat
         /\ Cardinality(A) <= Cardinality(B) /\ Cardinality(B) <= n
         /\ Cardinality(A) = Cardinality(B) => A = B
<1>1. IsFiniteSet(1 .. n) /\ Cardinality(1 .. n) = n
  BY FS_Interval
<1>2. B \in SUBSET (1 .. n) /\ A \in SUBSET B
  OBVIOUS
<1>3. IsFiniteSet(B) /\ Cardinality(B) <= n
  BY <1>1, <1>2, FS_Subset
<1>4. IsFiniteSet(A) /\ Cardinality(A) <= Cardinality(B) /\ (Cardinality(B) = Cardinality(A) => B = A)
  BY <1>2, <1>3, FS_Subset
<1>. QED  BY <1>3, <1>4, FS_CardinalityType

LEMMA TimesBounded ==
  ASSUME NEW q \in Seq(Nat)
  PROVE  \E m \in Nat : \A i \in 1 .. Len(q) : q[i] <= m
<1>. DEFINE n == Len(q)
            P == {j \in Nat : j <= n => \E m \in Nat : \A i \in 1 .. j : q[i] <= m}
<1>1. n \in Nat /\ \A i \in 1 .. n : q[i] \in Nat
  OBVIOUS
<1>2. 0 \in P
  OBVIOUS
<1>3. ASSUME NEW j \in Nat, j \in P PROVE j + 1 \in P
  <2> SUFFICES ASSUME j + 1 <= n PROVE \E m \in Nat : \A i \in 1 .. j + 1 : q[i] <= m
    OBVIOUS
  <2>1. PICK m \in Nat : \A i \in 1 .. j : q[i] <= m
    BY <1>1, <1>3
  <2>2. q[j+1] \in Nat
    BY <1>1
  <2>3. PICK l \in Nat : m <= l /\ q[j+1] <= l
    <3>1. CASE m <= q[j+1]
      BY <2>2, <3>1
    <3>2. CASE q[j+1] <= m
      BY <2>2, <3>2
    <3>. QED  BY <2>2, <3>1, <3>2
  <2>4. \A i \in 1 .. j + 1 : q[i] <= l
    <3>1. ASSUME NEW i \in 1 .. j + 1 PROVE q[i] <= l
      <4>1. q[i] \in Nat
        BY <1>1
      <4>2. CASE i \in 1 .. j
        BY <2>1, <2>3, <4>1, <4>2
      <4>3. CASE i = j + 1
        BY <2>3, <4>3
      <4>. QED  BY <4>2, <4>3
    <3>. QED  BY <3>1
  <2>. QED  BY <2>4
<1>4. n \in P
  <2>. HIDE DEF P, n
  <2>. QED  BY <1>1, <1>2, <1>3, SetInduction
<1>. HIDE DEF n
<1>5. \E m \in Nat : \A i \in 1 .. n : q[i] <= m
  BY <1>1, <1>4
<1>. QED  BY <1>5 DEF n

\* The k-th time is one of them.
LEMMA SortedFacts ==
  ASSUME NEW q \in Seq(Nat), NEW k \in 1 .. Len(q)
  PROVE  /\ Sorted(q, k) \in Nat /\ \E i \in 1 .. Len(q) : q[i] = Sorted(q, k)
         /\ Cardinality(Under(q, Sorted(q, k))) < k /\ k <= Cardinality(AtMost(q, Sorted(q, k)))
<1>. DEFINE n == Len(q)
            T == {t \in Nat : k <= Cardinality(AtMost(q, t))}
            V == {q[i] : i \in DOMAIN q}
            Is(t) == Cardinality(Under(q, t)) < k /\ k <= Cardinality(AtMost(q, t))
<1>1. n \in Nat /\ DOMAIN q = 1 .. n /\ \A i \in 1 .. n : q[i] \in Nat
  OBVIOUS
<1>2. \A t : AtMost(q, t) \subseteq 1 .. n /\ Under(q, t) \subseteq 1 .. n
  BY <1>1 DEF AtMost, Under
<1>3. \A t : Cardinality(AtMost(q, t)) \in Nat /\ Cardinality(Under(q, t)) \in Nat
  BY <1>1, <1>2, Counts
<1>4. T \subseteq Nat /\ T # {}
  <2>1. PICK m \in Nat : \A i \in 1 .. n : q[i] <= m
    BY TimesBounded
  <2>2. AtMost(q, m) = 1 .. n
    BY <1>1, <2>1 DEF AtMost
  <2>3. Cardinality(AtMost(q, m)) = n
    <3>1. Cardinality(1 .. n) = n
      <4>. HIDE DEF n
      <4>. QED  BY <1>1, FS_Interval
    <3>. QED  BY <2>2, <3>1
  <2>4. k <= n
    BY <1>1
  <2>. QED  BY <2>1, <2>3, <2>4
<1>5. PICK t \in T : \A u \in T : t <= u
  <2>. HIDE DEF T
  <2>. QED  BY <1>4, LeastNatural
<1>6. t \in Nat /\ k <= Cardinality(AtMost(q, t))
  BY <1>5
<1>7. Cardinality(Under(q, t)) < k
  <2>1. CASE t = 0
    <3>1. Under(q, t) = {}
      BY <1>1, <2>1 DEF Under
    <3>. QED  BY <1>1, <3>1, FS_EmptySet
  <2>2. CASE t # 0
    <3>1. t - 1 \in Nat /\ ~(t <= t - 1)
      BY <1>6, <2>2
    <3>2. ~(k <= Cardinality(AtMost(q, t - 1)))
      BY <1>5, <3>1
    <3>3. Under(q, t) = AtMost(q, t - 1)
      BY <1>1, <1>6 DEF Under, AtMost
    <3>4. Cardinality(Under(q, t)) \in Nat /\ k \in Nat
      BY <1>1, <1>3
    <3>. QED  BY <3>2, <3>3, <3>4
  <2>. QED  BY <2>1, <2>2
<1>8. t \in V
  <2>1. Cardinality(Under(q, t)) # Cardinality(AtMost(q, t))
    BY <1>1, <1>3, <1>6, <1>7
  <2>2. Under(q, t) \subseteq AtMost(q, t)
    BY <1>1, <1>6 DEF Under, AtMost
  <2>3. PICK i : i \in AtMost(q, t) /\ i \notin Under(q, t)
    BY <2>1, <2>2
  <2>4. i \in DOMAIN q /\ q[i] <= t /\ ~(q[i] < t) /\ q[i] \in Nat
    BY <1>1, <2>3 DEF Under, AtMost
  <2>. QED  BY <1>6, <2>4
<1>9. Sorted(q, k) = CHOOSE s \in V : Is(s)
  BY DEF Sorted, Under, AtMost
<1>10. Sorted(q, k) \in V /\ Is(Sorted(q, k))
  <2>. HIDE DEF V, Is
  <2>1. \E s \in V : Is(s)
    BY <1>6, <1>7, <1>8 DEF Is
  <2>. QED  BY <1>9, <2>1
<1>. QED  BY <1>1, <1>10

LEMMA SortedMonotone ==
  ASSUME NEW q \in Seq(Nat), NEW k \in 1 .. Len(q), NEW l \in 1 .. Len(q), k <= l
  PROVE  Sorted(q, k) <= Sorted(q, l)
<1>. DEFINE n == Len(q)
            s == Sorted(q, k)
            t == Sorted(q, l)
<1>1. n \in Nat /\ DOMAIN q = 1 .. n /\ \A i \in 1 .. n : q[i] \in Nat
  OBVIOUS
<1>2. s \in Nat /\ t \in Nat /\ Cardinality(Under(q, s)) < k /\ l <= Cardinality(AtMost(q, t))
  BY SortedFacts
<1>. HIDE DEF s, t
<1> SUFFICES ASSUME t < s PROVE FALSE
  BY <1>2 DEF s, t
<1>3. AtMost(q, t) \subseteq Under(q, s) /\ Under(q, s) \subseteq 1 .. n
  BY <1>1, <1>2 DEF AtMost, Under
<1>4. /\ Cardinality(AtMost(q, t)) \in Nat /\ Cardinality(Under(q, s)) \in Nat
      /\ Cardinality(AtMost(q, t)) <= Cardinality(Under(q, s))
  BY <1>1, <1>3, Counts
<1>. QED  BY <1>1, <1>2, <1>4

LEMMA RankFacts ==
  ASSUME NEW n \in Nat \ {0}
  PROVE  /\ Rank(n, 50) \in 1 .. n /\ 2 * Rank(n, 50) >= n /\ 2 * (Rank(n, 50) - 1) <= n
         /\ Rank(n, 99) \in 1 .. n /\ 100 * Rank(n, 99) >= 99 * n /\ Rank(n, 50) <= Rank(n, 99)
<1>1. Rank(n, 50) = 1 + (n * 50) \div 100 /\ Rank(n, 99) = 1 + (n * 99) \div 100
  BY DEF Rank
<1>. DEFINE a == (n * 50) \div 100
            b == (n * 99) \div 100
<1>2. a \in Nat /\ 100 * a <= 50 * n /\ 50 * n < 100 * a + 100
  OBVIOUS
<1>3. b \in Nat /\ 100 * b <= 99 * n /\ 99 * n < 100 * b + 100
  OBVIOUS
<1>. HIDE DEF a, b
<1>4. Rank(n, 50) = 1 + a /\ Rank(n, 99) = 1 + b
  BY <1>1 DEF a, b
<1>. QED  BY <1>2, <1>3, <1>4

\* The percentiles of a sequence of times are in rank.
LEMMA Ranked ==
  ASSUME NEW q \in Seq(Nat), NEW s, q # <<>> => s.p50 = Sorted(q, Rank(Len(q), 50)) /\ s.p99 = Sorted(q, Rank(Len(q), 99))
  PROVE  IsRanked(s, q)
<1> SUFFICES ASSUME q # <<>> PROVE IsRanked(s, q)
  BY DEF IsRanked
<1>. DEFINE n == Len(q)
            k == Rank(n, 50)
            l == Rank(n, 99)
<1>1. n \in Nat /\ DOMAIN q = 1 .. n /\ \A i \in 1 .. n : q[i] \in Nat
  OBVIOUS
<1>2. n \in Nat \ {0}
  OBVIOUS
<1>3. k \in 1 .. n /\ 2 * k >= n /\ 2 * (k - 1) <= n /\ l \in 1 .. n /\ 100 * l >= 99 * n
  BY <1>2, RankFacts
<1>4. s.p50 = Sorted(q, k) /\ s.p99 = Sorted(q, l)
  OBVIOUS
<1>. HIDE DEF k, l
<1>5. /\ s.p50 \in Nat /\ Cardinality(Under(q, s.p50)) < k /\ k <= Cardinality(AtMost(q, s.p50))
      /\ s.p99 \in Nat /\ l <= Cardinality(AtMost(q, s.p99))
  BY <1>3, <1>4, SortedFacts
<1>. DEFINE A == {i \in 1 .. n : q[i] <= s.p50}
            B == {i \in 1 .. n : q[i] >= s.p50}
            C == {i \in 1 .. n : q[i] <= s.p99}
            D == Under(q, s.p50)
<1>6. A = AtMost(q, s.p50) /\ C = AtMost(q, s.p99) /\ B = (1 .. n) \ D /\ D \subseteq 1 .. n
  BY <1>1, <1>5 DEF AtMost, Under
<1>7. Cardinality(A) \in Nat /\ Cardinality(C) \in Nat /\ Cardinality(D) \in Nat
  <2>1. A \subseteq 1 .. n /\ C \subseteq 1 .. n /\ D \subseteq 1 .. n
    BY <1>1, <1>6
  <2>. HIDE DEF n, A, C, D
  <2>. QED  BY <1>1, <2>1, Counts
<1>8. Cardinality(B) = n - Cardinality(D)
  <2>. HIDE DEF n, A, C
  <2>1. IsFiniteSet(1 .. n) /\ Cardinality(1 .. n) = n
    BY <1>1, FS_Interval
  <2>2. Cardinality((1 .. n) \ D) = Cardinality(1 .. n) - Cardinality((1 .. n) \cap D)
    BY <2>1, FS_Difference
  <2>3. (1 .. n) \cap D = D
    BY <1>6
  <2>. HIDE DEF B, D
  <2>. QED  BY <1>6, <2>1, <2>2, <2>3
<1>9. 2 * Cardinality(A) >= n /\ 100 * Cardinality(C) >= 99 * n
  <2>. HIDE DEF A, B, C, D, n
  <2>1. k <= Cardinality(A) /\ l <= Cardinality(C) /\ k \in Nat /\ l \in Nat
    BY <1>1, <1>3, <1>5, <1>6
  <2>. QED  BY <1>1, <1>3, <1>7, <2>1
<1>10. 2 * Cardinality(B) >= n
  <2>1. Cardinality(D) < k
    BY <1>5
  <2>. HIDE DEF A, B, C, D, n
  <2>2. k \in Nat
    BY <1>1, <1>3
  <2>. QED  BY <1>1, <1>3, <1>7, <1>8, <2>1, <2>2
<1>. QED  BY <1>9, <1>10 DEF IsRanked

LEMMA TimesType ==
  ASSUME NEW calls \in Seq(Call), NEW reqs
  PROVE  Times(calls, reqs) \in Seq(Nat)
<1>1. PICK g \in [0 .. Len(calls) -> Seq(Nat)] : Times(calls, reqs) = g[Len(calls)]
  BY TimesLoop
<1>2. Len(calls) \in Nat
  BY CallsFacts
<1>. QED  BY <1>1, <1>2

LEMMA StatsFacts ==
  ASSUME NEW q \in Seq(Nat), q # <<>>
  PROVE  LET n == Len(q)
         IN  /\ n \in Nat \ {0}
             /\ ComputeCallStats(q) =
                  [count |-> n, min |-> Sorted(q, 1), max |-> Sorted(q, n), mean |-> Sum(q) \div n,
                   p50 |-> Sorted(q, Rank(n, 50)), p99 |-> Sorted(q, Rank(n, 99))]
<1>1. Len(q) \in Nat \ {0}
  OBVIOUS
<1>. QED  BY <1>1 DEF ComputeCallStats

Summaries == {CallWindow(input.windows[w]) : w \in DOMAIN input.windows}

\* Every breakdown is that of its window.
Windowed ==
  /\ breakdowns \in Seq(Summaries)
  /\ Len(breakdowns) = IF pc = "measure" THEN at - 1 ELSE Len(input.windows)
  /\ \A w \in 1 .. Len(breakdowns) : breakdowns[w] = CallWindow(input.windows[w])
  /\ pc # "measure" => steady = ComputeStats(Tail(input.times))

LEMMA WindowedStep == Flow /\ Windowed /\ [Next]_vars => Windowed'
<1> SUFFICES ASSUME Flow, Windowed, [Next]_vars PROVE Windowed'
  OBVIOUS
<1>1. CASE EndWindow
  <2>. DEFINE S == Summaries
              c == CallWindow(input.windows[at])
              n == Len(breakdowns)
  <2>1. /\ UNCHANGED <<input, pc, steady>> /\ pc = "measure" /\ at' = at + 1 /\ breakdowns' = Append(breakdowns, c)
        /\ at \in 1 .. Len(input.windows)
    BY <1>1, InputFacts DEF EndWindow, Flow
  <2>2. S' = S /\ c \in S
    BY <2>1, InputFacts DEF Summaries
  <2>3. breakdowns \in Seq(S) /\ n = at - 1 /\ \A w \in 1 .. n : breakdowns[w] = CallWindow(input.windows[w])
    BY <2>1 DEF Windowed
  <2>. HIDE DEF S, c
  <2>4. breakdowns' \in Seq(S) /\ Len(breakdowns') = n + 1 /\ breakdowns'[n+1] = c
        /\ \A w \in 1 .. n : breakdowns'[w] = breakdowns[w]
    BY <2>1, <2>2, <2>3
  <2>5. n + 1 = at /\ at \in Nat
    BY <2>1, <2>3, InputFacts
  <2>6. ASSUME NEW w \in 1 .. at PROVE breakdowns'[w] = CallWindow(input.windows[w])
    <3>1. CASE w = at
      BY <2>4, <2>5, <3>1 DEF c
    <3>2. CASE w \in 1 .. n
      BY <2>3, <2>4, <3>2
    <3>. QED  BY <2>5, <3>1, <3>2
  <2>7. Len(breakdowns') = at /\ at' - 1 = at
    BY <2>1, <2>4, <2>5
  <2>. QED  BY <2>1, <2>2, <2>4, <2>6, <2>7 DEF Windowed, S
<1>2. CASE Finish
  <2>1. /\ UNCHANGED <<input, breakdowns>> /\ pc = "measure" /\ pc' = "merge" /\ at > Len(input.windows)
        /\ steady' = ComputeStats(Tail(input.times))
    BY <1>2 DEF Finish
  <2>2. at - 1 = Len(input.windows)
    BY <2>1, InputFacts DEF Flow
  <2>3. Summaries' = Summaries
    BY <2>1 DEF Summaries
  <2>. QED  BY <2>1, <2>2, <2>3 DEF Windowed
<1>3. CASE MergeWindow \/ BeginAggregate \/ (\E k \in pending : Aggregate(k)) \/ PrintStats
  <2>1. UNCHANGED <<input, breakdowns, steady>> /\ pc # "measure" /\ pc' # "measure"
    BY <1>3 DEF MergeWindow, BeginAggregate, Aggregate, PrintStats
  <2>2. Summaries' = Summaries
    BY <2>1 DEF Summaries
  <2>. QED  BY <2>1, <2>2 DEF Windowed
<1>4. CASE UNCHANGED vars
  BY <1>4 DEF Windowed, Summaries, vars
<1>. QED  BY <1>1, <1>2, <1>3, <1>4 DEF Next, Ended

LEMMA WindowCalls ==
  ASSUME Flow, NEW w \in 1 .. Len(input.windows)
  PROVE  input.windows[w] \in Seq(Call)
<1>. DEFINE S == Seq(Call)
            v == input.windows
<1>1. v \in Seq(S)
  BY InputFacts
<1>. HIDE DEF S, v
<1>2. w \in 1 .. Len(v) => v[w] \in S
  BY <1>1
<1>. QED  BY <1>2 DEF S, v

LEMMA PercentilesFollow == Flow /\ Windowed => Percentiles
<1> SUFFICES ASSUME Flow, Windowed PROVE Percentiles
  OBVIOUS
<1>1. ASSUME pc # "measure" PROVE IsRanked(steady, Tail(input.times))
  <2>. DEFINE t == input.times
              q == Tail(t)
  <2>1. q \in Seq(Nat)
    <3>1. t \in Seq(Nat) /\ t # <<>>
      BY InputFacts
    <3>. HIDE DEF t
    <3>. QED  BY <3>1
  <2>2. steady = ComputeStats(q)
    BY <1>1 DEF Windowed
  <2>. HIDE DEF q
  <2>3. ASSUME q # <<>> PROVE steady.p50 = Sorted(q, Rank(Len(q), 50)) /\ steady.p99 = Sorted(q, Rank(Len(q), 99))
    BY <2>1, <2>2, <2>3, StatsFacts DEF ComputeStats
  <2>4. IsRanked(steady, q)
    BY <2>1, <2>3, Ranked
  <2>. QED  BY <2>4 DEF q
<1>2. ASSUME NEW w \in DOMAIN breakdowns, NEW k \in DOMAIN breakdowns[w]
      PROVE  IsRanked(breakdowns[w][k], Times(input.windows[w], WithKey(Requests(input.windows[w]), k)))
  <2>. DEFINE q == Times(input.windows[w], WithKey(Requests(input.windows[w]), k))
  <2>1. w \in 1 .. Len(breakdowns) /\ w \in 1 .. Len(input.windows)
    <3>. DEFINE S == Summaries
    <3>1. breakdowns \in Seq(S)
      BY DEF Windowed
    <3>. HIDE DEF S
    <3>2. Len(breakdowns) \in Nat /\ DOMAIN breakdowns = 1 .. Len(breakdowns)
      BY <3>1
    <3>3. Len(breakdowns) <= Len(input.windows)
      BY InputFacts DEF Windowed, Flow
    <3>. QED  BY <3>2, <3>3, InputFacts
  <2>2. breakdowns[w] = CallWindow(input.windows[w])
    BY <2>1 DEF Windowed
  <2>3. breakdowns[w][k] = ComputeCallStats(q)
    BY <2>2 DEF CallWindow
  <2>4. q \in Seq(Nat)
    BY <2>1, WindowCalls, TimesType
  <2>. HIDE DEF q
  <2>. DEFINE s == breakdowns[w][k]
  <2>5. ASSUME q # <<>> PROVE s.p50 = Sorted(q, Rank(Len(q), 50)) /\ s.p99 = Sorted(q, Rank(Len(q), 99))
    BY <2>3, <2>4, <2>5, StatsFacts
  <2>. HIDE DEF s
  <2>6. IsRanked(s, q)
    BY <2>4, <2>5, Ranked
  <2>. QED  BY <2>6 DEF q, s
<1>. QED  BY <1>1, <1>2 DEF Percentiles

-----------------------------------------------------------------------------
\* Sums, and sequences that two others make up.

Vals(q) == {q[i] : i \in 1 .. Len(q)}

\* q has the times of a and of b, in some order.
Combined(q, a, b) == Len(q) = Len(a) + Len(b) /\ Sum(q) = Sum(a) + Sum(b) /\ Vals(q) = Vals(a) \cup Vals(b)

LEMMA NatSum ==
  ASSUME NEW q \in Seq(Nat)
  PROVE  \E g \in [0 .. Len(q) -> Nat] :
           /\ g[0] = 0 /\ Sum(q) = g[Len(q)]
           /\ \A i \in 1 .. Len(q) : g[i] = g[i-1] + q[i]
<1>. DEFINE n == Len(q)
<1>1. n \in Nat /\ q \in Seq(Int) /\ \A i \in 1 .. n : q[i] \in Nat
  OBVIOUS
<1>2. PICK g \in [0 .. n -> Int] : g[0] = 0 /\ Sum(q) = g[n] /\ \A i \in 1 .. n : g[i] = g[i-1] + q[i]
  BY <1>1, SumLoop
<1>. DEFINE S == Nat
<1>3. g[0] \in S /\ \A i \in 1 .. n : g[i-1] \in S => g[i] \in S
  <2>1. ASSUME NEW i \in 1 .. n, g[i-1] \in Nat PROVE g[i] \in Nat
    <3>1. q[i] \in Nat /\ g[i] = g[i-1] + q[i]
      BY <1>1, <1>2
    <3>. QED  BY <2>1, <3>1
  <2>. QED  BY <1>2, <2>1
<1>4. \A i \in 0 .. n : g[i] \in S
  <2>. HIDE DEF n, S
  <2>. QED  BY <1>1, <1>3, LoopType
<1>5. g \in [0 .. n -> Nat]
  <2>1. DOMAIN g = 0 .. n /\ g = [i \in 0 .. n |-> g[i]]
    BY <1>2
  <2>. QED  BY <1>4, <2>1
<1>. QED  BY <1>2, <1>5

LEMMA SumEmpty == Sum(<<>>) = 0
<1>1. <<>> \in Seq(Nat) /\ Len(<<>>) = 0
  OBVIOUS
<1>. QED  BY <1>1, NatSum

LEMMA SumType ==
  ASSUME NEW q \in Seq(Nat)
  PROVE  Sum(q) \in Nat
<1>1. Len(q) \in Nat
  OBVIOUS
<1>. QED  BY <1>1, NatSum

LEMMA SumAppend ==
  ASSUME NEW q \in Seq(Nat), NEW x \in Nat
  PROVE  Sum(Append(q, x)) = Sum(q) + x
<1>. DEFINE n == Len(q)
            r == Append(q, x)
<1>1. /\ n \in Nat /\ r \in Seq(Nat) /\ Len(r) = n + 1 /\ r[n+1] = x
      /\ \A i \in 1 .. n : r[i] = q[i] /\ q[i] \in Nat
  OBVIOUS
<1>2. PICK g \in [0 .. n -> Nat] : g[0] = 0 /\ Sum(q) = g[n] /\ \A i \in 1 .. n : g[i] = g[i-1] + q[i]
  BY NatSum
<1>3. PICK h \in [0 .. n + 1 -> Nat] :
        h[0] = 0 /\ Sum(r) = h[n+1] /\ \A i \in 1 .. n + 1 : h[i] = h[i-1] + r[i]
  <2>. HIDE DEF n, r
  <2>1. PICK h \in [0 .. Len(r) -> Nat] :
          h[0] = 0 /\ Sum(r) = h[Len(r)] /\ \A i \in 1 .. Len(r) : h[i] = h[i-1] + r[i]
    BY <1>1, NatSum
  <2>. QED  BY <1>1, <2>1
<1>. DEFINE P == {i \in Nat : i <= n => h[i] = g[i]}
<1>4. 0 \in P
  BY <1>2, <1>3
<1>5. ASSUME NEW i \in Nat, i \in P PROVE i + 1 \in P
  <2> SUFFICES ASSUME i + 1 <= n PROVE h[i+1] = g[i+1]
    OBVIOUS
  <2>1. i + 1 \in 1 .. n /\ i + 1 \in 1 .. n + 1 /\ (i + 1) - 1 = i
    BY <1>1
  <2>2. h[i] = g[i]
    BY <1>5, <2>1
  <2>3. h[i+1] = h[i] + r[i+1] /\ g[i+1] = g[i] + q[i+1] /\ r[i+1] = q[i+1]
    BY <1>1, <1>2, <1>3, <2>1
  <2>. QED  BY <2>2, <2>3
<1>6. n \in P
  <2>. HIDE DEF P, n
  <2>. QED  BY <1>1, <1>4, <1>5, SetInduction
<1>7. h[n] = g[n]
  <2>. HIDE DEF n
  <2>. QED  BY <1>1, <1>6
<1>8. h[n+1] = h[n] + x
  <2>1. n + 1 \in 1 .. n + 1 /\ (n + 1) - 1 = n
    BY <1>1
  <2>. QED  BY <1>1, <1>3, <2>1
<1>. QED  BY <1>2, <1>3, <1>7, <1>8

LEMMA CombinedEmpty ==
  ASSUME NEW q \in Seq(Nat)
  PROVE  Combined(q, q, <<>>) /\ Combined(q, <<>>, q)
<1>1. Vals(<<>>) = {} /\ Len(<<>>) = 0 /\ Len(q) \in Nat
  BY DEF Vals
<1>. QED  BY <1>1, SumEmpty, SumType DEF Combined

LEMMA CombinedAppend ==
  ASSUME NEW q \in Seq(Nat), NEW a \in Seq(Nat), NEW b \in Seq(Nat), Combined(q, a, b), NEW x \in Nat
  PROVE  Combined(Append(q, x), Append(a, x), b) /\ Combined(Append(q, x), a, Append(b, x))
<1>1. \A r \in Seq(Nat) : Len(Append(r, x)) = Len(r) + 1 /\ Len(r) \in Nat /\ Sum(r) \in Nat
  BY SumType
<1>2. \A r \in Seq(Nat) : Sum(Append(r, x)) = Sum(r) + x
  BY SumAppend
<1>3. ASSUME NEW r \in Seq(Nat) PROVE Vals(Append(r, x)) = Vals(r) \cup {x}
  <2>. DEFINE n == Len(r)
              s == Append(r, x)
  <2>1. n \in Nat /\ Len(s) = n + 1 /\ s[n+1] = x /\ \A i \in 1 .. n : s[i] = r[i]
    OBVIOUS
  <2>. HIDE DEF s
  <2>2. Vals(s) \subseteq Vals(r) \cup {x}
    <3>1. ASSUME NEW i \in 1 .. n + 1 PROVE s[i] \in Vals(r) \cup {x}
      <4>1. i = n + 1 \/ i \in 1 .. n
        BY <2>1
      <4>2. i \in 1 .. n => s[i] \in Vals(r)
        BY <2>1 DEF Vals
      <4>. QED  BY <2>1, <4>1, <4>2
    <3>. QED  BY <2>1, <3>1 DEF Vals
  <2>3. Vals(r) \cup {x} \subseteq Vals(s)
    <3>1. \A i \in 1 .. n : r[i] \in Vals(s)
      BY <2>1 DEF Vals
    <3>2. x \in Vals(s)
      <4>1. n + 1 \in 1 .. Len(s)
        BY <2>1
      <4>. QED  BY <2>1, <4>1 DEF Vals
    <3>. QED  BY <3>1, <3>2 DEF Vals
  <2>. QED  BY <2>2, <2>3 DEF s
<1>4. Len(q) = Len(a) + Len(b) /\ Sum(q) = Sum(a) + Sum(b) /\ Vals(q) = Vals(a) \cup Vals(b)
  BY DEF Combined
<1>5. Vals(Append(q, x)) = Vals(Append(a, x)) \cup Vals(b) /\ Vals(Append(q, x)) = Vals(a) \cup Vals(Append(b, x))
  BY <1>3, <1>4
<1>6. /\ Len(Append(q, x)) = Len(Append(a, x)) + Len(b) /\ Len(Append(q, x)) = Len(a) + Len(Append(b, x))
      /\ Sum(Append(q, x)) = Sum(Append(a, x)) + Sum(b) /\ Sum(Append(q, x)) = Sum(a) + Sum(Append(b, x))
  <2>1. /\ Len(Append(q, x)) = Len(q) + 1 /\ Len(Append(a, x)) = Len(a) + 1 /\ Len(Append(b, x)) = Len(b) + 1
        /\ Sum(Append(q, x)) = Sum(q) + x /\ Sum(Append(a, x)) = Sum(a) + x /\ Sum(Append(b, x)) = Sum(b) + x
    BY <1>1, <1>2
  <2>2. Len(a) \in Nat /\ Len(b) \in Nat /\ Sum(a) \in Nat /\ Sum(b) \in Nat
    BY <1>1
  <2>. DEFINE lq == Len(Append(q, x))  la == Len(Append(a, x))  lb == Len(Append(b, x))
              sq == Sum(Append(q, x))  sa == Sum(Append(a, x))  sb == Sum(Append(b, x))
              ma == Len(a)  mb == Len(b)
  <2>3. lq = ma + mb + 1 /\ la = ma + 1 /\ lb = mb + 1 /\ ma \in Nat /\ mb \in Nat
        /\ sq = Sum(a) + Sum(b) + x /\ sa = Sum(a) + x /\ sb = Sum(b) + x
    BY <1>4, <2>1, <2>2
  <2>. HIDE DEF lq, la, lb, sq, sa, sb, ma, mb
  <2>4. lq = la + mb /\ lq = ma + lb /\ sq = sa + Sum(b) /\ sq = Sum(a) + sb
    BY <2>2, <2>3
  <2>. QED  BY <2>4 DEF lq, la, lb, sq, sa, sb, ma, mb
<1>. QED  BY <1>5, <1>6 DEF Combined

\* The times of the calls for the requests of two sets that have none in common.
LEMMA TimesSplit ==
  ASSUME NEW calls \in Seq(Call), NEW A, NEW B, A \cap B = {}
  PROVE  Combined(Times(calls, A \cup B), Times(calls, A), Times(calls, B))
<1>. DEFINE n == Len(calls)
            R == A \cup B
<1>1. n \in Nat /\ \A i \in 1 .. n : calls[i].time \in Nat
  BY CallsFacts
<1>2. PICK g \in [0 .. n -> Seq(Nat)] :
        g[0] = <<>> /\ Times(calls, R) = g[n] /\ \A i \in 1 .. n : g[i] = Kept(calls, R, i, g[i-1])
  BY TimesLoop
<1>3. PICK a \in [0 .. n -> Seq(Nat)] :
        a[0] = <<>> /\ Times(calls, A) = a[n] /\ \A i \in 1 .. n : a[i] = Kept(calls, A, i, a[i-1])
  BY TimesLoop
<1>4. PICK b \in [0 .. n -> Seq(Nat)] :
        b[0] = <<>> /\ Times(calls, B) = b[n] /\ \A i \in 1 .. n : b[i] = Kept(calls, B, i, b[i-1])
  BY TimesLoop
<1>. DEFINE P == {i \in Nat : i <= n => Combined(g[i], a[i], b[i])}
<1>5. 0 \in P
  <2>1. <<>> \in Seq(Nat)
    OBVIOUS
  <2>. QED  BY <1>2, <1>3, <1>4, <2>1, CombinedEmpty
<1>6. ASSUME NEW i \in Nat, i \in P PROVE i + 1 \in P
  <2> SUFFICES ASSUME i + 1 <= n PROVE Combined(g[i+1], a[i+1], b[i+1])
    OBVIOUS
  <2>1. i + 1 \in 1 .. n /\ (i + 1) - 1 = i /\ i \in 0 .. n
    BY <1>1
  <2>2. Combined(g[i], a[i], b[i]) /\ g[i] \in Seq(Nat) /\ a[i] \in Seq(Nat) /\ b[i] \in Seq(Nat)
    BY <1>2, <1>3, <1>4, <1>6, <2>1
  <2>. DEFINE x == calls[i+1].time
              r == calls[i+1].req
  <2>3. x \in Nat
    BY <1>1, <2>1
  <2>4. /\ g[i+1] = (IF r \in R THEN Append(g[i], x) ELSE g[i])
        /\ a[i+1] = (IF r \in A THEN Append(a[i], x) ELSE a[i])
        /\ b[i+1] = (IF r \in B THEN Append(b[i], x) ELSE b[i])
    BY <1>2, <1>3, <1>4, <2>1 DEF Kept
  <2>. HIDE DEF x, r
  <2>5. Combined(Append(g[i], x), Append(a[i], x), b[i]) /\ Combined(Append(g[i], x), a[i], Append(b[i], x))
    BY <2>2, <2>3, CombinedAppend
  <2>6. (r \in R <=> r \in A \/ r \in B) /\ ~(r \in A /\ r \in B)
    OBVIOUS
  <2>. QED  BY <2>2, <2>4, <2>5, <2>6
<1>7. n \in P
  <2>. HIDE DEF P, n
  <2>. QED  BY <1>1, <1>5, <1>6, SetInduction
<1>8. Combined(g[n], a[n], b[n])
  <2>. HIDE DEF n
  <2>. QED  BY <1>1, <1>7
<1>. QED  BY <1>2, <1>3, <1>4, <1>8

\* Only the requests that were made matter.
LEMMA TimesSame ==
  ASSUME NEW calls \in Seq(Call), NEW A, NEW B, \A r \in Requests(calls) : r \in A <=> r \in B
  PROVE  Times(calls, A) = Times(calls, B)
<1>. DEFINE n == Len(calls)
<1>1. n \in Nat /\ DOMAIN calls = 1 .. n
  BY CallsFacts
<1>2. PICK a \in [0 .. n -> Seq(Nat)] :
        a[0] = <<>> /\ Times(calls, A) = a[n] /\ \A i \in 1 .. n : a[i] = Kept(calls, A, i, a[i-1])
  BY TimesLoop
<1>3. PICK b \in [0 .. n -> Seq(Nat)] :
        b[0] = <<>> /\ Times(calls, B) = b[n] /\ \A i \in 1 .. n : b[i] = Kept(calls, B, i, b[i-1])
  BY TimesLoop
<1>. DEFINE P == {i \in Nat : i <= n => a[i] = b[i]}
<1>4. 0 \in P
  BY <1>2, <1>3
<1>5. ASSUME NEW i \in Nat, i \in P PROVE i + 1 \in P
  <2> SUFFICES ASSUME i + 1 <= n PROVE a[i+1] = b[i+1]
    OBVIOUS
  <2>1. i + 1 \in 1 .. n /\ (i + 1) - 1 = i
    BY <1>1
  <2>2. a[i] = b[i]
    BY <1>5, <2>1
  <2>3. calls[i+1].req \in Requests(calls)
    BY <1>1, <2>1 DEF Requests
  <2>4. a[i+1] = Kept(calls, A, i + 1, a[i]) /\ b[i+1] = Kept(calls, B, i + 1, b[i])
    BY <1>2, <1>3, <2>1
  <2>. QED  BY <2>2, <2>3, <2>4 DEF Kept
<1>6. n \in P
  <2>. HIDE DEF P, n
  <2>. QED  BY <1>1, <1>4, <1>5, SetInduction
<1>7. a[n] = b[n]
  <2>. HIDE DEF n
  <2>. QED  BY <1>1, <1>6
<1>. QED  BY <1>2, <1>3, <1>7

LEMMA TimesNone ==
  ASSUME NEW calls \in Seq(Call), NEW A, A \cap Requests(calls) = {}
  PROVE  Times(calls, A) = <<>>
<1>. DEFINE n == Len(calls)
            S == {<<>>}
<1>1. n \in Nat /\ DOMAIN calls = 1 .. n
  BY CallsFacts
<1>2. PICK a \in [0 .. n -> Seq(Nat)] :
        a[0] = <<>> /\ Times(calls, A) = a[n] /\ \A i \in 1 .. n : a[i] = Kept(calls, A, i, a[i-1])
  BY TimesLoop
<1>3. a[0] \in S /\ \A i \in 1 .. n : a[i-1] \in S => a[i] \in S
  <2>1. ASSUME NEW i \in 1 .. n, a[i-1] \in S PROVE a[i] \in S
    <3>1. calls[i].req \in Requests(calls)
      BY <1>1 DEF Requests
    <3>2. a[i] = Kept(calls, A, i, a[i-1])
      BY <1>2
    <3>. QED  BY <2>1, <3>1, <3>2 DEF Kept
  <2>. QED  BY <1>2, <2>1
<1>4. \A i \in 0 .. n : a[i] \in S
  <2>. HIDE DEF n, S
  <2>. QED  BY <1>1, <1>3, LoopType
<1>5. a[n] = <<>>
  <2>. HIDE DEF n
  <2>. QED  BY <1>1, <1>4
<1>. QED  BY <1>2, <1>5

LEMMA TimesSome ==
  ASSUME NEW calls \in Seq(Call), NEW A, NEW r \in A, r \in Requests(calls)
  PROVE  Times(calls, A) # <<>>
<1>. DEFINE n == Len(calls)
<1>1. n \in Nat /\ DOMAIN calls = 1 .. n /\ \A i \in 1 .. n : calls[i].time \in Nat
  BY CallsFacts
<1>2. PICK j \in 1 .. n : calls[j].req = r
  BY <1>1 DEF Requests
<1>3. PICK a \in [0 .. n -> Seq(Nat)] :
        a[0] = <<>> /\ Times(calls, A) = a[n] /\ \A i \in 1 .. n : a[i] = Kept(calls, A, i, a[i-1])
  BY TimesLoop
<1>. DEFINE P == {i \in Nat : j + i <= n => a[j+i] # <<>>}
<1>4. \A q \in Seq(Nat), x \in Nat : Append(q, x) # <<>>
  <2>1. ASSUME NEW q \in Seq(Nat), NEW x \in Nat PROVE Append(q, x) # <<>>
    <3>1. Len(Append(q, x)) = Len(q) + 1 /\ Len(q) \in Nat /\ Len(<<>>) = 0
      OBVIOUS
    <3>2. Len(Append(q, x)) # Len(<<>>)
      BY <3>1
    <3>. QED  BY <3>2
  <2>. QED  BY <2>1
<1>5. 0 \in P
  <2>1. j - 1 \in 0 .. n /\ j + 0 = j
    BY <1>1
  <2>2. a[j-1] \in Seq(Nat) /\ calls[j].time \in Nat
    BY <1>1, <1>3, <2>1
  <2>3. a[j] = Append(a[j-1], calls[j].time)
    BY <1>2, <1>3 DEF Kept
  <2>. QED  BY <1>4, <2>1, <2>2, <2>3
<1>6. ASSUME NEW i \in Nat, i \in P PROVE i + 1 \in P
  <2> SUFFICES ASSUME j + (i + 1) <= n PROVE a[j + (i + 1)] # <<>>
    OBVIOUS
  <2>. DEFINE m == j + (i + 1)
  <2>1. m \in 1 .. n /\ m - 1 = j + i /\ j + i \in 0 .. n
    BY <1>1
  <2>2. a[j+i] # <<>> /\ a[j+i] \in Seq(Nat) /\ calls[m].time \in Nat
    <3>1. j + i <= n /\ (j + i <= n => a[j+i] # <<>>)
      BY <1>6, <2>1
    <3>. HIDE DEF m, n
    <3>2. a[j+i] \in Seq(Nat)
      BY <1>3, <2>1
    <3>. QED  BY <1>1, <2>1, <3>1, <3>2
  <2>3. a[m] = Kept(calls, A, m, a[j+i])
    BY <1>3, <2>1
  <2>. HIDE DEF m
  <2>4. a[m] # <<>>
    BY <1>4, <2>2, <2>3 DEF Kept
  <2>. QED  BY <2>4 DEF m
<1>7. n - j \in P
  <2>1. n - j \in Nat
    BY <1>1
  <2>. HIDE DEF P, n
  <2>. QED  BY <1>5, <1>6, <2>1, SetInduction
<1>8. a[n] # <<>>
  <2>1. j + (n - j) = n /\ n - j \in Nat
    BY <1>1
  <2>. HIDE DEF n
  <2>. QED  BY <1>1, <1>7, <2>1
<1>. QED  BY <1>3, <1>8

\* The times of two sequences of calls, one after the other.
LEMMA TimesConcat ==
  ASSUME NEW c \in Seq(Call), NEW d \in Seq(Call), NEW A
  PROVE  Combined(Times(c \o d, A), Times(c, A), Times(d, A))
<1>. DEFINE m == Len(c)
            n == Len(d)
            e == c \o d
<1>1. m \in Nat /\ n \in Nat /\ \A i \in 1 .. n : d[i].time \in Nat
  BY CallsFacts
<1>2. /\ e \in Seq(Call) /\ Len(e) = m + n /\ \A i \in 1 .. m : e[i] = c[i]
      /\ \A i \in 1 .. n : e[m+i] = d[i]
  <2>. DEFINE S == Call
  <2>1. c \in Seq(S) /\ d \in Seq(S)
    OBVIOUS
  <2>. HIDE DEF S
  <2>2. e \in Seq(S) /\ Len(e) = m + n /\ \A i \in 1 .. m : e[i] = c[i]
    BY <2>1
  <2>3. ASSUME NEW i \in 1 .. n PROVE e[m+i] = d[i]
    <3>1. m + i \in 1 .. m + n /\ m + i > m /\ (m + i) - m = i
      BY <1>1
    <3>. QED  BY <2>1, <3>1
  <2>. QED  BY <2>2, <2>3 DEF S
<1>. HIDE DEF e
<1>3. PICK g \in [0 .. m + n -> Seq(Nat)] :
        g[0] = <<>> /\ Times(e, A) = g[m+n] /\ \A i \in 1 .. m + n : g[i] = Kept(e, A, i, g[i-1])
  <2>1. PICK g \in [0 .. Len(e) -> Seq(Nat)] :
          g[0] = <<>> /\ Times(e, A) = g[Len(e)] /\ \A i \in 1 .. Len(e) : g[i] = Kept(e, A, i, g[i-1])
    <3>1. e \in Seq(Call)
      BY <1>2
    <3>. QED  BY <3>1, TimesLoop
  <2>. QED  BY <1>2, <2>1
<1>4. PICK a \in [0 .. m -> Seq(Nat)] :
        a[0] = <<>> /\ Times(c, A) = a[m] /\ \A i \in 1 .. m : a[i] = Kept(c, A, i, a[i-1])
  BY TimesLoop
<1>5. PICK b \in [0 .. n -> Seq(Nat)] :
        b[0] = <<>> /\ Times(d, A) = b[n] /\ \A i \in 1 .. n : b[i] = Kept(d, A, i, b[i-1])
  BY TimesLoop
<1>. DEFINE P == {i \in Nat : i <= m => g[i] = a[i]}
            Q == {i \in Nat : i <= n => Combined(g[m+i], a[m], b[i])}
<1>6. 0 \in P
  BY <1>3, <1>4
<1>7. ASSUME NEW i \in Nat, i \in P PROVE i + 1 \in P
  <2> SUFFICES ASSUME i + 1 <= m PROVE g[i+1] = a[i+1]
    OBVIOUS
  <2>1. i + 1 \in 1 .. m /\ i + 1 \in 1 .. m + n /\ (i + 1) - 1 = i
    <3>1. i + 1 <= m /\ m \in Nat /\ n \in Nat /\ i \in Nat
      BY <1>1
    <3>. HIDE DEF m, n, P, Q
    <3>. QED  BY <3>1
  <2>2. g[i] = a[i] /\ e[i+1] = c[i+1]
    BY <1>2, <1>7, <2>1
  <2>3. g[i+1] = Kept(e, A, i + 1, g[i]) /\ a[i+1] = Kept(c, A, i + 1, a[i])
    BY <1>3, <1>4, <2>1
  <2>. QED  BY <2>2, <2>3 DEF Kept
<1>8. m \in P
  <2>. HIDE DEF P, m
  <2>. QED  BY <1>1, <1>6, <1>7, SetInduction
<1>9. g[m] = a[m] /\ a[m] \in Seq(Nat)
  <2>. HIDE DEF m
  <2>. QED  BY <1>1, <1>4, <1>8
<1>10. 0 \in Q
  <2>1. m + 0 = m /\ 0 \in Nat
    BY <1>1
  <2>2. Combined(g[m], a[m], b[0])
    BY <1>5, <1>9, CombinedEmpty
  <2>. HIDE DEF m
  <2>. QED  BY <2>1, <2>2
<1>11. ASSUME NEW i \in Nat, i \in Q PROVE i + 1 \in Q
  <2> SUFFICES ASSUME i + 1 <= n PROVE Combined(g[m + (i + 1)], a[m], b[i+1])
    OBVIOUS
  <2>. DEFINE k == m + (i + 1)
  <2>1. i + 1 \in 1 .. n /\ (i + 1) - 1 = i /\ i \in 0 .. n /\ k \in 1 .. m + n /\ k - 1 = m + i /\ m + i \in 0 .. m + n
    BY <1>1
  <2>. DEFINE x == d[i+1].time
              r == d[i+1].req
              u == g[m+i]
              v == a[m]
  <2>2. Combined(u, v, b[i]) /\ u \in Seq(Nat) /\ v \in Seq(Nat) /\ b[i] \in Seq(Nat)
    <3>1. u \in Seq(Nat) /\ v \in Seq(Nat) /\ b[i] \in Seq(Nat)
      <4>. HIDE DEF m, n
      <4>. QED  BY <1>3, <1>5, <1>9, <2>1
    <3>2. i <= n /\ (i <= n => Combined(u, v, b[i]))
      BY <1>11, <2>1
    <3>. QED  BY <3>1, <3>2
  <2>3. x \in Nat /\ e[k] = d[i+1]
    BY <1>1, <1>2, <2>1
  <2>4. g[k] = Kept(e, A, k, u) /\ b[i+1] = Kept(d, A, i + 1, b[i])
    BY <1>3, <1>5, <2>1
  <2>5. g[k] = (IF r \in A THEN Append(u, x) ELSE u) /\ b[i+1] = (IF r \in A THEN Append(b[i], x) ELSE b[i])
    <3>. HIDE DEF k, u
    <3>. QED  BY <2>3, <2>4 DEF Kept
  <2>. HIDE DEF x, r, u, v, k
  <2>6. Combined(Append(u, x), v, Append(b[i], x))
    BY <2>2, <2>3, CombinedAppend
  <2>7. Combined(g[k], v, b[i+1])
    BY <2>2, <2>5, <2>6
  <2>. QED  BY <2>7 DEF k, v
<1>12. n \in Q
  <2>. HIDE DEF Q, n
  <2>. QED  BY <1>1, <1>10, <1>11, SetInduction
<1>13. Combined(g[m+n], a[m], b[n])
  <2>. HIDE DEF n, m
  <2>. QED  BY <1>1, <1>12
<1>. QED  BY <1>3, <1>4, <1>5, <1>13 DEF e

-----------------------------------------------------------------------------
\* Summaries.

\* What a summary says of the times that went into it.  Merging can lose a unit of the
\* mean at every turn, and a time takes part in at most as many turns as there are times.
Describes(s, q) ==
  LET n == Len(q)
  IN  /\ q # <<>> /\ s.count = n
      /\ s.min \in Nat /\ s.max \in Nat /\ s.mean \in Nat /\ s.p50 \in Nat /\ s.p99 \in Nat /\ Ordered(s)
      /\ s.min \in Vals(q) /\ s.max \in Vals(q) /\ \A t \in Vals(q) : s.min <= t /\ t <= s.max
      /\ s.mean * n <= Sum(q) /\ Sum(q) < (s.mean + 2 * n - 1) * n

\* The same, of no times too.
DescribesAny(s, q) == IF q = <<>> THEN s = NoStats ELSE Describes(s, q)

LEMMA MeanFacts ==
  ASSUME NEW x \in Nat, NEW m \in Nat \ {0}, NEW y \in Nat, NEW n \in Nat \ {0}
  PROVE  LET w == WeightedMean(x, m, y, n)
         IN  w \in Nat /\ w * (m + n) <= x * m + y * n /\ x * m + y * n < (w + 1) * (m + n)
<1>. DEFINE a == x * m + y * n
            b == m + n
<1>1. x * m \in Nat /\ y * n \in Nat
  OBVIOUS
<1>2. a \in Nat /\ b \in Nat \ {0}
  BY <1>1
<1>3. \A u \in Nat, v \in Nat \ {0} : u \div v \in Nat /\ (u \div v) * v <= u /\ u < (u \div v + 1) * v
  OBVIOUS
<1>4. WeightedMean(x, m, y, n) = a \div b
  BY DEF WeightedMean
<1>. HIDE DEF a, b
<1>5. a \div b \in Nat /\ (a \div b) * b <= a /\ a < (a \div b + 1) * b
  BY <1>2, <1>3
<1>. QED  BY <1>4, <1>5 DEF a, b

\* A product is less only if one of its factors is.
LEMMA Factor ==
  ASSUME NEW a \in Int, NEW b \in Int, NEW n \in Nat \ {0}
  PROVE  (a * n < b * n <=> a < b) /\ (a * n <= b * n <=> a <= b)
<1>1. a < b => a * n < b * n
  OBVIOUS
<1>2. b < a => b * n < a * n
  OBVIOUS
<1>3. a = b => a * n = b * n
  OBVIOUS
<1>4. a * n \in Int /\ b * n \in Int
  OBVIOUS
<1>. QED  BY <1>1, <1>2, <1>3, <1>4

LEMMA MeanMonotone ==
  ASSUME NEW x \in Nat, NEW m \in Nat \ {0}, NEW y \in Nat, NEW n \in Nat \ {0},
         NEW u \in Nat, NEW v \in Nat, x <= u, y <= v
  PROVE  WeightedMean(x, m, y, n) <= WeightedMean(u, m, v, n)
<1>. DEFINE w == WeightedMean(x, m, y, n)
            z == WeightedMean(u, m, v, n)
<1>1. w \in Nat /\ w * (m + n) <= x * m + y * n
  BY MeanFacts
<1>2. z \in Nat /\ u * m + v * n < (z + 1) * (m + n)
  BY MeanFacts
<1>. HIDE DEF w, z
<1>3. x * m <= u * m /\ y * n <= v * n
  BY Factor
<1>. DEFINE xm == x * m
            yn == y * n
            um == u * m
            vn == v * n
            b  == m + n
            wb == w * b
            zb == (z + 1) * b
<1>4. xm \in Nat /\ yn \in Nat /\ um \in Nat /\ vn \in Nat /\ b \in Nat \ {0} /\ wb \in Nat /\ zb \in Nat
  BY <1>1, <1>2
<1>5. wb <= xm + yn /\ um + vn < zb /\ xm <= um /\ yn <= vn
  BY <1>1, <1>2, <1>3
<1>6. wb < zb
  <2>. HIDE DEF xm, yn, um, vn, wb, zb, b
  <2>. QED  BY <1>4, <1>5
<1>7. w < z + 1
  <2>1. w \in Int /\ z + 1 \in Int /\ b \in Nat \ {0} /\ w * b < (z + 1) * b
    BY <1>1, <1>2, <1>4, <1>6
  <2>. HIDE DEF b
  <2>. QED  BY <2>1, Factor
<1>8. w <= z
  BY <1>1, <1>2, <1>7
<1>. QED  BY <1>8 DEF w, z

\* A value is a weighted mean of itself.
LEMMA MeanOfOne ==
  ASSUME NEW x \in Nat, NEW m \in Nat \ {0}, NEW n \in Nat \ {0}
  PROVE  WeightedMean(x, m, x, n) = x
<1>. DEFINE w == WeightedMean(x, m, x, n)
            b == m + n
<1>1. w \in Nat /\ w * b <= x * m + x * n /\ x * m + x * n < (w + 1) * b
  BY MeanFacts
<1>2. x * m + x * n = x * b /\ b \in Nat \ {0}
  OBVIOUS
<1>. HIDE DEF w, b
<1>3. w * b <= x * b /\ x * b < (w + 1) * b
  BY <1>1, <1>2
<1>4. w <= x /\ x < w + 1
  <2>1. w \in Int /\ x \in Int /\ w + 1 \in Int
    BY <1>1
  <2>. QED  BY <1>2, <1>3, <2>1, Factor
<1>5. w = x
  BY <1>1, <1>4
<1>. QED  BY <1>5 DEF w

\* What is lost of the mean by a merge.
LEMMA MeanLoss ==
  ASSUME NEW a \in Nat, NEW m \in Nat \ {0}, NEW b \in Nat, NEW n \in Nat \ {0}, NEW s \in Nat, NEW t \in Nat,
         a * m <= s, s < (a + 2 * m - 1) * m, b * n <= t, t < (b + 2 * n - 1) * n
  PROVE  LET w == WeightedMean(a, m, b, n)
         IN  w * (m + n) <= s + t /\ s + t < (w + 2 * (m + n) - 1) * (m + n)
<1>. DEFINE w == WeightedMean(a, m, b, n)
<1>1. w \in Nat /\ w * (m + n) <= a * m + b * n /\ a * m + b * n < (w + 1) * (m + n)
  BY MeanFacts
<1>. HIDE DEF w
<1>2. (a + 2 * m - 1) * m = a * m + 2 * (m * m) - m /\ (b + 2 * n - 1) * n = b * n + 2 * (n * n) - n
  OBVIOUS
<1>3. (w + 1) * (m + n) = w * (m + n) + m + n
  BY <1>1
<1>4. (w + 2 * (m + n) - 1) * (m + n) = w * (m + n) + 2 * (m * m) + 4 * (m * n) + 2 * (n * n) - m - n
  <2>1. (2 * (m + n) - 1) * (m + n) = 2 * (m * m) + 4 * (m * n) + 2 * (n * n) - m - n
    OBVIOUS
  <2>2. (w + (2 * (m + n) - 1)) * (m + n) = w * (m + n) + (2 * (m + n) - 1) * (m + n)
    BY <1>1
  <2>3. w + 2 * (m + n) - 1 = w + (2 * (m + n) - 1)
    BY <1>1
  <2>. DEFINE wn == w * (m + n)
              u == (2 * (m + n) - 1) * (m + n)
  <2>4. (w + 2 * (m + n) - 1) * (m + n) = wn + u /\ wn \in Int
    BY <1>1, <2>2, <2>3
  <2>5. u = 2 * (m * m) + 4 * (m * n) + 2 * (n * n) - m - n
    BY <2>1
  <2>. DEFINE v == (w + 2 * (m + n) - 1) * (m + n)
              mm == m * m
              mn == m * n
              nn == n * n
  <2>6. v = wn + u /\ u = 2 * mm + 4 * mn + 2 * nn - m - n /\ mm \in Nat /\ mn \in Nat /\ nn \in Nat
    BY <2>4, <2>5
  <2>7. v = wn + 2 * mm + 4 * mn + 2 * nn - m - n
    <3>. HIDE DEF v, mm, mn, nn, wn, u
    <3>. QED  BY <2>4, <2>6
  <2>. QED  BY <2>7
<1>5. m <= m * n /\ n <= m * n
  OBVIOUS
<1>. DEFINE am == a * m  bn == b * n  mm == m * m  nn == n * n  mn == m * n  wb == w * (m + n)
<1>6. am \in Nat /\ bn \in Nat /\ mm \in Nat /\ nn \in Nat /\ mn \in Nat /\ wb \in Nat
  BY <1>1
<1>7. /\ am <= s /\ s < am + 2 * mm - m /\ bn <= t /\ t < bn + 2 * nn - n
      /\ wb <= am + bn /\ am + bn < wb + m + n /\ m <= mn /\ n <= mn
  BY <1>1, <1>2, <1>3, <1>5
<1>8. wb <= s + t /\ s + t < wb + 2 * mm + 4 * mn + 2 * nn - m - n
  <2>. HIDE DEF am, bn, mm, nn, mn, wb
  <2>. QED  BY <1>6, <1>7
<1>. QED  BY <1>4, <1>8 DEF w

LEMMA SumBounds ==
  ASSUME NEW q \in Seq(Nat), NEW lo \in Nat, NEW hi \in Nat, \A i \in 1 .. Len(q) : lo <= q[i] /\ q[i] <= hi
  PROVE  lo * Len(q) <= Sum(q) /\ Sum(q) <= hi * Len(q)
<1>. DEFINE n == Len(q)
<1>1. n \in Nat /\ \A i \in 1 .. n : q[i] \in Nat
  OBVIOUS
<1>2. PICK g \in [0 .. n -> Nat] : g[0] = 0 /\ Sum(q) = g[n] /\ \A i \in 1 .. n : g[i] = g[i-1] + q[i]
  BY NatSum
<1>. DEFINE P == {i \in Nat : i <= n => lo * i <= g[i] /\ g[i] <= hi * i}
<1>3. 0 \in P
  BY <1>2
<1>4. ASSUME NEW i \in Nat, i \in P PROVE i + 1 \in P
  <2> SUFFICES ASSUME i + 1 <= n PROVE lo * (i + 1) <= g[i+1] /\ g[i+1] <= hi * (i + 1)
    OBVIOUS
  <2>1. i + 1 \in 1 .. n /\ (i + 1) - 1 = i /\ i \in 0 .. n
    BY <1>1
  <2>2. lo * i <= g[i] /\ g[i] <= hi * i /\ g[i] \in Nat
    <3>1. i <= n /\ (i <= n => lo * i <= g[i] /\ g[i] <= hi * i)
      BY <1>4, <2>1
    <3>2. g[i] \in Nat
      BY <1>2, <2>1
    <3>. QED  BY <3>1, <3>2
  <2>3. g[i+1] = g[i] + q[i+1] /\ lo <= q[i+1] /\ q[i+1] <= hi /\ q[i+1] \in Nat
    BY <1>1, <1>2, <2>1
  <2>4. lo * (i + 1) = lo * i + lo /\ hi * (i + 1) = hi * i + hi /\ lo * i \in Nat /\ hi * i \in Nat
    OBVIOUS
  <2>. DEFINE a == lo * i
              b == hi * i
  <2>5. a <= g[i] /\ g[i] <= b /\ lo * (i + 1) = a + lo /\ hi * (i + 1) = b + hi /\ a \in Nat /\ b \in Nat
    BY <2>2, <2>4
  <2>. HIDE DEF a, b
  <2>. QED  BY <2>2, <2>3, <2>5
<1>5. n \in P
  <2>. HIDE DEF P, n
  <2>. QED  BY <1>1, <1>3, <1>4, SetInduction
<1>6. lo * n <= g[n] /\ g[n] <= hi * n
  <2>. HIDE DEF n
  <2>. QED  BY <1>1, <1>5
<1>. QED  BY <1>2, <1>6

LEMMA StatsDescribe ==
  ASSUME NEW q \in Seq(Nat), q # <<>>
  PROVE  Describes(ComputeCallStats(q), q)
<1>. DEFINE n == Len(q)
            s == ComputeCallStats(q)
            k == Rank(n, 50)
            l == Rank(n, 99)
<1>1. /\ n \in Nat \ {0} /\ s.count = n /\ s.min = Sorted(q, 1) /\ s.max = Sorted(q, n)
      /\ s.mean = Sum(q) \div n /\ s.p50 = Sorted(q, k) /\ s.p99 = Sorted(q, l)
  BY StatsFacts
<1>2. k \in 1 .. n /\ l \in 1 .. n /\ k <= l /\ 1 \in 1 .. n /\ n \in 1 .. n /\ 1 <= k /\ l <= n
  BY <1>1, RankFacts
<1>3. DOMAIN q = 1 .. n /\ \A i \in 1 .. n : q[i] \in Nat
  OBVIOUS
<1>. HIDE DEF s, k, l
<1>4. s.min <= s.p50 /\ s.p50 <= s.p99 /\ s.p99 <= s.max
  BY <1>1, <1>2, SortedMonotone
<1>5. s.min \in Nat /\ s.p50 \in Nat /\ s.p99 \in Nat /\ s.max \in Nat
  BY <1>1, <1>2, SortedFacts
<1>6. s.min \in Vals(q) /\ s.max \in Vals(q)
  <2>1. (\E i \in 1 .. n : q[i] = s.min) /\ (\E i \in 1 .. n : q[i] = s.max)
    BY <1>1, <1>2, SortedFacts
  <2>. QED  BY <2>1 DEF Vals
<1>7. ASSUME NEW i \in 1 .. n PROVE s.min <= q[i] /\ q[i] <= s.max
  <2>1. Cardinality(Under(q, s.min)) < 1 /\ n <= Cardinality(AtMost(q, s.max))
    BY <1>1, <1>2, SortedFacts
  <2>2. Under(q, s.min) \subseteq 1 .. n /\ AtMost(q, s.max) \subseteq 1 .. n
    BY <1>3 DEF Under, AtMost
  <2>3. Under(q, s.min) = {}
    <3>1. IsFiniteSet(Under(q, s.min))
      <4>1. IsFiniteSet(1 .. n)
        BY <1>1, FS_Interval
      <4>2. Under(q, s.min) \in SUBSET (1 .. n)
        BY <2>2
      <4>. QED  BY <4>1, <4>2, FS_Subset
    <3>2. Cardinality(Under(q, s.min)) = 0
      BY <2>1, <3>1, FS_CardinalityType
    <3>. QED  BY <3>1, <3>2, FS_EmptySet
  <2>4. AtMost(q, s.max) = 1 .. n
    <3>1. /\ Cardinality(AtMost(q, s.max)) \in Nat /\ Cardinality(AtMost(q, s.max)) <= n
          /\ Cardinality(1 .. n) \in Nat /\ Cardinality(1 .. n) <= n /\ Cardinality(AtMost(q, s.max)) <= Cardinality(1 .. n)
          /\ (Cardinality(AtMost(q, s.max)) = Cardinality(1 .. n) => AtMost(q, s.max) = 1 .. n)
      <4>. HIDE DEF n
      <4>. QED  BY <1>1, <2>2, Counts
    <3>. QED  BY <1>1, <2>1, <3>1
  <2>. QED  BY <1>3, <1>5, <2>3, <2>4 DEF Under, AtMost
<1>8. \A t \in Vals(q) : s.min <= t /\ t <= s.max
  BY <1>7 DEF Vals
<1>. DEFINE m == Sum(q) \div n
<1>9. Sum(q) \in Nat
  BY SumType
<1>10. m \in Nat /\ m * n <= Sum(q) /\ Sum(q) < (m + 1) * n
  <2>1. \A u \in Nat, v \in Nat \ {0} : u \div v \in Nat /\ (u \div v) * v <= u /\ u < (u \div v + 1) * v
    OBVIOUS
  <2>. HIDE DEF n
  <2>. QED  BY <1>1, <1>9, <2>1
<1>11. s.mean = m
  BY <1>1
<1>12. s.min * n <= Sum(q) /\ Sum(q) <= s.max * n
  BY <1>5, <1>7, SumBounds
<1>. HIDE DEF m, n
<1>13. Sum(q) < (m + 2 * n - 1) * n
  <2>1. (m + 1) * n <= (m + 2 * n - 1) * n
    <3>1. m + 1 \in Int /\ m + 2 * n - 1 \in Int /\ m + 1 <= m + 2 * n - 1
      BY <1>1, <1>10
    <3>. QED  BY <1>1, <3>1, Factor
  <2>2. (m + 1) * n \in Int /\ (m + 2 * n - 1) * n \in Int
    BY <1>1, <1>10
  <2>. QED  BY <1>9, <1>10, <2>1, <2>2
<1>14. s.min <= m /\ m <= s.max
  <2>. DEFINE a == s.min * n
              b == s.max * n
              c == m * n
              d == (m + 1) * n
  <2>1. a \in Int /\ b \in Int /\ c \in Int /\ d \in Int
    BY <1>1, <1>5, <1>10
  <2>2. a < d /\ c <= b
    <3>1. a <= Sum(q) /\ Sum(q) < d /\ c <= Sum(q) /\ Sum(q) <= b
      BY <1>10, <1>12
    <3>. HIDE DEF a, b, c, d
    <3>. QED  BY <1>9, <2>1, <3>1
  <2>3. s.min < m + 1 /\ m <= s.max
    <3>1. s.min \in Int /\ m + 1 \in Int /\ m \in Int /\ s.max \in Int
      BY <1>5, <1>10
    <3>. QED  BY <1>1, <2>2, <3>1, Factor
  <2>. QED  BY <1>5, <1>10, <2>3
<1>15. Ordered(s)
  BY <1>4, <1>11, <1>14 DEF Ordered
<1>. QED  BY <1>1, <1>5, <1>6, <1>8, <1>10, <1>11, <1>13, <1>15 DEF Describes, s, n

\* Describes says nothing of the order of the times.
LEMMA DescribesSame ==
  ASSUME NEW q \in Seq(Nat), NEW b \in Seq(Nat), Len(q) = Len(b), Sum(q) = Sum(b), Vals(q) = Vals(b),
         NEW s, DescribesAny(s, b)
  PROVE  DescribesAny(s, q)
<1>1. q = <<>> <=> b = <<>>
  <2>1. \A r \in Seq(Nat) : r = <<>> <=> Len(r) = 0
    OBVIOUS
  <2>. QED  BY <2>1
<1>. QED  BY <1>1 DEF DescribesAny, Describes

\* Two summaries merge into one of both sequences: the weighted mean of two figures lies
\* between them, and loses less than a unit (report.go:323-344).
LEMMA MergeDescribes ==
  ASSUME NEW q \in Seq(Nat), NEW a \in Seq(Nat), NEW b \in Seq(Nat), Combined(q, a, b),
         NEW s, DescribesAny(s, a), NEW t, DescribesAny(t, b)
  PROVE  DescribesAny(MergeCallStats(s, t), q)
<1>1. Len(q) = Len(a) + Len(b) /\ Sum(q) = Sum(a) + Sum(b) /\ Vals(q) = Vals(a) \cup Vals(b)
  BY DEF Combined
<1>2. /\ Len(<<>>) = 0 /\ Vals(<<>>) = {} /\ Len(a) \in Nat /\ Len(b) \in Nat
      /\ \A r \in Seq(Nat) : r = <<>> <=> Len(r) = 0
  BY DEF Vals
<1>3. Sum(<<>>) = 0 /\ Sum(a) \in Nat /\ Sum(b) \in Nat
  BY SumEmpty, SumType
<1>4. CASE a = <<>>
  <2>1. s.count = 0
    BY <1>4 DEF DescribesAny, NoStats
  <2>2. MergeCallStats(s, t) = t
    BY <2>1 DEF MergeCallStats
  <2>3. Len(q) = Len(b) /\ Sum(q) = Sum(b) /\ Vals(q) = Vals(b)
    BY <1>1, <1>2, <1>3, <1>4
  <2>. QED  BY <2>2, <2>3, DescribesSame
<1>5. CASE a # <<>> /\ b = <<>>
  <2>1. s.count # 0 /\ t.count = 0
    BY <1>2, <1>5 DEF DescribesAny, Describes, NoStats
  <2>2. MergeCallStats(s, t) = s
    BY <2>1 DEF MergeCallStats
  <2>3. Len(q) = Len(a) /\ Sum(q) = Sum(a) /\ Vals(q) = Vals(a)
    BY <1>1, <1>2, <1>3, <1>5
  <2>. QED  BY <2>2, <2>3, DescribesSame
<1>6. CASE a # <<>> /\ b # <<>>
  <2>. DEFINE m == Len(a)
              n == Len(b)
              M(x, y) == WeightedMean(x, m, y, n)
              r == [count |-> m + n, min |-> Lesser(s.min, t.min), max |-> Greater(s.max, t.max),
                    mean |-> M(s.mean, t.mean), p50 |-> M(s.p50, t.p50), p99 |-> M(s.p99, t.p99)]
  <2>1. Describes(s, a) /\ Describes(t, b)
    BY <1>6 DEF DescribesAny
  <2>2. m \in Nat \ {0} /\ n \in Nat \ {0} /\ s.count = m /\ t.count = n
    BY <1>2, <1>6, <2>1 DEF Describes
  <2>3. MergeCallStats(s, t) = r
    BY <2>2 DEF MergeCallStats
  <2>4. /\ s.min \in Nat /\ s.max \in Nat /\ s.mean \in Nat /\ s.p50 \in Nat /\ s.p99 \in Nat
        /\ s.min <= s.p50 /\ s.p50 <= s.p99 /\ s.p99 <= s.max /\ s.min <= s.mean /\ s.mean <= s.max
        /\ s.min \in Vals(a) /\ s.max \in Vals(a) /\ \A v \in Vals(a) : s.min <= v /\ v <= s.max
        /\ s.mean * m <= Sum(a) /\ Sum(a) < (s.mean + 2 * m - 1) * m
    BY <2>1 DEF Describes, Ordered
  <2>5. /\ t.min \in Nat /\ t.max \in Nat /\ t.mean \in Nat /\ t.p50 \in Nat /\ t.p99 \in Nat
        /\ t.min <= t.p50 /\ t.p50 <= t.p99 /\ t.p99 <= t.max /\ t.min <= t.mean /\ t.mean <= t.max
        /\ t.min \in Vals(b) /\ t.max \in Vals(b) /\ \A v \in Vals(b) : t.min <= v /\ v <= t.max
        /\ t.mean * n <= Sum(b) /\ Sum(b) < (t.mean + 2 * n - 1) * n
    BY <2>1 DEF Describes, Ordered
  <2>. DEFINE lo == Lesser(s.min, t.min)
              hi == Greater(s.max, t.max)
  <2>6. /\ lo \in Nat /\ lo <= s.min /\ lo <= t.min /\ (lo = s.min \/ lo = t.min)
        /\ hi \in Nat /\ s.max <= hi /\ t.max <= hi /\ (hi = s.max \/ hi = t.max)
    <3>1. \A x, y \in Nat : /\ Lesser(x, y) \in Nat /\ Lesser(x, y) <= x /\ Lesser(x, y) <= y
                            /\ Lesser(x, y) = x \/ Lesser(x, y) = y
                            /\ Greater(x, y) \in Nat /\ x <= Greater(x, y) /\ y <= Greater(x, y)
                            /\ Greater(x, y) = x \/ Greater(x, y) = y
      BY DEF Lesser, Greater
    <3>. QED  BY <2>4, <2>5, <3>1
  <2>7. /\ r.count = m + n /\ r.min = lo /\ r.max = hi /\ r.mean = M(s.mean, t.mean)
        /\ r.p50 = M(s.p50, t.p50) /\ r.p99 = M(s.p99, t.p99)
    OBVIOUS
  <2>. HIDE DEF lo, hi, m, n, r
  <2>8. M(s.mean, t.mean) \in Nat /\ M(s.p50, t.p50) \in Nat /\ M(s.p99, t.p99) \in Nat
    BY <2>2, <2>4, <2>5, MeanFacts
  <2>9. M(lo, lo) = lo /\ M(hi, hi) = hi
    BY <2>2, <2>6, MeanOfOne
  <2>10. lo <= M(s.p50, t.p50) /\ M(s.p99, t.p99) <= hi /\ lo <= M(s.mean, t.mean) /\ M(s.mean, t.mean) <= hi
    <3>1. /\ lo <= s.p50 /\ lo <= t.p50 /\ s.p99 <= hi /\ t.p99 <= hi
          /\ lo <= s.mean /\ lo <= t.mean /\ s.mean <= hi /\ t.mean <= hi
      <4>2. lo <= s.p50 /\ s.p99 <= hi /\ lo <= s.mean /\ s.mean <= hi
        <5>1. lo <= s.min /\ s.min <= s.p50 /\ s.p99 <= s.max /\ s.max <= hi /\ s.min <= s.mean /\ s.mean <= s.max
          BY <2>4, <2>6
        <5>2. lo \in Nat /\ hi \in Nat /\ s.min \in Nat /\ s.max \in Nat /\ s.mean \in Nat /\ s.p50 \in Nat /\ s.p99 \in Nat
          BY <2>4, <2>6
        <5>. QED  BY <5>1, <5>2
      <4>3. lo <= t.p50 /\ t.p99 <= hi /\ lo <= t.mean /\ t.mean <= hi
        <5>1. lo <= t.min /\ t.min <= t.p50 /\ t.p99 <= t.max /\ t.max <= hi /\ t.min <= t.mean /\ t.mean <= t.max
          BY <2>5, <2>6
        <5>2. lo \in Nat /\ hi \in Nat /\ t.min \in Nat /\ t.max \in Nat /\ t.mean \in Nat /\ t.p50 \in Nat /\ t.p99 \in Nat
          BY <2>5, <2>6
        <5>. QED  BY <5>1, <5>2
      <4>. QED  BY <4>2, <4>3
    <3>2. M(lo, lo) <= M(s.p50, t.p50) /\ M(lo, lo) <= M(s.mean, t.mean)
      BY <2>2, <2>4, <2>5, <2>6, <3>1, MeanMonotone
    <3>3. M(s.p99, t.p99) <= M(hi, hi) /\ M(s.mean, t.mean) <= M(hi, hi)
      BY <2>2, <2>4, <2>5, <2>6, <3>1, MeanMonotone
    <3>. HIDE DEF M
    <3>. QED  BY <2>9, <3>2, <3>3
  <2>11. M(s.p50, t.p50) <= M(s.p99, t.p99)
    BY <2>2, <2>4, <2>5, MeanMonotone
  <2>12. Ordered(r)
    BY <2>7, <2>10, <2>11 DEF Ordered
  <2>13. /\ M(s.mean, t.mean) * (m + n) <= Sum(a) + Sum(b)
         /\ Sum(a) + Sum(b) < (M(s.mean, t.mean) + 2 * (m + n) - 1) * (m + n)
    BY <1>3, <2>2, <2>4, <2>5, MeanLoss
  <2>14. lo \in Vals(q) /\ hi \in Vals(q)
    BY <1>1, <2>4, <2>5, <2>6
  <2>15. ASSUME NEW v \in Vals(q) PROVE lo <= v /\ v <= hi
    <3>1. \A x \in Vals(a) \cup Vals(b) : x \in Nat
      BY DEF Vals
    <3>2. v \in Nat /\ (v \in Vals(a) \/ v \in Vals(b))
      BY <1>1, <3>1
    <3>. QED  BY <2>4, <2>5, <2>6, <3>2
  <2>16. Len(q) = m + n /\ q # <<>> /\ Sum(q) = Sum(a) + Sum(b)
    <3>1. Len(q) = m + n
      BY <1>1 DEF m, n
    <3>2. Len(q) # 0
      BY <2>2, <3>1
    <3>. QED  BY <1>1, <1>2, <3>1, <3>2
  <2>. HIDE DEF M
  <2>17. /\ r.mean * Len(q) <= Sum(q) /\ Sum(q) < (r.mean + 2 * Len(q) - 1) * Len(q) /\ r.count = Len(q)
    BY <2>7, <2>13, <2>16
  <2>18. r.min \in Nat /\ r.max \in Nat /\ r.mean \in Nat /\ r.p50 \in Nat /\ r.p99 \in Nat
    BY <2>6, <2>7, <2>8
  <2>19. r.min \in Vals(q) /\ r.max \in Vals(q) /\ \A v \in Vals(q) : r.min <= v /\ v <= r.max
    BY <2>7, <2>14, <2>15
  <2>20. Describes(r, q)
    BY <2>12, <2>16, <2>17, <2>18, <2>19 DEF Describes
  <2>. QED  BY <2>3, <2>16, <2>20 DEF DescribesAny
<1>. QED  BY <1>4, <1>5, <1>6

-----------------------------------------------------------------------------
\* Merging.

Keys(calls) == {RequestKey(r) : r \in Requests(calls)}
OfKey(calls, k) == Times(calls, WithKey(Requests(calls), k))

LEMMA KeyHead == \A r : RequestKey(r)[1] = Op(r)
<1> SUFFICES ASSUME NEW r PROVE RequestKey(r)[1] = Op(r)
  OBVIOUS
<1>. DEFINE p == NormalizeAPIPath(r.path)
<1>1. RequestKey(r) = <<Op(r)>> \o p
  BY DEF RequestKey, Op
<1>. HIDE DEF p
<1>. QED  BY <1>1

LEMMA WindowDescribed ==
  ASSUME NEW calls \in Seq(Call), NEW k
  PROVE  DescribesAny(StatsAt(CallWindow(calls), k), OfKey(calls, k))
<1>. DEFINE q == OfKey(calls, k)
            A == WithKey(Requests(calls), k)
<1>1. q \in Seq(Nat)
  BY TimesType DEF OfKey
<1>2. DOMAIN CallWindow(calls) = Keys(calls)
  BY DEF CallWindow, Keys
<1>3. CASE k \in Keys(calls)
  <2>1. PICK r : r \in A /\ r \in Requests(calls)
    BY <1>3 DEF Keys, WithKey
  <2>2. q # <<>>
    BY <2>1, TimesSome DEF OfKey
  <2>3. StatsAt(CallWindow(calls), k) = ComputeCallStats(q)
    BY <1>2, <1>3 DEF StatsAt, CallWindow, Keys, OfKey
  <2>. QED  BY <1>1, <2>2, <2>3, StatsDescribe DEF DescribesAny
<1>4. CASE k \notin Keys(calls)
  <2>1. A \cap Requests(calls) = {}
    BY <1>4 DEF Keys, WithKey
  <2>2. q = <<>>
    BY <2>1, TimesNone DEF OfKey
  <2>. QED  BY <1>2, <1>4, <2>2 DEF StatsAt, DescribesAny
<1>. QED  BY <1>3, <1>4

\* A key that no call made has no times.
LEMMA KeyMissing ==
  ASSUME NEW calls \in Seq(Call), NEW k, k \notin Keys(calls)
  PROVE  OfKey(calls, k) = <<>>
<1>1. WithKey(Requests(calls), k) \cap Requests(calls) = {}
  BY DEF Keys, WithKey
<1>. QED  BY <1>1, TimesNone DEF OfKey

LEMMA RequestsConcat ==
  ASSUME NEW c \in Seq(Call), NEW d \in Seq(Call)
  PROVE  c \o d \in Seq(Call) /\ Requests(c \o d) = Requests(c) \cup Requests(d)
<1>. DEFINE S == Call
            e == c \o d
            m == Len(c)
            n == Len(d)
<1>1. c \in Seq(S) /\ d \in Seq(S)
  OBVIOUS
<1>2. m \in Nat /\ n \in Nat /\ DOMAIN c = 1 .. m /\ DOMAIN d = 1 .. n
  BY CallsFacts
<1>. HIDE DEF S
<1>3. e \in Seq(S) /\ DOMAIN e = 1 .. m + n /\ \A i \in 1 .. m : e[i] = c[i]
  BY <1>1
<1>4. ASSUME NEW i \in 1 .. n PROVE e[m+i] = d[i]
  <2>1. m + i \in 1 .. m + n /\ m + i > m /\ (m + i) - m = i
    BY <1>2
  <2>. QED  BY <1>1, <2>1
<1>. HIDE DEF e, m, n
<1>5. Requests(e) \subseteq Requests(c) \cup Requests(d)
  <2>1. ASSUME NEW i \in 1 .. m + n PROVE e[i].req \in Requests(c) \cup Requests(d)
    <3>1. CASE i \in 1 .. m
      BY <1>2, <1>3, <3>1 DEF Requests
    <3>2. CASE i \notin 1 .. m
      <4>1. i - m \in 1 .. n /\ m + (i - m) = i
        BY <1>2, <3>2
      <4>. QED  BY <1>2, <1>4, <4>1 DEF Requests
    <3>. QED  BY <3>1, <3>2
  <2>. QED  BY <1>3, <2>1 DEF Requests
<1>6. Requests(c) \subseteq Requests(e)
  <2>1. ASSUME NEW i \in 1 .. m PROVE c[i].req \in Requests(e)
    <3>1. i \in DOMAIN e /\ e[i] = c[i]
      BY <1>2, <1>3
    <3>. QED  BY <3>1 DEF Requests
  <2>. QED  BY <1>2, <2>1 DEF Requests
<1>7. Requests(d) \subseteq Requests(e)
  <2>1. ASSUME NEW i \in 1 .. n PROVE d[i].req \in Requests(e)
    <3>1. m + i \in DOMAIN e /\ e[m+i] = d[i]
      BY <1>2, <1>3, <1>4
    <3>. QED  BY <3>1 DEF Requests
  <2>. QED  BY <1>2, <2>1 DEF Requests
<1>. QED  BY <1>3, <1>5, <1>6, <1>7 DEF e, S

\* The calls for a key in two sequences, one after the other.
LEMMA KeyConcat ==
  ASSUME NEW c \in Seq(Call), NEW d \in Seq(Call), NEW k
  PROVE  Combined(OfKey(c \o d, k), OfKey(c, k), OfKey(d, k))
<1>. DEFINE e == c \o d
            A == WithKey(Requests(e), k)
<1>1. Combined(Times(e, A), Times(c, A), Times(d, A))
  BY TimesConcat
<1>2. Requests(e) = Requests(c) \cup Requests(d)
  BY RequestsConcat
<1>3. Times(c, A) = OfKey(c, k)
  <2>. DEFINE B == WithKey(Requests(c), k)
  <2>1. \A r \in Requests(c) : r \in A <=> r \in B
    BY <1>2 DEF WithKey
  <2>. HIDE DEF A, B
  <2>2. Times(c, A) = Times(c, B)
    BY <2>1, TimesSame
  <2>. QED  BY <2>2 DEF OfKey, B
<1>4. Times(d, A) = OfKey(d, k)
  <2>. DEFINE B == WithKey(Requests(d), k)
  <2>1. \A r \in Requests(d) : r \in A <=> r \in B
    BY <1>2 DEF WithKey
  <2>. HIDE DEF A, B
  <2>2. Times(d, A) = Times(d, B)
    BY <2>1, TimesSame
  <2>. QED  BY <2>2 DEF OfKey, B
<1>. QED  BY <1>1, <1>3, <1>4 DEF OfKey

LEMMA UptoLoop ==
  ASSUME Flow, NEW n \in 0 .. Len(input.windows)
  PROVE  \E g \in [0 .. n -> Seq(Call)] :
           /\ g[0] = <<>> /\ CallsUpto(n) = g[n]
           /\ \A i \in 1 .. n : g[i] = g[i-1] \o input.windows[i]
<1>. DEFINE S == Seq(Call)
            base == <<>>
            C(i) == input.windows[i]
            step == [p \in (1 .. n) \X S |-> p[2] \o C(p[1])]
<1>1. n \in Nat /\ \A i \in 1 .. n : C(i) \in S
  BY InputFacts, WindowCalls
<1>. HIDE DEF C
<1>2. base \in S /\ step \in [(1 .. n) \X S -> S]
  <2>1. \A x, y \in S : x \o y \in S
    OBVIOUS
  <2>2. <<>> \in S
    OBVIOUS
  <2>. HIDE DEF S
  <2>. QED  BY <1>1, <2>1, <2>2
<1>3. PICK g : g \in Loops(n, S, base, step)
  <2>. HIDE DEF S, base, step
  <2>. QED  BY <1>1, <1>2, LoopExists
<1>4. g \in [0 .. n -> S] /\ g[0] = <<>> /\ \A i \in 1 .. n : g[i] = step[<<i, g[i-1]>>]
  BY <1>3 DEF Loops
<1>5. ASSUME NEW i \in 1 .. n PROVE g[i] = g[i-1] \o C(i)
  <2>1. g[i-1] \in S
    BY <1>1, <1>4
  <2>2. step[<<i, g[i-1]>>] = g[i-1] \o C(i)
    BY <2>1
  <2>. HIDE DEF step
  <2>. QED  BY <1>4, <2>2
<1>. HIDE DEF step
<1>. DEFINE F(f) == [i \in 0 .. n |-> IF i = 0 THEN <<>> ELSE f[i-1] \o C(i)]
            h == CHOOSE f : f = F(f)
<1>6. g = F(g)
  <2>1. DOMAIN g = 0 .. n /\ g = [i \in 0 .. n |-> g[i]]
    BY <1>4
  <2>2. ASSUME NEW i \in 0 .. n PROVE g[i] = F(g)[i]
    <3>1. CASE i = 0
      BY <1>1, <1>4, <3>1
    <3>2. CASE i # 0
      <4>1. i \in 1 .. n
        BY <1>1, <3>2
      <4>. QED  BY <1>5, <3>2, <4>1
    <3>. QED  BY <3>1, <3>2
  <2>3. DOMAIN F(g) = 0 .. n /\ F(g) = [i \in 0 .. n |-> F(g)[i]]
    OBVIOUS
  <2>. HIDE DEF F
  <2>. QED  BY <2>1, <2>2, <2>3
<1>7. h = F(h)
  BY <1>6
<1>8. CallsUpto(n) = h[n]
  BY DEF CallsUpto, C
<1>. HIDE DEF h
<1>9. h[0] = <<>> /\ \A i \in 1 .. n : h[i] = h[i-1] \o C(i)
  <2>1. h[0] = <<>>
    BY <1>1, <1>7
  <2>2. ASSUME NEW i \in 1 .. n PROVE h[i] = h[i-1] \o C(i)
    <3>1. i \in 0 .. n /\ i # 0
      BY <1>1
    <3>. QED  BY <1>7, <3>1
  <2>. QED  BY <2>1, <2>2
<1>10. DOMAIN h = 0 .. n /\ h = [i \in 0 .. n |-> h[i]]
  BY <1>7
<1>11. h[0] \in S /\ \A i \in 1 .. n : h[i-1] \in S => h[i] \in S
  <2>1. \A x, y \in S : x \o y \in S
    OBVIOUS
  <2>2. ASSUME NEW i \in 1 .. n, h[i-1] \in S PROVE h[i] \in S
    <3>. HIDE DEF S
    <3>. QED  BY <1>1, <1>9, <2>1, <2>2
  <2>. QED  BY <1>2, <1>9, <2>2
<1>12. \A i \in 0 .. n : h[i] \in S
  <2>. HIDE DEF S
  <2>. QED  BY <1>1, <1>11, LoopType
<1>13. h \in [0 .. n -> S]
  BY <1>10, <1>12
<1>. HIDE DEF F
<1>. QED  BY <1>8, <1>9, <1>13 DEF C

LEMMA UptoFacts ==
  ASSUME Flow
  PROVE  /\ CallsUpto(0) = <<>>
         /\ \A n \in 0 .. Len(input.windows) : CallsUpto(n) \in Seq(Call)
         /\ \A n \in 1 .. Len(input.windows) : CallsUpto(n) = CallsUpto(n - 1) \o input.windows[n]
<1>1. Len(input.windows) \in Nat
  BY InputFacts
<1>2. CallsUpto(0) = <<>>
  <2>1. 0 \in 0 .. Len(input.windows)
    BY <1>1
  <2>. QED  BY <2>1, UptoLoop
<1>3. ASSUME NEW n \in 0 .. Len(input.windows) PROVE CallsUpto(n) \in Seq(Call)
  <2>1. n \in 0 .. n
    BY <1>1
  <2>2. PICK g \in [0 .. n -> Seq(Call)] : CallsUpto(n) = g[n]
    BY UptoLoop
  <2>. QED  BY <2>1, <2>2
<1>4. ASSUME NEW n \in 1 .. Len(input.windows) PROVE CallsUpto(n) = CallsUpto(n - 1) \o input.windows[n]
  <2>. DEFINE m == n - 1
  <2>1. m \in Nat /\ m \in 0 .. Len(input.windows) /\ n \in 0 .. Len(input.windows) /\ n = m + 1 /\ n \in 1 .. n
    BY <1>1
  <2>. HIDE DEF m
  <2>2. PICK g \in [0 .. m -> Seq(Call)] :
          g[0] = <<>> /\ CallsUpto(m) = g[m] /\ \A i \in 1 .. m : g[i] = g[i-1] \o input.windows[i]
    BY <2>1, UptoLoop
  <2>3. PICK h \in [0 .. n -> Seq(Call)] :
          h[0] = <<>> /\ CallsUpto(n) = h[n] /\ \A i \in 1 .. n : h[i] = h[i-1] \o input.windows[i]
    BY <2>1, UptoLoop
  <2>. DEFINE P == {i \in Nat : i <= m => h[i] = g[i]}
  <2>4. 0 \in P
    BY <2>2, <2>3
  <2>5. ASSUME NEW i \in Nat, i \in P PROVE i + 1 \in P
    <3> SUFFICES ASSUME i + 1 <= m PROVE h[i+1] = g[i+1]
      OBVIOUS
    <3>1. i + 1 \in 1 .. m /\ i + 1 \in 1 .. n /\ (i + 1) - 1 = i /\ i <= m
      BY <2>1
    <3>2. h[i] = g[i]
      BY <2>5, <3>1
    <3>3. h[i+1] = h[i] \o input.windows[i+1] /\ g[i+1] = g[i] \o input.windows[i+1]
      BY <2>2, <2>3, <3>1
    <3>. QED  BY <3>2, <3>3
  <2>6. m \in P
    <3>. HIDE DEF P
    <3>. QED  BY <2>1, <2>4, <2>5, SetInduction
  <2>7. h[m] = g[m]
    BY <2>1, <2>6
  <2>8. h[n] = h[n-1] \o input.windows[n]
    BY <2>1, <2>3
  <2>9. n - 1 = m
    BY <2>1
  <2>. QED  BY <2>2, <2>3, <2>7, <2>8, <2>9
<1>. QED  BY <1>2, <1>3, <1>4

\* What the summaries merged so far are of.
SeenCalls == CallsUpto(IF pc = "merge" THEN at - 1 ELSE Len(input.windows))

\* Over the windows so far, all has a summary of the calls of each key.
Merged ==
  /\ pc = "measure" => all = <<>>
  /\ pc = "merge" => at - 1 <= Len(input.windows)
  /\ pc # "measure" => /\ DOMAIN all = Keys(SeenCalls)
                       /\ \A k \in DOMAIN all : Describes(all[k], OfKey(SeenCalls, k))

LEMMA MergedAny ==
  ASSUME NEW calls, calls \in Seq(Call), NEW f, DOMAIN f = Keys(calls), NEW k,
         \A l \in DOMAIN f : Describes(f[l], OfKey(calls, l))
  PROVE  DescribesAny(StatsAt(f, k), OfKey(calls, k))
<1>1. CASE k \in DOMAIN f
  <2>1. Describes(f[k], OfKey(calls, k)) /\ StatsAt(f, k) = f[k]
    BY <1>1 DEF StatsAt
  <2>. QED  BY <2>1 DEF DescribesAny, Describes
<1>2. CASE k \notin DOMAIN f
  BY <1>2, KeyMissing DEF StatsAt, DescribesAny
<1>. QED  BY <1>1, <1>2

LEMMA MergedStep == Flow /\ Windowed /\ Merged /\ [Next]_vars => Merged'
<1> SUFFICES ASSUME Flow, Windowed, Merged, [Next]_vars PROVE Merged'
  OBVIOUS
<1>1. CASE EndWindow
  BY <1>1 DEF EndWindow, Merged, printed
<1>2. CASE Finish
  <2>1. UNCHANGED <<input, all>> /\ pc = "measure" /\ pc' = "merge" /\ at' = 1
    BY <1>2 DEF Finish, printed
  <2>2. all' = <<>>
    BY <2>1 DEF Merged
  <2>3. SeenCalls' = <<>>
    <3>1. SeenCalls' = CallsUpto(0)'
      BY <2>1 DEF SeenCalls
    <3>2. CallsUpto(0)' = CallsUpto(0)
      BY <2>1 DEF CallsUpto
    <3>. QED  BY <3>1, <3>2, UptoFacts
  <2>4. DOMAIN all' = {} /\ Keys(<<>>) = {}
    BY <2>2 DEF Keys, Requests
  <2>5. DOMAIN all' = Keys(SeenCalls')
    BY <2>3, <2>4
  <2>6. at' - 1 <= Len(input'.windows)
    BY <2>1, InputFacts
  <2>. QED  BY <2>1, <2>4, <2>5, <2>6 DEF Merged
<1>3. CASE MergeWindow
  <2>. DEFINE n == Len(input.windows)
              w == input.windows[at]
              c == CallsUpto(at - 1)
              e == CallsUpto(at)
              f == CallWindow(w)
  <2>1. /\ UNCHANGED <<input, pc>> /\ pc = "merge" /\ at' = at + 1 /\ at <= Len(breakdowns)
        /\ all' = MergeMaps(all, breakdowns[at])
    BY <1>3 DEF MergeWindow
  <2>2. at \in 1 .. n /\ at - 1 \in 0 .. n /\ at \in 0 .. n /\ breakdowns[at] = f /\ (at + 1) - 1 = at
    <3>1. Len(breakdowns) = n /\ n \in Nat /\ at \in Nat \ {0}
      BY <2>1, InputFacts DEF Windowed, Flow
    <3>. QED  BY <2>1, <3>1 DEF Windowed
  <2>3. w \in Seq(Call) /\ c \in Seq(Call) /\ e = c \o w
    BY <2>2, WindowCalls, UptoFacts
  <2>4. SeenCalls = c /\ SeenCalls' = e
    <3>1. SeenCalls = c
      BY <2>1 DEF SeenCalls
    <3>2. SeenCalls' = e
      BY <2>1, <2>2 DEF SeenCalls, CallsUpto
    <3>. QED  BY <3>1, <3>2
  <2>. HIDE DEF c, e, w, n
  <2>5. DOMAIN all = Keys(c) /\ \A k \in DOMAIN all : Describes(all[k], OfKey(c, k))
    BY <2>1, <2>4 DEF Merged
  <2>6. DOMAIN f = Keys(w)
    BY DEF CallWindow, Keys
  <2>7. Requests(e) = Requests(c) \cup Requests(w) /\ e \in Seq(Call)
    BY <2>3, RequestsConcat
  <2>8. DOMAIN all' = Keys(e)
    <3>1. DOMAIN all' = Keys(c) \cup Keys(w)
      BY <2>1, <2>2, <2>5, <2>6 DEF MergeMaps
    <3>. QED  BY <2>7, <3>1 DEF Keys
  <2>9. ASSUME NEW k \in DOMAIN all' PROVE Describes(all'[k], OfKey(e, k))
    <3>1. all'[k] = MergeCallStats(StatsAt(all, k), StatsAt(f, k))
      BY <2>1, <2>2, <2>9 DEF MergeMaps
    <3>2. DescribesAny(StatsAt(all, k), OfKey(c, k))
      BY <2>3, <2>5, MergedAny
    <3>3. DescribesAny(StatsAt(f, k), OfKey(w, k))
      BY <2>3, WindowDescribed
    <3>4. Combined(OfKey(e, k), OfKey(c, k), OfKey(w, k))
      BY <2>3, KeyConcat
    <3>5. OfKey(e, k) \in Seq(Nat) /\ OfKey(c, k) \in Seq(Nat) /\ OfKey(w, k) \in Seq(Nat)
      BY <2>3, <2>7, TimesType DEF OfKey
    <3>6. DescribesAny(all'[k], OfKey(e, k))
      BY <3>1, <3>2, <3>3, <3>4, <3>5, MergeDescribes
    <3>7. OfKey(e, k) # <<>>
      <4>1. PICK r \in Requests(e) : RequestKey(r) = k
        BY <2>8 DEF Keys
      <4>2. r \in WithKey(Requests(e), k)
        BY <4>1 DEF WithKey
      <4>. QED  BY <2>7, <4>2, TimesSome DEF OfKey
    <3>. QED  BY <3>6, <3>7 DEF DescribesAny
  <2>10. DOMAIN all' = Keys(SeenCalls') /\ \A k \in DOMAIN all' : Describes(all'[k], OfKey(SeenCalls', k))
    BY <2>4, <2>8, <2>9
  <2>11. pc' = "merge" /\ at' - 1 <= Len(input'.windows)
    BY <2>1, <2>2 DEF n
  <2>. QED  BY <2>10, <2>11 DEF Merged, OfKey
<1>4. CASE BeginAggregate
  <2>1. /\ UNCHANGED <<input, at, all>> /\ pc = "merge" /\ pc' = "aggregate" /\ at > Len(breakdowns)
    BY <1>4 DEF BeginAggregate
  <2>2. at - 1 = Len(input.windows)
    BY <2>1, InputFacts DEF Merged, Windowed, Flow
  <2>3. SeenCalls' = SeenCalls
    BY <2>1, <2>2 DEF SeenCalls, CallsUpto
  <2>. QED  BY <2>1, <2>3 DEF Merged
<1>5. CASE (\E k \in pending : Aggregate(k)) \/ PrintStats
  <2>1. UNCHANGED <<input, all>> /\ pc \notin {"measure", "merge"} /\ pc' \notin {"measure", "merge"}
    BY <1>5 DEF Aggregate, PrintStats
  <2>2. SeenCalls' = SeenCalls
    BY <2>1 DEF SeenCalls, CallsUpto
  <2>. QED  BY <2>1, <2>2 DEF Merged
<1>6. CASE UNCHANGED vars
  <2>1. UNCHANGED <<input, all, pc, at>>
    BY <1>6 DEF vars
  <2>2. SeenCalls' = SeenCalls
    BY <2>1 DEF SeenCalls, CallsUpto
  <2>. QED  BY <2>1, <2>2 DEF Merged
<1>. QED  BY <1>1, <1>2, <1>3, <1>4, <1>5, <1>6 DEF Next, Ended

\* The requests of a method whose keys are among these.
OfMethod(m, keys) == {r \in Requests(Calls) : RequestKey(r) \in keys /\ RequestKey(r)[1] = m}
MethodTimesOf(m, keys) == Times(Calls, OfMethod(m, keys))

\* The totals are those of the keys that the loop is done with.
Aggregated ==
  /\ pc \in {"measure", "merge"} => byMethod = <<>>
  /\ pc \in {"aggregate", "done"} =>
       /\ pending \subseteq DOMAIN all
       /\ DOMAIN byMethod = {k[1] : k \in DOMAIN all \ pending}
       /\ \A m \in DOMAIN byMethod : Describes(byMethod[m], MethodTimesOf(m, DOMAIN all \ pending))
  /\ pc = "done" => pending = {}

LEMMA AggregatedStep == Flow /\ Merged /\ Aggregated /\ [Next]_vars => Aggregated'
<1> SUFFICES ASSUME Flow, Merged, Aggregated, [Next]_vars PROVE Aggregated'
  OBVIOUS
<1>1. CASE EndWindow \/ Finish
  BY <1>1 DEF EndWindow, Finish, Aggregated, printed
<1>2. CASE MergeWindow
  BY <1>2 DEF MergeWindow, Aggregated
<1>3. CASE BeginAggregate
  <2>1. pc = "merge" /\ pc' = "aggregate" /\ pending' = DOMAIN all /\ UNCHANGED <<input, all, byMethod>>
    BY <1>3 DEF BeginAggregate
  <2>2. byMethod' = <<>> /\ DOMAIN all' \ pending' = {}
    BY <2>1 DEF Aggregated
  <2>3. DOMAIN byMethod' = {}
    BY <2>2
  <2>. QED  BY <2>1, <2>2, <2>3 DEF Aggregated
<1>4. ASSUME NEW k \in pending, Aggregate(k) PROVE Aggregated'
  <2>. DEFINE K == DOMAIN all \ pending
              h == k[1]
              F == [m \in {h} |-> all[k]]
              T(m) == MethodTimesOf(m, K)
              T2(m) == MethodTimesOf(m, K \cup {k})
  <2>1. /\ UNCHANGED <<input, pc, all>> /\ pc = "aggregate" /\ byMethod' = MergeMaps(byMethod, F)
        /\ pending' = pending \ {k}
    BY <1>4 DEF Aggregate
  <2>2. /\ pending \subseteq DOMAIN all /\ DOMAIN byMethod = {l[1] : l \in K}
        /\ \A m \in DOMAIN byMethod : Describes(byMethod[m], T(m))
    BY <2>1 DEF Aggregated
  <2>3. Calls \in Seq(Call) /\ SeenCalls = Calls
    <3>1. Len(input.windows) \in 0 .. Len(input.windows)
      BY InputFacts
    <3>. QED  BY <2>1, <3>1, UptoFacts DEF Calls, SeenCalls
  <2>4. Describes(all[k], OfKey(Calls, k)) /\ k \in Keys(Calls)
    BY <2>1, <2>2, <2>3 DEF Merged
  <2>5. Calls' = Calls
    BY <2>1 DEF Calls, CallsUpto
  <2>6. DOMAIN all' \ pending' = K \cup {k} /\ k \notin K /\ pending' \subseteq DOMAIN all'
    BY <2>1, <2>2
  <2>7. \A m : T(m) \in Seq(Nat) /\ T2(m) \in Seq(Nat)
    BY <2>3, TimesType DEF MethodTimesOf
  <2>8. OfKey(Calls, k) \in Seq(Nat)
    BY <2>3, TimesType DEF OfKey
  <2>9. DOMAIN byMethod' = {l[1] : l \in K \cup {k}}
    <3>1. DOMAIN byMethod' = DOMAIN byMethod \cup {h}
      BY <2>1 DEF MergeMaps
    <3>. QED  BY <2>2, <3>1
  <2>10. DescribesAny(StatsAt(byMethod, h), T(h))
    <3>1. CASE h \in DOMAIN byMethod
      <4>1. Describes(byMethod[h], T(h)) /\ StatsAt(byMethod, h) = byMethod[h]
        BY <2>2, <3>1 DEF StatsAt
      <4>. QED  BY <4>1 DEF DescribesAny, Describes
    <3>2. CASE h \notin DOMAIN byMethod
      <4>1. OfMethod(h, K) \cap Requests(Calls) = {}
        BY <2>2, <3>2 DEF OfMethod
      <4>2. T(h) = <<>>
        BY <2>3, <4>1, TimesNone DEF MethodTimesOf
      <4>. QED  BY <3>2, <4>2 DEF StatsAt, DescribesAny
    <3>. QED  BY <3>1, <3>2
  <2>11. Combined(T2(h), T(h), OfKey(Calls, k))
    <3>. DEFINE A == OfMethod(h, K)
                B == WithKey(Requests(Calls), k)
    <3>1. A \cap B = {} /\ OfMethod(h, K \cup {k}) = A \cup B
      BY <2>6 DEF OfMethod, WithKey
    <3>. HIDE DEF A, B
    <3>2. Combined(Times(Calls, A \cup B), Times(Calls, A), Times(Calls, B))
      BY <2>3, <3>1, TimesSplit
    <3>. QED  BY <3>1, <3>2 DEF A, B, MethodTimesOf, OfKey
  <2>12. ASSUME NEW m \in DOMAIN byMethod' PROVE Describes(byMethod'[m], T2(m))
    <3>1. byMethod'[m] = MergeCallStats(StatsAt(byMethod, m), StatsAt(F, m))
      BY <2>1, <2>12 DEF MergeMaps
    <3>2. CASE m = h
      <4>1. StatsAt(F, h) = all[k]
        BY DEF StatsAt
      <4>2. DescribesAny(all[k], OfKey(Calls, k)) /\ OfKey(Calls, k) # <<>>
        BY <2>4 DEF DescribesAny, Describes
      <4>. HIDE DEF T, T2, h, F
      <4>3. DescribesAny(MergeCallStats(StatsAt(byMethod, h), all[k]), T2(h))
        BY <2>7, <2>8, <2>10, <2>11, <4>2, MergeDescribes
      <4>4. T2(h) # <<>>
        <5>1. \A q \in Seq(Nat) : Len(q) \in Nat /\ (q = <<>> <=> Len(q) = 0)
          OBVIOUS
        <5>2. Len(T2(h)) = Len(T(h)) + Len(OfKey(Calls, k))
          BY <2>11 DEF Combined
        <5>3. Len(OfKey(Calls, k)) \in Nat \ {0} /\ Len(T(h)) \in Nat
          BY <2>7, <2>8, <4>2, <5>1
        <5>4. Len(T2(h)) # 0
          BY <5>2, <5>3
        <5>. QED  BY <2>7, <5>1, <5>4
      <4>. QED  BY <3>1, <3>2, <4>1, <4>3, <4>4 DEF DescribesAny
    <3>3. CASE m # h
      <4>1. m \in DOMAIN byMethod
        BY <2>2, <2>9, <3>3
      <4>2. Describes(byMethod[m], T(m)) /\ StatsAt(byMethod, m) = byMethod[m] /\ StatsAt(F, m) = NoStats
        BY <2>2, <3>3, <4>1 DEF StatsAt
      <4>3. byMethod[m].count # 0
        <5>1. \A q \in Seq(Nat) : q # <<>> => Len(q) # 0
          OBVIOUS
        <5>2. T(m) \in Seq(Nat)
          BY <2>7
        <5>. HIDE DEF T
        <5>. QED  BY <4>2, <5>1, <5>2 DEF Describes
      <4>4. byMethod'[m] = byMethod[m]
        BY <3>1, <4>2, <4>3 DEF MergeCallStats, NoStats
      <4>5. OfMethod(m, K \cup {k}) = OfMethod(m, K)
        BY <3>3 DEF OfMethod
      <4>. QED  BY <4>2, <4>4, <4>5 DEF MethodTimesOf
    <3>. QED  BY <3>2, <3>3
  <2>13. \A m : MethodTimesOf(m, DOMAIN all \ pending)' = T2(m)
    BY <2>5, <2>6 DEF MethodTimesOf, OfMethod
  <2>14. (\A m \in DOMAIN byMethod : Describes(byMethod[m], MethodTimesOf(m, DOMAIN all \ pending)))'
    BY <2>12, <2>13
  <2>. QED  BY <2>1, <2>6, <2>9, <2>14 DEF Aggregated
<1>5. CASE PrintStats
  <2>1. pc = "aggregate" /\ pending = {} /\ pc' = "done" /\ UNCHANGED <<input, all, pending, byMethod>>
    BY <1>5 DEF PrintStats
  <2>2. Calls' = Calls
    BY <2>1 DEF Calls, CallsUpto
  <2>. QED  BY <2>1, <2>2 DEF Aggregated, MethodTimesOf, OfMethod
<1>6. CASE UNCHANGED vars
  <2>1. UNCHANGED <<input, all, pending, byMethod, pc>>
    BY <1>6 DEF vars
  <2>2. Calls' = Calls
    BY <2>1 DEF Calls, CallsUpto
  <2>. QED  BY <2>1, <2>2 DEF Aggregated, MethodTimesOf, OfMethod
<1>. QED  BY <1>1, <1>2, <1>3, <1>4, <1>5, <1>6 DEF Next, Ended

-----------------------------------------------------------------------------
\* The keys of requests for collections.

LEMMA PathFacts ==
  ASSUME NEW r \in Request
  PROVE  Len(r.path) \in Nat /\ DOMAIN r.path = 1 .. Len(r.path)
<1>. DEFINE S == Segment
            p == r.path
<1>1. p \in Seq(S)
  BY DEF Request
<1>. HIDE DEF S, p
<1>2. Len(p) \in Nat /\ DOMAIN p = 1 .. Len(p)
  BY <1>1
<1>. QED  BY <1>2 DEF p

\* Which segments are skipped, one after the other.
LEMMA SkippedLoop ==
  ASSUME NEW r \in Request
  PROVE  LET p == r.path
             s == IsNamespaceValue(p)
         IN  \A i \in 1 .. Len(p) : s[i] <=> i > 1 /\ p[i-1].text = "namespaces" /\ ~s[i-1]
<1>. DEFINE p == r.path
            n == Len(p)
            S == BOOLEAN
            base == FALSE
            Is(i, x) == i > 1 /\ p[i-1].text = "namespaces" /\ ~x
            step == [t \in (1 .. n) \X S |-> Is(t[1], t[2])]
<1>1. n \in Nat
  BY PathFacts
<1>2. base \in S /\ step \in [(1 .. n) \X S -> S]
  <2>1. \A i, x : Is(i, x) \in BOOLEAN
    OBVIOUS
  <2>. HIDE DEF Is
  <2>. QED  BY <2>1
<1>3. PICK g : g \in Loops(n, S, base, step)
  <2>. HIDE DEF n, S, base, step
  <2>. QED  BY <1>1, <1>2, LoopExists
<1>4. g \in [0 .. n -> S] /\ \A i \in 1 .. n : g[i] = step[<<i, g[i-1]>>]
  BY <1>3 DEF Loops
<1>5. ASSUME NEW i \in 1 .. n PROVE g[i] = Is(i, g[i-1])
  <2>1. g[i-1] \in S
    BY <1>1, <1>4
  <2>. HIDE DEF Is
  <2>2. step[<<i, g[i-1]>>] = Is(i, g[i-1])
    BY <2>1
  <2>. HIDE DEF step
  <2>. QED  BY <1>4, <2>2
<1>. HIDE DEF step
<1>. DEFINE F(f) == [i \in 1 .. Len(p) |-> i > 1 /\ p[i-1].text = "namespaces" /\ ~f[i-1]]
            h == CHOOSE f : f = F(f)
            d == [i \in 1 .. n |-> g[i]]
<1>6. d = F(d)
  <2>1. ASSUME NEW i \in 1 .. n PROVE d[i] = F(d)[i]
    <3>1. CASE i = 1
      BY <1>5, <3>1
    <3>2. CASE i # 1
      <4>1. i - 1 \in 1 .. n
        BY <1>1, <3>2
      <4>2. d[i-1] = g[i-1] /\ d[i] = g[i]
        BY <4>1
      <4>. QED  BY <1>5, <4>2
    <3>. QED  BY <3>1, <3>2
  <2>2. DOMAIN d = 1 .. n /\ d = [i \in 1 .. n |-> d[i]]
    OBVIOUS
  <2>3. DOMAIN F(d) = 1 .. n /\ F(d) = [i \in 1 .. n |-> F(d)[i]]
    OBVIOUS
  <2>. HIDE DEF F, d
  <2>. QED  BY <2>1, <2>2, <2>3
<1>7. h = F(h)
  <2>. HIDE DEF F, d
  <2>. QED  BY <1>6
<1>8. IsNamespaceValue(p) = h
  BY DEF IsNamespaceValue
<1>. HIDE DEF h
<1>9. \A i \in 1 .. n : h[i] <=> i > 1 /\ p[i-1].text = "namespaces" /\ ~h[i-1]
  BY <1>7
<1>. QED  BY <1>8, <1>9

\* The key of a collection: all of the root, and the resource at the end.
LEMMA CollectionKey ==
  ASSUME NEW r \in Request, IsCollection(r)
  PROVE  LET p == r.path
             n == Len(p)
             m == RootLen(p)
             k == RequestKey(r)
         IN  /\ DOMAIN k = 1 .. n + 1 /\ k[1] = Op(r) /\ k[n+1] = r.resource /\ k = [i \in 1 .. n + 1 |-> k[i]]
             /\ n \in 3 .. 6 /\ m \in 2 .. 3 /\ (n = m + 1 \/ n = m + 3)
             /\ \A i \in 1 .. m : k[i+1] = IF p[i].word THEN p[i].text ELSE "*"
             /\ n = m + 3 => k[m+2] = "namespaces" /\ k[m+3] = "*"
<1>. DEFINE p == r.path
            n == Len(p)
            m == RootLen(p)
            s == IsNamespaceValue(p)
            q == NormalizeAPIPath(p)
            k == RequestKey(r)
<1>1. /\ n \in 3 .. 6 /\ p[n] = [text |-> r.resource, word |-> TRUE]
      /\ \A i \in 1 .. m : p[i].text # "namespaces"
      /\ n = m + 3 => p[m+1] = [text |-> "namespaces", word |-> TRUE]
  BY DEF IsCollection
<1>2. DOMAIN p = 1 .. n /\ n \in Nat
  BY PathFacts
<1>3. m \in 2 .. 3 /\ (n = m + 1 \/ n = m + 3)
  <2>1. n \in 3 .. 6 /\ m = IF n \in {3, 5} THEN 2 ELSE 3
    BY <1>1 DEF RootLen
  <2>. HIDE DEF n, m
  <2>2. n = 3 \/ n = 4 \/ n = 5 \/ n = 6
    BY <2>1
  <2>. QED  BY <2>1, <2>2
<1>4. \A i \in 1 .. n : s[i] <=> i > 1 /\ p[i-1].text = "namespaces" /\ ~s[i-1]
  BY SkippedLoop
<1>5. q = [i \in 1 .. n |-> IF p[i].word /\ ~s[i] THEN p[i].text ELSE "*"]
  BY <1>2 DEF NormalizeAPIPath
<1>6. /\ DOMAIN k = 1 .. n + 1 /\ k = [i \in 1 .. n + 1 |-> k[i]] /\ k[1] = Op(r)
      /\ \A i \in 1 .. n : k[i+1] = q[i]
  <2>. DEFINE S == {q[i] : i \in 1 .. n} \cup {Op(r)}
              a == Op(r)
  <2>1. k = <<a>> \o q
    BY DEF RequestKey, Op
  <2>2. a \in S /\ q \in [1 .. n -> S]
    <3>1. DOMAIN q = 1 .. n /\ q = [i \in 1 .. n |-> q[i]]
      BY <1>5
    <3>2. \A i \in 1 .. n : q[i] \in S
      OBVIOUS
    <3>. HIDE DEF q, S
    <3>3. q \in [1 .. n -> S]
      BY <3>1, <3>2
    <3>. QED  BY <3>3 DEF S
  <2>. HIDE DEF k, q, a, S, n
  <2>3. q \in Seq(S) /\ Len(q) = n
    BY <1>2, <2>2
  <2>4. k \in Seq(S) /\ Len(k) = n + 1 /\ k[1] = a
    BY <1>2, <2>1, <2>2, <2>3
  <2>5. \A i \in 1 .. n : k[i+1] = q[i]
    BY <1>2, <2>1, <2>2, <2>3
  <2>6. DOMAIN k = 1 .. n + 1 /\ k = [i \in 1 .. n + 1 |-> k[i]]
    BY <1>2, <2>4
  <2>. QED  BY <2>4, <2>5, <2>6 DEF a
<1>7. ASSUME NEW i \in 1 .. m + 1 PROVE ~s[i] /\ i \in 1 .. n
  <2>1. i \in 1 .. n
    BY <1>1, <1>3
  <2>2. i = 1 \/ i - 1 \in 1 .. m
    BY <1>3
  <2>. HIDE DEF s, p, n, m
  <2>. QED  BY <1>1, <1>4, <2>1, <2>2
<1>8. ASSUME n = m + 3 PROVE s[m+2] /\ ~s[m+3]
  <2>1. m + 1 \in 1 .. m + 1 /\ m + 2 \in 1 .. n /\ m + 3 \in 1 .. n /\ (m + 2) - 1 = m + 1 /\ (m + 3) - 1 = m + 2
        /\ m + 2 > 1
    BY <1>3, <1>8
  <2>2. ~s[m+1] /\ p[m+1].text = "namespaces"
    BY <1>1, <1>7, <1>8, <2>1
  <2>. HIDE DEF s, p, n, m
  <2>3. s[m+2]
    BY <1>4, <2>1, <2>2
  <2>. QED  BY <1>4, <2>1, <2>3
<1>9. ASSUME NEW i \in 1 .. m PROVE k[i+1] = IF p[i].word THEN p[i].text ELSE "*"
  <2>1. i \in 1 .. m + 1
    BY <1>3
  <2>2. ~s[i] /\ i \in 1 .. n
    BY <1>7, <2>1
  <2>. HIDE DEF s, p, n, m, k
  <2>3. q[i] = IF p[i].word THEN p[i].text ELSE "*"
    BY <1>5, <2>2
  <2>. HIDE DEF q
  <2>. QED  BY <1>6, <2>2, <2>3
<1>10. ASSUME n = m + 3 PROVE k[m+2] = "namespaces" /\ k[m+3] = "*"
  <2>1. m + 1 \in 1 .. m + 1 /\ m + 1 \in 1 .. n /\ m + 2 \in 1 .. n /\ (m + 1) + 1 = m + 2 /\ (m + 2) + 1 = m + 3
    BY <1>3, <1>10
  <2>2. ~s[m+1] /\ s[m+2] /\ p[m+1].word /\ p[m+1].text = "namespaces"
    BY <1>1, <1>7, <1>8, <1>10, <2>1
  <2>. HIDE DEF s, p, n, m, k
  <2>3. q[m+1] = "namespaces" /\ q[m+2] = "*"
    BY <1>5, <2>1, <2>2
  <2>. HIDE DEF q
  <2>4. k[(m+1)+1] = q[m+1] /\ k[(m+2)+1] = q[m+2]
    BY <1>6, <2>1
  <2>. QED  BY <2>1, <2>3, <2>4
<1>11. k[n+1] = r.resource
  <2>1. n \in 1 .. n /\ p[n].word /\ p[n].text = r.resource
    <3>1. n \in 3 .. 6 /\ p[n] = [text |-> r.resource, word |-> TRUE]
      BY <1>1
    <3>. HIDE DEF n, p
    <3>. QED  BY <3>1
  <2>2. ~s[n]
    <3>1. CASE n = m + 1
      <4>1. m + 1 \in 1 .. m + 1
        BY <1>3
      <4>. QED  BY <1>7, <3>1, <4>1
    <3>2. CASE n = m + 3
      BY <1>8, <3>2
    <3>. QED  BY <1>3, <3>1, <3>2
  <2>. HIDE DEF s, p, n, m, k
  <2>3. q[n] = r.resource
    BY <1>5, <2>1, <2>2
  <2>. HIDE DEF q
  <2>. QED  BY <1>6, <2>1, <2>3
<1>. QED  BY <1>1, <1>3, <1>6, <1>9, <1>10, <1>11

\* The key tells two collections apart, and nothing else of them (transport.go:100-149).
LEMMA KeysDistinguish ==
  ASSUME NEW p \in Request, NEW q \in Request, IsCollection(p), IsCollection(q), OfOneScope(p, q)
  PROVE  RequestKey(p) = RequestKey(q) <=> Op(p) = Op(q) /\ p.resource = q.resource
<1>. DEFINE n == Len(p.path)
            m == RootLen(p.path)
            k == RequestKey(p)
            l == RequestKey(q)
<1>1. /\ DOMAIN k = 1 .. n + 1 /\ k[1] = Op(p) /\ k[n+1] = p.resource /\ k = [i \in 1 .. n + 1 |-> k[i]]
      /\ n \in 3 .. 6 /\ m \in 2 .. 3 /\ (n = m + 1 \/ n = m + 3)
      /\ \A i \in 1 .. m : k[i+1] = IF p.path[i].word THEN p.path[i].text ELSE "*"
      /\ n = m + 3 => k[m+2] = "namespaces" /\ k[m+3] = "*"
  BY CollectionKey
<1>2. ASSUME k = l PROVE Op(p) = Op(q) /\ p.resource = q.resource
  <2>. DEFINE o == Len(q.path)
  <2>1. DOMAIN l = 1 .. o + 1 /\ l[1] = Op(q) /\ l[o+1] = q.resource /\ o \in 3 .. 6
    BY CollectionKey
  <2>. HIDE DEF k, l, n, m, o
  <2>2. 1 .. n + 1 = 1 .. o + 1
    BY <1>1, <1>2, <2>1
  <2>3. n = o
    <3>1. n + 1 \in 1 .. o + 1 /\ o + 1 \in 1 .. n + 1
      BY <1>1, <2>1, <2>2
    <3>. QED  BY <1>1, <2>1, <3>1
  <2>. QED  BY <1>1, <1>2, <2>1, <2>3
<1>3. ASSUME Op(p) = Op(q), p.resource = q.resource PROVE k = l
  <2>1. Len(q.path) = n /\ \A i \in 1 .. m : p.path[i] = q.path[i]
    BY <1>3 DEF OfOneScope
  <2>2. RootLen(q.path) = m
    BY <2>1 DEF RootLen
  <2>3. /\ DOMAIN l = 1 .. n + 1 /\ l[1] = Op(q) /\ l[n+1] = q.resource /\ l = [i \in 1 .. n + 1 |-> l[i]]
        /\ \A i \in 1 .. m : l[i+1] = IF q.path[i].word THEN q.path[i].text ELSE "*"
        /\ n = m + 3 => l[m+2] = "namespaces" /\ l[m+3] = "*"
    BY <2>1, <2>2, CollectionKey
  <2>. HIDE DEF k, l, n, m
  <2>4. ASSUME NEW i \in 1 .. n + 1 PROVE k[i] = l[i]
    <3>1. i = 1 \/ i = n + 1 \/ i - 1 \in 1 .. m \/ (n = m + 3 /\ (i = m + 2 \/ i = m + 3))
      BY <1>1
    <3>2. CASE i - 1 \in 1 .. m
      <4>. DEFINE j == i - 1
      <4>1. j \in 1 .. m /\ j + 1 = i
        BY <1>1, <3>2
      <4>. HIDE DEF j
      <4>2. k[j+1] = l[j+1]
        <5>1. p.path[j] = q.path[j]
          BY <2>1, <4>1
        <5>2. k[j+1] = IF p.path[j].word THEN p.path[j].text ELSE "*"
          BY <1>1, <4>1
        <5>3. l[j+1] = IF q.path[j].word THEN q.path[j].text ELSE "*"
          BY <2>3, <4>1
        <5>. QED  BY <5>1, <5>2, <5>3
      <4>. QED  BY <4>1, <4>2
    <3>3. CASE i = 1 \/ i = n + 1
      BY <1>1, <1>3, <2>3, <3>3
    <3>4. CASE n = m + 3 /\ (i = m + 2 \/ i = m + 3)
      BY <1>1, <2>3, <3>4
    <3>. QED  BY <3>1, <3>2, <3>3, <3>4
  <2>. QED  BY <1>1, <2>3, <2>4
<1>. QED  BY <1>2, <1>3

-----------------------------------------------------------------------------
\* What the report says.

LEMMA CallsType ==
  ASSUME Flow
  PROVE  Calls \in Seq(Call) /\ \A r \in Requests(Calls) : r \in Request
<1>1. Len(input.windows) \in 0 .. Len(input.windows)
  BY InputFacts
<1>2. Calls \in Seq(Call)
  BY <1>1, UptoFacts DEF Calls
<1>. QED  BY <1>2, CallsFacts DEF Requests

\* At the end the totals of a method are of all its calls.
LEMMA MethodsDescribed ==
  ASSUME Flow, Merged, Aggregated, pc = "done"
  PROVE  /\ DOMAIN byMethod = {Op(r) : r \in Requests(Calls)}
         /\ \A m \in DOMAIN byMethod : Describes(byMethod[m], MethodTimes(m)) /\ MethodTimes(m) \in Seq(Nat)
<1>1. pending = {} /\ DOMAIN byMethod = {k[1] : k \in DOMAIN all}
      /\ \A m \in DOMAIN byMethod : Describes(byMethod[m], MethodTimesOf(m, DOMAIN all))
  <2>1. pending = {} /\ DOMAIN all \ pending = DOMAIN all
    BY DEF Aggregated
  <2>. QED  BY <2>1 DEF Aggregated
<1>2. DOMAIN all = Keys(Calls)
  BY DEF Merged, SeenCalls, Calls
<1>3. DOMAIN byMethod = {Op(r) : r \in Requests(Calls)}
  BY <1>1, <1>2, KeyHead DEF Keys
<1>4. ASSUME NEW m PROVE MethodTimesOf(m, DOMAIN all) = MethodTimes(m)
  <2>1. OfMethod(m, DOMAIN all) = {r \in Requests(Calls) : Op(r) = m}
    BY <1>2, KeyHead DEF OfMethod, Keys
  <2>. QED  BY <2>1 DEF MethodTimesOf, MethodTimes
<1>5. \A m : MethodTimes(m) \in Seq(Nat)
  BY CallsType, TimesType DEF MethodTimes
<1>. QED  BY <1>1, <1>3, <1>4, <1>5

LEMMA TotalsFollow == Flow /\ Merged /\ Aggregated => TotalsExact
<1> SUFFICES ASSUME Flow, Merged, Aggregated PROVE TotalsExact
  OBVIOUS
<1>1. ASSUME pc = "done", NEW m \in DOMAIN byMethod
      PROVE  LET exact == ComputeCallStats(MethodTimes(m))
             IN  byMethod[m].count = exact.count /\ byMethod[m].min = exact.min /\ byMethod[m].max = exact.max
  <2>. DEFINE q == MethodTimes(m)
              s == byMethod[m]
              e == ComputeCallStats(q)
  <2>1. Describes(s, q) /\ q \in Seq(Nat)
    BY <1>1, MethodsDescribed
  <2>. HIDE DEF q, s, e
  <2>2. Describes(e, q)
    <3>1. q # <<>>
      BY <2>1 DEF Describes
    <3>. QED  BY <2>1, <3>1, StatsDescribe DEF e
  <2>3. s.count = e.count
    BY <2>1, <2>2 DEF Describes
  <2>4. s.min <= e.min /\ e.min <= s.min /\ s.min \in Nat /\ e.min \in Nat
    BY <2>1, <2>2 DEF Describes
  <2>5. s.max <= e.max /\ e.max <= s.max /\ s.max \in Nat /\ e.max \in Nat
    BY <2>1, <2>2 DEF Describes
  <2>. QED  BY <2>3, <2>4, <2>5 DEF q, s, e
<1>2. pc = "done" => DOMAIN byMethod = {Op(r) : r \in Requests(Calls)}
  BY MethodsDescribed
<1>3. ASSUME NEW p \in Requests(Calls), NEW q \in Requests(Calls), IsCollection(p), IsCollection(q), OfOneScope(p, q)
      PROVE  RequestKey(p) = RequestKey(q) <=> Op(p) = Op(q) /\ p.resource = q.resource
  <2>1. p \in Request /\ q \in Request
    BY CallsType
  <2>. QED  BY <1>3, <2>1, KeysDistinguish
<1>. QED  BY <1>1, <1>2, <1>3 DEF TotalsExact

LEMMA MeansFollow == Flow /\ Merged /\ Aggregated => MergedMeans
<1> SUFFICES ASSUME Flow, Merged, Aggregated PROVE MergedMeans
  OBVIOUS
<1>1. ASSUME NEW k \in DOMAIN all PROVE Ordered(all[k])
  <2>1. pc # "measure"
    BY <1>1 DEF Merged
  <2>2. Describes(all[k], OfKey(SeenCalls, k))
    BY <1>1, <2>1 DEF Merged
  <2>. QED  BY <2>2 DEF Describes
<1>2. ASSUME NEW m \in DOMAIN byMethod PROVE Ordered(byMethod[m])
  <2>1. pc \in {"aggregate", "done"}
    BY <1>2 DEF Aggregated, Flow
  <2>2. Describes(byMethod[m], MethodTimesOf(m, DOMAIN all \ pending))
    BY <1>2, <2>1 DEF Aggregated
  <2>. QED  BY <2>2 DEF Describes
<1>3. ASSUME pc = "done", NEW m \in DOMAIN byMethod
      PROVE  LET n == byMethod[m].count
             IN  /\ byMethod[m].mean * n <= Sum(MethodTimes(m))
                 /\ Sum(MethodTimes(m)) < (byMethod[m].mean + 2 * n) * n
  <2>. DEFINE q == MethodTimes(m)
              n == Len(q)
              a == byMethod[m].mean
              t == Sum(q)
  <2>1. Describes(byMethod[m], q) /\ q \in Seq(Nat)
    BY <1>3, MethodsDescribed
  <2>2. byMethod[m].count = n /\ a \in Nat /\ a * n <= t /\ t < (a + 2 * n - 1) * n
    BY <2>1 DEF Describes
  <2>3. n \in Nat \ {0} /\ t \in Nat
    <3>1. q # <<>>
      BY <2>1 DEF Describes
    <3>. HIDE DEF q
    <3>. QED  BY <2>1, <3>1, SumType
  <2>. HIDE DEF q, n, a, t
  <2>4. (a + 2 * n - 1) * n <= (a + 2 * n) * n
    <3>1. a + 2 * n - 1 \in Int /\ a + 2 * n \in Int /\ a + 2 * n - 1 <= a + 2 * n
      BY <2>2, <2>3
    <3>. QED  BY <2>3, <3>1, Factor
  <2>5. (a + 2 * n - 1) * n \in Int /\ (a + 2 * n) * n \in Int
    BY <2>2, <2>3
  <2>6. t < (a + 2 * n) * n
    BY <2>2, <2>3, <2>4, <2>5
  <2>. QED  BY <2>2, <2>6 DEF q, t, a
<1>. QED  BY <1>1, <1>2, <1>3 DEF MergedMeans

IInv == Flow /\ Sampled /\ Windowed /\ Merged /\ Aggregated

LEMMA InitIInv == Init => IInv
<1> SUFFICES ASSUME Init PROVE IInv
  OBVIOUS
<1>1. /\ input \in Inputs /\ pc = "measure" /\ at = 1 /\ breakdowns = <<>> /\ snapshots = <<>> /\ deltas = <<>>
      /\ all = <<>> /\ byMethod = <<>>
  BY DEF Init
<1>2. Len(input.windows) \in Nat
  <2>. DEFINE w == input.windows
              S == Seq(Call)
  <2>1. w \in Seq(S)
    BY <1>1, InputsAssumption
  <2>. HIDE DEF w, S
  <2>2. Len(w) \in Nat
    BY <2>1
  <2>. QED  BY <2>2 DEF w
<1>3. Flow
  BY <1>1, <1>2 DEF Flow
<1>4. \A S : <<>> \in Seq(S) /\ Len(<<>>) = 0
  OBVIOUS
<1>5. Sampled /\ Windowed /\ Merged /\ Aggregated
  BY <1>1, <1>4 DEF Sampled, Windowed, Merged, Aggregated
<1>. QED  BY <1>3, <1>5 DEF IInv

\* In every state the samples chain (Sampled), and windows, keys and methods that have
\* been dealt with are described by their summaries.
THEOREM Invariance == Spec => []IInv
<1>1. IInv /\ [Next]_vars => IInv'
  BY FlowStep, SampledStep, WindowedStep, MergedStep, AggregatedStep DEF IInv
<1>. QED  BY InitIInv, <1>1, PTL DEF Spec

\* The totals by method account for every recorded call once, in whatever order
\* aggregateByMethod ranges over its map (report.go:157-162, 257-271).
THEOREM TotalsAreExact == Spec => []TotalsExact
<1>1. IInv => TotalsExact
  BY TotalsFollow DEF IInv
<1>. QED  BY <1>1, Invariance, PTL

\* However many summaries are merged, each figure stays within the range of its calls,
\* and the mean below the true one by less than twice the number of calls
\* (report.go:323-344).
THEOREM MeansAreKept == Spec => []MergedMeans
<1>1. IInv => MergedMeans
  BY MeansFollow DEF IInv
<1>. QED  BY <1>1, Invariance, PTL

\* p50 and p99 have the rank that their names promise, for every number of times, one
\* included (report.go:39-40, bench.go:113-140).
THEOREM PercentilesAreRanked == Spec => []Percentiles
<1>1. IInv => Percentiles
  BY PercentilesFollow DEF IInv
<1>. QED  BY <1>1, Invariance, PTL

\* The sum of the deltas is the change from the baseline to the last sample, whichever
\* scrapes are lost or break off (benchmark.go:40-51, 88-92; scraper.go:73-103).
THEOREM DeltasAddUp == Spec => []DeltasTelescope
<1>1. IInv => DeltasTelescope
  BY DeltasFollow DEF IInv
<1>. QED  BY <1>1, Invariance, PTL
=============================================================================
