------------------------------ MODULE Reporting ------------------------------
(***************************************************************************)
(* From recorded calls and scraped metrics to the figures of the report:   *)
(* each window of calls is grouped by normalized request and summarized,   *)
(* the summaries are merged over the windows and then by method, each      *)
(* scrape is parsed and becomes a delta, and the deltas are added up.      *)
(* Which calls a window holds is the matter of Measurement.                *)
(*                                                                         *)
(* A request is [op, watch, path], the path a sequence of segments         *)
(* [text, word], word: lower-case letters only.  A call is [req, time].    *)
(* A scrape is [ok, lines]: what the reader got, and whether it got all.   *)
(* A line is [kind, key, value], kind "type", "value" or "other"; a key is *)
(* <<family>> or <<family, labels>>.                                       *)
(***************************************************************************)
EXTENDS Integers, Sequences, FiniteSets

CONSTANTS Inputs,      \* records [windows, times, scrapes]: see Init
          Families     \* scenario.Metrics

Segment == [text : STRING, word : BOOLEAN]
Request == [op : STRING, watch : BOOLEAN, resource : STRING, path : Seq(Segment)]
Call    == [req : Request, time : Nat]
AreLines(lines) ==
  /\ Len(lines) \in Nat /\ DOMAIN lines = 1 .. Len(lines)
  /\ \A i \in DOMAIN lines : lines[i].value \in (IF lines[i].kind = "value" THEN Int ELSE STRING)

\* A window for the setup of the source and for each iteration, and a scrape after each.
ASSUME InputsAssumption ==
  \A in \in Inputs :
    /\ in.windows \in Seq(Seq(Call))
    /\ in.times \in Seq(Nat) /\ Len(in.windows) = Len(in.times) + 1 /\ in.times # <<>>
    /\ DOMAIN in.scrapes = DOMAIN in.windows
    /\ \A i \in DOMAIN in.scrapes : AreLines(in.scrapes[i].lines)

VARIABLES input, pc, at,     \* index of the window, later of the breakdown merged
          breakdowns,        \* SetupBreakdown, then IterBreakdowns
          prevSnap, snapshots, deltas,
          steady,            \* bench.Stats
          all, pending, byMethod,    \* printStats: merged over the windows; by method
          memory             \* the figure of each metric

vars == <<input, pc, at, breakdowns, prevSnap, snapshots, deltas, steady, all, pending, byMethod, memory>>
scraped == <<prevSnap, snapshots, deltas>>
printed == <<all, pending, byMethod, memory>>

-----------------------------------------------------------------------------
\* transport: the key of a request.

IsNamespaceValue(path) ==
  LET skipped[i \in 1 .. Len(path)] ==
        i > 1 /\ path[i-1].text = "namespaces" /\ ~skipped[i-1]
  IN  skipped

KeepsNamespaceWords(path) == [i \in DOMAIN path |-> IF path[i].word THEN path[i].text ELSE "*"]

NormalizeAPIPath(path) ==
  [i \in DOMAIN path |->
     IF path[i].word /\ ~IsNamespaceValue(path)[i] THEN path[i].text ELSE "*"]

RequestKey(req) == <<IF req.watch THEN "WATCH" ELSE req.op>> \o NormalizeAPIPath(req.path)

-----------------------------------------------------------------------------
\* Statistics of times, in a unit that divisions round down to.

NoStats == [count |-> 0, min |-> 0, max |-> 0, mean |-> 0, p50 |-> 0, p99 |-> 0]

Sum(times) ==
  LET sum[i \in 0 .. Len(times)] == IF i = 0 THEN 0 ELSE sum[i-1] + times[i]
  IN  sum[Len(times)]

Lesser(a, b)  == IF b < a THEN b ELSE a
Greater(a, b) == IF b > a THEN b ELSE a

RankFromOne(n, percent) == Greater(1, (n * percent) \div 100)
Rank(n, percent) == 1 + (n * percent) \div 100    \* int(float64(n)*percent), from 1

\* Where sort.Slice leaves which time: less than k are below the k-th.
Sorted(times, k) ==
  CHOOSE t \in {times[i] : i \in DOMAIN times} :
    /\ Cardinality({i \in DOMAIN times : times[i] < t}) < k
    /\ k <= Cardinality({i \in DOMAIN times : times[i] <= t})

ComputeCallStats(times) ==
  LET n == Len(times)
  IN  IF n = 0 THEN NoStats
      ELSE [count |-> n, min |-> Sorted(times, 1), max |-> Sorted(times, n), mean |-> Sum(times) \div n,
            p50 |-> Sorted(times, Rank(n, 50)), p99 |-> Sorted(times, Rank(n, 99))]

\* The same for the iterations after the warmup, with their total.
ComputeStats(times) ==
  LET s == ComputeCallStats(times)
  IN  [count |-> s.count, min |-> s.min, max |-> s.max, mean |-> s.mean, p50 |-> s.p50, p99 |-> s.p99,
       activeTime |-> Sum(times)]

WeightedMean(x, m, y, n) == (x * m + y * n) \div (m + n)

MergeUnweighted(a, b) ==
  IF a.count = 0 THEN b ELSE IF b.count = 0 THEN a
  ELSE [count |-> a.count + b.count, min |-> Lesser(a.min, b.min), max |-> Greater(a.max, b.max),
        mean |-> (a.mean + b.mean) \div 2, p50 |-> (a.p50 + b.p50) \div 2, p99 |-> (a.p99 + b.p99) \div 2]

\* Percentiles cannot be merged: their weighted means stand for them.
MergeCallStats(a, b) ==
  IF a.count = 0 THEN b ELSE IF b.count = 0 THEN a
  ELSE [count |-> a.count + b.count, min |-> Lesser(a.min, b.min), max |-> Greater(a.max, b.max),
        mean |-> WeightedMean(a.mean, a.count, b.mean, b.count),
        p50  |-> WeightedMean(a.p50, a.count, b.p50, b.count),
        p99  |-> WeightedMean(a.p99, a.count, b.p99, b.count)]

StatsAt(m, k) == IF k \in DOMAIN m THEN m[k] ELSE NoStats

MergeMaps(a, b) ==
  [k \in DOMAIN a \cup DOMAIN b |-> MergeCallStats(StatsAt(a, k), StatsAt(b, k))]

\* The times of the calls that made one of the requests, in order.
Times(calls, reqs) ==
  LET out[i \in 0 .. Len(calls)] ==
        IF i = 0 THEN <<>>
        ELSE IF calls[i].req \in reqs THEN Append(out[i-1], calls[i].time) ELSE out[i-1]
  IN  out[Len(calls)]

\* CallWindow: the calls of a window by key.
Requests(calls) == {calls[i].req : i \in DOMAIN calls}
WithKey(reqs, k) == {r \in reqs : RequestKey(r) = k}
CallWindow(calls) ==
  [k \in {RequestKey(r) : r \in Requests(calls)} |->
     ComputeCallStats(Times(calls, WithKey(Requests(calls), k)))]

-----------------------------------------------------------------------------
\* metrics: samples and deltas.

NoSample == [values |-> <<>>, types |-> <<>>]
At(f, k) == IF k \in DOMAIN f THEN f[k] ELSE 0
BaseName(key) == key[1]

\* A map from the lines of a kind, for the wanted families; the last line of a key wins.
Collect(lines, kind) ==
  LET wanted  == {i \in DOMAIN lines : lines[i].kind = kind /\ BaseName(lines[i].key) \in Families}
      Last(k) == CHOOSE i \in wanted : /\ lines[i].key = k
                                       /\ \A j \in wanted : lines[j].key = k => j <= i
  IN  [k \in {lines[i].key : i \in wanted} |-> lines[Last(k)].value]

Parse(lines) == [values |-> Collect(lines, "value"), types |-> Collect(lines, "type")]

DeltaOfAbsolute(before, after) ==
  [k \in DOMAIN after.values |-> IF k \in DOMAIN before.values THEN after.values[k] - before.values[k]
                                 ELSE 0]
Delta(before, after) == [k \in DOMAIN after.values |-> after.values[k] - At(before.values, k)]

AllKeys(samples) == UNION {DOMAIN samples[i].values : i \in DOMAIN samples}

SumDeltas(ds) ==
  [k \in UNION {DOMAIN ds[i] : i \in DOMAIN ds} |-> Sum([i \in DOMAIN ds |-> At(ds[i], k)])]

\* The sum that the mean of a gauge is made of.
SumValues(samples, k) == Sum([i \in DOMAIN samples |-> At(samples[i].values, k)])

\* The types are those of the first sample that has any.
Types(samples) ==
  LET typed == {i \in DOMAIN samples : samples[i].types # <<>>}
  IN  IF typed = {} THEN <<>> ELSE samples[CHOOSE i \in typed : \A j \in typed : i <= j].types

IsGauge(types, k) == <<BaseName(k)>> \in DOMAIN types /\ types[<<BaseName(k)>>] = "gauge"

-----------------------------------------------------------------------------
\* Window 1 is the setup of the source, each other an iteration, the first of them the
\* warmup; scrapes[1] is the baseline; times are those of the iterations.
Init ==
  /\ input \in Inputs
  /\ pc = "measure" /\ at = 1 /\ breakdowns = <<>>
  /\ prevSnap = NoSample /\ snapshots = <<>> /\ deltas = <<>> /\ steady = NoStats
  /\ all = <<>> /\ pending = {} /\ byMethod = <<>> /\ memory = <<>>

\* An error of the baseline scrape is ignored, with whatever was read until then.
Baseline ==
  /\ pc = "measure" /\ at = 1
  /\ prevSnap' = Parse(input.scrapes[1].lines)
  /\ UNCHANGED <<snapshots, deltas>>

Scrape ==
  /\ pc = "measure" /\ at > 1
  /\ LET snap == Parse(input.scrapes[at].lines)
     IN  IF input.scrapes[at].ok
           THEN /\ deltas' = Append(deltas, Delta(prevSnap, snap))
                /\ snapshots' = Append(snapshots, snap) /\ prevSnap' = snap
           ELSE UNCHANGED scraped

EndWindow ==
  /\ pc = "measure" /\ at <= Len(input.windows)
  /\ breakdowns' = Append(breakdowns, CallWindow(input.windows[at]))
  /\ Baseline \/ Scrape
  /\ at' = at + 1 /\ UNCHANGED <<input, pc, steady, printed>>

Finish ==
  /\ pc = "measure" /\ at > Len(input.windows)
  /\ steady' = ComputeStats(Tail(input.times))
  /\ pc' = "merge" /\ at' = 1 /\ UNCHANGED <<input, breakdowns, scraped, printed>>

\* printStats ranges over the setup and the iterations, in order.
MergeWindow ==
  /\ pc = "merge" /\ at <= Len(breakdowns)
  /\ all' = MergeMaps(all, breakdowns[at]) /\ at' = at + 1
  /\ UNCHANGED <<input, pc, breakdowns, scraped, steady, pending, byMethod, memory>>

BeginAggregate ==
  /\ pc = "merge" /\ at > Len(breakdowns)
  /\ pc' = "aggregate" /\ pending' = DOMAIN all
  /\ UNCHANGED <<input, at, breakdowns, scraped, steady, all, byMethod, memory>>

\* aggregateByMethod ranges over a map: in any order.
Aggregate(k) ==
  /\ pc = "aggregate" /\ k \in pending
  /\ byMethod' = MergeMaps(byMethod, [m \in {k[1]} |-> all[k]])
  /\ pending' = pending \ {k}
  /\ UNCHANGED <<input, pc, at, breakdowns, scraped, steady, all, memory>>

PrintStats ==
  /\ pc = "aggregate" /\ pending = {} /\ pc' = "done"
  /\ memory' = [k \in AllKeys(snapshots) |-> IF IsGauge(Types(snapshots), k) THEN SumValues(snapshots, k)
                                             ELSE At(SumDeltas(deltas), k)]
  /\ UNCHANGED <<input, at, breakdowns, scraped, steady, all, pending, byMethod>>

Ended == pc = "done" /\ UNCHANGED vars

Next ==
  \/ EndWindow \/ Finish \/ MergeWindow \/ BeginAggregate
  \/ \E k \in pending : Aggregate(k)
  \/ PrintStats \/ Ended

Spec == Init /\ [][Next]_vars
-----------------------------------------------------------------------------
\* The calls of the first n windows.
CallsUpto(n) ==
  LET calls[w \in 0 .. n] == IF w = 0 THEN <<>> ELSE calls[w-1] \o input.windows[w]
  IN  calls[n]
Calls == CallsUpto(Len(input.windows))

\* A request for a collection, /api/v/[namespaces/n/]words or /apis/g/v/[namespaces/n/]words.
RootLen(path) == IF Len(path) \in {3, 5} THEN 2 ELSE 3
IsCollection(req) ==
  LET n == Len(req.path)  m == RootLen(req.path)
  IN  /\ n \in 3 .. 6 /\ req.path[n] = [text |-> req.resource, word |-> TRUE]
      /\ \A i \in 1 .. m : req.path[i].text # "namespaces"
      /\ n = m + 3 => req.path[m+1] = [text |-> "namespaces", word |-> TRUE]

\* Every resource is of one group and version, and is in namespaces or not.
OfOneScope(p, q) ==
  p.resource = q.resource =>
    Len(p.path) = Len(q.path) /\ \A i \in 1 .. RootLen(p.path) : p.path[i] = q.path[i]

Op(req) == IF req.watch THEN "WATCH" ELSE req.op
MethodTimes(m) == Times(Calls, {r \in Requests(Calls) : Op(r) = m})

\* The totals by method account for every call of every window once, and their
\* extremes are those of the calls, in whatever order the map is ranged over.  Calls
\* for the collection of one resource share a key, whatever their namespace, and only those.
TotalsExact ==
  /\ pc = "done" =>
       /\ DOMAIN byMethod = {Op(r) : r \in Requests(Calls)}
       /\ \A m \in DOMAIN byMethod :
            LET exact == ComputeCallStats(MethodTimes(m))
            IN  byMethod[m].count = exact.count /\ byMethod[m].min = exact.min /\ byMethod[m].max = exact.max
  /\ pc = "aggregate" =>
       \A p, q \in Requests(Calls) :
         IsCollection(p) /\ IsCollection(q) /\ OfOneScope(p, q) =>
           (RequestKey(p) = RequestKey(q) <=> Op(p) = Op(q) /\ p.resource = q.resource)

\* Merging keeps every figure within the range of the calls, and the mean of a method
\* below the true mean by less than one unit for each summary and merge that went into it.
Ordered(s) == s.min <= s.p50 /\ s.p50 <= s.p99 /\ s.p99 <= s.max /\ s.min <= s.mean /\ s.mean <= s.max

MergedMeans ==
  /\ \A k \in DOMAIN all : Ordered(all[k])
  /\ \A m \in DOMAIN byMethod : Ordered(byMethod[m])
  /\ pc = "done" =>
       \A m \in DOMAIN byMethod :
         LET n == byMethod[m].count
         IN  /\ byMethod[m].mean * n <= Sum(MethodTimes(m))
             /\ Sum(MethodTimes(m)) < (byMethod[m].mean + 2 * n) * n

\* p50 is a median: at least half of the times are no larger and at least half no
\* smaller; at least 99 of 100 are no larger than p99.
IsRanked(s, times) ==
  LET n == Len(times)
  IN  times # <<>> =>
        /\ 2 * Cardinality({i \in 1 .. n : times[i] <= s.p50}) >= n
        /\ 2 * Cardinality({i \in 1 .. n : times[i] >= s.p50}) >= n
        /\ 100 * Cardinality({i \in 1 .. n : times[i] <= s.p99}) >= 99 * n

Percentiles ==
  /\ pc # "measure" => IsRanked(steady, Tail(input.times))
  /\ \A w \in DOMAIN breakdowns : \A k \in DOMAIN breakdowns[w] :
       IsRanked(breakdowns[w][k], Times(input.windows[w], WithKey(Requests(input.windows[w]), k)))

\* The delta that is printed for a counter is its change from the baseline to the
\* last sample, however many scrapes in between were lost (of counters that every
\* sample has; a baseline without it counts as zero).
DeltasTelescope ==
  pc = "done" =>
    \A k \in DOMAIN memory :
      (~IsGauge(Types(snapshots), k) /\ \A i \in DOMAIN snapshots : k \in DOMAIN snapshots[i].values) =>
        memory[k] = snapshots[Len(snapshots)].values[k] - At(Parse(input.scrapes[1].lines).values, k)
=============================================================================
