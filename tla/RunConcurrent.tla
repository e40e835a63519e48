---------------------------- MODULE RunConcurrent ----------------------------
(***************************************************************************)
(* helpers.RunConcurrent: one calling goroutine dispatches N task          *)
(* goroutines through a counting semaphore, ticks a progress bar and waits *)
(* for them.  The context may be cancelled between any two steps.          *)
(***************************************************************************)
EXTENDS Integers, FiniteSets

CONSTANTS N,             \* number of tasks
          Concurrency    \* capacity of the semaphore channel

\* Callers normalise concurrency with AtLeast(f.Concurrency, 1).
ASSUME RunConcurrentAssumption == N \in Nat /\ Concurrency \in Nat \ {0}

Task   == 0 .. N-1
NoErr  == -1    \* nil
CtxErr == -2    \* ctx.Err()
\* Any other error value is the index of the task whose fn returned it.

VARIABLES pc,         \* caller: "loop", "wait", "giveup" (both in wg.Wait), "returned"
          next,       \* loop index
          task,       \* goroutine of each task, see TaskState
          outcome,    \* what fn(t) returned
          sem, wg,    \* tokens in the channel; the WaitGroup counter
          firstErr, skipped,    \* results guarded by mu
          bar,        \* progress.Bar.cur (its total is N)
          cancelled,  \* ctx is done
          ret         \* returned pair, meaningful once pc = "returned"

vars == <<pc, next, task, outcome, sem, wg, firstErr, skipped, bar, cancelled, ret>>

TaskState == {"none", "spawned", "running", "reporting", "leaving", "released", "done"}
Outcome   == {"none", "created", "exists", "failed"}

In(S) == {t \in Task : task[t] \in S}    \* tasks whose goroutine is at a point of S
Holders == In({"spawned", "running", "reporting", "leaving"})
Live    == Holders \cup In({"released"})

Init ==
  /\ pc = "loop" /\ next = 0
  /\ task = [t \in Task |-> "none"] /\ outcome = [t \in Task |-> "none"]
  /\ sem = 0 /\ wg = 0 /\ firstErr = NoErr /\ skipped = 0 /\ bar = 0
  /\ cancelled = FALSE /\ ret = [skipped |-> 0, err |-> NoErr]

Goto(t, from, to) ==
  /\ task[t] = from
  /\ task' = [task EXCEPT ![t] = to]

\* The calling goroutine ----------------------------------------------------

SemFreeOffByOne == sem <= Concurrency
SemFree == sem < Concurrency

\* select: "sem <-" and "<-ctx.Done()" may both be ready; Go picks either.
Dispatch ==
  /\ pc = "loop" /\ next < N /\ SemFree
  /\ Goto(next, "none", "spawned")
  /\ sem' = sem + 1 /\ wg' = wg + 1 /\ next' = next + 1
  /\ UNCHANGED <<pc, outcome, firstErr, skipped, bar, cancelled, ret>>

GiveUp ==
  /\ pc = "loop" /\ next < N /\ cancelled
  /\ pc' = "giveup"
  /\ UNCHANGED <<next, task, outcome, sem, wg, firstErr, skipped, bar, cancelled, ret>>

EndLoop ==
  /\ pc = "loop" /\ next = N
  /\ pc' = "wait"
  /\ UNCHANGED <<next, task, outcome, sem, wg, firstErr, skipped, bar, cancelled, ret>>

ReturnWithoutWait ==
  /\ pc \in {"wait", "giveup"} /\ (pc = "wait" => wg = 0)
  /\ pc' = "returned" /\ bar' = N
  /\ ret' = [skipped |-> skipped, err |-> IF pc = "giveup" THEN CtxErr ELSE firstErr]
  /\ UNCHANGED <<next, task, outcome, sem, wg, firstErr, skipped, cancelled>>

\* wg.Wait() falls through, bar.Done() fills the bar, the results are read.
Return ==
  /\ pc \in {"wait", "giveup"} /\ wg = 0
  /\ pc' = "returned" /\ bar' = N
  /\ ret' = [skipped |-> skipped, err |-> IF pc = "giveup" THEN CtxErr ELSE firstErr]
  /\ UNCHANGED <<next, task, outcome, sem, wg, firstErr, skipped, cancelled>>

\* A task goroutine ---------------------------------------------------------

SkipWithoutRelease(t) ==
  /\ cancelled /\ Goto(t, "spawned", "done")
  /\ bar' = bar + 1 /\ wg' = wg - 1
  /\ UNCHANGED <<pc, next, outcome, sem, firstErr, skipped, cancelled, ret>>

SkipCancelled(t) ==
  /\ cancelled /\ Goto(t, "spawned", "leaving")
  /\ bar' = bar + 1
  /\ UNCHANGED <<pc, next, outcome, sem, wg, firstErr, skipped, cancelled, ret>>

Begin(t) ==
  /\ ~cancelled /\ Goto(t, "spawned", "running")
  /\ UNCHANGED <<pc, next, outcome, sem, wg, firstErr, skipped, bar, cancelled, ret>>

\* fn(t) returns (false, nil), (true, nil) or (false, err).
FnReturns(t) ==
  /\ Goto(t, "running", "reporting")
  /\ \E o \in Outcome \ {"none"} : outcome' = [outcome EXCEPT ![t] = o]
  /\ UNCHANGED <<pc, next, sem, wg, firstErr, skipped, bar, cancelled, ret>>

ReportLastError(t) ==
  /\ Goto(t, "reporting", "leaving")
  /\ firstErr' = IF outcome[t] = "failed" THEN t ELSE firstErr
  /\ skipped' = IF outcome[t] = "exists" THEN skipped + 1 ELSE skipped
  /\ bar' = bar + 1
  /\ UNCHANGED <<pc, next, outcome, sem, wg, cancelled, ret>>

\* The section between mu.Lock() and the deferred mu.Unlock().
Report(t) ==
  /\ Goto(t, "reporting", "leaving")
  /\ firstErr' = IF outcome[t] = "failed" /\ firstErr = NoErr THEN t ELSE firstErr
  /\ skipped' = IF outcome[t] = "exists" THEN skipped + 1 ELSE skipped
  /\ bar' = bar + 1
  /\ UNCHANGED <<pc, next, outcome, sem, wg, cancelled, ret>>

ReleaseNothing(t) ==
  /\ Goto(t, "leaving", "released")
  /\ UNCHANGED <<pc, next, outcome, sem, wg, firstErr, skipped, bar, cancelled, ret>>

\* Deferred calls run last-in first-out: "<-sem", then wg.Done().
Release(t) ==
  /\ Goto(t, "leaving", "released")
  /\ sem' = sem - 1
  /\ UNCHANGED <<pc, next, outcome, wg, firstErr, skipped, bar, cancelled, ret>>

ReleaseTicksBar(t) ==
  /\ Goto(t, "released", "done")
  /\ wg' = wg - 1 /\ bar' = bar + 1
  /\ UNCHANGED <<pc, next, outcome, sem, firstErr, skipped, cancelled, ret>>

WgDone(t) ==
  /\ Goto(t, "released", "done")
  /\ wg' = wg - 1
  /\ UNCHANGED <<pc, next, outcome, sem, firstErr, skipped, bar, cancelled, ret>>

Goroutine(t) ==
  SkipCancelled(t) \/ Begin(t) \/ FnReturns(t) \/ Report(t) \/ Release(t) \/ WgDone(t)

\* The environment: the interrupt of main's signal.NotifyContext.
Cancel ==
  /\ ~cancelled /\ cancelled' = TRUE
  /\ UNCHANGED <<pc, next, task, outcome, sem, wg, firstErr, skipped, bar, ret>>

\* The only legitimate end: everything else that stops is a deadlock.
Terminated == pc = "returned" /\ UNCHANGED vars

Caller == Dispatch \/ GiveUp \/ EndLoop \/ Return
Next   == Caller \/ (\E t \in Task : Goroutine(t)) \/ Cancel \/ Terminated

Spec == Init /\ [][Next]_vars

\* Go runs every runnable goroutine; fn returns because each API call does.
Fairness == WF_vars(Caller) /\ \A t \in Task : WF_vars(Goroutine(t))
LiveSpec == Spec /\ Fairness
-----------------------------------------------------------------------------
TypeOK ==
  /\ pc \in {"loop", "wait", "giveup", "returned"} /\ next \in 0 .. N
  /\ task \in [Task -> TaskState] /\ outcome \in [Task -> Outcome]
  /\ sem \in 0 .. Concurrency /\ wg \in 0 .. N
  /\ firstErr \in Task \cup {NoErr} /\ skipped \in 0 .. N /\ bar \in 0 .. N
  /\ cancelled \in BOOLEAN
  /\ ret \in [skipped : 0 .. N, err : Task \cup {NoErr, CtxErr}]

Recorded == In({"leaving", "released", "done"})    \* past the bar tick
Skipped  == {t \in Recorded : outcome[t] = "exists"}

\* The counters agree with the goroutines they count at every step: a token is
\* held from dispatch to the deferred "<-sem", the WaitGroup covers every live
\* goroutine, and each goroutine ticks the bar exactly once on either path.
Accounting ==
  /\ sem = Cardinality(Holders)
  /\ wg = Cardinality(Live)
  /\ skipped = Cardinality(Skipped)
  /\ pc # "returned" => bar = Cardinality(Recorded)

\* At most Concurrency calls of fn are under way (the flag --concurrency bounds
\* the load on the API server).
Busy == In({"running", "reporting"})    \* fn called, result not yet recorded
BoundedParallelism == Cardinality(Busy) <= Concurrency

\* When RunConcurrent has returned, on either path, none of its goroutines can
\* still call fn, tick the finished bar or write to the shared results.
Quiescent == pc = "returned" => Live = {}

\* What the caller of a fixture step concludes from the result: nil means that
\* no task that ran failed, a task's error is one that task really returned, and
\* without cancellation every task ran and the skip count is exact.
FaithfulResult ==
  pc = "returned" =>
    /\ ret.err = NoErr => \A t \in Task : outcome[t] # "failed"
    /\ ret.err \in Task => outcome[ret.err] = "failed"
    /\ ret.err = CtxErr => cancelled
    /\ ~cancelled => \A t \in Task : outcome[t] # "none"
    /\ ret.skipped = Cardinality({t \in Task : outcome[t] = "exists"})

\* The bar only advances, one tick at a time until Done fills it, and nothing
\* ticks it afterwards: past its total render() would ask strings.Repeat for a
\* negative count and panic.
BarStep ==
  IF pc # "returned" /\ pc' = "returned" THEN bar' = N /\ bar <= N
  ELSE bar' = bar \/ (pc # "returned" /\ bar' = bar + 1)
BarNeverOverruns == [][BarStep]_vars

\* RunConcurrent implements the promise stated by FanOut.
Ran    == {t \in Task : outcome[t] # "none" \/ task[t] = "running"}
Bad    == {t \in Recorded : outcome[t] = "failed"}
Result == IF pc = "returned" THEN ret.err ELSE -3
Promise ==
  INSTANCE FanOut WITH
    Limit <- Concurrency, Pending <- -3, ran <- Ran, busy <- Busy, bad <- Bad,
    first <- firstErr, result <- Result
ImplementsFanOut == Promise!Spec

\* If fn always returns, so does RunConcurrent: no task can hold the last token
\* or the WaitGroup for ever, cancelled or not.
EventuallyReturns == <>(pc = "returned")

\* pod.Setup and the other fixture steps take a nil error for "all N created"
\* (pod.go:28); goroutines that find ctx done return without an error.
NilMeansAllRan ==
  pc = "returned" /\ ret.err = NoErr => \A t \in Task : outcome[t] # "none"
=============================================================================
