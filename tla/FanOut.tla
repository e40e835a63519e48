------------------------------- MODULE FanOut -------------------------------
(***************************************************************************)
(* What a caller of helpers.RunConcurrent may rely on, without goroutines, *)
(* channels or counters: a bounded number of tasks is busy at a time, no   *)
(* task starts after cancellation, the call returns when nothing is busy,  *)
(* and it reports the error that was recorded first unless it was          *)
(* cancelled, in which case it may report the cancellation instead.        *)
(***************************************************************************)
EXTENDS Integers, FiniteSets

CONSTANTS Task, Limit,              \* the task indexes; the parallelism
          NoErr, CtxErr, Pending    \* results other than a failing task

VARIABLES ran,         \* tasks whose function was called
          busy,        \* tasks called and not yet recorded
          bad,         \* tasks recorded as failed
          first,       \* the failure recorded first, or NoErr
          cancelled,   \* the context is done
          result       \* Pending, or what the call returned

vars == <<ran, busy, bad, first, cancelled, result>>

Init ==
  /\ ran = {} /\ busy = {} /\ bad = {}
  /\ first = NoErr /\ cancelled = FALSE /\ result = Pending

Start(t) ==
  /\ result = Pending /\ ~cancelled
  /\ t \in Task \ ran /\ Cardinality(busy) < Limit
  /\ ran' = ran \cup {t} /\ busy' = busy \cup {t}
  /\ UNCHANGED <<bad, first, cancelled, result>>

Succeed(t) ==
  /\ t \in busy /\ busy' = busy \ {t}
  /\ UNCHANGED <<ran, bad, first, cancelled, result>>

Fail(t) ==
  /\ t \in busy /\ busy' = busy \ {t}
  /\ bad' = bad \cup {t}
  /\ first' = IF first = NoErr THEN t ELSE first
  /\ UNCHANGED <<ran, cancelled, result>>

Cancel ==
  /\ ~cancelled /\ cancelled' = TRUE
  /\ UNCHANGED <<ran, busy, bad, first, result>>

Return ==
  /\ result = Pending /\ busy = {}
  /\ \/ ran = Task /\ result' = first
     \/ cancelled  /\ result' \in {first, CtxErr}
  /\ UNCHANGED <<ran, busy, bad, first, cancelled>>

Next ==
  \/ \E t \in Task : Start(t) \/ Succeed(t) \/ Fail(t)
  \/ Cancel \/ Return

Spec == Init /\ [][Next]_vars
=============================================================================
