------------------------- MODULE RunConcurrentProofs -------------------------
(***************************************************************************)
(* RunConcurrent is correct for every number of tasks and every semaphore  *)
(* capacity.  The safety invariants follow from IInv, which says where the *)
(* loop, the goroutines and the shared results stand relative to each      *)
(* other; Accounting, its heart, counts goroutines by where they are.      *)
(***************************************************************************)
EXTENDS RunConcurrent, FiniteSetTheorems, TLAPS

\* Tasks are dispatched in order, and the loop ends early only when cancelled.
Frontier ==
  /\ \A t \in Task : task[t] = "none" <=> t >= next
  /\ pc \in {"wait", "returned"} /\ ~cancelled => next = N
  /\ pc = "wait" => next = N
  /\ pc = "giveup" => cancelled

\* A goroutine past its ctx check has an outcome once fn returned; one that is
\* past the bar tick without an outcome found the context done.
Outcomes ==
  \A t \in Task :
    /\ task[t] \in {"none", "spawned", "running"} => outcome[t] = "none"
    /\ task[t] = "reporting" => outcome[t] # "none"
    /\ t \in Recorded /\ outcome[t] = "none" => cancelled

\* firstErr is nil exactly while no failure has been recorded.
Errors ==
  /\ firstErr = NoErr => \A t \in Recorded : outcome[t] # "failed"
  /\ firstErr # NoErr => firstErr \in Recorded /\ outcome[firstErr] = "failed"

\* What is frozen when the caller has returned.
Returned ==
  pc = "returned" =>
    /\ Live = {}
    /\ ret.skipped = skipped
    /\ ret.err = firstErr \/ (ret.err = CtxErr /\ cancelled)

IInv == TypeOK /\ Accounting /\ Frontier /\ Outcomes /\ Errors /\ Returned

-----------------------------------------------------------------------------
\* Task is finite and every set of tasks has at most N members.
LEMMA TaskFinite ==
  /\ IsFiniteSet(Task) /\ Cardinality(Task) = N
  /\ \A S \in SUBSET Task : IsFiniteSet(S) /\ Cardinality(S) \in 0 .. N
<1>1. N \in Nat
  BY RunConcurrentAssumption
<1>2. IsFiniteSet(Task) /\ Cardinality(Task) = N
  <2>1. 0 \in Int /\ N-1 \in Int
    BY <1>1
  <2>2. IsFiniteSet(0 .. N-1) /\ Cardinality(0 .. N-1) = IF 0 > N-1 THEN 0 ELSE N-1-0+1
    BY <2>1, FS_Interval
  <2>. QED  BY <1>1, <2>2 DEF Task
<1>3. ASSUME NEW S \in SUBSET Task
      PROVE  IsFiniteSet(S) /\ Cardinality(S) \in 0 .. N
  <2>1. IsFiniteSet(S) /\ Cardinality(S) <= Cardinality(Task)
    BY <1>2, FS_Subset
  <2>2. Cardinality(S) \in Nat
    BY <2>1, FS_CardinalityType
  <2>. QED  BY <1>1, <1>2, <2>1, <2>2
<1>. QED  BY <1>2, <1>3

\* Adding a new member to, or removing a member from, a set of tasks moves its
\* cardinality by one.
LEMMA AddOne ==
  ASSUME NEW S \in SUBSET Task, NEW t \in Task, t \notin S
  PROVE  Cardinality(S \cup {t}) = Cardinality(S) + 1
BY TaskFinite, FS_AddElement

LEMMA RemoveOne ==
  ASSUME NEW S \in SUBSET Task, NEW t \in S
  PROVE  Cardinality(S \ {t}) = Cardinality(S) - 1
BY TaskFinite, FS_RemoveElement

\* When one goroutine moves, the number of goroutines at the points S changes by
\* what that goroutine does, for any S.
LEMMA MoveCardinality ==
  ASSUME NEW f \in [Task -> TaskState], NEW t \in Task, NEW to \in TaskState, NEW S,
         NEW g, g = [f EXCEPT ![t] = to]
  PROVE  LET A == {x \in Task : f[x] \in S}
             B == {x \in Task : g[x] \in S}
         IN  /\ (f[t] \in S <=> to \in S) => Cardinality(B) = Cardinality(A)
             /\ f[t] \notin S /\ to \in S => Cardinality(B) = Cardinality(A) + 1
             /\ f[t] \in S /\ to \notin S => Cardinality(B) = Cardinality(A) - 1
             /\ Cardinality(A) \in 0 .. N /\ Cardinality(B) \in 0 .. N
<1> DEFINE A == {x \in Task : f[x] \in S}
           B == {x \in Task : g[x] \in S}
<1>1. A \in SUBSET Task /\ B \in SUBSET Task
  OBVIOUS
<1>2. ASSUME f[t] \in S <=> to \in S
      PROVE  B = A
  BY <1>2
<1>3. ASSUME f[t] \notin S, to \in S
      PROVE  B = A \cup {t} /\ t \notin A
  BY <1>3
<1>4. ASSUME f[t] \in S, to \notin S
      PROVE  B = A \ {t} /\ t \in A
  BY <1>4
<1>5. Cardinality(A) \in 0 .. N /\ Cardinality(B) \in 0 .. N
  BY <1>1, TaskFinite
<1> HIDE DEF A, B
<1>6. f[t] \notin S /\ to \in S => Cardinality(B) = Cardinality(A) + 1
  BY <1>1, <1>3, AddOne
<1>7. f[t] \in S /\ to \notin S => Cardinality(B) = Cardinality(A) - 1
  BY <1>1, <1>4, RemoveOne
<1>8. (f[t] \in S <=> to \in S) => Cardinality(B) = Cardinality(A)
  BY <1>2
<1>9. QED  BY <1>5, <1>6, <1>7, <1>8 DEF A, B


At(S, p) == IF p \in S THEN 1 ELSE 0
HolderPoints   == {"spawned", "running", "reporting", "leaving"}
LivePoints     == HolderPoints \cup {"released"}
RecordedPoints == {"leaving", "released", "done"}

\* What one goroutine's move does to the three sets that the counters count.
LEMMA GotoCounts ==
  ASSUME TypeOK, NEW t \in Task, NEW from \in TaskState, NEW to \in TaskState,
         Goto(t, from, to)
  PROVE  /\ Cardinality(Holders') = Cardinality(Holders) + At(HolderPoints, to) - At(HolderPoints, from)
         /\ Cardinality(Live') = Cardinality(Live) + At(LivePoints, to) - At(LivePoints, from)
         /\ Cardinality(Recorded') = Cardinality(Recorded) + At(RecordedPoints, to) - At(RecordedPoints, from)
         /\ \A S \in {Holders, Live, Recorded, Holders', Live', Recorded'} : Cardinality(S) \in 0 .. N
<1>1. task \in [Task -> TaskState] /\ task' = [task EXCEPT ![t] = to] /\ task[t] = from
  BY DEF TypeOK, Goto
<1>2. ASSUME NEW S
      PROVE  /\ Cardinality(In(S)') = Cardinality(In(S)) + At(S, to) - At(S, from)
             /\ Cardinality(In(S)) \in 0 .. N /\ Cardinality(In(S)') \in 0 .. N
  <2>1. /\ (from \in S <=> to \in S) => Cardinality(In(S)') = Cardinality(In(S))
        /\ from \notin S /\ to \in S => Cardinality(In(S)') = Cardinality(In(S)) + 1
        /\ from \in S /\ to \notin S => Cardinality(In(S)') = Cardinality(In(S)) - 1
        /\ Cardinality(In(S)) \in 0 .. N /\ Cardinality(In(S)') \in 0 .. N
    BY <1>1, MoveCardinality DEF In
  <2>. QED  BY <2>1 DEF At
<1>3. Holders = In(HolderPoints) /\ Live = In(LivePoints) /\ Recorded = In(RecordedPoints)
  BY DEF Holders, Live, Recorded, In, HolderPoints, LivePoints, RecordedPoints
<1>4. Holders' = In(HolderPoints)' /\ Live' = In(LivePoints)' /\ Recorded' = In(RecordedPoints)'
  BY DEF Holders, Live, Recorded, In, HolderPoints, LivePoints, RecordedPoints
<1>. QED  BY <1>2, <1>3, <1>4

\* The initial state satisfies the invariant.
LEMMA InitIInv == Init => IInv
<1> SUFFICES ASSUME Init PROVE IInv
  OBVIOUS
<1> USE RunConcurrentAssumption
<1>1. Holders = {} /\ Live = {} /\ Recorded = {} /\ Skipped = {}
  BY DEF Init, Holders, Live, Recorded, Skipped, In
<1>2. Cardinality({}) = 0
  BY FS_EmptySet
<1>3. TypeOK
  <2>1. task \in [Task -> TaskState] /\ outcome \in [Task -> Outcome]
    BY DEF Init, TaskState, Outcome
  <2>2. ret \in [skipped : 0 .. N, err : Task \cup {NoErr, CtxErr}]
    BY DEF Init
  <2>3. next = 0 /\ sem = 0 /\ wg = 0 /\ skipped = 0 /\ bar = 0
    BY DEF Init
  <2>4. next \in 0 .. N /\ sem \in 0 .. Concurrency /\ wg \in 0 .. N /\ skipped \in 0 .. N /\ bar \in 0 .. N
    BY <2>3
  <2>5. pc \in {"loop", "wait", "giveup", "returned"} /\ firstErr \in Task \cup {NoErr} /\ cancelled \in BOOLEAN
    BY DEF Init
  <2>. QED  BY <2>1, <2>2, <2>4, <2>5 DEF TypeOK
<1>4. Accounting
  BY <1>1, <1>2 DEF Init, Accounting
<1>5. Frontier /\ Outcomes /\ Errors /\ Returned
  BY <1>1 DEF Init, Frontier, Outcomes, Errors, Returned, Task
<1>. QED  BY <1>3, <1>4, <1>5 DEF IInv

\* Every step preserves the invariant, one case per action.
LEMMA NextIInv == IInv /\ [Next]_vars => IInv'
<1> SUFFICES ASSUME IInv, [Next]_vars PROVE IInv'
  OBVIOUS
<1> USE RunConcurrentAssumption
<1>0. /\ TypeOK /\ Accounting /\ Frontier /\ Outcomes /\ Errors /\ Returned
      /\ task \in [Task -> TaskState] /\ outcome \in [Task -> Outcome]
  BY DEF IInv, TypeOK
<1>1. CASE Dispatch
  <2>1. PICK t \in Task : next = t /\ Goto(t, "none", "spawned")
    BY <1>0, <1>1 DEF Dispatch, TypeOK, Task
  <2>2. /\ Cardinality(Holders') = Cardinality(Holders) + 1
        /\ Cardinality(Live') = Cardinality(Live) + 1 /\ Cardinality(Live') \in 0 .. N
        /\ Cardinality(Recorded') = Cardinality(Recorded)
    BY <1>0, <2>1, GotoCounts DEF TaskState, At, HolderPoints, LivePoints, RecordedPoints
  <2>3. Skipped' = Skipped
    BY <1>0, <1>1, <2>1 DEF Dispatch, Goto, Skipped, Recorded, In
  <2>4. TypeOK'
    BY <1>0, <1>1, <2>1, <2>2 DEF Dispatch, SemFree, Goto, TypeOK, Accounting, TaskState
  <2>5. Accounting'
    BY <1>0, <1>1, <2>2, <2>3 DEF Dispatch, TypeOK, Accounting
  <2>6. Frontier' /\ Outcomes' /\ Errors' /\ Returned'
    BY <1>0, <1>1, <2>1 DEF Dispatch, Goto, TypeOK, Frontier, Outcomes, Errors, Returned, Recorded, In, Task
  <2>. QED  BY <2>4, <2>5, <2>6 DEF IInv
<1>2. CASE GiveUp
  <2>1. UNCHANGED <<Holders, Live, Recorded, Skipped>>
    BY <1>2 DEF GiveUp, Holders, Live, Recorded, Skipped, In
  <2>2. TypeOK' /\ Accounting'
    BY <1>0, <1>2, <2>1 DEF GiveUp, TypeOK, Accounting
  <2>3. Frontier' /\ Outcomes' /\ Errors'
    BY <1>0, <1>2, <2>1 DEF GiveUp, TypeOK, Frontier, Outcomes, Errors
  <2>4. Returned'
    BY <1>0, <1>2, <2>1 DEF GiveUp, Returned
  <2>. QED  BY <2>2, <2>3, <2>4 DEF IInv
<1>3. CASE EndLoop
  <2>1. UNCHANGED <<Holders, Live, Recorded, Skipped>>
    BY <1>3 DEF EndLoop, Holders, Live, Recorded, Skipped, In
  <2>2. TypeOK' /\ Accounting'
    BY <1>0, <1>3, <2>1 DEF EndLoop, TypeOK, Accounting
  <2>3. Frontier' /\ Outcomes' /\ Errors'
    BY <1>0, <1>3, <2>1 DEF EndLoop, TypeOK, Frontier, Outcomes, Errors
  <2>4. Returned'
    BY <1>0, <1>3, <2>1 DEF EndLoop, Returned
  <2>. QED  BY <2>2, <2>3, <2>4 DEF IInv
<1>4. CASE Return
  <2>1. UNCHANGED <<Holders, Live, Recorded, Skipped>>
    BY <1>4 DEF Return, Holders, Live, Recorded, Skipped, In
  <2>2. Live = {}
    <3>1. IsFiniteSet(Live) /\ Cardinality(Live) = 0
      BY <1>0, <1>4, TaskFinite DEF Return, Accounting, Live, Holders, In
    <3>. QED  BY <3>1, FS_EmptySet
  <2>3. TypeOK' /\ Accounting'
    <3>1. ret' \in [skipped : 0 .. N, err : Task \cup {NoErr, CtxErr}] /\ bar' \in 0 .. N
      BY <1>0, <1>4 DEF Return, TypeOK
    <3>2. Accounting'
      BY <1>0, <1>4, <2>1 DEF Return, Accounting
    <3>. QED  BY <1>0, <1>4, <3>1, <3>2 DEF Return, TypeOK
  <2>4. Frontier' /\ Outcomes' /\ Errors'
    BY <1>0, <1>4, <2>1 DEF Return, TypeOK, Frontier, Outcomes, Errors
  <2>5. Returned'
    BY <1>0, <1>4, <2>1, <2>2 DEF Return, Returned, Frontier
  <2>. QED  BY <2>3, <2>4, <2>5 DEF IInv
<1>5. ASSUME NEW t \in Task, SkipCancelled(t)
      PROVE  IInv'
  <2>1. Goto(t, "spawned", "leaving") /\ pc # "returned"
    BY <1>0, <1>5 DEF SkipCancelled, Goto, Returned, Live, Holders, In
  <2>2. /\ Cardinality(Holders') = Cardinality(Holders)
        /\ Cardinality(Live') = Cardinality(Live) /\ Cardinality(Live') \in 0 .. N
        /\ Cardinality(Recorded') = Cardinality(Recorded) + 1 /\ Cardinality(Recorded') \in 0 .. N
        /\ Cardinality(Holders') \in 0 .. N
    BY <1>0, <2>1, GotoCounts DEF TaskState, At, HolderPoints, LivePoints, RecordedPoints
  <2>3. skipped' = Cardinality(Skipped') /\ skipped' \in 0 .. N
    <3>1. Skipped' = Skipped
      BY <1>0, <1>5, <2>1 DEF SkipCancelled, Goto, Skipped, Recorded, In, Outcomes
    <3>. QED  BY <1>0, <1>5, <3>1 DEF SkipCancelled, Accounting, TypeOK
  <2>4. Accounting'
    BY <1>0, <1>5, <2>1, <2>2, <2>3 DEF SkipCancelled, TypeOK, Accounting
  <2>5. TypeOK'
    BY <1>0, <1>5, <2>1, <2>2, <2>3, <2>4 DEF SkipCancelled, Goto, TypeOK, Accounting, TaskState, Outcome
  <2>6. Frontier'
    BY <1>0, <1>5, <2>1 DEF SkipCancelled, Goto, TypeOK, Frontier, Task
  <2>7. Outcomes'
    BY <1>0, <1>5, <2>1 DEF SkipCancelled, Goto, TypeOK, Outcomes, Recorded, In, Outcome
  <2>8. Errors'
    BY <1>0, <1>5, <2>1 DEF SkipCancelled, Goto, TypeOK, Outcomes, Errors, Recorded, In, Task, NoErr
  <2>9. Returned'
    BY <1>5, <2>1 DEF SkipCancelled, Returned
  <2>. QED  BY <2>4, <2>5, <2>6, <2>7, <2>8, <2>9 DEF IInv
<1>6. ASSUME NEW t \in Task, Begin(t)
      PROVE  IInv'
  <2>1. Goto(t, "spawned", "running") /\ pc # "returned"
    BY <1>0, <1>6 DEF Begin, Goto, Returned, Live, Holders, In
  <2>2. /\ Cardinality(Holders') = Cardinality(Holders)
        /\ Cardinality(Live') = Cardinality(Live) /\ Cardinality(Live') \in 0 .. N
        /\ Cardinality(Recorded') = Cardinality(Recorded) /\ Cardinality(Recorded') \in 0 .. N
        /\ Cardinality(Holders') \in 0 .. N
    BY <1>0, <2>1, GotoCounts DEF TaskState, At, HolderPoints, LivePoints, RecordedPoints
  <2>3. skipped' = Cardinality(Skipped') /\ skipped' \in 0 .. N
    <3>1. Skipped' = Skipped
      BY <1>0, <1>6, <2>1 DEF Begin, Goto, Skipped, Recorded, In, Outcomes
    <3>. QED  BY <1>0, <1>6, <3>1 DEF Begin, Accounting, TypeOK
  <2>4. Accounting'
    BY <1>0, <1>6, <2>1, <2>2, <2>3 DEF Begin, TypeOK, Accounting
  <2>5. TypeOK'
    BY <1>0, <1>6, <2>1, <2>2, <2>3, <2>4 DEF Begin, Goto, TypeOK, Accounting, TaskState, Outcome
  <2>6. Frontier'
    BY <1>0, <1>6, <2>1 DEF Begin, Goto, TypeOK, Frontier, Task
  <2>7. Outcomes'
    BY <1>0, <1>6, <2>1 DEF Begin, Goto, TypeOK, Outcomes, Recorded, In, Outcome
  <2>8. Errors'
    BY <1>0, <1>6, <2>1 DEF Begin, Goto, TypeOK, Outcomes, Errors, Recorded, In, Task, NoErr
  <2>9. Returned'
    BY <1>6, <2>1 DEF Begin, Returned
  <2>. QED  BY <2>4, <2>5, <2>6, <2>7, <2>8, <2>9 DEF IInv
<1>7. ASSUME NEW t \in Task, FnReturns(t)
      PROVE  IInv'
  <2>1. Goto(t, "running", "reporting") /\ pc # "returned"
    BY <1>0, <1>7 DEF FnReturns, Goto, Returned, Live, Holders, In
  <2>2. /\ Cardinality(Holders') = Cardinality(Holders)
        /\ Cardinality(Live') = Cardinality(Live) /\ Cardinality(Live') \in 0 .. N
        /\ Cardinality(Recorded') = Cardinality(Recorded) /\ Cardinality(Recorded') \in 0 .. N
        /\ Cardinality(Holders') \in 0 .. N
    BY <1>0, <2>1, GotoCounts DEF TaskState, At, HolderPoints, LivePoints, RecordedPoints
  <2>3. skipped' = Cardinality(Skipped') /\ skipped' \in 0 .. N
    <3>1. Skipped' = Skipped
      BY <1>0, <1>7, <2>1 DEF FnReturns, Goto, Skipped, Recorded, In, Outcomes
    <3>. QED  BY <1>0, <1>7, <3>1 DEF FnReturns, Accounting, TypeOK
  <2>4. Accounting'
    BY <1>0, <1>7, <2>1, <2>2, <2>3 DEF FnReturns, TypeOK, Accounting
  <2>5. TypeOK'
    BY <1>0, <1>7, <2>1, <2>2, <2>3, <2>4 DEF FnReturns, Goto, TypeOK, Accounting, TaskState, Outcome
  <2>6. Frontier'
    BY <1>0, <1>7, <2>1 DEF FnReturns, Goto, TypeOK, Frontier, Task
  <2>7. Outcomes'
    BY <1>0, <1>7, <2>1 DEF FnReturns, Goto, TypeOK, Outcomes, Recorded, In, Outcome
  <2>8. Errors'
    BY <1>0, <1>7, <2>1 DEF FnReturns, Goto, TypeOK, Outcomes, Errors, Recorded, In, Task, NoErr
  <2>9. Returned'
    BY <1>7, <2>1 DEF FnReturns, Returned
  <2>. QED  BY <2>4, <2>5, <2>6, <2>7, <2>8, <2>9 DEF IInv
<1>8. ASSUME NEW t \in Task, Report(t)
      PROVE  IInv'
  <2>1. Goto(t, "reporting", "leaving") /\ pc # "returned"
    BY <1>0, <1>8 DEF Report, Goto, Returned, Live, Holders, In
  <2>2. /\ Cardinality(Holders') = Cardinality(Holders)
        /\ Cardinality(Live') = Cardinality(Live) /\ Cardinality(Live') \in 0 .. N
        /\ Cardinality(Recorded') = Cardinality(Recorded) + 1 /\ Cardinality(Recorded') \in 0 .. N
        /\ Cardinality(Holders') \in 0 .. N
    BY <1>0, <2>1, GotoCounts DEF TaskState, At, HolderPoints, LivePoints, RecordedPoints
  <2>3. /\ skipped' = Cardinality(Skipped') /\ skipped' \in 0 .. N
    <3>1. Cardinality(Skipped') \in 0 .. N
      BY TaskFinite DEF Skipped, Recorded, In
    <3>2. CASE outcome[t] = "exists"
      <4>1. Skipped' = Skipped \cup {t} /\ t \notin Skipped /\ Skipped \in SUBSET Task
        BY <1>0, <1>8, <2>1, <3>2 DEF Report, Goto, Skipped, Recorded, In
      <4>2. Cardinality(Skipped') = Cardinality(Skipped) + 1
        BY <4>1, AddOne
      <4>. QED  BY <1>0, <1>8, <3>1, <3>2, <4>2 DEF Report, Accounting
    <3>3. CASE outcome[t] # "exists"
      <4>1. Skipped' = Skipped
        BY <1>0, <1>8, <2>1, <3>3 DEF Report, Goto, Skipped, Recorded, In
      <4>. QED  BY <1>0, <1>8, <3>1, <3>3, <4>1 DEF Report, Accounting
    <3>. QED  BY <3>2, <3>3
  <2>4. Accounting'
    BY <1>0, <1>8, <2>1, <2>2, <2>3 DEF Report, TypeOK, Accounting
  <2>5. TypeOK'
    BY <1>0, <1>8, <2>1, <2>2, <2>3, <2>4 DEF Report, Goto, TypeOK, Accounting, TaskState, Outcome
  <2>6. Frontier'
    BY <1>0, <1>8, <2>1 DEF Report, Goto, TypeOK, Frontier, Task
  <2>7. Outcomes'
    BY <1>0, <1>8, <2>1 DEF Report, Goto, TypeOK, Outcomes, Recorded, In, Outcome
  <2>8. Errors'
    BY <1>0, <1>8, <2>1 DEF Report, Goto, TypeOK, Outcomes, Errors, Recorded, In, Task, NoErr
  <2>9. Returned'
    BY <1>8, <2>1 DEF Report, Returned
  <2>. QED  BY <2>4, <2>5, <2>6, <2>7, <2>8, <2>9 DEF IInv
<1>9. ASSUME NEW t \in Task, Release(t)
      PROVE  IInv'
  <2>1. Goto(t, "leaving", "released") /\ pc # "returned"
    BY <1>0, <1>9 DEF Release, Goto, Returned, Live, Holders, In
  <2>2. /\ Cardinality(Holders') = Cardinality(Holders) - 1
        /\ Cardinality(Live') = Cardinality(Live) /\ Cardinality(Live') \in 0 .. N
        /\ Cardinality(Recorded') = Cardinality(Recorded) /\ Cardinality(Recorded') \in 0 .. N
        /\ Cardinality(Holders') \in 0 .. N
    BY <1>0, <2>1, GotoCounts DEF TaskState, At, HolderPoints, LivePoints, RecordedPoints
  <2>3. skipped' = Cardinality(Skipped') /\ skipped' \in 0 .. N
    <3>1. Skipped' = Skipped
      BY <1>0, <1>9, <2>1 DEF Release, Goto, Skipped, Recorded, In, Outcomes
    <3>. QED  BY <1>0, <1>9, <3>1 DEF Release, Accounting, TypeOK
  <2>4. Accounting'
    BY <1>0, <1>9, <2>1, <2>2, <2>3 DEF Release, TypeOK, Accounting
  <2>5. TypeOK'
    BY <1>0, <1>9, <2>1, <2>2, <2>3, <2>4 DEF Release, Goto, TypeOK, Accounting, TaskState, Outcome
  <2>6. Frontier'
    BY <1>0, <1>9, <2>1 DEF Release, Goto, TypeOK, Frontier, Task
  <2>7. Outcomes'
    BY <1>0, <1>9, <2>1 DEF Release, Goto, TypeOK, Outcomes, Recorded, In, Outcome
  <2>8. Errors'
    BY <1>0, <1>9, <2>1 DEF Release, Goto, TypeOK, Outcomes, Errors, Recorded, In, Task, NoErr
  <2>9. Returned'
    BY <1>9, <2>1 DEF Release, Returned
  <2>. QED  BY <2>4, <2>5, <2>6, <2>7, <2>8, <2>9 DEF IInv
<1>10. ASSUME NEW t \in Task, WgDone(t)
      PROVE  IInv'
  <2>1. Goto(t, "released", "done") /\ pc # "returned"
    BY <1>0, <1>10 DEF WgDone, Goto, Returned, Live, Holders, In
  <2>2. /\ Cardinality(Holders') = Cardinality(Holders)
        /\ Cardinality(Live') = Cardinality(Live) - 1 /\ Cardinality(Live') \in 0 .. N
        /\ Cardinality(Recorded') = Cardinality(Recorded) /\ Cardinality(Recorded') \in 0 .. N
        /\ Cardinality(Holders') \in 0 .. N
    BY <1>0, <2>1, GotoCounts DEF TaskState, At, HolderPoints, LivePoints, RecordedPoints
  <2>3. skipped' = Cardinality(Skipped') /\ skipped' \in 0 .. N
    <3>1. Skipped' = Skipped
      BY <1>0, <1>10, <2>1 DEF WgDone, Goto, Skipped, Recorded, In, Outcomes
    <3>. QED  BY <1>0, <1>10, <3>1 DEF WgDone, Accounting, TypeOK
  <2>4. Accounting'
    BY <1>0, <1>10, <2>1, <2>2, <2>3 DEF WgDone, TypeOK, Accounting
  <2>5. TypeOK'
    BY <1>0, <1>10, <2>1, <2>2, <2>3, <2>4 DEF WgDone, Goto, TypeOK, Accounting, TaskState, Outcome
  <2>6. Frontier'
    BY <1>0, <1>10, <2>1 DEF WgDone, Goto, TypeOK, Frontier, Task
  <2>7. Outcomes'
    BY <1>0, <1>10, <2>1 DEF WgDone, Goto, TypeOK, Outcomes, Recorded, In, Outcome
  <2>8. Errors'
    BY <1>0, <1>10, <2>1 DEF WgDone, Goto, TypeOK, Outcomes, Errors, Recorded, In, Task, NoErr
  <2>9. Returned'
    BY <1>10, <2>1 DEF WgDone, Returned
  <2>. QED  BY <2>4, <2>5, <2>6, <2>7, <2>8, <2>9 DEF IInv
<1>11. CASE Cancel
  <2>1. UNCHANGED <<Holders, Live, Recorded, Skipped>>
    BY <1>11 DEF Cancel, Holders, Live, Recorded, Skipped, In
  <2>2. TypeOK' /\ Accounting'
    BY <1>0, <1>11, <2>1 DEF Cancel, TypeOK, Accounting
  <2>3. Frontier' /\ Outcomes' /\ Errors'
    BY <1>0, <1>11, <2>1 DEF Cancel, TypeOK, Frontier, Outcomes, Errors
  <2>4. Returned'
    BY <1>0, <1>11, <2>1 DEF Cancel, Returned
  <2>. QED  BY <2>2, <2>3, <2>4 DEF IInv
<1>12. CASE Terminated \/ UNCHANGED vars
  <2>1. UNCHANGED <<Holders, Live, Recorded, Skipped>>
    BY <1>12 DEF Terminated, vars, Holders, Live, Recorded, Skipped, In
  <2>2. TypeOK' /\ Accounting'
    BY <1>0, <1>12, <2>1 DEF Terminated, vars, TypeOK, Accounting
  <2>3. Frontier' /\ Outcomes' /\ Errors'
    BY <1>0, <1>12, <2>1 DEF Terminated, vars, TypeOK, Frontier, Outcomes, Errors
  <2>4. Returned'
    BY <1>0, <1>12, <2>1 DEF Terminated, vars, Returned
  <2>. QED  BY <2>2, <2>3, <2>4 DEF IInv
<1>. QED
  BY <1>1, <1>2, <1>3, <1>4, <1>5, <1>6, <1>7, <1>8, <1>9, <1>10, <1>11, <1>12
     DEF Next, Caller, Goroutine

\* IInv holds in every reachable state.
LEMMA Invariance == Spec => []IInv
BY InitIInv, NextIInv, PTL DEF Spec

-----------------------------------------------------------------------------
\* Every variable keeps its type: sem within the channel's capacity, the
\* WaitGroup never negative, the bar never past N.
THEOREM TypeCorrect == Spec => []TypeOK
<1>1. IInv => TypeOK
  BY DEF IInv
<1>. QED  BY <1>1, Invariance, PTL

\* The semaphore and WaitGroup counts are exact, so no token is lost or leaked.
THEOREM AccountingExact == Spec => []Accounting
<1>1. IInv => Accounting
  BY DEF IInv
<1>. QED  BY <1>1, Invariance, PTL

\* Never more than Concurrency calls of fn at a time.
THEOREM ParallelismBounded == Spec => []BoundedParallelism
<1>1. IInv => BoundedParallelism
  <2> SUFFICES ASSUME IInv PROVE BoundedParallelism
    OBVIOUS
  <2>1. Busy \subseteq Holders /\ Holders \in SUBSET Task
    BY DEF Busy, Holders, In
  <2>2. IsFiniteSet(Holders) /\ Cardinality(Holders) <= Concurrency
    BY <2>1, TaskFinite, RunConcurrentAssumption DEF IInv, TypeOK, Accounting
  <2>3. Cardinality(Busy) <= Cardinality(Holders)
    BY <2>1, <2>2, FS_Subset
  <2>4. Cardinality(Busy) \in Nat /\ Cardinality(Holders) \in Nat
    BY <2>1, TaskFinite
  <2>. QED  BY <2>2, <2>3, <2>4, RunConcurrentAssumption DEF BoundedParallelism
<1>. QED  BY <1>1, Invariance, PTL

\* Nothing of the fan-out is alive after the return.
THEOREM QuiescentAfterReturn == Spec => []Quiescent
<1>1. IInv => Quiescent
  BY DEF IInv, Returned, Quiescent
<1>. QED  BY <1>1, Invariance, PTL

\* The returned pair says the truth about the tasks.
THEOREM ResultFaithful == Spec => []FaithfulResult
<1>1. IInv => FaithfulResult
  <2> SUFFICES ASSUME IInv, pc = "returned"
               PROVE  /\ ret.err = NoErr => \A t \in Task : outcome[t] # "failed"
                      /\ ret.err \in Task => outcome[ret.err] = "failed"
                      /\ ret.err = CtxErr => cancelled
                      /\ ~cancelled => \A t \in Task : outcome[t] # "none"
                      /\ ret.skipped = Cardinality({t \in Task : outcome[t] = "exists"})
    BY DEF FaithfulResult
  <2> USE RunConcurrentAssumption DEF IInv
  <2>1. \A t \in Task : task[t] \in {"none", "done"}
    BY DEF TypeOK, TaskState, Returned, Live, Holders, In
  <2>2. \A t \in Task : outcome[t] \notin {"none"} => t \in Recorded
    BY <2>1 DEF Outcomes, Recorded, In
  <2>3. Skipped = {t \in Task : outcome[t] = "exists"}
    BY <2>2 DEF Skipped, Recorded, In
  <2>4. CtxErr \notin Task /\ NoErr \notin Task /\ NoErr # CtxErr
    BY DEF Task, CtxErr, NoErr
  <2>5. ret.err = NoErr => \A t \in Task : outcome[t] # "failed"
    BY <2>2, <2>4 DEF Returned, Errors
  <2>6. ret.err \in Task => outcome[ret.err] = "failed"
    BY <2>4 DEF Returned, Errors
  <2>7. ret.err = CtxErr => cancelled
    BY <2>4 DEF Returned, TypeOK
  <2>8. ~cancelled => \A t \in Task : outcome[t] # "none"
    BY <2>1 DEF Frontier, Outcomes, Recorded, In, Task
  <2>. QED  BY <2>3, <2>5, <2>6, <2>7, <2>8 DEF Returned, Accounting
<1>. QED  BY <1>1, Invariance, PTL

\* The bar advances by single ticks, is filled by the return and then rests.
THEOREM BarRests == Spec => BarNeverOverruns
<1>1. IInv /\ [Next]_vars => [BarStep]_vars
  <2> SUFFICES ASSUME IInv, Next PROVE BarStep \/ UNCHANGED vars
    BY DEF vars
  <2>1. ASSUME NEW t \in Task, Goroutine(t)
        PROVE  BarStep
    <3>1. pc # "returned"
      BY <2>1 DEF IInv, Returned, Live, Holders, In, Goroutine, SkipCancelled, Begin, FnReturns,
                  Report, Release, WgDone, Goto
    <3>. QED
      BY <2>1, <3>1 DEF BarStep, Goroutine, SkipCancelled, Begin, FnReturns, Report, Release, WgDone
  <2>2. CASE Dispatch \/ GiveUp \/ EndLoop \/ Cancel
    BY <2>2 DEF BarStep, Dispatch, GiveUp, EndLoop, Cancel
  <2>3. CASE Return
    BY <2>3, RunConcurrentAssumption DEF Return, BarStep, IInv, TypeOK
  <2>. QED  BY <2>1, <2>2, <2>3 DEF Next, Caller, Terminated
<1>. QED  BY <1>1, Invariance, PTL DEF Spec, BarNeverOverruns

-----------------------------------------------------------------------------
\* Every step of RunConcurrent is a step of FanOut or changes nothing it sees.
LEMMA StepSimulation == IInv /\ [Next]_vars => [Promise!Next]_(Promise!vars)
<1> SUFFICES ASSUME IInv, [Next]_vars PROVE Promise!Next \/ UNCHANGED Promise!vars
  OBVIOUS
<1> USE RunConcurrentAssumption DEF IInv
<1>1. CASE Dispatch
  <2>1. UNCHANGED <<Ran, Busy, Bad>>
    BY <1>1 DEF Dispatch, Goto, TypeOK, Ran, Busy, Bad, Recorded, In, Task
  <2>. QED  BY <1>1, <2>1 DEF Dispatch, Result, Promise!vars
<1>2. CASE GiveUp \/ EndLoop \/ Terminated \/ UNCHANGED vars
  BY <1>2 DEF GiveUp, EndLoop, Terminated, vars, Ran, Busy, Bad, Recorded, In, Result, Promise!vars
<1>3. CASE Return
  <2>1. Busy = {}
    <3>1. IsFiniteSet(Live) /\ Cardinality(Live) = 0
      BY <1>3, TaskFinite DEF Return, Accounting, Live, Holders, In
    <3>. QED  BY <3>1, FS_EmptySet DEF Live, Holders, Busy, In
  <2>2. Result = -3 /\ Result' = IF pc = "giveup" THEN CtxErr ELSE firstErr
    BY <1>3 DEF Return, Result
  <2>3. ~cancelled => Ran = Task
    <3>1. IsFiniteSet(Live) /\ Cardinality(Live) = 0
      BY <1>3, TaskFinite DEF Return, Accounting, Live, Holders, In
    <3>2. Live = {}
      BY <3>1, FS_EmptySet
    <3>3. ~cancelled => \A t \in Task : task[t] = "done"
      BY <1>3, <3>2 DEF Return, Frontier, TypeOK, TaskState, Live, Holders, In, Task
    <3>. QED  BY <3>3 DEF Outcomes, Recorded, In, Ran
  <2>4. UNCHANGED <<Ran, Busy, Bad, firstErr, cancelled>>
    BY <1>3 DEF Return, Ran, Busy, Bad, Recorded, In
  <2>5. pc = "giveup" => cancelled
    BY DEF Frontier
  <2>6. Promise!Return
    BY <2>1, <2>2, <2>3, <2>4, <2>5 DEF Promise!Return
  <2>. QED  BY <2>6 DEF Promise!Next
<1>4. ASSUME NEW t \in Task, Goroutine(t)
      PROVE  Promise!Next \/ UNCHANGED Promise!vars
  <2>1. pc # "returned" /\ UNCHANGED <<pc, ret, cancelled>>
    BY <1>4 DEF Returned, Live, Holders, In, Goroutine, SkipCancelled, Begin, FnReturns,
                Report, Release, WgDone, Goto
  <2>2. Result = -3 /\ Result' = -3
    BY <2>1 DEF Result
  <2>3. CASE SkipCancelled(t) \/ Release(t) \/ WgDone(t)
    <3>1. UNCHANGED <<Ran, Busy, Bad, firstErr>>
      BY <2>3 DEF SkipCancelled, Release, WgDone, Goto, TypeOK, Outcomes, Ran, Busy, Bad, Recorded, In
    <3>. QED  BY <2>1, <2>2, <3>1 DEF Promise!vars
  <2>4. CASE FnReturns(t)
    <3>1. UNCHANGED <<Ran, Busy, Bad, firstErr>>
      BY <2>4 DEF FnReturns, Goto, TypeOK, Outcome, Ran, Busy, Bad, Recorded, In
    <3>. QED  BY <2>1, <2>2, <3>1 DEF Promise!vars
  <2>5. CASE Begin(t)
    <3>1. /\ t \notin Ran /\ Ran' = Ran \cup {t} /\ Busy' = Busy \cup {t}
          /\ UNCHANGED <<Bad, firstErr>>
      BY <2>5 DEF Begin, Goto, TypeOK, Outcomes, Ran, Busy, Bad, Recorded, In
    <3>2. Cardinality(Busy) < Concurrency
      <4>1. Busy \cup {t} \subseteq Holders /\ t \notin Busy /\ Busy \in SUBSET Task /\ Holders \in SUBSET Task
        BY <2>5 DEF Begin, Goto, Busy, Holders, In
      <4>2. IsFiniteSet(Holders) /\ Cardinality(Holders) <= Concurrency
        BY <4>1, TaskFinite DEF TypeOK, Accounting
      <4>3. Cardinality(Busy \cup {t}) <= Cardinality(Holders)
        BY <4>1, <4>2, FS_Subset
      <4>4. Cardinality(Busy \cup {t}) = Cardinality(Busy) + 1
        BY <4>1, AddOne
      <4>5. Cardinality(Busy) \in Nat /\ Cardinality(Holders) \in Nat
        BY <4>1, TaskFinite
      <4>. QED  BY <4>2, <4>3, <4>4, <4>5
    <3>3. ~cancelled
      BY <2>5 DEF Begin
    <3>4. Promise!Start(t)
      <4>1. Promise!Cardinality(Busy) = Cardinality(Busy)
        BY DEF Promise!Cardinality, Cardinality
      <4>. QED  BY <2>1, <2>2, <3>1, <3>2, <3>3, <4>1 DEF Promise!Start
    <3>. QED  BY <3>4 DEF Promise!Next
  <2>6. CASE Report(t)
    <3>1. t \in Busy /\ Busy' = Busy \ {t} /\ UNCHANGED Ran
      BY <2>6 DEF Report, Goto, TypeOK, Outcomes, Ran, Busy, In
    <3>2. CASE outcome[t] = "failed"
      <4>1. Bad' = Bad \cup {t} /\ firstErr' = IF firstErr = NoErr THEN t ELSE firstErr
        BY <2>6, <3>2 DEF Report, Goto, TypeOK, Bad, Recorded, In
      <4>2. Promise!Fail(t)
        BY <2>1, <2>2, <3>1, <4>1 DEF Promise!Fail
      <4>. QED  BY <4>2 DEF Promise!Next
    <3>3. CASE outcome[t] # "failed"
      <4>1. UNCHANGED <<Bad, firstErr>>
        BY <2>6, <3>3 DEF Report, Goto, TypeOK, Bad, Recorded, In
      <4>2. Promise!Succeed(t)
        BY <2>1, <2>2, <3>1, <4>1 DEF Promise!Succeed
      <4>. QED  BY <4>2 DEF Promise!Next
    <3>. QED  BY <3>2, <3>3
  <2>. QED  BY <1>4, <2>3, <2>4, <2>5, <2>6 DEF Goroutine
<1>5. CASE Cancel
  <2>1. UNCHANGED <<Ran, Busy, Bad, firstErr, Result>> /\ ~cancelled /\ cancelled'
    BY <1>5 DEF Cancel, Ran, Busy, Bad, Recorded, In, Result
  <2>2. Promise!Cancel
    BY <1>5, <2>1 DEF Cancel, Promise!Cancel
  <2>. QED  BY <2>2 DEF Promise!Next
<1>. QED  BY <1>1, <1>2, <1>3, <1>4, <1>5 DEF Next, Caller

\* RunConcurrent keeps the promise its callers rely on, whatever N, Concurrency,
\* the interleaving, the outcomes of fn and the moment of cancellation.
THEOREM Implementation == Spec => ImplementsFanOut
<1>1. Init => Promise!Init
  BY RunConcurrentAssumption DEF Init, Promise!Init, Ran, Busy, Bad, Recorded, In, Result
<1>. QED  BY <1>1, StepSimulation, Invariance, PTL DEF Spec, ImplementsFanOut, Promise!Spec
=============================================================================
