------------------------- MODULE StatusUpdateProofs -------------------------
(***************************************************************************)
(* The create-then-update task for any number of versions and runs: the    *)
(* argument is that versions only grow, so that every version the task or  *)
(* an abandoned request has seen is at most the server's, and strictly     *)
(* below it once an update of this task has been accepted.                 *)
(***************************************************************************)
EXTENDS StatusUpdate, TLAPS

\* What the task holds was once the server's version.
Versions ==
  /\ copy <= rv
  /\ \A r \in abandoned : r <= rv
  /\ pc \in {"update", "sent", "wait", "refetch"} => copy >= 1
  /\ rv = MaxRv + 1 => pc \in {"create", "done", "crashed"}

\* What an accepted update leaves behind.
Accepted ==
  outcome = "created" => ready /\ \A r \in abandoned : r < rv

IInv == TypeOK /\ Versions /\ Accepted

\* The initial state satisfies the invariant.
LEMMA InitIInv == Init => IInv
<1> SUFFICES ASSUME Init PROVE IInv
  OBVIOUS
<1>1. MaxRv \in Nat /\ MaxRuns \in Nat /\ MaxRuns >= 1
  BY StatusUpdateAssumption
<1>2. rv \in 0 .. MaxRv + 1 /\ copy \in 0 .. MaxRv + 1 /\ runs \in 1 .. MaxRuns
  BY <1>1 DEF Init
<1>3. ready \in BOOLEAN /\ abandoned = {} /\ cancelled \in BOOLEAN /\ calm \in BOOLEAN
  BY DEF Init
<1>4. pc = "create" /\ outcome = "none" /\ copy = 0 /\ rv = 0
  BY DEF Init
<1>5. TypeOK
  BY <1>2, <1>3, <1>4 DEF TypeOK
<1>6. Versions /\ Accepted
  BY <1>1, <1>3, <1>4 DEF Versions, Accepted
<1>. QED  BY <1>5, <1>6 DEF IInv

\* Every step preserves the invariant.
LEMMA NextIInv == IInv /\ [Next]_vars => IInv'
<1> SUFFICES ASSUME IInv, [Next]_vars PROVE IInv'
  OBVIOUS
<1> USE StatusUpdateAssumption DEF IInv, TypeOK, Versions, Accepted
<1>1. CASE CreateOk
  BY <1>1 DEF CreateOk, Finish, Goto, server, Accepts, Unconditional
<1>2. CASE CreateExists
  BY <1>2 DEF CreateExists, Finish, Goto, server, Accepts, Unconditional
<1>3. CASE CreateFails
  BY <1>3 DEF CreateFails, Finish, Goto, server, Accepts, Unconditional
<1>4. CASE UpdateCancelled
  BY <1>4 DEF UpdateCancelled, Finish, Goto, server, Accepts, Unconditional
<1>5. CASE Send
  BY <1>5 DEF Send, Finish, Goto, server, Accepts, Unconditional
<1>6. CASE ReplyOk
  BY <1>6 DEF ReplyOk, Finish, Goto, server, Accepts, Unconditional
<1>7. CASE ReplyConflict
  BY <1>7 DEF ReplyConflict, Finish, Goto, server, Accepts, Unconditional
<1>8. CASE ReplyTooMany
  BY <1>8 DEF ReplyTooMany, Finish, Goto, server, Accepts, Unconditional
<1>9. CASE ReplyEOF
  BY <1>9 DEF ReplyEOF, Finish, Goto, server, Accepts, Unconditional
<1>10. CASE ReplyError
  BY <1>10 DEF ReplyError, Finish, Goto, server, Accepts, Unconditional
<1>11. CASE WaitOver
  BY <1>11 DEF WaitOver, Finish, Goto, server, Accepts, Unconditional
<1>12. CASE WaitCancelled
  BY <1>12 DEF WaitCancelled, Finish, Goto, server, Accepts, Unconditional
<1>13. CASE RefetchOk
  BY <1>13 DEF RefetchOk, Finish, Goto, server, Accepts, Unconditional
<1>14. CASE RefetchFails
  BY <1>14 DEF RefetchFails, Finish, Goto, server, Accepts, Unconditional
<1>15. CASE KwokPatch
  BY <1>15 DEF KwokPatch, Finish, Goto, server, Accepts, Unconditional
<1>16. CASE LateRequest
  <2>1. PICK r \in abandoned :
          /\ abandoned' = abandoned \ {r}
          /\ IF Accepts(r) THEN rv < MaxRv /\ rv' = rv + 1 /\ ready' = TRUE
                           ELSE UNCHANGED <<rv, ready>>
    BY <1>16 DEF LateRequest
  <2>2. UNCHANGED <<pc, copy, outcome, cancelled, runs, calm>>
    BY <1>16 DEF LateRequest
  <2>3. CASE Accepts(r)
    <3>1. TypeOK' /\ Versions'
      BY <2>1, <2>2, <2>3
    <3>2. outcome # "created"
      BY <2>3 DEF Accepts, Unconditional
    <3>. QED  BY <2>2, <3>1, <3>2
  <2>4. CASE ~Accepts(r)
    BY <2>1, <2>2, <2>4
  <2>. QED  BY <2>3, <2>4
<1>17. CASE Cancel
  BY <1>17 DEF Cancel, Finish, Goto, server, Accepts, Unconditional
<1>18. CASE Crash
  BY <1>18 DEF Crash, Finish, Goto, server, Accepts, Unconditional
<1>19. CASE Rerun
  <2>1. runs' \in 1 .. MaxRuns /\ copy' = 0 /\ copy' \in 0 .. MaxRv + 1
    BY <1>19 DEF Rerun
  <2>2. pc' = "create" /\ outcome' = "none" /\ cancelled' \in BOOLEAN /\ UNCHANGED <<rv, ready, abandoned, calm>>
    BY <1>19 DEF Rerun, server
  <2>3. TypeOK'
    BY <2>1, <2>2
  <2>. QED  BY <2>1, <2>2, <2>3
<1>20. CASE CalmDown
  BY <1>20 DEF CalmDown, Finish, Goto, server, Accepts, Unconditional
<1>21. CASE Finished \/ UNCHANGED vars
  BY <1>21 DEF Finished, vars
<1>. QED
  BY <1>1, <1>2, <1>3, <1>4, <1>5, <1>6, <1>7, <1>8, <1>9, <1>10, <1>11,
     <1>12, <1>13, <1>14, <1>15, <1>16, <1>17, <1>18, <1>19, <1>20, <1>21
     DEF Next, Task, Environment

LEMMA Invariance == Spec => []IInv
BY InitIInv, NextIInv, PTL DEF Spec

\* Every variable keeps its type, and a finished task has exactly one outcome.
THEOREM TypeCorrect == Spec => []TypeOK
<1>1. IInv => TypeOK
  BY DEF IInv
<1>. QED  BY <1>1, Invariance, PTL

\* A task that reports "created" has stored the wanted status.
THEOREM SuccessIsReady == Spec => []SuccessMeansReady
<1>1. IInv => SuccessMeansReady
  BY DEF IInv, Accepted, SuccessMeansReady
<1>. QED  BY <1>1, Invariance, PTL

\* No request abandoned on the way can be accepted after the success.
THEOREM StaleRejected == Spec => []StaleRequestsRejected
<1>1. IInv => StaleRequestsRejected
  BY StatusUpdateAssumption DEF IInv, TypeOK, Accepted, StaleRequestsRejected, Accepts, Unconditional
<1>. QED  BY <1>1, Invariance, PTL
=============================================================================
