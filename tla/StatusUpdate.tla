---------------------------- MODULE StatusUpdate ----------------------------
(***************************************************************************)
(* The body of a fixture task that creates one object and then writes its  *)
(* status (bench nodes, bench service pods, istio ingress services):       *)
(* Create, then helpers.RetryUpdateStatus around UpdateStatus, with Get as *)
(* the conflict handler.  The API server's optimistic concurrency, KWOK's  *)
(* own patches, dropped connections, interrupts, crashes and reruns of the *)
(* program against the same cluster are the environment.                   *)
(***************************************************************************)
EXTENDS Integers

CONSTANTS MaxRv,      \* bound on versions made by KWOK and by late requests
          MaxRuns     \* bound on runs of the program against one cluster

ASSUME StatusUpdateAssumption == MaxRv \in Nat \ {0} /\ MaxRuns \in Nat \ {0}

VARIABLES rv,          \* server: resourceVersion of the object, 0 = it does not exist
          ready,       \* server: wantStatus has been stored
          abandoned,   \* versions named by UpdateStatus requests whose caller stopped
                       \* listening but that the server may still process
          pc,          \* task: "create", "update", "sent", "wait", "refetch", "done", "crashed"
          copy,        \* task: resourceVersion of the object it holds
          outcome,     \* task: what fn returned
          cancelled,   \* ctx is done
          runs,        \* runs of the program so far
          calm         \* the network and KWOK misbehave no more

vars == <<rv, ready, abandoned, pc, copy, outcome, cancelled, runs, calm>>
server == <<rv, ready, abandoned>>

Unconditional == 0    \* a request without resourceVersion
Accepts(r) == r = rv \/ r = Unconditional

Init ==
  /\ rv = 0 /\ ready = FALSE /\ abandoned = {}
  /\ pc = "create" /\ copy = 0 /\ outcome = "none"
  /\ cancelled = FALSE /\ runs = 1 /\ calm = FALSE

Finish(o) ==
  /\ pc' = "done" /\ outcome' = o
  /\ UNCHANGED <<copy, cancelled, runs, calm>>

Goto(p) ==
  /\ pc' = p
  /\ UNCHANGED <<copy, outcome, cancelled, runs, calm>>

\* Create -------------------------------------------------------------------

CreateOk ==
  /\ pc = "create" /\ rv = 0 /\ ~cancelled
  /\ rv' = 1 /\ copy' = 1 /\ pc' = "update"
  /\ UNCHANGED <<ready, abandoned, outcome, cancelled, runs, calm>>

\* AlreadyExists: the task is skipped, (true, nil).
CreateExists ==
  /\ pc = "create" /\ rv > 0 /\ ~cancelled
  /\ Finish("exists") /\ UNCHANGED server

\* Any other error of Create is surfaced; the server may have stored the object.
CreateFails ==
  /\ pc = "create" /\ (cancelled \/ ~calm)
  /\ \/ UNCHANGED rv
     \/ rv = 0 /\ ~calm /\ rv' = 1
  /\ Finish("failed") /\ UNCHANGED <<ready, abandoned>>

\* RetryUpdateStatus --------------------------------------------------------

UpdateRetriesAnyError ==
  /\ pc = "update" /\ cancelled
  /\ Goto("wait") /\ UNCHANGED server

\* A call made with a done ctx returns ctx.Err(), which RetryAfter does not retry.
UpdateCancelled ==
  /\ pc = "update" /\ cancelled
  /\ Finish("failed") /\ UNCHANGED server

SendUnconditional ==
  /\ pc = "update" /\ ~cancelled
  /\ copy' = Unconditional /\ pc' = "sent"
  /\ UNCHANGED <<outcome, cancelled, runs, calm>> /\ UNCHANGED server

Send ==
  /\ pc = "update" /\ ~cancelled
  /\ Goto("sent") /\ UNCHANGED server

ReplyOkLosesResult ==
  /\ pc = "sent" /\ Accepts(copy)
  /\ rv' = rv + 1 /\ ready' = TRUE /\ UNCHANGED abandoned
  /\ Goto("done")

ReplyOk ==
  /\ pc = "sent" /\ Accepts(copy)
  /\ rv' = rv + 1 /\ ready' = TRUE /\ UNCHANGED abandoned
  /\ Finish("created")

ReplyConflictInPlace ==
  /\ pc = "sent" /\ ~Accepts(copy)
  /\ Goto("update") /\ UNCHANGED server

ReplyConflictIsSuccess ==
  /\ pc = "sent" /\ ~Accepts(copy)
  /\ Finish("created") /\ UNCHANGED server

\* Conflict: RetryAfter returns (0, false, true), so no pause and a re-fetch.
ReplyConflict ==
  /\ pc = "sent" /\ ~Accepts(copy)
  /\ Goto("refetch") /\ UNCHANGED server

\* TooManyRequests: rejected by the server, retried in place after 1s.
ReplyTooMany ==
  /\ pc = "sent" /\ ~calm
  /\ Goto("wait") /\ UNCHANGED server

\* Unexpected EOF: retried in place after 200ms.  The comment on RetryAfter says
\* the server never saw the request; here it may still come to process it.
ReplyEOF ==
  /\ pc = "sent" /\ ~calm
  /\ abandoned' = abandoned \cup {copy}
  /\ Goto("wait") /\ UNCHANGED <<rv, ready>>

\* Every other error, and a ctx that is done during the call, is returned.
ReplyError ==
  /\ pc = "sent" /\ (cancelled \/ ~calm)
  /\ abandoned' = abandoned \cup {copy}
  /\ Finish("failed") /\ UNCHANGED <<rv, ready>>

\* select: time.After and ctx.Done() may both be ready.
WaitOver ==
  /\ pc = "wait"
  /\ Goto("update") /\ UNCHANGED server

WaitCancelled ==
  /\ pc = "wait" /\ cancelled
  /\ Finish("failed") /\ UNCHANGED server

RefetchOk ==
  /\ pc = "refetch" /\ ~cancelled
  /\ copy' = rv /\ pc' = "update"
  /\ UNCHANGED <<outcome, cancelled, runs, calm>> /\ UNCHANGED server

RefetchFails ==
  /\ pc = "refetch" /\ (cancelled \/ ~calm)
  /\ Finish("failed") /\ UNCHANGED server

Task ==
  \/ CreateOk \/ CreateExists \/ CreateFails
  \/ UpdateCancelled \/ Send
  \/ ReplyOk \/ ReplyConflict \/ ReplyTooMany \/ ReplyEOF \/ ReplyError
  \/ WaitOver \/ WaitCancelled \/ RefetchOk \/ RefetchFails

\* Environment --------------------------------------------------------------

KwokPatch ==
  /\ rv > 0 /\ rv < MaxRv /\ ~calm
  /\ rv' = rv + 1
  /\ UNCHANGED <<ready, abandoned, pc, copy, outcome, cancelled, runs, calm>>

\* A request whose caller has gone is processed, or rejected as a conflict.
LateRequest ==
  /\ \E r \in abandoned :
       /\ abandoned' = abandoned \ {r}
       /\ IF Accepts(r) THEN rv < MaxRv /\ rv' = rv + 1 /\ ready' = TRUE
                        ELSE UNCHANGED <<rv, ready>>
  /\ UNCHANGED <<pc, copy, outcome, cancelled, runs, calm>>

Cancel ==
  /\ pc \notin {"done", "crashed"} /\ ~cancelled
  /\ cancelled' = TRUE
  /\ UNCHANGED <<pc, copy, outcome, runs, calm>> /\ UNCHANGED server

Crash ==
  /\ pc \notin {"done", "crashed"} /\ ~calm
  /\ abandoned' = IF pc = "sent" THEN abandoned \cup {copy} ELSE abandoned
  /\ Goto("crashed") /\ UNCHANGED <<rv, ready>>

\* The cluster was kept and the program is run against it again.
Rerun ==
  /\ pc \in {"done", "crashed"} /\ runs < MaxRuns /\ ~calm
  /\ pc' = "create" /\ copy' = 0 /\ outcome' = "none"
  /\ cancelled' = FALSE /\ runs' = runs + 1
  /\ UNCHANGED calm /\ UNCHANGED server

CalmDown ==
  /\ ~calm /\ calm' = TRUE
  /\ UNCHANGED <<pc, copy, outcome, cancelled, runs>> /\ UNCHANGED server

Finished == pc \in {"done", "crashed"} /\ UNCHANGED vars

Environment == KwokPatch \/ LateRequest \/ Cancel \/ Crash \/ Rerun \/ CalmDown
Next == Task \/ Environment \/ Finished

Spec == Init /\ [][Next]_vars

\* The goroutine runs when it can: timers fire and every API call is answered
\* or fails, since client-go's calls end with their ctx.
LiveSpec == Spec /\ WF_vars(Task)
-----------------------------------------------------------------------------
TypeOK ==
  /\ rv \in 0 .. MaxRv + 1 /\ ready \in BOOLEAN /\ abandoned \subseteq 1 .. MaxRv + 1
  /\ pc \in {"create", "update", "sent", "wait", "refetch", "done", "crashed"}
  /\ copy \in 0 .. MaxRv + 1 /\ outcome \in {"none", "created", "exists", "failed"}
  /\ (pc = "done") = (outcome # "none")
  /\ cancelled \in BOOLEAN /\ runs \in 1 .. MaxRuns /\ calm \in BOOLEAN

\* A task that reports a created object has really stored its status, whatever
\* conflicts, dropped connections and rate limits it met on the way.
SuccessMeansReady == outcome = "created" => ready

\* Retrying in place after a dropped connection is safe: when the task has
\* succeeded, an earlier request that the server still holds is rejected, so it
\* cannot overwrite what KWOK writes from then on.
StaleRequestsRejected ==
  outcome = "created" => \A r \in abandoned : ~Accepts(r)

\* helpers.go:187: an interrupt ends the retry loop, even while the server
\* keeps answering 429 or dropping connections.
CancelEnds == cancelled ~> pc \in {"done", "crashed"}

\* The loop has no retry limit, yet it ends once conflicts, drops and rate
\* limits cease.
Converges == (<>calm) => <>(pc \in {"done", "crashed"})

\* bench.yaml:18 and INDEX.md promise idempotent reruns that skip existing
\* resources, and service.go:177 that createPods "sets Running status": a
\* skipped object would have to be ready.
SkippedIsReady == outcome = "exists" => ready
=============================================================================
