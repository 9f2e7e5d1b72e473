------------------------------- MODULE Mining -------------------------------
(***************************************************************************)
(* One mining round (Mine and mineWorker of internal/miner/miner.go): the  *)
(* orchestrator, its workers, the telemetry goroutines and the channels    *)
(* between them.                                                           *)
(*                                                                         *)
(* Hashing is a nondeterministic choice.  resultCh is unbuffered: a send   *)
(* and the receive are one step.  Of hashTracker only the number of        *)
(* buffered reports is kept.                                               *)
(***************************************************************************)
EXTENDS Integers, TLAPS

CONSTANTS
  Worker,   \* the worker goroutines
  Capacity  \* of the channel hashTracker; the code makes it two per worker

ASSUME MiningAssumption == Capacity \in Nat

VARIABLES
  ctx,         \* the round's context is cancelled (the Manager's minerCancel)
  workerCtx,   \* cancelWorkers has been called
  round,       \* the orchestrator: "select", "commit" or "returned"
  worker,      \* next step of each worker
  reports,     \* reports in hashTracker
  closed,      \* hashTracker is closed
  aggregating  \* the goroutine that empties hashTracker runs

vars == <<ctx, workerCtx, round, worker, reports, closed, aggregating>>

(* At "leave", "batch" and "found" a worker is about to send a report; at  *)
(* "result" it is about to send its nonce.                                 *)
Sending == {"leave", "batch", "found"}

Init ==
  /\ ctx = FALSE /\ workerCtx = FALSE /\ round = "select"
  /\ worker = [w \in Worker |-> "check"]
  /\ reports = 0 /\ closed = FALSE /\ aggregating = TRUE

(* commitBlock of a new tip, or SetMiningCores.                            *)
MinerCancel ==
  /\ ~ ctx /\ ctx' = TRUE
  /\ UNCHANGED <<workerCtx, round, worker, reports, closed, aggregating>>

-----------------------------------------------------------------------------
(* A turn of the worker's loop: the test of the context, and a hash, after *)
(* which a full batch is reported, a nonce may have been found, or both.   *)
Check(w) ==
  /\ worker[w] = "check"
  /\ worker' = [worker EXCEPT ![w] = IF ctx \/ workerCtx THEN "leave" ELSE "hash"]
  /\ UNCHANGED <<ctx, workerCtx, round, reports, closed, aggregating>>

Hash(w) ==
  /\ worker[w] = "hash"
  /\ \E next \in {"check", "batch", "found"} : worker' = [worker EXCEPT ![w] = next]
  /\ UNCHANGED <<ctx, workerCtx, round, reports, closed, aggregating>>

(* A send on hashTracker, which blocks while the channel is full.          *)
Report(w) ==
  /\ worker[w] \in Sending /\ reports < Capacity
  /\ reports' = reports + 1
  /\ \E next \in CASE worker[w] = "leave" -> {"dead"}
                   [] worker[w] = "batch" -> {"check", "found"}
                   [] worker[w] = "found" -> {"result"} :
       worker' = [worker EXCEPT ![w] = next]
  /\ UNCHANGED <<ctx, workerCtx, round, closed, aggregating>>

-----------------------------------------------------------------------------
(* Mutant: the round does not wait for its context.                        *)
Interrupted_Never == FALSE /\ UNCHANGED vars

(* The orchestrator's select: the context is cancelled, or a nonce comes.  *)
(* Either way the workers' context is cancelled.                           *)
Interrupted ==
  /\ round = "select" /\ ctx
  /\ round' = "returned" /\ workerCtx' = TRUE
  /\ UNCHANGED <<ctx, worker, reports, closed, aggregating>>

Won(w) ==
  /\ round = "select" /\ worker[w] = "result"
  /\ round' = "commit" /\ workerCtx' = TRUE
  /\ worker' = [worker EXCEPT ![w] = "dead"]
  /\ UNCHANGED <<ctx, reports, closed, aggregating>>

(* Storing, validating, committing and broadcasting the block.             *)
CommitMined ==
  /\ round = "commit" /\ round' = "returned"
  /\ UNCHANGED <<ctx, workerCtx, worker, reports, closed, aggregating>>

(* Mutant: the channel is closed when the round returns.                   *)
CloseTracker_Early ==
  /\ round = "returned" /\ ~ closed /\ closed' = TRUE
  /\ UNCHANGED <<ctx, workerCtx, round, worker, reports, aggregating>>

(* wg.Wait, close(hashTracker).                                            *)
CloseTracker ==
  /\ \A w \in Worker : worker[w] = "dead"
  /\ ~ closed /\ closed' = TRUE
  /\ UNCHANGED <<ctx, workerCtx, round, worker, reports, aggregating>>

(* Mutant: the aggregator ends with the round.                             *)
Aggregate_Stop ==
  /\ round # "returned"
  /\ aggregating /\ reports > 0 /\ reports' = reports - 1
  /\ UNCHANGED <<ctx, workerCtx, round, worker, closed, aggregating>>

(* The range over hashTracker.                                             *)
Aggregate ==
  /\ aggregating /\ reports > 0 /\ reports' = reports - 1
  /\ UNCHANGED <<ctx, workerCtx, round, worker, closed, aggregating>>

AggregateEnd ==
  /\ aggregating /\ reports = 0 /\ closed /\ aggregating' = FALSE
  /\ UNCHANGED <<ctx, workerCtx, round, worker, reports, closed>>

Orchestrator == Interrupted \/ CommitMined \/ \E w \in Worker : Won(w)

Telemetry == CloseTracker \/ Aggregate \/ AggregateEnd

WorkerStep(w) == Check(w) \/ Hash(w) \/ Report(w)

Next == MinerCancel \/ Orchestrator \/ Telemetry \/ \E w \in Worker : WorkerStep(w)

(* All goroutines are scheduled, and a worker that is blocked in a send    *)
(* gets its turn: waiting senders of a channel are served in order.        *)
Spec ==
  /\ Init /\ [][Next]_vars
  /\ WF_vars(Orchestrator) /\ WF_vars(Telemetry)
  /\ \A w \in Worker : SF_vars(WorkerStep(w))

-----------------------------------------------------------------------------
(* Nobody sends on hashTracker once it is closed, which would panic, also  *)
(* when the round returns long before its workers notice.                  *)
NoSendOnClosed == closed => \A w \in Worker : worker[w] \notin Sending

(* A cancelled round returns, whatever the workers are blocked in; only    *)
(* then does StartMining begin a round on the new chaintip.                *)
CancelReturns == ctx ~> (round = "returned")

(* No worker is blocked for ever in the report of its hashes.              *)
ReportsAccepted ==
  \A w \in Worker : (worker[w] \in Sending) ~> (worker[w] \notin Sending)

(* Once the round has returned all its workers end.                        *)
WorkersEnd == (round = "returned") ~> (\A w \in Worker : worker[w] = "dead")

-----------------------------------------------------------------------------
(* Closing the channel waits for all workers, and a worker that has ended  *)
(* takes no step.                                                          *)
ClosedInv ==
  /\ worker \in [Worker -> Sending \cup {"check", "hash", "result", "dead"}]
  /\ closed => \A w \in Worker : worker[w] = "dead"

(* Every step keeps the channel open while a worker runs.                  *)
LEMMA ClosedStep == ClosedInv /\ [Next]_vars => ClosedInv'
<1> SUFFICES ASSUME ClosedInv, [Next]_vars
             PROVE  ClosedInv'
  OBVIOUS
<1>1. ASSUME NEW w \in Worker, WorkerStep(w) \/ Won(w)
      PROVE  ClosedInv'
  <2>1. worker[w] # "dead" /\ closed' = closed
    BY <1>1 DEF WorkerStep, Check, Hash, Report, Won, Sending
  <2>2. PICK next \in Sending \cup {"check", "hash", "result", "dead"} :
          worker' = [worker EXCEPT ![w] = next]
    BY <1>1 DEF WorkerStep, Check, Hash, Report, Won, Sending
  <2>3. QED
    BY <2>1, <2>2 DEF ClosedInv
<1>2. CASE CloseTracker
  BY <1>2 DEF CloseTracker, ClosedInv
<1>3. CASE \/ MinerCancel \/ Interrupted \/ CommitMined \/ Aggregate \/ AggregateEnd
           \/ UNCHANGED vars
  BY <1>3 DEF MinerCancel, Interrupted, CommitMined, Aggregate, AggregateEnd, vars, ClosedInv
<1>4. QED
  BY <1>1, <1>2, <1>3 DEF Next, Orchestrator, Telemetry

(* For any number of workers and any capacity of the channel: no worker    *)
(* sends on hashTracker after it is closed.                                *)
THEOREM NobodySendsOnClosed == Spec => []NoSendOnClosed
<1>1. Init => ClosedInv
  BY DEF Init, ClosedInv, Sending
<1>2. ClosedInv => NoSendOnClosed
  BY DEF ClosedInv, NoSendOnClosed, Sending
<1>3. QED
  BY <1>1, <1>2, ClosedStep, PTL DEF Spec
=============================================================================
