---------------------------- MODULE PooledWriter ----------------------------
(***************************************************************************)
(* The pooled write path: the BackgroundWorker's batching loop             *)
(* (core/worker.py, _is_pooled) over PooledWriter (core/pool_writer.py),   *)
(* which hands batches to subprocesses of a ProcessPoolExecutor behind a   *)
(* BoundedSemaphore, and survives their crashes by making a new pool.      *)
(*                                                                         *)
(* The queue in front of the worker is module Pipeline's concern: here the *)
(* worker simply receives events 1, 2, ... and finally the sentinel.       *)
(* ProcessPoolExecutor is external: its queue of futures, its worker       *)
(* processes and its broken / shut-down states are modelled from the calls *)
(* made to it.                                                             *)
(***************************************************************************)
EXTENDS Naturals, Sequences, FiniteSets

CONSTANTS
  MaxWorkers,  \* _max_workers: processes and semaphore slots
  BatchSize,   \* batch_size of BackgroundWorker
  MaxEvents,   \* bound of the model: events the worker receives
  MaxCrashes   \* bound of the model: subprocess crashes

ASSUME PooledAssumption ==
  /\ MaxWorkers \in Nat \ {0}
  /\ BatchSize \in Nat \ {0}
  /\ MaxEvents \in Nat /\ MaxCrashes \in Nat

VARIABLES
  \* worker thread: _run, _flush_batch and submit_batch
  wpc,         \* where the worker is
  stopping,    \* it has received the sentinel
  received,    \* events received so far
  batch,       \* _batch
  sending,     \* batch_to_send
  acquired,    \* acquired / retry_acquired of submit_batch
  processed,   \* _events_processed
  consec,      \* _consecutive_errors
  \* PooledWriter
  permits,     \* value of _semaphore
  errors,      \* _errors
  pool,        \* generation number of _executor
  \* the executors: futures of every generation, in submission order
  futures,
  broken,      \* generations whose pool is broken
  shut,        \* generations that were shut down
  crashes,
  disk,        \* copies of each event the subprocess backends have written
  \* the thread in _shutdown
  cpc,         \* where it is
  late,        \* its join timed out
  tries,       \* slots close() has tried to acquire
  drained      \* acquired_count

workerVars == <<wpc, stopping, received, batch, sending, acquired, processed, consec>>
poolVars   == <<futures, broken, shut, crashes, disk>>
closerVars == <<cpc, late, tries, drained>>
vars == <<workerVars, permits, errors, pool, poolVars, closerVars>>

(* A future: the batch, the pool it was submitted to, how many of its       *)
(* events its process has written, whether _on_batch_done is registered,    *)
(* whether a permit was acquired for it, and its state.                     *)
Future(b, g, cb, owns) ==
  [events |-> b, pool |-> g, pos |-> 0, callback |-> cb, owns |-> owns, st |-> "pending"]

Unresolved(g) == {f \in DOMAIN futures :
                    futures[f].pool = g /\ futures[f].st \in {"pending", "written", "raised"}}
Pending(g) == {f \in Unresolved(g) : futures[f].st = "pending"}

(* A process takes up a future when a process is free, oldest first. *)
Running(f) ==
  /\ f \in Pending(futures[f].pool)
  /\ Cardinality({h \in Pending(futures[f].pool) : h < f}) < MaxWorkers

(* BoundedSemaphore.release, its ValueError swallowed. *)
Released(n) == IF n < MaxWorkers THEN n + 1 ELSE n

Init ==
  /\ wpc = "get" /\ stopping = FALSE /\ received = 0
  /\ batch = <<>> /\ sending = <<>> /\ acquired = FALSE
  /\ processed = 0 /\ consec = 0
  /\ permits = MaxWorkers /\ errors = 0 /\ pool = 1
  /\ futures = <<>> /\ broken = {} /\ shut = {} /\ crashes = 0
  /\ disk = [e \in 1..MaxEvents |-> 0]
  /\ cpc = "idle" /\ late = FALSE /\ tries = 0 /\ drained = 0
-----------------------------------------------------------------------------
(* The worker loop.                                                        *)

(* _flush_batch: move the batch to batch_to_send and enter submit_batch. *)
StartFlush(b) == sending' = b /\ batch' = <<>> /\ wpc' = "acquire"

(* Mutant: the size check is off by one. *)
ReceiveEvent_Oversized ==
  /\ wpc = "get" /\ received < MaxEvents /\ ~stopping
  /\ received' = received + 1
  /\ LET b == Append(batch, received + 1) IN
       \/ StartFlush(b)
       \/ Len(b) <= BatchSize /\ batch' = b /\ UNCHANGED <<wpc, sending>>
  /\ UNCHANGED <<stopping, acquired, processed, consec, permits, errors, pool,
                 poolVars, closerVars>>

(* The batch is sent when it is full, or when batch_timeout has elapsed.   *)
ReceiveEvent ==
  /\ wpc = "get" /\ received < MaxEvents /\ ~stopping
  /\ received' = received + 1
  /\ LET b == Append(batch, received + 1) IN
       \/ StartFlush(b)
       \/ Len(b) < BatchSize /\ batch' = b /\ UNCHANGED <<wpc, sending>>
  /\ UNCHANGED <<stopping, acquired, processed, consec, permits, errors, pool,
                 poolVars, closerVars>>

(* Mutant: an idle queue flushes full batches only. *)
IdleFlush_FullOnly ==
  /\ wpc = "get" /\ Len(batch) >= BatchSize
  /\ StartFlush(batch)
  /\ UNCHANGED <<stopping, received, acquired, processed, consec, permits, errors, pool,
                 poolVars, closerVars>>

(* queue.Empty with a partial batch. *)
IdleFlush ==
  /\ wpc = "get" /\ batch # <<>>
  /\ StartFlush(batch)
  /\ UNCHANGED <<stopping, received, acquired, processed, consec, permits, errors, pool,
                 poolVars, closerVars>>

ReceiveSentinel ==
  /\ wpc = "get" /\ cpc # "idle" /\ ~stopping
  /\ stopping' = TRUE
  /\ IF batch # <<>> THEN StartFlush(batch)
                     ELSE wpc' = "done" /\ UNCHANGED <<batch, sending>>
  /\ UNCHANGED <<received, acquired, processed, consec, permits, errors, pool,
                 poolVars, closerVars>>

(* submit_batch returned, as it always does: the worker counts a success.  *)
(* The breaker check that follows a full batch never finds an error.       *)
Submitted ==
  /\ processed' = processed + Len(sending) /\ consec' = 0
  /\ sending' = <<>> /\ acquired' = FALSE
  /\ wpc' = IF stopping THEN "done" ELSE "get"
  /\ UNCHANGED <<stopping, received, batch>>
-----------------------------------------------------------------------------
(* PooledWriter.submit_batch, on the worker thread.                        *)

(* acquire(timeout=batch_timeout), first for the batch, then for its retry. *)
Acquire(from, to) ==
  /\ wpc = from /\ wpc' = to
  /\ \/ permits > 0 /\ permits' = permits - 1 /\ acquired' = TRUE
     \/ permits = 0 /\ permits' = permits /\ acquired' = FALSE
  /\ UNCHANGED <<stopping, received, batch, sending, processed, consec, errors, pool,
                 poolVars, closerVars>>

AcquireSlot  == Acquire("acquire", "submit")
AcquireAgain == Acquire("retry", "resubmit")

GiveBack == permits' = IF acquired THEN Released(permits) ELSE permits

(* executor.submit with _on_batch_done registered only for an owned permit. *)
SubmitAccepted ==
  /\ wpc = "submit" /\ pool \notin broken \cup shut
  /\ futures' = Append(futures, Future(sending, pool, acquired, acquired))
  /\ Submitted
  /\ UNCHANGED <<permits, errors, pool, broken, shut, crashes, disk, closerVars>>

(* BrokenProcessPool: give the permit back, make a new pool, retry once.   *)
SubmitBroken ==
  /\ wpc = "submit" /\ pool \in broken
  /\ GiveBack
  /\ pool' = pool + 1
  /\ wpc' = "retry" /\ acquired' = FALSE
  /\ UNCHANGED <<stopping, received, batch, sending, processed, consec, errors,
                 poolVars, closerVars>>

(* RuntimeError: the executor was shut down by close(). *)
SubmitRefused ==
  /\ wpc = "submit" /\ pool \in shut \ broken
  /\ errors' = errors + 1
  /\ GiveBack
  /\ Submitted
  /\ UNCHANGED <<pool, poolVars, closerVars>>

(* The retry registers _on_batch_done whether or not it owns a permit. *)
ResubmitAccepted ==
  /\ wpc = "resubmit" /\ pool \notin broken \cup shut
  /\ futures' = Append(futures, Future(sending, pool, TRUE, acquired))
  /\ Submitted
  /\ UNCHANGED <<permits, errors, pool, broken, shut, crashes, disk, closerVars>>

(* The second failure loses the batch. *)
ResubmitFails ==
  /\ wpc = "resubmit" /\ pool \in broken \cup shut
  /\ errors' = errors + 1
  /\ GiveBack
  /\ Submitted
  /\ UNCHANGED <<pool, poolVars, closerVars>>
-----------------------------------------------------------------------------
(* The subprocesses: _write_batch_in_worker writes event by event.         *)

WriteNext(f) ==
  /\ Running(f) /\ futures[f].pos < Len(futures[f].events)
  /\ LET e == futures[f].events[futures[f].pos + 1] IN disk' = [disk EXCEPT ![e] = @ + 1]
  /\ futures' = [futures EXCEPT ![f].pos = @ + 1]
  /\ UNCHANGED <<workerVars, permits, errors, pool, broken, shut, crashes, closerVars>>

FinishBatch(f) ==
  /\ Running(f) /\ futures[f].pos = Len(futures[f].events)
  /\ futures' = [futures EXCEPT ![f].st = "written"]
  /\ UNCHANGED <<workerVars, permits, errors, pool, broken, shut, crashes, disk, closerVars>>

(* write() or flush() raised in the subprocess: the rest is not written. *)
BatchRaises(f) ==
  /\ Running(f)
  /\ futures' = [futures EXCEPT ![f].st = "raised"]
  /\ UNCHANGED <<workerVars, permits, errors, pool, broken, shut, crashes, disk, closerVars>>

(* A process dies: the executor fails every future it has not answered. *)
Crash(g) ==
  /\ crashes < MaxCrashes /\ g \notin broken /\ Unresolved(g) # {}
  /\ crashes' = crashes + 1
  /\ broken' = broken \cup {g}
  /\ futures' = [f \in DOMAIN futures |->
                   IF f \in Unresolved(g) THEN [futures[f] EXCEPT !.st = "raised"]
                                          ELSE futures[f]]
  /\ UNCHANGED <<workerVars, permits, errors, pool, shut, disk, closerVars>>

(* Mutant: the release is not in a finally, a failed batch skips it. *)
BatchDone_NoFinally(f) ==
  /\ futures[f].st \in {"written", "raised"}
  /\ futures' = [futures EXCEPT ![f].st = IF @ = "written" THEN "ok" ELSE "failed"]
  /\ IF futures[f].callback /\ futures[f].st = "written"
       THEN permits' = Released(permits) /\ errors' = errors
       ELSE permits' = permits /\ errors' = errors + 1
  /\ UNCHANGED <<workerVars, pool, broken, shut, crashes, disk, closerVars>>

(* Mutant: a batch whose future failed is submitted again. *)
BatchDone_Resubmits(f) ==
  /\ futures[f].st \in {"written", "raised"}
  /\ IF futures[f].st = "raised" /\ pool \notin broken \cup shut
       THEN /\ futures' = Append([futures EXCEPT ![f].st = "failed"],
                                 Future(futures[f].events, pool, TRUE, futures[f].owns))
            /\ permits' = permits
       ELSE /\ futures' = [futures EXCEPT ![f].st = IF @ = "written" THEN "ok" ELSE "failed"]
            /\ permits' = IF futures[f].callback THEN Released(permits) ELSE permits
  /\ UNCHANGED <<workerVars, errors, pool, broken, shut, crashes, disk, closerVars>>

(* The future is answered and _on_batch_done runs if it was registered.    *)
BatchDone(f) ==
  /\ futures[f].st \in {"written", "raised"}
  /\ futures' = [futures EXCEPT ![f].st = IF @ = "written" THEN "ok" ELSE "failed"]
  /\ IF futures[f].callback
       THEN /\ permits' = Released(permits)
            /\ errors' = IF futures[f].st = "raised" THEN errors + 1 ELSE errors
       ELSE UNCHANGED <<permits, errors>>
  /\ UNCHANGED <<workerVars, pool, broken, shut, crashes, disk, closerVars>>
-----------------------------------------------------------------------------
(* BackgroundWorker._shutdown and PooledWriter.close.                      *)

StartShutdown ==
  /\ cpc = "idle" /\ cpc' = "join"
  /\ UNCHANGED <<late, tries, drained, workerVars, permits, errors, pool, poolVars>>

Join ==
  /\ cpc = "join" /\ cpc' = "drain"
  /\ late' = (wpc # "done")
  /\ UNCHANGED <<tries, drained, workerVars, permits, errors, pool, poolVars>>

(* close() tries once for each slot; a timed-out try is only warned about. *)
DrainSlot ==
  /\ cpc = "drain" /\ tries < MaxWorkers
  /\ tries' = tries + 1
  /\ \/ permits > 0 /\ permits' = permits - 1 /\ drained' = drained + 1
     \/ permits = 0 /\ UNCHANGED <<permits, drained>>
  /\ UNCHANGED <<cpc, late, workerVars, errors, pool, poolVars>>

ShutPool ==
  /\ cpc = "drain" /\ tries = MaxWorkers
  /\ cpc' = "wait" /\ shut' = shut \cup {pool}
  /\ UNCHANGED <<late, tries, drained, workerVars, permits, errors, pool,
                 futures, broken, crashes, disk>>

(* Mutant: shutdown(wait=False). *)
PoolJoined_NoWait ==
  /\ cpc = "wait" /\ cpc' = "closed"
  /\ UNCHANGED <<late, tries, drained, workerVars, permits, errors, pool, poolVars>>

(* shutdown(wait=True) returns when every future of that pool is answered. *)
PoolJoined ==
  /\ cpc = "wait" /\ \A g \in shut : Unresolved(g) = {}
  /\ cpc' = "closed"
  /\ UNCHANGED <<late, tries, drained, workerVars, permits, errors, pool, poolVars>>
-----------------------------------------------------------------------------
WorkerStep ==
  \/ ReceiveSentinel \/ IdleFlush \/ AcquireSlot \/ AcquireAgain
  \/ SubmitAccepted \/ SubmitBroken \/ SubmitRefused \/ ResubmitAccepted \/ ResubmitFails

SubprocessStep(f) == WriteNext(f) \/ FinishBatch(f) \/ BatchRaises(f) \/ BatchDone(f)

CloserStep == Join \/ DrainSlot \/ ShutPool \/ PoolJoined

Next ==
  \/ ReceiveEvent \/ WorkerStep
  \/ \E f \in DOMAIN futures : SubprocessStep(f)
  \/ \E g \in 1..pool : Crash(g)
  \/ StartShutdown \/ CloserStep

Spec == Init /\ [][Next]_vars

(* Threads and processes that can go on do go on; nobody has to emit, to    *)
(* crash or to shut down.                                                   *)
Fairness ==
  /\ WF_vars(WorkerStep)
  /\ WF_vars(\E f \in DOMAIN futures : SubprocessStep(f))
  /\ WF_vars(CloserStep)
FairSpec == Spec /\ Fairness
-----------------------------------------------------------------------------
FutureType ==
  [events : Seq(Nat), pool : Nat, pos : Nat, callback : BOOLEAN, owns : BOOLEAN,
   st : {"pending", "written", "raised", "ok", "failed"}]

TypeOK ==
  /\ wpc \in {"get", "acquire", "submit", "retry", "resubmit", "done"}
  /\ stopping \in BOOLEAN /\ acquired \in BOOLEAN /\ late \in BOOLEAN
  /\ received \in 0..MaxEvents /\ processed \in Nat /\ consec \in Nat
  /\ batch \in Seq(Nat) /\ Len(batch) < BatchSize
  /\ sending \in Seq(Nat) /\ Len(sending) <= BatchSize
  /\ permits \in 0..MaxWorkers /\ errors \in Nat /\ pool \in Nat \ {0}
  /\ futures \in Seq(FutureType)
  /\ broken \subseteq 1..pool /\ shut \subseteq 1..pool /\ crashes \in 0..MaxCrashes
  /\ disk \in [1..MaxEvents -> Nat]
  /\ cpc \in {"idle", "join", "drain", "wait", "closed"}
  /\ tries \in 0..MaxWorkers /\ drained \in 0..MaxWorkers

(* Futures that hold a semaphore slot.                                     *)
Holders == {f \in DOMAIN futures : futures[f].owns /\ futures[f].st \notin {"ok", "failed"}}
Held == Cardinality(Holders) + drained + (IF acquired THEN 1 ELSE 0)

Answered == \A f \in DOMAIN futures : futures[f].st \in {"ok", "failed"}
FailedBatches == {f \in DOMAIN futures : futures[f].st = "failed"}

(* No slot is ever lost, whatever crashes and times out: a leak would end  *)
(* with every submission waiting out its timeout.                          *)
NoSlotLeaks == permits + Held >= MaxWorkers

(* A crash followed by a retry writes no event twice.                      *)
AtMostOnce == \A e \in 1..MaxEvents : disk[e] <= 1

(* close() after the worker has stopped leaves no write under way in any   *)
(* pool, and an event is missing only from a batch that failed or was      *)
(* refused.                                                                *)
CleanCloseFinishes ==
  cpc = "closed" /\ ~late =>
    /\ processed = received
    /\ \A f \in DOMAIN futures : futures[f].st \notin {"pending", "written"}
    /\ errors = 0 /\ Answered /\ FailedBatches = {} => \A e \in 1..received : disk[e] = 1

(* A partial batch does not wait for events that never come.               *)
PartialBatchSent == (batch # <<>>) ~> (batch = <<>>)

(* "doing so would corrupt the semaphore invariant by incrementing it      *)
(* above its bound (CR-02)" (pool_writer.py:257): permits given out and    *)
(* permits left add up to the bound.                                       *)
SemaphoreInvariant == permits + Held = MaxWorkers

(* "errors logged with error level + batch content available via _errors   *)
(* counter" (pool_writer.py:190): every batch that failed was counted.     *)
ErrorsCountFailures == errors >= Cardinality(FailedBatches)
=============================================================================
