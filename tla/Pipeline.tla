------------------------------ MODULE Pipeline ------------------------------
(***************************************************************************)
(* The in-memory event pipeline of observra: producer threads calling      *)
(* DropOldestQueue.put_nowait (core/queue.py), the BackgroundWorker thread *)
(* on its single-event path (core/worker.py) and the callers of            *)
(* BackgroundWorker._shutdown (shutdown(), atexit).                        *)
(*                                                                         *)
(* A step is one access to shared state: an operation of the inner         *)
(* queue.Queue (its own mutex makes it atomic), a read or write of         *)
(* _running, or a call into the storage backend.  DropOldestQueue._lock is *)
(* modelled; note that put_sentinel and get do not take it.                *)
(*                                                                         *)
(* Event n is the n-th one put_nowait accepted, so _enqueued is also the   *)
(* newest event.                                                           *)
(***************************************************************************)
EXTENDS Naturals, Sequences, FiniteSets

CONSTANTS
  Producers,  \* threads that call put_nowait
  Closers,    \* threads that call _shutdown
  MaxSize,    \* DropOldestQueue maxsize
  Threshold,  \* circuit_breaker_threshold
  MaxCalls,   \* bound of the model: put_nowait calls in a behaviour
  Nobody      \* the value of a free lock

ASSUME PipelineAssumption ==
  /\ MaxSize \in Nat \ {0}    \* maxsize = 0 would be an unbounded queue
  /\ Threshold \in Nat \ {0}
  /\ MaxCalls \in Nat
  /\ Nobody \notin Producers

VARIABLES
  \* DropOldestQueue
  q,          \* the inner queue.Queue
  lock,       \* holder of _lock
  enqueued,   \* _enqueued
  dropped,    \* _dropped
  depth,      \* gauge observra_queue_depth
  \* producers
  ppc,        \* where each producer is in put_nowait
  calls,      \* put_nowait calls made so far
  \* BackgroundWorker thread
  wpc,        \* where the worker is in _run
  inhand,     \* the event being written, 0 when there is none
  consec,     \* _consecutive_errors
  processed,  \* _events_processed
  errors,     \* _errors
  running,    \* _running
  \* callers of _shutdown
  cpc,        \* where each caller is
  outcome,    \* how its call went
  sentinels,  \* sentinels enqueued so far
  barrier,    \* _enqueued when the first sentinel was enqueued
  \* the storage backend, as the worker sees it
  open,       \* close() has not been called
  written,    \* events whose write() took them, in order
  flushed     \* how many of them a flush() has covered

queueVars   == <<q, lock, enqueued, dropped, depth>>
workerVars  == <<wpc, inhand, consec, processed, errors>>
closerVars  == <<running, cpc, outcome, sentinels, barrier>>
storageVars == <<open, written, flushed>>
vars == <<queueVars, ppc, calls, workerVars, closerVars, storageVars>>

Sentinel == 0                   \* _SHUTDOWN_SENTINEL; events are 1, 2, ...
Events(s) == {s[i] : i \in DOMAIN s} \ {Sentinel}
IsFull == Len(q) >= MaxSize     \* queue.Queue.full()

Init ==
  /\ q = <<>> /\ lock = Nobody
  /\ enqueued = 0 /\ dropped = 0 /\ depth = 0
  /\ ppc = [p \in Producers |-> "idle"] /\ calls = 0
  /\ wpc = "get" /\ inhand = 0
  /\ consec = 0 /\ processed = 0 /\ errors = 0
  /\ running = TRUE
  /\ cpc = [c \in Closers |-> "idle"]
  /\ outcome = [c \in Closers |-> "none"]
  /\ sentinels = 0 /\ barrier = 0
  /\ open = TRUE /\ written = <<>> /\ flushed = 0
-----------------------------------------------------------------------------
(* put_nowait: check, evict, put and publish the depth, under _lock.       *)

EnterPut(p) ==
  /\ ppc[p] = "idle" /\ calls < MaxCalls /\ lock = Nobody
  /\ lock' = p /\ calls' = calls + 1
  /\ ppc' = [ppc EXCEPT ![p] = IF IsFull THEN "evict" ELSE "put"]
  /\ UNCHANGED <<q, enqueued, dropped, depth, workerVars, closerVars, storageVars>>

(* Mutant: the drop is counted although the queue had drained. *)
EvictOldest_CountsAnyway(p) ==
  /\ ppc[p] = "evict"
  /\ q' = IF q = <<>> THEN q ELSE Tail(q)
  /\ dropped' = dropped + 1 /\ depth' = Len(q')
  /\ ppc' = [ppc EXCEPT ![p] = "put"]
  /\ UNCHANGED <<lock, enqueued, calls, workerVars, closerVars, storageVars>>

(* Mutant: room is made at the wrong end. *)
EvictOldest_Newest(p) ==
  /\ ppc[p] = "evict" /\ q # <<>>
  /\ q' = SubSeq(q, 1, Len(q) - 1)
  /\ dropped' = dropped + 1 /\ depth' = Len(q')
  /\ ppc' = [ppc EXCEPT ![p] = "put"]
  /\ UNCHANGED <<lock, enqueued, calls, workerVars, closerVars, storageVars>>

(* The head goes, whatever it is; the queue may have drained since full(). *)
EvictOldest(p) ==
  /\ ppc[p] = "evict"
  /\ \/ q # <<>> /\ q' = Tail(q) /\ dropped' = dropped + 1 /\ depth' = Len(q')
     \/ q = <<>> /\ UNCHANGED <<q, dropped, depth>>
  /\ ppc' = [ppc EXCEPT ![p] = "put"]
  /\ UNCHANGED <<lock, enqueued, calls, workerVars, closerVars, storageVars>>

(* Mutant: the inner put blocks for room instead of raising queue.Full. *)
PutItem_Blocks(p) ==
  /\ ppc[p] = "put" /\ ~IsFull
  /\ q' = Append(q, enqueued + 1) /\ enqueued' = enqueued + 1
  /\ ppc' = [ppc EXCEPT ![p] = "publish"]
  /\ UNCHANGED <<lock, dropped, depth, calls, workerVars, closerVars, storageVars>>

(* queue.Full: a sentinel took the room since the check, False is returned. *)
(* The put and its counter are one step: in between only a get_stats(),     *)
(* which takes no lock, could tell.                                         *)
PutItem(p) ==
  /\ ppc[p] = "put"
  /\ \/ /\ ~IsFull
        /\ q' = Append(q, enqueued + 1) /\ enqueued' = enqueued + 1
        /\ ppc' = [ppc EXCEPT ![p] = "publish"] /\ lock' = lock
     \/ /\ IsFull
        /\ ppc' = [ppc EXCEPT ![p] = "idle"] /\ lock' = Nobody
        /\ UNCHANGED <<q, enqueued>>
  /\ UNCHANGED <<dropped, depth, calls, workerVars, closerVars, storageVars>>

(* Mutant: the gauge is left as the eviction set it. *)
PublishDepth_Forgotten(p) ==
  /\ ppc[p] = "publish"
  /\ lock' = Nobody
  /\ ppc' = [ppc EXCEPT ![p] = "idle"]
  /\ UNCHANGED <<q, enqueued, dropped, depth, calls, workerVars, closerVars, storageVars>>

PublishDepth(p) ==
  /\ ppc[p] = "publish"
  /\ depth' = Len(q) /\ lock' = Nobody
  /\ ppc' = [ppc EXCEPT ![p] = "idle"]
  /\ UNCHANGED <<q, enqueued, dropped, calls, workerVars, closerVars, storageVars>>

ProducerStep(p) == EvictOldest(p) \/ PutItem(p) \/ PublishDepth(p)
-----------------------------------------------------------------------------
(* The worker thread: BackgroundWorker._run, single-event path.            *)

(* flush() covers what was written, unless it raises or comes after close. *)
FlushStorage ==
  /\ flushed' \in {flushed, IF open THEN Len(written) ELSE flushed}
  /\ UNCHANGED <<open, written>>

(* Mutant: the loop polls _running instead of waiting for the sentinel. *)
GetEvent_PollsRunning ==
  /\ wpc = "get"
  /\ \/ ~running /\ wpc' = "final" /\ UNCHANGED <<q, inhand>>
     \/ running /\ q # <<>> /\ q' = Tail(q) /\ wpc' = "write" /\ inhand' = Head(q)
  /\ UNCHANGED <<lock, enqueued, dropped, depth, ppc, calls,
                 consec, processed, errors, closerVars, storageVars>>

GetEvent ==
  /\ wpc = "get" /\ q # <<>>
  /\ q' = Tail(q)
  /\ \/ Head(q) = Sentinel /\ wpc' = "final" /\ inhand' = inhand
     \/ Head(q) # Sentinel /\ wpc' = "write" /\ inhand' = Head(q)
  /\ UNCHANGED <<lock, enqueued, dropped, depth, ppc, calls,
                 consec, processed, errors, closerVars, storageVars>>

IdleFlush ==
  /\ wpc = "get" /\ q = <<>>
  /\ FlushStorage
  /\ UNCHANGED <<queueVars, ppc, calls, workerVars, closerVars>>

(* write() returned: a closed backend may also return, having done nothing. *)
WriteReturns ==
  /\ wpc = "write"
  /\ written' = IF open THEN Append(written, inhand) ELSE written
  /\ processed' = processed + 1 /\ consec' = 0
  /\ wpc' = "get" /\ inhand' = 0
  /\ UNCHANGED <<errors, open, flushed, queueVars, ppc, calls, closerVars>>

(* Mutant: the breaker trips one failure late. *)
WriteRaises_TripsLate ==
  /\ wpc = "write"
  /\ errors' = errors + 1 /\ consec' = consec + 1
  /\ wpc' = IF consec' > Threshold THEN "cooldown" ELSE "get"
  /\ inhand' = 0
  /\ UNCHANGED <<processed, queueVars, ppc, calls, closerVars, storageVars>>

(* Mutant: a failed event is put back into the queue. *)
WriteRaises_Requeues ==
  /\ wpc = "write" /\ ~IsFull
  /\ q' = Append(q, inhand)
  /\ wpc' = "get" /\ inhand' = 0
  /\ UNCHANGED <<lock, enqueued, dropped, depth, ppc, calls,
                 consec, processed, errors, closerVars, storageVars>>

(* Mutant: the exception escapes and kills the worker thread. *)
WriteRaises_KillsThread ==
  /\ wpc = "write"
  /\ wpc' = "dead" /\ inhand' = 0
  /\ UNCHANGED <<consec, processed, errors, queueVars, ppc, calls, closerVars, storageVars>>

WriteRaises ==
  /\ wpc = "write"
  /\ errors' = errors + 1 /\ consec' = consec + 1
  /\ wpc' = IF consec' >= Threshold THEN "cooldown" ELSE "get"
  /\ inhand' = 0
  /\ UNCHANGED <<processed, queueVars, ppc, calls, closerVars, storageVars>>

CooldownEnds ==
  /\ wpc = "cooldown"
  /\ wpc' = "get" /\ consec' = 0
  /\ UNCHANGED <<inhand, processed, errors, queueVars, ppc, calls, closerVars, storageVars>>

FinalFlush ==
  /\ wpc = "final"
  /\ wpc' = "done"
  /\ FlushStorage
  /\ UNCHANGED <<inhand, consec, processed, errors, queueVars, ppc, calls, closerVars>>

WorkerStep ==
  GetEvent \/ IdleFlush \/ WriteReturns \/ WriteRaises \/ CooldownEnds \/ FinalFlush
-----------------------------------------------------------------------------
(* BackgroundWorker._shutdown.                                             *)

Goto(c, from, to) == cpc[c] = from /\ cpc' = [cpc EXCEPT ![c] = to]
Ends(c, how) == outcome' = [outcome EXCEPT ![c] = how]

CheckRunning(c) ==
  /\ \/ running /\ Goto(c, "idle", "claim") /\ outcome' = outcome
     \/ ~running /\ Goto(c, "idle", "returned") /\ Ends(c, "noop")
  /\ UNCHANGED <<running, sentinels, barrier, queueVars, ppc, calls, workerVars, storageVars>>

(* Not one atomic test-and-set with the check. *)
ClearRunning(c) ==
  /\ Goto(c, "claim", "sentinel") /\ running' = FALSE
  /\ UNCHANGED <<outcome, sentinels, barrier, queueVars, ppc, calls, workerVars, storageVars>>

(* put(block=True) by its own thread, not under _lock. *)
PutSentinel(c) ==
  /\ Goto(c, "sentinel", "join") /\ ~IsFull
  /\ q' = Append(q, Sentinel) /\ sentinels' = sentinels + 1
  /\ barrier' = IF sentinels = 0 THEN enqueued ELSE barrier
  /\ UNCHANGED <<lock, enqueued, dropped, depth, running, outcome,
                 ppc, calls, workerVars, storageVars>>

(* Mutant: the sentinel is put without a timeout. *)
SentinelTimeout_Never(c) == c \notin Closers /\ UNCHANGED vars

(* The 5 s put timeout: queue.Full skips join, flush and close. *)
SentinelTimeout(c) ==
  /\ Goto(c, "sentinel", "returned") /\ IsFull
  /\ Ends(c, "failed")
  /\ UNCHANGED <<running, sentinels, barrier, queueVars, ppc, calls, workerVars, storageVars>>

(* Mutant: shutdown does not wait for the worker thread. *)
WorkerJoined_NoWait(c) ==
  /\ Goto(c, "join", "flush")
  /\ UNCHANGED <<running, outcome, sentinels, barrier, queueVars, ppc, calls,
                 workerVars, storageVars>>

WorkerJoined(c) ==
  /\ Goto(c, "join", "flush") /\ wpc = "done"
  /\ UNCHANGED <<running, outcome, sentinels, barrier, queueVars, ppc, calls,
                 workerVars, storageVars>>

(* join(timeout) gave up: a warning is logged and shutdown goes on. *)
JoinTimeout(c) ==
  /\ Goto(c, "join", "flush") /\ wpc # "done"
  /\ Ends(c, "late")
  /\ UNCHANGED <<running, sentinels, barrier, queueVars, ppc, calls, workerVars, storageVars>>

ShutdownFlush(c) ==
  /\ Goto(c, "flush", "close")
  /\ flushed' = (IF open THEN Len(written) ELSE flushed)
  /\ UNCHANGED <<open, written, running, outcome, sentinels, barrier, queueVars, ppc, calls,
                 workerVars>>

(* Every shipped backend's close() flushes what it still buffers. *)
ShutdownClose(c) ==
  /\ Goto(c, "close", "returned")
  /\ open' = FALSE
  /\ flushed' = (IF open THEN Len(written) ELSE flushed)
  /\ Ends(c, IF outcome[c] = "late" THEN "late" ELSE "clean")
  /\ UNCHANGED <<written, running, sentinels, barrier, queueVars, ppc, calls,
                 workerVars>>

(* flush() or close() raised: logged, nothing is retried. *)
ShutdownRaises(c) ==
  /\ Goto(c, "flush", "returned") \/ Goto(c, "close", "returned")
  /\ Ends(c, "failed")
  /\ UNCHANGED <<running, sentinels, barrier, queueVars, ppc, calls, workerVars, storageVars>>

ShutdownStep(c) ==
  \/ ClearRunning(c) \/ PutSentinel(c) \/ SentinelTimeout(c) \/ WorkerJoined(c)
  \/ JoinTimeout(c) \/ ShutdownFlush(c) \/ ShutdownClose(c) \/ ShutdownRaises(c)
-----------------------------------------------------------------------------
Next ==
  \/ \E p \in Producers : EnterPut(p) \/ ProducerStep(p)
  \/ WorkerStep
  \/ \E c \in Closers : CheckRunning(c) \/ ShutdownStep(c)

(* The threads keep running once started: a producer inside put_nowait, the *)
(* worker (storage calls return), a caller inside _shutdown (its two        *)
(* blocking calls have timeouts).  Nobody has to emit or to shut down.      *)
Fairness ==
  /\ WF_vars(WorkerStep)
  /\ \A p \in Producers : WF_vars(ProducerStep(p))
  /\ \A c \in Closers : WF_vars(ShutdownStep(c))

Spec == Init /\ [][Next]_vars
FairSpec == Spec /\ Fairness
-----------------------------------------------------------------------------
TypeOK ==
  /\ q \in Seq(Nat) /\ Len(q) <= MaxSize
  /\ lock \in Producers \cup {Nobody}
  /\ enqueued \in Nat /\ dropped \in Nat /\ depth \in 0..MaxSize
  /\ ppc \in [Producers -> {"idle", "evict", "put", "publish"}]
  /\ calls \in 0..MaxCalls
  /\ wpc \in {"get", "write", "cooldown", "final", "done"}
  /\ inhand \in Nat
  /\ consec \in 0..Threshold /\ processed \in Nat /\ errors \in Nat
  /\ running \in BOOLEAN
  /\ cpc \in [Closers -> {"idle", "claim", "sentinel", "join", "flush", "close", "returned"}]
  /\ outcome \in [Closers -> {"none", "noop", "clean", "late", "failed"}]
  /\ sentinels \in Nat /\ barrier \in Nat
  /\ open \in BOOLEAN /\ written \in Seq(Nat) /\ flushed \in Nat

(* get_stats() adds up whatever the interleaving: everything that entered  *)
(* the queue was evicted, is still in it, or reached the worker, and the   *)
(* worker counted it once, as processed or as an error.                    *)
StatsAddUp ==
  enqueued + sentinels =
    dropped + Len(q) + processed + errors
      + (IF wpc = "write" THEN 1 ELSE 0)
      + (IF wpc \in {"final", "done"} THEN 1 ELSE 0)

(* The storage backend receives events in the order put_nowait accepted    *)
(* them, and none twice.                                                   *)
WrittenInOrder ==
  \A i, j \in 1..Len(written) : i < j => written[i] < written[j]

(* Drop-oldest, order and at-most-once delivery: the pipeline implements   *)
(* the abstract channel.                                                   *)
Channel ==
  INSTANCE EventChannel WITH
    accepted <- enqueued, waiting <- Events(q), current <- inhand, delivered <- written
ImplementsChannel == Channel!Spec

(* The queue-depth gauge is read by monitors: between two put_nowait calls *)
(* it may overstate what waits in the queue, never understate it.          *)
GaugeCoversQueue ==
  lock = Nobody => Cardinality({i \in DOMAIN q : q[i] # Sentinel}) <= depth

(* A shutdown that returned without a timeout or an error left no event    *)
(* behind that was accepted before its sentinel, and flushed all it wrote. *)
CleanShutdownDrains ==
  (\E c \in Closers : outcome[c] = "clean") =>
     /\ ~open /\ inhand = 0
     /\ flushed = Len(written)
     /\ \A e \in Events(q) : e > barrier

(* The backend is closed under a live worker, or swallows events it counts *)
(* as processed, only when a join timed out.                               *)
ClosedUnderWorkerOnlyIfLate ==
  (~open /\ wpc # "done") \/ processed # Len(written)
     => \E c \in Closers : outcome[c] = "late"

(* An accepted event does not wait forever while the worker is alive.      *)
QueuedEventsLeave ==
  \A e \in 1..MaxCalls : (e \in Events(q)) ~> (e \notin Events(q) \/ wpc = "done")

(* put_nowait returns, whatever the worker and the storage are doing.      *)
PutReturns == \A p \in Producers : (ppc[p] # "idle") ~> (ppc[p] = "idle")

(* _shutdown returns, whatever the queue and the worker are doing.         *)
ShutdownReturns == \A c \in Closers : (cpc[c] # "idle") ~> (cpc[c] = "returned")

(* "Drain pending events to the backend and stop the worker." (__init__.py, *)
(* shutdown): once its sentinel is enqueued, the worker stops.             *)
ShutdownStopsWorker == (sentinels > 0) ~> (wpc = "done")
=============================================================================
