---------------------------- MODULE MultiBackend ----------------------------
(***************************************************************************)
(* MultiBackend (backends/multi.py) over an SQLiteBackend and a            *)
(* WebhookBackend, in that order, as the BackgroundWorker and the thread   *)
(* in _shutdown call it (core/worker.py), with the live view reading the   *)
(* database from another process.                                          *)
(*                                                                         *)
(* A method of MultiBackend runs the method of its first sub-backend and   *)
(* then that of its second, whether or not the first one raised.           *)
(***************************************************************************)
EXTENDS TuiReader, WebhookBackend, SequencesExt

CONSTANT MaxFaults   \* bound of the model: faults in a behaviour

ASSUME MultiAssumption == MaxFaults \in Nat

VARIABLES
  call,      \* the method of MultiBackend a thread is in, "none" outside
  running,   \* the worker has not finished _run
  stopping,  \* the shutdown sentinel is in the queue
  closerAt,  \* where the closer is in _shutdown
  late,      \* a join has timed out
  faults,    \* statements that failed, POSTs that failed, late joins and crashes
  \* history
  order,     \* events handed to write(), in order
  missed,    \* events whose insert raised
  lostRows,  \* events not committed when the process died or SQLite rolled back
  lostPosts  \* events not sent when the process died

lifeVars == <<running, stopping, closerAt, late>>
pastVars == <<faults, order, missed, lostRows, lostPosts>>
vars == <<sqliteVars, readerVars, hookVars, call, lifeVars, pastVars>>

Items(s) == {s[i] : i \in DOMAIN s}
Rows(f)  == {f[r] : r \in DOMAIN f}

Init ==
  /\ SqliteInit /\ ReaderInit /\ WebhookInit
  /\ call = [t \in Threads |-> "none"]
  /\ running = TRUE /\ stopping = FALSE /\ closerAt = "idle" /\ late = FALSE
  /\ faults = 0 /\ order = <<>> /\ missed = {} /\ lostRows = {} /\ lostPosts = {}
-----------------------------------------------------------------------------
(* The loop over the sub-backends. *)

Enter(t, m) ==
  /\ call[t] = "none"
  /\ call' = [call EXCEPT ![t] = m]
  /\ SqlEnter(t, m)
  /\ UNCHANGED <<readerVars, hookVars>>

Fault == faults < MaxFaults /\ faults' = faults + 1

SqlLeft(t) == sql[t] \in {"returned", "raised"}

(* Mutant: a sub-backend that raises ends the loop. *)
NextBackend_StopsAtError(t) ==
  /\ SqlLeft(t)
  /\ SqlGoto(t, "out")
  /\ IF sql[t] = "raised"
       THEN call' = [call EXCEPT ![t] = "none"] /\ UNCHANGED hookVars
       ELSE HookEnter(t, call[t]) /\ UNCHANGED call
  /\ UNCHANGED <<rowVars, connVars, method, excess, readerVars, lifeVars, pastVars>>

(* What SQLite raised is caught, and the webhook is next. *)
NextBackend(t) ==
  /\ SqlLeft(t)
  /\ SqlGoto(t, "out")
  /\ HookEnter(t, call[t])
  /\ UNCHANGED <<rowVars, connVars, method, excess, readerVars, call, lifeVars, pastVars>>

Leave(t) ==
  /\ hook[t] = "returned"
  /\ HookGoto(t, "out")
  /\ call' = [call EXCEPT ![t] = "none"]
  /\ UNCHANGED <<sqliteVars, readerVars, buffer, batch, received, failed, lifeVars,
                 pastVars>>

Statement(t) ==
  /\ SqliteStep(t)
  /\ UNCHANGED <<readerVars, hookVars, call, lifeVars, pastVars>>

(* The event in hand is the last one handed to write(). *)
WriteRow ==
  /\ Insert(Worker, Last(order))
  /\ UNCHANGED <<readerVars, hookVars, call, lifeVars, pastVars>>

(* What the open transaction holds goes with it when SQLite rolls back. *)
Raise(t) ==
  /\ IF connected THEN Fault ELSE UNCHANGED faults
  /\ SqlRaises(t)
  /\ missed' = IF sql[t] = "insert" THEN missed \cup {Last(order)} ELSE missed
  /\ lostRows' = lostRows \cup ((Rows(table) \cup deleted) \ (Rows(table') \cup deleted'))
  /\ UNCHANGED <<readerVars, hookVars, call, lifeVars, order, lostPosts>>

WriteHook ==
  /\ AppendEvent(Worker, Last(order))
  /\ UNCHANGED <<sqliteVars, readerVars, call, lifeVars, pastVars>>

Send(t) ==
  /\ TakeRest(t) \/ Post(t)
  /\ UNCHANGED <<sqliteVars, readerVars, call, lifeVars, pastVars>>

SendFails(t) ==
  /\ PostFails(t) /\ Fault
  /\ UNCHANGED <<sqliteVars, readerVars, call, lifeVars, order, missed, lostRows, lostPosts>>
-----------------------------------------------------------------------------
(* The worker: _run on its single-event path. *)

TakeEvent(e) ==
  /\ running /\ e \notin Items(order)
  /\ Enter(Worker, "write")
  /\ order' = Append(order, e)
  /\ UNCHANGED <<lifeVars, faults, missed, lostRows, lostPosts>>

(* The queue was empty for as long as get() waits.  Once the connection is *)
(* closed a flush raises and does nothing: those are not repeated here.    *)
IdleFlush ==
  /\ running /\ connected
  /\ Enter(Worker, "flush")
  /\ UNCHANGED <<lifeVars, pastVars>>

(* The sentinel: leave the loop for the final flush. *)
FinalFlush ==
  /\ running /\ stopping
  /\ Enter(Worker, "flush")
  /\ running' = FALSE
  /\ UNCHANGED <<stopping, closerAt, late, pastVars>>
-----------------------------------------------------------------------------
(* The closer: _shutdown. *)

CloserGoto(to) == closerAt' = to

StartShutdown ==
  /\ closerAt = "idle"
  /\ CloserGoto("join") /\ stopping' = TRUE
  /\ UNCHANGED <<sqliteVars, readerVars, hookVars, call, running, late, pastVars>>

WorkerDone == ~running /\ call[Worker] = "none"

(* The join returns when the thread has ended or its time is up. *)
Joined ==
  /\ closerAt = "join"
  /\ CloserGoto("flush") /\ late' = (late \/ ~WorkerDone)
  /\ IF WorkerDone THEN UNCHANGED faults ELSE Fault
  /\ UNCHANGED <<sqliteVars, readerVars, hookVars, call, running, stopping, order, missed,
                 lostRows, lostPosts>>

CloserFlush ==
  /\ closerAt = "flush"
  /\ Enter(Closer, "flush")
  /\ CloserGoto("close")
  /\ UNCHANGED <<running, stopping, late, pastVars>>

CloserClose ==
  /\ closerAt = "close"
  /\ Enter(Closer, "close")
  /\ CloserGoto("done")
  /\ UNCHANGED <<running, stopping, late, pastVars>>
-----------------------------------------------------------------------------
(* The process dies and is started again on the same database file.  The   *)
(* live view is another process and goes on.                               *)
Crash ==
  /\ Fault
  /\ SqliteRestart /\ WebhookRestart
  /\ call' = [t \in Threads |-> "none"]
  /\ running' = TRUE /\ stopping' = FALSE /\ closerAt' = "idle"
  /\ lostRows' = lostRows \cup (Items(order) \ (Rows(committed) \cup pruned \cup missed))
  /\ lostPosts' = lostPosts \cup (Items(order) \ (Items(received) \cup failed))
  /\ UNCHANGED <<readerVars, order, missed, late>>

Read ==
  /\ Poll
  /\ UNCHANGED <<hookVars, call, lifeVars, pastVars>>

ThreadStep(t) ==
  Statement(t) \/ Raise(t) \/ NextBackend(t) \/ Send(t) \/ SendFails(t) \/ Leave(t)

Next ==
  \/ \E t \in Threads : ThreadStep(t)
  \/ WriteRow \/ WriteHook
  \/ \E e \in Stamps : TakeEvent(e)
  \/ IdleFlush \/ FinalFlush
  \/ StartShutdown \/ Joined \/ CloserFlush \/ CloserClose
  \/ Crash \/ Read

Spec == Init /\ [][Next]_vars

NoMoreEvents == Items(order) = Stamps

(* A thread in a method goes on; get() returns a sentinel that is in the   *)
(* queue, and times out once no event comes any more, but need not do so    *)
(* while events keep coming (core/worker.py:228); a join on a thread that   *)
(* has ended returns; the live view polls on a timer.                       *)
Fairness ==
  /\ \A t \in Threads : WF_vars(ThreadStep(t))
  /\ WF_vars(WriteRow) /\ WF_vars(WriteHook)
  /\ WF_vars(NoMoreEvents /\ IdleFlush) /\ WF_vars(FinalFlush)
  /\ WF_vars(WorkerDone /\ Joined) /\ WF_vars(CloserFlush) /\ WF_vars(CloserClose)
  /\ WF_vars(Read)

FairSpec == Spec /\ Fairness
-----------------------------------------------------------------------------
(* Every variable has its type. *)
TypeOK ==
  /\ DOMAIN table \subseteq Nat \ {0} /\ Rows(table) \subseteq Stamps
  /\ DOMAIN committed \subseteq Nat \ {0} /\ Rows(committed) \subseteq Stamps
  /\ deleted \subseteq Stamps /\ pruned \subseteq Stamps
  /\ connected \in BOOLEAN /\ sqlClosed \in BOOLEAN /\ sincePrune \in Nat
  /\ sql \in [Threads -> {"out", "insert", "count", "delete", "commitPrune", "commit", "shut",
                          "returned", "raised"}]
  /\ method \in [Threads -> Methods] /\ excess \in [Threads -> Nat]
  /\ lastRow \in Nat /\ shown \subseteq Stamps
  /\ buffer \in Seq(Stamps) /\ batch \in [Threads -> Seq(Stamps)]
  /\ hook \in [Threads -> {"out", "append", "take", "send", "returned"}]
  /\ received \in Seq(Stamps) /\ failed \subseteq Stamps
  /\ call \in [Threads -> Methods \cup {"none"}]
  /\ running \in BOOLEAN /\ stopping \in BOOLEAN /\ late \in BOOLEAN
  /\ closerAt \in {"idle", "join", "flush", "close", "done"} /\ faults \in 0 .. MaxFaults
  /\ order \in Seq(Stamps)
  /\ missed \subseteq Stamps /\ lostRows \subseteq Stamps /\ lostPosts \subseteq Stamps

(* The live view never skips a row: although row ids are reused after a    *)
(* prune or a rollback (no AUTOINCREMENT), a committed row is at or below   *)
(* the last one shown exactly when it has been shown (tui/app.py:161).  It  *)
(* rests on the pruning keeping max_rows rows, the same number over every   *)
(* restart from a new database, and is lost when a late join lets two       *)
(* threads prune the same excess twice.                                     *)
ReaderInStep ==
  ~late => \A r \in DOMAIN committed : committed[r] \in shown <=> r <= lastRow

(* Pruning keeps the newest: once a row has been pruned the database holds *)
(* exactly max_rows rows, all newer than every pruned one, in spite of      *)
(* events written out of order, failed statements and crashes               *)
(* (docs/getting-started/sqlite.md: the oldest events are deleted).         *)
KeepsNewest ==
  ~late /\ pruned # {} =>
    /\ Cardinality(DOMAIN committed) = MaxRows
    /\ \A e \in pruned, k \in Rows(committed) : e < k

(* close() itself rolls nothing back, although flush() may have failed just *)
(* before (backends/sqlite.py:144-153): a row that was inserted is in the   *)
(* database when the connection has been closed, unless it was pruned, the  *)
(* process died, or SQLite had rolled the transaction back at a statement   *)
(* that failed, of which nothing is left for close() to commit.             *)
ClosesOverNothing ==
  ~late /\ ~connected => Items(order) \subseteq
    Rows(committed) \cup pruned \cup missed \cup lostRows

(* The webhook misses no event and sends none twice, whatever SQLite did   *)
(* with it and whoever flushes: an event written is waiting, being sent,    *)
(* sent, counted as failed, or was in memory at a crash (webhook.py:74,     *)
(* multi.py:91).                                                            *)
ReachesWebhookOnce ==
  LET queued == received \o batch[Worker] \o batch[Closer] \o buffer
      ahead  == call[Worker] = "write" /\ hook[Worker] \in {"out", "append"}
      past   == IF ahead THEN Front(order) ELSE order
  IN  /\ IsInjective(queued)
      /\ Items(past) \subseteq Items(queued) \cup failed \cup lostPosts

(* The endpoint receives the events in the order they were written, though *)
(* batches are sent outside the lock, as long as the closer waited for the  *)
(* worker.                                                                  *)
SentInOrder ==
  ~late => \A i, j \in DOMAIN received :
    i < j => \E a, b \in DOMAIN order : a < b /\ order[a] = received[i] /\ order[b] = received[j]

(* A shutdown whose join was in time leaves nothing in the webhook's       *)
(* buffer, even when SQLite raised on the way.                              *)
NothingLeftBehind ==
  ~late /\ closerAt = "done" /\ call[Closer] = "none" =>
    Items(order) \subseteq Items(received) \cup failed \cup lostPosts

(* A row that was inserted is shown by the live view in the end, once no   *)
(* more events come or the shutdown begins, unless it was pruned, rolled    *)
(* back with a statement that failed, not committed when the process died,  *)
(* close() itself failed, or the closer did not wait.  While events keep    *)
(* coming and nothing is pruned, nothing is committed either.               *)
CloseFailed == closerAt = "done" /\ call[Closer] = "none" /\ connected

WrittenShows ==
  \A e \in Stamps : e \in Rows(table) /\ (NoMoreEvents \/ stopping) ~>
    (e \in shown \cup pruned \cup lostRows \/ CloseFailed \/ late)
=============================================================================
