------------------------- MODULE MultiBackendProofs -------------------------
(***************************************************************************)
(* Theorems about module MultiBackend, for any events, cap, batch size,    *)
(* page of the live view and number of faults.                              *)
(*                                                                         *)
(* Control: a thread is in one sub-backend at a time (OnePlace), and a      *)
(* closer that waited finds the worker gone (CloserWaits), so that but for  *)
(* a late join one thread at most is between two statements (OneOnWay).     *)
(*                                                                         *)
(* The webhook: every event written is in exactly one of the buffer, the   *)
(* batches and what was received, or counted as failed or lost (Apart,      *)
(* Accounted); without a late join these are filled in the order written    *)
(* (InOrder), and the closer's last flush finds the rest (Emptied).         *)
(*                                                                         *)
(* The database: what is deleted has max_rows newer rows at that moment,    *)
(* and rows inserted later only add to them (EnoughNewer).  That an ORDER   *)
(* BY of n rows exists is OldestFacts, by the least n for which it fails.   *)
(*                                                                         *)
(* The live view: a new row is above every committed one, although ids are *)
(* used again (NewAbove), because a prune that takes the highest committed  *)
(* row leaves a higher one (TopKept).                                       *)
(***************************************************************************)
EXTENDS MultiBackend, FiniteSetTheorems, WellFoundedInduction, TLAPS

-----------------------------------------------------------------------------
(* Types.                                                                  *)

SqlPlaces == {"out", "insert", "count", "delete", "commitPrune", "commit", "shut",
              "returned", "raised"}

PlaceTypes ==
  /\ sql \in [Threads -> SqlPlaces] /\ method \in [Threads -> Methods]
  /\ hook \in [Threads -> {"out", "append", "take", "send", "returned"}]
  /\ call \in [Threads -> Methods \cup {"none"}]
  /\ closerAt \in {"idle", "join", "flush", "close", "done"}
FlagTypes ==
  /\ connected \in BOOLEAN /\ sqlClosed \in BOOLEAN
  /\ running \in BOOLEAN /\ stopping \in BOOLEAN /\ late \in BOOLEAN
CountTypes == faults \in 0 .. MaxFaults /\ sincePrune \in Nat
PostTypes ==
  /\ buffer \in Seq(Stamps) /\ batch \in [Threads -> Seq(Stamps)]
  /\ received \in Seq(Stamps) /\ failed \subseteq Stamps
LossTypes == missed \subseteq Stamps /\ lostRows \subseteq Stamps
RowTypes ==
  /\ table \in [DOMAIN table -> Stamps] /\ DOMAIN table \subseteq Nat \ {0}
  /\ IsFiniteSet(DOMAIN table)
  /\ committed \in [DOMAIN committed -> Stamps] /\ DOMAIN committed \subseteq Nat \ {0}
  /\ IsFiniteSet(DOMAIN committed)
  /\ deleted \subseteq Stamps /\ pruned \subseteq Stamps
  /\ excess \in [Threads -> Nat]
ReaderTypes == lastRow \in Nat /\ shown \subseteq Stamps

-----------------------------------------------------------------------------
(* Control.                                                                *)

(* A thread is in one sub-backend at a time, and in none outside a method. *)
OnePlace ==
  \A t \in Threads :
    /\ call[t] = "none" => sql[t] = "out" /\ hook[t] = "out"
    /\ sql[t] = "out" \/ hook[t] = "out"
    /\ sql[t] # "out" => method[t] = call[t]
    /\ sql[t] = "insert" => call[t] = "write"
    /\ sql[t] = "shut" => call[t] = "close"
    /\ sql[t] \in {"count", "delete", "commitPrune"} => MaxRows > 0
    /\ hook[t] = "append" => call[t] = "write"

(* Who calls what. *)
Callers ==
  /\ call[Worker] # "close"
  /\ call[Closer] # "write"
  /\ call[Closer] # "none" => closerAt \in {"close", "done"}
  /\ call[Closer] = "close" => closerAt = "done"

(* A closer that waited finds the worker gone. *)
CloserWaits ==
  ~late /\ closerAt \in {"flush", "close", "done"} => ~running /\ call[Worker] = "none"

ClosedByCloser == ~late /\ ~connected => closerAt = "done"

-----------------------------------------------------------------------------
(* The webhook. *)

(* The event in hand has not been appended to the buffer. *)
Ahead == call[Worker] = "write" /\ hook[Worker] \in {"out", "append"}
InHand(i) == Ahead /\ i = Len(order)

(* Events are written once. *)
Written == IsInjective(order) /\ (Ahead => order # <<>>)

Sending == UNION {Items(batch[t]) : t \in Threads}
Waiting == Items(received) \cup Sending \cup Items(buffer)

OnlyWritten == \A e \in Waiting : \E i \in DOMAIN order : order[i] = e /\ ~InHand(i)

Accounted ==
  \A i \in DOMAIN order : ~InHand(i) => order[i] \in Waiting \cup failed \cup lostPosts

Apart ==
  /\ IsInjective(received) /\ IsInjective(buffer) /\ Items(received) \cap Items(buffer) = {}
  /\ \A t \in Threads : /\ IsInjective(batch[t])
                        /\ Items(batch[t]) \cap (Items(received) \cup Items(buffer)) = {}
  /\ \A t, u \in Threads : t # u => Items(batch[t]) \cap Items(batch[u]) = {}

BatchInSend == \A t \in Threads : batch[t] # <<>> => hook[t] = "send"

(* Position in the list o of all events. *)
Before(o, x, y) == \E a, b \in DOMAIN o : a < b /\ o[a] = x /\ o[b] = y
Ordered(o, s) == \A i, j \in DOMAIN s : i < j => Before(o, s[i], s[j])
Precedes(o, s, u) == \A x \in Items(s), y \in Items(u) : Before(o, x, y)

InOrder ==
  ~late =>
    /\ Ordered(order, received) /\ Ordered(order, buffer) /\ Precedes(order, received, buffer)
    /\ \A t \in Threads : /\ Ordered(order, batch[t])
                          /\ Precedes(order, received, batch[t])
                          /\ Precedes(order, batch[t], buffer)

(* The closer has taken the buffer in close(). *)
Finished == closerAt = "done" /\ (call[Closer] = "none" \/ hook[Closer] \in {"send", "returned"})
Emptied == ~late /\ Finished => buffer = <<>>

-----------------------------------------------------------------------------
(* The database. *)

(* Where a thread is on its way to a change or a commit. *)
Way(t) == IF sql[t] \in {"insert", "delete", "commitPrune", "shut"} THEN sql[t]
          ELSE IF sql[t] = "commit" /\ MaxRows > 0 THEN "commit" ELSE "none"

Gone   == deleted \cup pruned
Known  == Rows(table) \cup Rows(committed) \cup Gone \cup shown
Inserting(i) == Way(Worker) = "insert" /\ i = Len(order)

OnlyInserted ==
  \A e \in Known : \E i \in DOMAIN order : order[i] = e /\ ~Inserting(i)

RowsDistinct == IsInjective(table) /\ IsInjective(committed)

RowsAccounted ==
  ~late => \A i \in DOMAIN order :
    ~Inserting(i) => order[i] \in Rows(table) \cup Gone \cup missed \cup lostRows

Clean == table = committed /\ deleted = {}

(* Nothing is pruned without a cap. *)
OnlyCapped == ~late /\ MaxRows = 0 => Gone = {}

ShutClean ==
  ~late => /\ ~connected => Clean
           /\ \A t \in Threads : Way(t) = "shut" => Clean

TopKept == ~late => \A c \in DOMAIN committed : \E r \in DOMAIN table : c <= r

NewAbove ==
  ~late => \A r \in DOMAIN table :
    \/ r \in DOMAIN committed /\ table[r] = committed[r]
    \/ (\A c \in DOMAIN committed : c < r) /\ table[r] \notin Rows(committed) \cup shown

ReadBelow == ~late => lastRow = 0 \/ \E c \in DOMAIN committed : lastRow <= c

Capped == ~late /\ MaxRows > 0 => Cardinality(DOMAIN committed) <= MaxRows

Newer == {r \in DOMAIN table : \A e \in Gone : e < table[r]}
EnoughNewer == ~late /\ Gone # {} => Cardinality(Newer) >= MaxRows

AtDelete ==
  ~late => \A t \in Threads : Way(t) = "delete" =>
    excess[t] > 0 /\ excess[t] + MaxRows = Cardinality(DOMAIN table)

AtCommit ==
  ~late => \A t \in Threads : Way(t) \in {"commitPrune", "commit"} =>
    Cardinality(DOMAIN table) <= MaxRows
-----------------------------------------------------------------------------
(* One action at a time: what [Next]_vars stands for in the proofs below.  *)
LEMMA NextCases ==
  ASSUME [Next]_vars
  PROVE  \/ \E t \in Threads : CountRows(t) /\ Statement(t)
         \/ \E t \in Threads : DeleteOldest(t) /\ Statement(t)
         \/ \E t \in Threads : CommitPrune(t) /\ Statement(t)
         \/ \E t \in Threads : Commit(t) /\ Statement(t)
         \/ \E t \in Threads : Shut(t) /\ Statement(t)
         \/ \E t \in Threads : Raise(t)
         \/ \E t \in Threads : NextBackend(t)
         \/ \E t \in Threads : TakeRest(t) /\ Send(t)
         \/ \E t \in Threads : Post(t) /\ Send(t)
         \/ \E t \in Threads : SendFails(t)
         \/ \E t \in Threads : Leave(t)
         \/ WriteRow \/ WriteHook
         \/ \E e \in Stamps : TakeEvent(e)
         \/ IdleFlush \/ FinalFlush
         \/ StartShutdown \/ Joined \/ CloserFlush \/ CloserClose
         \/ Crash \/ Read
         \/ UNCHANGED vars
  BY DEF Next, ThreadStep, Statement, SqliteStep, Send

(* The places from which and to which a thread moves in the SQLite backend. *)
LEMMA EnterFacts ==
  ASSUME PlaceTypes, NEW t \in Threads, NEW m \in Methods, Enter(t, m)
  PROVE  /\ call[t] = "none" /\ call' = [call EXCEPT ![t] = m]
         /\ method' = [method EXCEPT ![t] = m]
         /\ \E p \in {"insert", "count", "commit", "returned"} :
              /\ sql' = [sql EXCEPT ![t] = p]
              /\ p = "insert" <=> m = "write"
              /\ p = "count" => MaxRows > 0
              /\ p = "commit" => ~(MaxRows > 0)
         /\ UNCHANGED <<rowVars, connected, sincePrune, excess, readerVars, hookVars>>
         /\ sqlClosed \in BOOLEAN => sqlClosed' \in BOOLEAN
<1>1. /\ call[t] = "none" /\ call' = [call EXCEPT ![t] = m] /\ SqlEnter(t, m)
      /\ UNCHANGED <<readerVars, hookVars>>
  BY DEF Enter
<1>2. /\ method' = [method EXCEPT ![t] = m]
      /\ UNCHANGED <<rowVars, connected, sincePrune, excess>>
  BY <1>1 DEF SqlEnter
<1>3. CASE m = "write"
  <2>1. sql' = [sql EXCEPT ![t] = "insert"] /\ sqlClosed' = sqlClosed
    BY <1>1, <1>3 DEF SqlEnter, SqlGoto
  <2> QED
    BY <1>1, <1>2, <1>3, <2>1
<1>4. CASE m = "flush"
  <2>1. sql' = [sql EXCEPT ![t] = FlushEntry] /\ sqlClosed' = sqlClosed
    BY <1>1, <1>4 DEF SqlEnter, SqlGoto
  <2> QED
    BY <1>1, <1>2, <1>4, <2>1 DEF FlushEntry
<1>5. CASE m = "close"
  <2>1. /\ sql' = [sql EXCEPT ![t] = IF sqlClosed THEN "returned" ELSE FlushEntry]
        /\ sqlClosed' = TRUE
    BY <1>1, <1>5 DEF SqlEnter, SqlGoto
  <2> QED
    BY <1>1, <1>2, <1>5, <2>1 DEF FlushEntry
<1> QED
  BY <1>3, <1>4, <1>5 DEF Methods

(* What an action that has no other thread's move in it may do to the      *)
(* places: the steps inside the SQLite backend.                             *)
SqlMoves(t, from, to) ==
  /\ sql[t] = from /\ sql' = [sql EXCEPT ![t] = to]
  /\ UNCHANGED <<method, hook, call, running, stopping, closerAt, late>>

SqlMove ==
  \E t \in Threads :
    \/ \E from \in SqlPlaces, to \in {"delete", "commitPrune"} :
         from \in {"count", "delete"} /\ SqlMoves(t, from, to)
    \/ \E from \in {"count", "commitPrune"} :
         SqlMoves(t, from, IF method[t] = "write" THEN "returned" ELSE "commit")
    \/ SqlMoves(t, "commit", IF method[t] = "close" THEN "shut" ELSE "returned")
    \/ \E from \in SqlPlaces \ {"out"} : SqlMoves(t, from, "returned") /\ from # "returned"
    \/ \E from \in SqlPlaces \ {"out"} : SqlMoves(t, from, "raised")
    \/ t = Worker /\ SqlMoves(t, "insert", "count") /\ MaxRows > 0

HookMoves(t, from, to) ==
  /\ hook[t] = from /\ hook' = [hook EXCEPT ![t] = to]
  /\ UNCHANGED <<sql, method, call, running, stopping, closerAt, late>>
HookMove ==
  \E t \in Threads, from \in {"append", "take", "send"}, to \in {"send", "returned"} :
    HookMoves(t, from, to)

PassOn(t) ==
  /\ SqlLeft(t) /\ sql' = [sql EXCEPT ![t] = "out"]
  /\ hook' = [hook EXCEPT ![t] = IF call[t] = "write" THEN "append" ELSE "take"]
  /\ UNCHANGED <<method, call, running, stopping, closerAt, late>>
GoOut(t) ==
  /\ hook[t] = "returned" /\ hook' = [hook EXCEPT ![t] = "out"]
  /\ call' = [call EXCEPT ![t] = "none"]
  /\ UNCHANGED <<sql, method, running, stopping, closerAt, late>>

Enters(t, m) ==
  /\ call[t] = "none" /\ call' = [call EXCEPT ![t] = m]
  /\ method' = [method EXCEPT ![t] = m]
  /\ \E p \in {"insert", "count", "commit", "returned"} :
       /\ sql' = [sql EXCEPT ![t] = p]
       /\ p = "insert" <=> m = "write"
       /\ p = "count" => MaxRows > 0
  /\ hook' = hook
WorkerEnters ==
  /\ running
  /\ \/ Enters(Worker, "write") /\ running' = running
     \/ Enters(Worker, "flush") /\ running' \in {running, FALSE}
  /\ UNCHANGED <<stopping, closerAt, late>>
CloserEnters ==
  /\ \/ closerAt = "flush" /\ Enters(Closer, "flush") /\ closerAt' = "close"
     \/ closerAt = "close" /\ Enters(Closer, "close") /\ closerAt' = "done"
  /\ UNCHANGED <<running, stopping, late>>
CloserWaiting ==
  /\ \/ closerAt = "idle" /\ closerAt' = "join" /\ late' = late /\ stopping' = TRUE
     \/ /\ closerAt = "join" /\ closerAt' = "flush" /\ stopping' = stopping
        /\ late' = (late \/ ~WorkerDone)
  /\ UNCHANGED <<sql, method, hook, call, running>>
Restarts ==
  /\ sql' = [t \in Threads |-> "out"] /\ hook' = [t \in Threads |-> "out"]
  /\ call' = [t \in Threads |-> "none"]
  /\ running' = TRUE /\ stopping' = FALSE /\ closerAt' = "idle" /\ connected' = TRUE
  /\ UNCHANGED <<method, late>>
Rests == UNCHANGED <<sql, method, hook, call, running, stopping, closerAt, late>>

(* The actions, seen from where the threads are. *)
LEMMA Moves ==
  ASSUME PlaceTypes, [Next]_vars
  PROVE  \/ SqlMove \/ HookMove \/ (\E t \in Threads : PassOn(t) \/ GoOut(t))
         \/ WorkerEnters \/ CloserEnters \/ CloserWaiting \/ Restarts \/ Rests
<1> USE DEF SqlGoto, HookGoto, lifeVars, sqlThreads
<1>1. ASSUME NEW t \in Threads, Statement(t), CountRows(t)  PROVE SqlMove
  <2>1. /\ UNCHANGED <<hook, call, running, stopping, closerAt, late>>
    BY <1>1 DEF Statement, hookVars
  <2>2. sql[t] = "count" /\ UNCHANGED method
    BY <1>1 DEF CountRows
  <2>3. \/ sql' = [sql EXCEPT ![t] = "delete"]
        \/ sql' = [sql EXCEPT ![t] = IF method[t] = "write" THEN "returned" ELSE "commit"]
    BY <1>1 DEF CountRows, AfterPrune
  <2> QED
    BY <2>1, <2>2, <2>3 DEF SqlMove, SqlMoves, SqlPlaces
<1>2. ASSUME NEW t \in Threads, Statement(t), DeleteOldest(t)  PROVE SqlMove
  BY <1>2 DEF Statement, DeleteOldest, hookVars, SqlMove, SqlMoves, SqlPlaces
<1>3. ASSUME NEW t \in Threads, Statement(t), CommitPrune(t)  PROVE SqlMove
  BY <1>3 DEF Statement, CommitPrune, AfterPrune, hookVars, SqlMove, SqlMoves
<1>4. ASSUME NEW t \in Threads, Statement(t), Commit(t)  PROVE SqlMove
  BY <1>4 DEF Statement, Commit, hookVars, SqlMove, SqlMoves
<1>5. ASSUME NEW t \in Threads, Statement(t), Shut(t)  PROVE SqlMove
  BY <1>5 DEF Statement, Shut, hookVars, SqlMove, SqlMoves, SqlPlaces
<1>6. ASSUME NEW t \in Threads, Raise(t)  PROVE SqlMove
  BY <1>6 DEF Raise, SqlRaises, hookVars, SqlMove, SqlMoves, SqlPlaces
<1>7. ASSUME NEW t \in Threads, NextBackend(t)  PROVE PassOn(t)
  BY <1>7 DEF NextBackend, HookEnter, PassOn
<1>8. ASSUME NEW t \in Threads, Send(t)  PROVE HookMove
  BY <1>8 DEF Send, TakeRest, Post, sqliteVars, HookMove, HookMoves
<1>9. ASSUME NEW t \in Threads, SendFails(t)  PROVE HookMove
  BY <1>9 DEF SendFails, PostFails, sqliteVars, HookMove, HookMoves
<1>10. ASSUME NEW t \in Threads, Leave(t)  PROVE GoOut(t)
  BY <1>10 DEF Leave, GoOut, sqliteVars
<1>11. CASE WriteRow
  BY <1>11 DEF WriteRow, Insert, hookVars, SqlMove, SqlMoves, Threads, SqlPlaces
<1>12. CASE WriteHook
  BY <1>12 DEF WriteHook, AppendEvent, sqliteVars, HookMove, HookMoves, Threads
<1>13. CASE \E e \in Stamps : TakeEvent(e)
  BY <1>13, EnterFacts DEF TakeEvent, WorkerEnters, Enters, Threads, Methods, hookVars
<1>14. CASE IdleFlush
  BY <1>14, EnterFacts DEF IdleFlush, WorkerEnters, Enters, Threads, Methods, hookVars
<1>15. CASE FinalFlush
  BY <1>15, EnterFacts DEF FinalFlush, WorkerEnters, Enters, Threads, Methods, hookVars
<1>16. CASE StartShutdown
  BY <1>16 DEF StartShutdown, CloserGoto, CloserWaiting, sqliteVars, hookVars
<1>17. CASE Joined
  BY <1>17 DEF Joined, CloserGoto, CloserWaiting, sqliteVars, hookVars
<1>18. CASE CloserFlush
  BY <1>18, EnterFacts DEF CloserFlush, CloserGoto, CloserEnters, Enters, Threads, Methods, hookVars
<1>19. CASE CloserClose
  BY <1>19, EnterFacts DEF CloserClose, CloserGoto, CloserEnters, Enters, Threads, Methods, hookVars
<1>20. CASE Crash
  BY <1>20 DEF Crash, SqliteRestart, WebhookRestart, Restarts
<1>21. CASE Read
  BY <1>21 DEF Read, Poll, sqliteVars, hookVars, Rests
<1>22. CASE UNCHANGED vars
  BY <1>22 DEF vars, sqliteVars, hookVars, Rests
<1> QED
  BY <1>1, <1>2, <1>3, <1>4, <1>5, <1>6, <1>7, <1>8, <1>9, <1>10, <1>11, <1>12, <1>13, <1>14,
     <1>15, <1>16, <1>17, <1>18, <1>19, <1>20, <1>21, <1>22, NextCases

Control == PlaceTypes /\ OnePlace /\ Callers /\ CloserWaits

LEMMA ControlStep ==
  ASSUME Control, running \in BOOLEAN, late \in BOOLEAN, [Next]_vars
  PROVE  Control'
<1> USE DEF Control, PlaceTypes, Threads, Methods
<1>1. CASE SqlMove
  <2>1. PICK t \in Threads, from \in SqlPlaces, to \in SqlPlaces :
          /\ SqlMoves(t, from, to) /\ from # "out" /\ to # "out" /\ to # "insert"
          /\ to = "shut" => from = "commit" /\ method[t] = "close"
          /\ to \in {"delete", "commitPrune"} => from \in {"count", "delete"}
          /\ to = "count" => MaxRows > 0
    BY <1>1 DEF SqlMove, SqlPlaces
  <2>2. /\ sql' = [sql EXCEPT ![t] = to] /\ sql[t] = from
        /\ UNCHANGED <<method, hook, call, running, stopping, closerAt, late>>
    BY <2>1 DEF SqlMoves
  <2>3. PlaceTypes'
    BY <2>1, <2>2
  <2>4. OnePlace'
    BY <2>1, <2>2, ThreadsAssumption DEF OnePlace
  <2> QED
    BY <2>2, <2>3, <2>4 DEF Callers, CloserWaits
<1>2. CASE HookMove
  <2>1. PICK t \in Threads, from \in {"append", "take", "send"}, to \in {"send", "returned"} :
          HookMoves(t, from, to)
    BY <1>2 DEF HookMove
  <2> QED
    BY <2>1, ThreadsAssumption DEF HookMoves, OnePlace, Callers, CloserWaits
<1>3. ASSUME NEW t \in Threads, PassOn(t)  PROVE Control'
  <2>1. /\ sql[t] # "out" /\ sql' = [sql EXCEPT ![t] = "out"]
        /\ UNCHANGED <<method, call, running, stopping, closerAt, late>>
    BY <1>3 DEF PassOn, SqlLeft
  <2>2. PICK p \in {"append", "take"} :
          hook' = [hook EXCEPT ![t] = p] /\ (p = "append" => call[t] = "write")
    BY <1>3 DEF PassOn
  <2>3. PlaceTypes'
    BY <2>1, <2>2 DEF SqlPlaces
  <2>4. OnePlace'
    BY <2>1, <2>2 DEF OnePlace
  <2> QED
    BY <2>1, <2>3, <2>4 DEF Callers, CloserWaits
<1>4. ASSUME NEW t \in Threads, GoOut(t)  PROVE Control'
  <2>1. /\ hook[t] = "returned" /\ hook' = [hook EXCEPT ![t] = "out"]
        /\ call' = [call EXCEPT ![t] = "none"]
        /\ UNCHANGED <<sql, method, running, stopping, closerAt, late>>
    BY <1>4 DEF GoOut
  <2>2. PlaceTypes'
    BY <2>1
  <2>3. OnePlace'
    BY <2>1 DEF OnePlace
  <2> QED
    BY <2>1, <2>2, <2>3 DEF Callers, CloserWaits
<1>5. CASE WorkerEnters
  <2>1. PICK m \in {"write", "flush"} :
          Enters(Worker, m) /\ running /\ UNCHANGED <<stopping, closerAt, late>>
    BY <1>5 DEF WorkerEnters
  <2>2. PlaceTypes' /\ OnePlace'
    BY <2>1 DEF Enters, OnePlace, SqlPlaces
  <2>3. Callers' /\ CloserWaits'
    BY <2>1, ThreadsAssumption DEF Enters, Callers, CloserWaits
  <2> QED
    BY <2>2, <2>3
<1>6. CASE CloserEnters
  <2>1. PICK m \in {"flush", "close"} :
          /\ Enters(Closer, m) /\ closerAt \in {"flush", "close"}
          /\ closerAt' = (IF m = "close" THEN "done" ELSE "close")
          /\ UNCHANGED <<running, stopping, late>>
    BY <1>6 DEF CloserEnters
  <2>2. PlaceTypes' /\ OnePlace'
    BY <2>1 DEF Enters, OnePlace, SqlPlaces
  <2>3. Callers' /\ CloserWaits'
    BY <2>1, ThreadsAssumption DEF Enters, Callers, CloserWaits
  <2> QED
    BY <2>2, <2>3
<1>7. CASE CloserWaiting
  BY <1>7 DEF CloserWaiting, OnePlace, Callers, CloserWaits, WorkerDone
<1>8. CASE Restarts
  BY <1>8 DEF Restarts, OnePlace, Callers, CloserWaits, SqlPlaces
<1>9. CASE Rests
  BY <1>9 DEF Rests, OnePlace, Callers, CloserWaits
<1> QED
  BY <1>1, <1>2, <1>3, <1>4, <1>5, <1>6, <1>7, <1>8, <1>9, Moves

(* While no join has timed out one thread at most is in a method. *)
LEMMA OneActive ==
  ASSUME Control, ~late, NEW t \in Threads, NEW u \in Threads, u # t, call[t] # "none"
  PROVE  call[u] = "none" /\ sql[u] = "out" /\ hook[u] = "out"
BY DEF Control, OnePlace, Callers, CloserWaits, Threads

LEMMA ControlStart ==
  ASSUME Init  PROVE  Control /\ FlagTypes /\ CountTypes
<1>1. /\ sql = [t \in Threads |-> "out"] /\ method = [t \in Threads |-> "write"]
      /\ hook = [t \in Threads |-> "out"] /\ call = [t \in Threads |-> "none"]
      /\ closerAt = "idle"
  BY DEF Init, SqliteInit, WebhookInit
<1>2. PlaceTypes
  BY <1>1 DEF PlaceTypes, SqlPlaces, Methods
<1>3. OnePlace
  BY <1>1 DEF OnePlace
<1>4. Callers /\ CloserWaits
  BY <1>1 DEF Callers, CloserWaits, Threads
<1>5. FlagTypes
  BY DEF Init, SqliteInit, FlagTypes
<1>6. CountTypes
  BY MultiAssumption DEF Init, SqliteInit, CountTypes
<1> QED
  BY <1>2, <1>3, <1>4, <1>5, <1>6 DEF Control

LEMMA FlagStep ==
  ASSUME FlagTypes, PlaceTypes, [Next]_vars
  PROVE  FlagTypes'
<1> USE DEF FlagTypes
<1>1. running' \in BOOLEAN /\ stopping' \in BOOLEAN /\ late' \in BOOLEAN
  <2>1. CASE SqlMove \/ HookMove \/ Rests \/ (\E t \in Threads : PassOn(t) \/ GoOut(t))
    BY <2>1 DEF SqlMove, SqlMoves, HookMove, HookMoves, Rests, PassOn, GoOut
  <2>2. CASE WorkerEnters \/ CloserEnters \/ CloserWaiting \/ Restarts
    BY <2>2 DEF WorkerEnters, CloserEnters, CloserWaiting, Restarts
  <2> QED
    BY <2>1, <2>2, Moves
<1>2. connected' \in BOOLEAN /\ sqlClosed' \in BOOLEAN
  <2>1. \A t \in Threads, m \in Methods : Enter(t, m) => connected' \in BOOLEAN /\ sqlClosed' \in BOOLEAN
    BY EnterFacts
  <2>2. ASSUME (\E e \in Stamps : TakeEvent(e)) \/ IdleFlush \/ FinalFlush \/ CloserFlush \/ CloserClose
        PROVE  connected' \in BOOLEAN /\ sqlClosed' \in BOOLEAN
    BY <2>1, <2>2 DEF TakeEvent, IdleFlush, FinalFlush, CloserFlush, CloserClose, Methods, Threads
  <2>3. ASSUME NEW t \in Threads, SqliteStep(t)  PROVE connected' \in BOOLEAN /\ sqlClosed' \in BOOLEAN
    BY <2>3 DEF SqliteStep, CountRows, DeleteOldest, CommitPrune, Commit, Shut, connVars
  <2>4. ASSUME NEW t \in Threads, Raise(t) \/ NextBackend(t) \/ Send(t) \/ SendFails(t) \/ Leave(t)
        PROVE connected' \in BOOLEAN /\ sqlClosed' \in BOOLEAN
    BY <2>4 DEF Raise, SqlRaises, NextBackend, Send, SendFails, Leave, sqliteVars, connVars
  <2>5. CASE WriteRow \/ WriteHook \/ StartShutdown \/ Joined \/ Crash \/ Read \/ UNCHANGED vars
    BY <2>5 DEF WriteRow, Insert, WriteHook, StartShutdown, Joined, Crash, SqliteRestart, Read, Poll, vars, sqliteVars, connVars
  <2> QED
    BY <2>2, <2>3, <2>4, <2>5, NextCases DEF Statement
<1> QED
  BY <1>1, <1>2
-----------------------------------------------------------------------------
(* Sequences of distinct items.                                            *)

LEMMA AppendFacts ==
  ASSUME NEW T, NEW s \in Seq(T), NEW e \in T
  PROVE  /\ Append(s, e) \in Seq(T) /\ Append(s, e) # <<>>
         /\ Items(Append(s, e)) = Items(s) \cup {e}
         /\ Last(Append(s, e)) = e /\ Len(Append(s, e)) = Len(s) + 1
         /\ DOMAIN Append(s, e) = DOMAIN s \cup {Len(s) + 1}
         /\ \A i \in DOMAIN s : Append(s, e)[i] = s[i]
         /\ Append(s, e)[Len(s) + 1] = e
         /\ IsInjective(s) /\ e \notin Items(s) => IsInjective(Append(s, e))
<1>1. /\ Append(s, e) \in Seq(T) /\ Len(Append(s, e)) = Len(s) + 1
      /\ DOMAIN Append(s, e) = DOMAIN s \cup {Len(s) + 1}
      /\ \A i \in DOMAIN s : Append(s, e)[i] = s[i]
      /\ Append(s, e)[Len(s) + 1] = e
  OBVIOUS
<1>2. Items(Append(s, e)) = Items(s) \cup {e}
  BY <1>1 DEF Items
<1>3. Last(Append(s, e)) = e
  BY <1>1 DEF Last
<1>4. IsInjective(s) /\ e \notin Items(s) => IsInjective(Append(s, e))
  BY <1>1 DEF IsInjective, Items
<1>5. Append(s, e) # <<>>
  <2>1. Len(<<>>) = 0 /\ Len(s) \in Nat
    OBVIOUS
  <2> QED
    BY <1>1, <2>1
<1> QED
  BY <1>1, <1>2, <1>3, <1>4, <1>5

LEMMA ConcatFacts ==
  ASSUME NEW T, NEW s \in Seq(T), NEW u \in Seq(T)
  PROVE  /\ s \o u \in Seq(T)
         /\ Items(s \o u) = Items(s) \cup Items(u)
         /\ IsInjective(s) /\ IsInjective(u) /\ Items(s) \cap Items(u) = {} => IsInjective(s \o u)
         /\ \A o : Ordered(o, s) /\ Ordered(o, u) /\ Precedes(o, s, u) => Ordered(o, s \o u)
<1>1. /\ s \o u \in Seq(T) /\ Len(s \o u) = Len(s) + Len(u)
      /\ DOMAIN (s \o u) = 1..(Len(s) + Len(u)) /\ DOMAIN s = 1..Len(s) /\ DOMAIN u = 1..Len(u)
      /\ \A i \in 1..(Len(s) + Len(u)) : (s \o u)[i] = IF i <= Len(s) THEN s[i] ELSE u[i - Len(s)]
      /\ Len(s) \in Nat /\ Len(u) \in Nat
  OBVIOUS
<1>2. \A i \in DOMAIN (s \o u) :
        \/ i \in DOMAIN s /\ (s \o u)[i] = s[i]
        \/ i > Len(s) /\ i - Len(s) \in DOMAIN u /\ (s \o u)[i] = u[i - Len(s)]
  BY <1>1
<1>3. Items(s \o u) = Items(s) \cup Items(u)
  <2>1. \A i \in DOMAIN s : i \in DOMAIN (s \o u) /\ (s \o u)[i] = s[i]
    BY <1>1
  <2>2. \A i \in DOMAIN u : i + Len(s) \in DOMAIN (s \o u) /\ (s \o u)[i + Len(s)] = u[i]
    BY <1>1
  <2>3. Items(s) \cup Items(u) \subseteq Items(s \o u)
    BY <2>1, <2>2 DEF Items
  <2>4. Items(s \o u) \subseteq Items(s) \cup Items(u)
    BY <1>2 DEF Items
  <2> QED
    BY <2>3, <2>4
<1>4. \A i \in DOMAIN s : s[i] \in Items(s)
  BY DEF Items
<1>5. \A i \in DOMAIN u : u[i] \in Items(u)
  BY DEF Items
<1>6. IsInjective(s) /\ IsInjective(u) /\ Items(s) \cap Items(u) = {} => IsInjective(s \o u)
  <2> SUFFICES ASSUME IsInjective(s), IsInjective(u), Items(s) \cap Items(u) = {},
                      NEW i \in DOMAIN (s \o u), NEW j \in DOMAIN (s \o u),
                      (s \o u)[i] = (s \o u)[j]
               PROVE  i = j
    BY DEF IsInjective
  <2>1. i \in Nat /\ j \in Nat
    BY <1>1
  <2> QED
    BY <1>1, <1>2, <1>4, <1>5, <2>1 DEF IsInjective
<1>7. ASSUME NEW o, Ordered(o, s), Ordered(o, u), Precedes(o, s, u)
      PROVE  Ordered(o, s \o u)
  <2> SUFFICES ASSUME NEW i \in DOMAIN (s \o u), NEW j \in DOMAIN (s \o u), i < j
               PROVE  Before(o, (s \o u)[i], (s \o u)[j])
    BY DEF Ordered
  <2>1. i \in Nat /\ j \in Nat
    BY <1>1
  <2>2. CASE j <= Len(s)
    BY <1>1, <1>7, <2>1, <2>2 DEF Ordered
  <2>3. CASE i <= Len(s) /\ j > Len(s)
    BY <1>1, <1>4, <1>5, <1>7, <2>1, <2>3 DEF Precedes
  <2>4. CASE i > Len(s)
    <3>1. /\ i - Len(s) \in DOMAIN u /\ j - Len(s) \in DOMAIN u /\ i - Len(s) < j - Len(s)
          /\ (s \o u)[i] = u[i - Len(s)] /\ (s \o u)[j] = u[j - Len(s)]
      BY <1>1, <2>1, <2>4
    <3> QED
      BY <1>7, <3>1 DEF Ordered
  <2> QED
    BY <1>1, <2>1, <2>2, <2>3, <2>4
<1> QED
  BY <1>1, <1>3, <1>6, <1>7

LEMMA EmptyFacts ==
  /\ \A T : <<>> \in Seq(T)
  /\ Items(<<>>) = {} /\ IsInjective(<<>>)
  /\ \A o : Ordered(o, <<>>)
  /\ \A o, s : Precedes(o, s, <<>>) /\ Precedes(o, <<>>, s)
<1>1. DOMAIN <<>> = {}
  OBVIOUS
<1>2. Items(<<>>) = {}
  BY <1>1 DEF Items
<1> QED
  BY <1>1, <1>2 DEF IsInjective, Ordered, Precedes

LEMMA SeqItems ==
  ASSUME NEW T, NEW s \in Seq(T)
  PROVE  /\ \A i \in DOMAIN s : s[i] \in T /\ s[i] \in Items(s)
         /\ Items(s) \subseteq T
         /\ DOMAIN s = 1..Len(s) /\ Len(s) \in Nat
         /\ s # <<>> => Len(s) \in DOMAIN s /\ Last(s) = s[Len(s)] /\ Last(s) \in T
         /\ s # <<>> => Len(s) > 0
<1>1. s \in [1..Len(s) -> T] /\ Len(s) \in Nat
  OBVIOUS
<1>2. \A i \in DOMAIN s : s[i] \in T /\ s[i] \in Items(s)
  BY <1>1 DEF Items
<1>3. s # <<>> => Len(s) > 0
  OBVIOUS
<1> QED
  BY <1>1, <1>2, <1>3 DEF Items, Last
-----------------------------------------------------------------------------
(* The webhook's part of a step.                                           *)

Appends ==
  /\ Ahead /\ ~Ahead' /\ hook[Worker] = "append"
  /\ \/ /\ buffer' = Append(buffer, Last(order)) /\ batch' = batch
        /\ hook' = [hook EXCEPT ![Worker] = "returned"]
     \/ /\ batch' = [batch EXCEPT ![Worker] = Append(buffer, Last(order))] /\ buffer' = <<>>
        /\ hook' = [hook EXCEPT ![Worker] = "send"]
  /\ UNCHANGED <<received, failed, order, lostPosts, call, closerAt, late>>
Takes(t) ==
  /\ hook[t] = "take" /\ (Ahead' <=> Ahead)
  /\ batch' = [batch EXCEPT ![t] = buffer] /\ buffer' = <<>>
  /\ hook' = [hook EXCEPT ![t] = IF buffer = <<>> THEN "returned" ELSE "send"]
  /\ UNCHANGED <<received, failed, order, lostPosts, call, closerAt, late>>
Sends(t) ==
  /\ hook[t] = "send" /\ (Ahead' <=> Ahead)
  /\ \/ received' = received \o batch[t] /\ failed' \in {failed, failed \cup Items(batch[t])}
     \/ received' = received /\ failed' = failed \cup Items(batch[t])
  /\ batch' = [batch EXCEPT ![t] = <<>>]
  /\ hook' = [hook EXCEPT ![t] = "returned"]
  /\ UNCHANGED <<buffer, order, lostPosts, call, closerAt, late>>
Emits ==
  /\ ~Ahead /\ Ahead' /\ hook' = hook
  /\ running /\ UNCHANGED <<closerAt, late>>
  /\ \A t \in Threads \ {Worker} : call'[t] = call[t]
  /\ \E e \in Stamps \ Items(order) : order' = Append(order, e)
  /\ UNCHANGED <<buffer, batch, received, failed, lostPosts>>
Dies ==
  /\ ~Ahead' /\ closerAt' = "idle" /\ late' = late
  /\ buffer' = <<>> /\ batch' = [t \in Threads |-> <<>>]
  /\ lostPosts' = lostPosts \cup (Items(order) \ (Items(received) \cup failed))
  /\ UNCHANGED <<received, failed, order>>
Keeps ==
  /\ Ahead' <=> Ahead
  /\ \A t \in Threads : hook[t] = "send" => hook'[t] = "send"
  /\ \A t \in Threads : hook'[t] = "send" => hook[t] = "send"
  /\ (Finished' => Finished) /\ (late => late')
  /\ UNCHANGED <<buffer, batch, received, failed, order, lostPosts>>

Posting(t) == Takes(t) \/ Sends(t)
PostMove == Appends \/ (\E t \in Threads : Posting(t)) \/ Emits \/ Dies \/ Keeps

LEMMA PostMoves ==
  ASSUME Control, late \in BOOLEAN, [Next]_vars
  PROVE  PostMove
<1> USE DEF SqlGoto, HookGoto, lifeVars, pastVars, hookVars, PostMove
<1>a. PlaceTypes /\ OnePlace
  BY DEF Control
<1>0. ASSUME UNCHANGED <<hook, call>>
      PROVE  (Ahead' <=> Ahead) /\ (closerAt' \in {closerAt, "join", "flush"} => (Finished' => Finished))
  BY <1>0 DEF Ahead, Finished
<1>1. ASSUME NEW t \in Threads, Statement(t)  PROVE Keeps
  BY <1>0, <1>1 DEF Statement, Keeps
<1>2. ASSUME NEW t \in Threads, Raise(t)  PROVE Keeps
  BY <1>0, <1>2 DEF Raise, Keeps
<1>3. ASSUME NEW t \in Threads, NextBackend(t)  PROVE Keeps
  <2>1. /\ sql[t] # "out" /\ hook[t] = "out"
        /\ hook' = [hook EXCEPT ![t] = IF call[t] = "write" THEN "append" ELSE "take"]
        /\ UNCHANGED <<call, late, buffer, batch, received, failed, order, lostPosts>>
    BY <1>3, <1>a DEF NextBackend, SqlLeft, HookEnter, OnePlace
  <2>2. Ahead' <=> Ahead
    BY <1>a, <2>1 DEF Ahead, PlaceTypes, Threads
  <2>3. call[t] # "none" /\ closerAt' = closerAt
    BY <1>3, <1>a, <2>1 DEF NextBackend, OnePlace
  <2>4. Finished' => Finished
    BY <1>a, <2>1, <2>3 DEF Finished, PlaceTypes
  <2> QED
    BY <1>a, <2>1, <2>2, <2>4 DEF Keeps, PlaceTypes
<1>4. ASSUME NEW t \in Threads, TakeRest(t), Send(t)  PROVE Takes(t)
  <2>1. /\ hook[t] = "take"
        /\ hook' = [hook EXCEPT ![t] = IF buffer = <<>> THEN "returned" ELSE "send"]
        /\ call' = call
    BY <1>4 DEF TakeRest, Send
  <2>2. Ahead' <=> Ahead
    BY <1>a, <2>1 DEF Ahead, PlaceTypes, Threads
  <2> QED
    BY <1>4, <2>1, <2>2 DEF TakeRest, Send, Takes
<1>5. ASSUME NEW t \in Threads, Post(t), Send(t)  PROVE Sends(t)
  <2>1. hook[t] = "send" /\ hook' = [hook EXCEPT ![t] = "returned"] /\ call' = call
    BY <1>5 DEF Post, Send
  <2>2. Ahead' <=> Ahead
    BY <1>a, <2>1 DEF Ahead, PlaceTypes, Threads
  <2> QED
    BY <1>5, <2>1, <2>2 DEF Post, Send, Sends
<1>6. ASSUME NEW t \in Threads, SendFails(t)  PROVE Sends(t)
  <2>1. hook[t] = "send" /\ hook' = [hook EXCEPT ![t] = "returned"] /\ call' = call
    BY <1>6 DEF PostFails, SendFails
  <2>2. Ahead' <=> Ahead
    BY <1>a, <2>1 DEF Ahead, PlaceTypes, Threads
  <2> QED
    BY <1>6, <2>1, <2>2 DEF PostFails, SendFails, Sends, Items
<1>7. ASSUME NEW t \in Threads, Leave(t)  PROVE Keeps
  <2>1. /\ hook[t] = "returned" /\ hook' = [hook EXCEPT ![t] = "out"]
        /\ call' = [call EXCEPT ![t] = "none"]
    BY <1>7 DEF Leave
  <2>2. Ahead' <=> Ahead
    BY <1>a, <2>1 DEF Ahead, PlaceTypes, Threads
  <2>3. \A u \in Threads : (hook[u] = "send" => hook'[u] = "send") /\ (hook'[u] = "send" => hook[u] = "send")
    BY <1>a, <2>1 DEF PlaceTypes
  <2>4. closerAt' = closerAt
    BY <1>7 DEF Leave
  <2>5. Finished' => Finished
    BY <1>a, <2>1, <2>4 DEF Finished, PlaceTypes, Threads
  <2> QED
    BY <1>7, <2>2, <2>3, <2>5 DEF Leave, Keeps
<1>8. ASSUME WriteRow  PROVE Keeps
  BY <1>0, <1>8 DEF WriteRow, Keeps
<1>9. ASSUME WriteHook  PROVE Appends
  <2>1. /\ hook[Worker] = "append" /\ call[Worker] = "write" /\ call' = call
    BY <1>9, <1>a DEF WriteHook, AppendEvent, OnePlace, Threads
  <2>2. hook' \in {[hook EXCEPT ![Worker] = "send"], [hook EXCEPT ![Worker] = "returned"]}
    BY <1>9 DEF WriteHook, AppendEvent
  <2>3. Ahead /\ ~Ahead'
    BY <1>a, <2>1, <2>2 DEF Ahead, PlaceTypes, Threads
  <2> QED
    BY <1>9, <2>3 DEF WriteHook, AppendEvent, Appends
<1>10. ASSUME NEW e \in Stamps, TakeEvent(e)  PROVE Emits
  <2>1. /\ call[Worker] = "none" /\ call' = [call EXCEPT ![Worker] = "write"] /\ hook' = hook
        /\ hook[Worker] = "out"
    BY <1>10, <1>a DEF TakeEvent, Enter, OnePlace, Threads
  <2>2. ~Ahead /\ Ahead'
    BY <1>a, <2>1 DEF Ahead, PlaceTypes, Threads
  <2> QED
    BY <1>10, <1>a, <2>1, <2>2 DEF TakeEvent, Enter, Emits, PlaceTypes
<1>11. ASSUME NEW t \in Threads, NEW m \in {"flush", "close"}, Enter(t, m), UNCHANGED <<late, order, lostPosts>>,
              closerAt' = closerAt \/ (t = Closer /\ closerAt' \in {"close", "done"})
       PROVE  Keeps
  <2>1. /\ call[t] = "none" /\ call' = [call EXCEPT ![t] = m] /\ UNCHANGED hookVars
    BY <1>11 DEF Enter
  <2>2. Ahead' <=> Ahead
    BY <1>a, <2>1 DEF Ahead, PlaceTypes, Threads
  <2>3. hook' = hook /\ hook[t] = "out"
    BY <1>a, <2>1 DEF OnePlace
  <2>4. Finished' => Finished
    BY <1>a, <1>11, <2>1, <2>3 DEF Finished, PlaceTypes, Threads
  <2> QED
    BY <1>11, <2>1, <2>2, <2>4 DEF Keeps
<1>12. ASSUME IdleFlush \/ FinalFlush \/ CloserFlush \/ CloserClose  PROVE Keeps
  BY <1>11, <1>12 DEF IdleFlush, FinalFlush, CloserFlush, CloserClose, CloserGoto, Threads
<1>13. ASSUME StartShutdown \/ Joined \/ Read \/ UNCHANGED vars  PROVE Keeps
  BY <1>0, <1>13 DEF StartShutdown, Joined, Read, CloserGoto, vars, Keeps
<1>14. ASSUME Crash  PROVE Dies
  <2>1. call' = [t \in Threads |-> "none"]
    BY <1>14 DEF Crash
  <2>2. ~Ahead'
    BY <2>1 DEF Ahead, Threads
  <2> QED
    BY <1>14, <2>2 DEF Crash, WebhookRestart, Dies
<1> QED
  BY <1>1, <1>2, <1>3, <1>4, <1>5, <1>6, <1>7, <1>8, <1>9, <1>10, <1>12, <1>13, <1>14,
     NextCases DEF Posting
-----------------------------------------------------------------------------
(* The webhook has every event once.                                       *)

PostKeys ==
  /\ PostTypes /\ order \in Seq(Stamps) /\ lostPosts \subseteq Stamps
  /\ Written /\ BatchInSend
PostInv == PostKeys /\ Apart /\ OnlyWritten /\ Accounted

LEMMA PostStart ==
  ASSUME Init  PROVE  PostInv
<1>1. /\ order = <<>> /\ buffer = <<>> /\ batch = [t \in Threads |-> <<>>] /\ received = <<>>
      /\ failed = {} /\ lostPosts = {} /\ hook = [t \in Threads |-> "out"]
      /\ call = [t \in Threads |-> "none"]
  BY DEF Init, WebhookInit
<1>2. ~Ahead
  BY <1>1 DEF Ahead, Threads
<1>3. Waiting = {}
  BY <1>1, EmptyFacts DEF Waiting, Sending
<1>4. DOMAIN order = {}
  BY <1>1
<1>5. PostKeys
  BY <1>1, <1>2, EmptyFacts DEF PostKeys, PostTypes, Written, BatchInSend
<1>6. Apart
  BY <1>1, EmptyFacts DEF Apart
<1> QED
  BY <1>3, <1>4, <1>5, <1>6 DEF PostInv, OnlyWritten, Accounted

LEMMA SendingChange ==
  ASSUME NEW t \in Threads, NEW b, batch \in [Threads -> Seq(Stamps)],
         batch' = [batch EXCEPT ![t] = b], batch[t] = <<>> \/ b = <<>>
  PROVE  /\ batch[t] = <<>> => Sending' = Sending \cup Items(b)
         /\ Sending = Sending' \cup Items(batch[t]) \/ batch[t] = <<>>
         /\ batch'[t] = b /\ \A u \in Threads : u # t => batch'[u] = batch[u]
<1>1. batch'[t] = b /\ \A u \in Threads : u # t => batch'[u] = batch[u]
  OBVIOUS
<1>2. Items(<<>>) = {}
  BY EmptyFacts
<1>3. batch[t] = <<>> => Sending' = Sending \cup Items(b)
  BY <1>1, <1>2 DEF Sending
<1>4. b = <<>> => Sending = Sending' \cup Items(batch[t])
  BY <1>1, <1>2 DEF Sending
<1> QED
  BY <1>1, <1>3, <1>4

LEMMA AppendsKeep ==
  ASSUME PostInv, Appends, Control
  PROVE  PostInv'
<1> DEFINE e == Last(order)
<1> USE DEF PostInv, PostKeys
<1>1. /\ Ahead /\ ~Ahead' /\ hook[Worker] = "append"
      /\ UNCHANGED <<received, failed, order, lostPosts, call>>
  BY DEF Appends
<1>2. e \in Stamps /\ Len(order) \in DOMAIN order /\ order[Len(order)] = e
  BY <1>1, SeqItems DEF Written
<1>3. e \notin Waiting
  BY <1>1, <1>2 DEF OnlyWritten, InHand, Written, IsInjective
<1>4. /\ Append(buffer, e) \in Seq(Stamps)
      /\ Items(Append(buffer, e)) = Items(buffer) \cup {e} /\ IsInjective(Append(buffer, e))
  BY <1>2, <1>3, AppendFacts DEF PostTypes, Waiting, Apart
<1>5. Worker \in Threads /\ batch[Worker] = <<>>
  BY <1>1 DEF BatchInSend, Threads
<1>6. /\ e \notin Items(received) /\ e \notin Items(buffer) /\ \A t \in Threads : e \notin Items(batch[t])
  BY <1>3 DEF Waiting, Sending
<1>7. /\ Waiting' = Waiting \cup {e} /\ PostTypes' /\ BatchInSend' /\ Apart'
  <2>1. CASE /\ buffer' = Append(buffer, e) /\ batch' = batch
             /\ hook' = [hook EXCEPT ![Worker] = "returned"]
    <3>1. PostTypes'
      BY <1>1, <1>4, <2>1 DEF PostTypes
    <3>2. BatchInSend'
      BY <1>1, <2>1 DEF BatchInSend, Control, PlaceTypes
    <3>3. Waiting' = Waiting \cup {e}
      BY <1>1, <1>4, <2>1 DEF Waiting, Sending
    <3>4. Apart'
      BY <1>1, <1>4, <1>6, <2>1 DEF Apart
    <3> QED
      BY <3>1, <3>2, <3>3, <3>4
  <2>2. CASE /\ batch' = [batch EXCEPT ![Worker] = Append(buffer, e)] /\ buffer' = <<>>
             /\ hook' = [hook EXCEPT ![Worker] = "send"]
    <3>0. batch \in [Threads -> Seq(Stamps)]
      BY DEF PostTypes
    <3>1. /\ Sending' = Sending \cup Items(buffer) \cup {e}
          /\ batch'[Worker] = Append(buffer, e)
          /\ \A u \in Threads : u # Worker => batch'[u] = batch[u]
      BY <1>4, <1>5, <2>2, <3>0, SendingChange
    <3>2. PostTypes'
      BY <1>1, <1>4, <2>2, EmptyFacts DEF PostTypes
    <3>3. BatchInSend'
      BY <1>1, <2>2 DEF BatchInSend, Control, PlaceTypes
    <3>4. Waiting' = Waiting \cup {e}
      BY <1>1, <2>2, <3>1, EmptyFacts DEF Waiting
    <3>5. Items(buffer') = {} /\ IsInjective(buffer')
      BY <2>2, EmptyFacts
    <3>6. /\ IsInjective(batch'[Worker]) /\ Items(batch'[Worker]) = Items(buffer) \cup {e}
          /\ Items(batch[Worker]) = {}
      BY <1>4, <1>5, <3>1, EmptyFacts
    <3>7. \A u \in Threads :
            /\ IsInjective(batch'[u])
            /\ Items(batch'[u]) \cap (Items(received') \cup Items(buffer')) = {}
      BY <1>1, <1>6, <3>1, <3>5, <3>6 DEF Apart
    <3>8. \A u \in Threads : u # Worker => Items(batch'[u]) \cap Items(batch'[Worker]) = {}
      BY <1>6, <3>1, <3>6 DEF Apart
    <3>9. \A t, u \in Threads : t # u => Items(batch'[t]) \cap Items(batch'[u]) = {}
      BY <3>1, <3>8 DEF Apart
    <3>10. Apart'
      BY <1>1, <3>5, <3>7, <3>9 DEF Apart
    <3> QED
      BY <3>2, <3>3, <3>4, <3>10
  <2> QED
    BY <2>1, <2>2 DEF Appends
<1>8. Written'
  BY <1>1 DEF Written
<1>9. \A i \in DOMAIN order : ~InHand(i)'
  BY <1>1 DEF InHand
<1>10. OnlyWritten'
  BY <1>1, <1>2, <1>7, <1>9 DEF OnlyWritten
<1>11. Accounted'
  BY <1>1, <1>2, <1>7, <1>9 DEF Accounted, InHand
<1> QED
  BY <1>1, <1>7, <1>8, <1>10, <1>11

(* A step that hands no new event over: what is waiting, less what is then *)
(* counted as failed.                                                       *)
LEMMA SameOrder ==
  ASSUME PostInv, Ahead' <=> Ahead, UNCHANGED <<order, lostPosts>>, Waiting' \subseteq Waiting,
         Waiting \cup failed \subseteq Waiting' \cup failed'
  PROVE  Written' /\ OnlyWritten' /\ Accounted'
<1>1. \A i : InHand(i)' <=> InHand(i)
  BY DEF InHand
<1> QED
  BY <1>1 DEF PostInv, PostKeys, Written, OnlyWritten, Accounted

LEMMA TakesKeep ==
  ASSUME PostInv, NEW t \in Threads, Takes(t), Control
  PROVE  PostInv'
<1> USE DEF PostInv, PostKeys
<1>1. /\ hook[t] = "take" /\ (Ahead' <=> Ahead)
      /\ batch' = [batch EXCEPT ![t] = buffer] /\ buffer' = <<>>
      /\ hook' = [hook EXCEPT ![t] = IF buffer = <<>> THEN "returned" ELSE "send"]
      /\ UNCHANGED <<received, failed, order, lostPosts, call>>
  BY DEF Takes
<1>2. batch[t] = <<>> /\ batch \in [Threads -> Seq(Stamps)] /\ buffer \in Seq(Stamps)
  BY <1>1 DEF BatchInSend, PostTypes
<1>3. /\ Sending' = Sending \cup Items(buffer) /\ batch'[t] = buffer
      /\ \A u \in Threads : u # t => batch'[u] = batch[u]
  BY <1>1, <1>2, SendingChange
<1>4. Items(buffer') = {} /\ IsInjective(buffer') /\ Items(batch[t]) = {} /\ buffer' \in Seq(Stamps)
  BY <1>1, <1>2, EmptyFacts
<1>5. PostTypes'
  BY <1>1, <1>2, <1>4 DEF PostTypes
<1>6. BatchInSend'
  BY <1>1, <1>2, <1>3 DEF BatchInSend, Control, PlaceTypes
<1>7. Waiting' = Waiting
  BY <1>1, <1>3, <1>4 DEF Waiting
<1>8. Apart'
  BY <1>1, <1>3, <1>4 DEF Apart
<1> QED
  BY <1>1, <1>5, <1>6, <1>7, <1>8, SameOrder

LEMMA SendsKeep ==
  ASSUME PostInv, NEW t \in Threads, Sends(t), Control
  PROVE  PostInv'
<1> USE DEF PostInv, PostKeys
<1>1. /\ hook[t] = "send" /\ (Ahead' <=> Ahead)
      /\ batch' = [batch EXCEPT ![t] = <<>>] /\ hook' = [hook EXCEPT ![t] = "returned"]
      /\ UNCHANGED <<buffer, order, lostPosts, call>>
  BY DEF Sends
<1>2. batch \in [Threads -> Seq(Stamps)] /\ batch[t] \in Seq(Stamps) /\ received \in Seq(Stamps)
  BY DEF PostTypes
<1>3. /\ batch'[t] = <<>> /\ \A u \in Threads : u # t => batch'[u] = batch[u]
  BY <1>1, <1>2
<1>4. Sending = Sending' \cup Items(batch[t])
  <2>1. batch[t] = <<>> => Items(batch[t]) = {} /\ Sending' = Sending \cup {}
    BY <1>1, <1>2, EmptyFacts, SendingChange
  <2> QED
    BY <1>1, <1>2, <2>1, SendingChange
<1>5. /\ received \o batch[t] \in Seq(Stamps)
      /\ Items(received \o batch[t]) = Items(received) \cup Items(batch[t])
      /\ IsInjective(received \o batch[t])
  BY <1>2, ConcatFacts DEF Apart
<1>6. /\ received' \in Seq(Stamps) /\ IsInjective(received')
      /\ Items(received') \subseteq Items(received) \cup Items(batch[t])
      /\ Items(received) \subseteq Items(received')
      /\ failed \subseteq failed' /\ failed' \subseteq failed \cup Items(batch[t])
      /\ Items(batch[t]) \subseteq Items(received') \cup failed'
  BY <1>2, <1>5 DEF Sends, Apart
<1>7. Items(<<>>) = {} /\ IsInjective(<<>>) /\ <<>> \in Seq(Stamps) /\ Items(batch[t]) \subseteq Stamps
  BY <1>2, EmptyFacts, SeqItems
<1>8. PostTypes'
  BY <1>1, <1>6, <1>7 DEF PostTypes
<1>9. BatchInSend'
  BY <1>1, <1>3 DEF BatchInSend, Control, PlaceTypes
<1>10. Waiting' \subseteq Waiting /\ Waiting \cup failed \subseteq Waiting' \cup failed'
  BY <1>1, <1>4, <1>6 DEF Waiting
<1>11. Apart'
  <2>1. \A u \in Threads : u # t => Items(batch[u]) \cap Items(received') = {}
    BY <1>6 DEF Apart
  <2>2. Items(received') \cap Items(buffer') = {}
    BY <1>1, <1>6 DEF Apart
  <2>3. IsInjective(received') /\ IsInjective(buffer')
    BY <1>1, <1>6 DEF Apart
  <2>4. \A u \in Threads : batch'[u] = IF u = t THEN <<>> ELSE batch[u]
    BY <1>1, <1>3
  <2>5. \A u \in Threads : /\ IsInjective(batch'[u])
                           /\ Items(batch'[u]) \cap (Items(received') \cup Items(buffer')) = {}
    BY <1>1, <1>7, <2>1, <2>4 DEF Apart
  <2>6. \A u, v \in Threads : u # v => Items(batch'[u]) \cap Items(batch'[v]) = {}
    BY <1>7, <2>4 DEF Apart
  <2> QED
    BY <2>2, <2>3, <2>5, <2>6 DEF Apart
<1> QED
  BY <1>1, <1>8, <1>9, <1>10, <1>11, SameOrder

LEMMA EmitsKeeps ==
  ASSUME PostInv, Emits
  PROVE  PostInv'
<1> USE DEF PostInv, PostKeys
<1>1. /\ ~Ahead /\ Ahead' /\ hook' = hook /\ UNCHANGED <<buffer, batch, received, failed, lostPosts>>
  BY DEF Emits
<1>2. PICK e \in Stamps \ Items(order) : order' = Append(order, e)
  BY DEF Emits
<1>3. /\ order' \in Seq(Stamps) /\ order' # <<>> /\ IsInjective(order')
      /\ DOMAIN order' = DOMAIN order \cup {Len(order) + 1} /\ Len(order') = Len(order) + 1
      /\ \A i \in DOMAIN order : order'[i] = order[i]
  BY <1>2, AppendFacts DEF Written
<1>4. Waiting' = Waiting
  BY <1>1 DEF Waiting, Sending
<1>5. DOMAIN order = 1..Len(order) /\ Len(order) \in Nat
  BY SeqItems
<1>6. \A i \in DOMAIN order : ~InHand(i) /\ ~InHand(i)'
  BY <1>1, <1>3, <1>5 DEF InHand
<1>7. \A i \in DOMAIN order' : i \in DOMAIN order \/ InHand(i)'
  BY <1>1, <1>3 DEF InHand
<1>8. OnlyWritten' /\ Accounted'
  BY <1>1, <1>3, <1>4, <1>6, <1>7 DEF OnlyWritten, Accounted
<1>9. PostTypes' /\ Written' /\ BatchInSend' /\ Apart'
  BY <1>1, <1>3 DEF PostTypes, Written, BatchInSend, Apart
<1> QED
  BY <1>1, <1>3, <1>8, <1>9

LEMMA DiesKeeps ==
  ASSUME PostInv, Dies
  PROVE  PostInv'
<1> USE DEF PostInv, PostKeys
<1>1. /\ ~Ahead' /\ buffer' = <<>> /\ batch' = [t \in Threads |-> <<>>]
      /\ lostPosts' = lostPosts \cup (Items(order) \ (Items(received) \cup failed))
      /\ UNCHANGED <<received, failed, order>>
  BY DEF Dies
<1>2. /\ Items(<<>>) = {} /\ IsInjective(<<>>) /\ <<>> \in Seq(Stamps) /\ Items(order) \subseteq Stamps
      /\ \A i \in DOMAIN order : order[i] \in Items(order)
  BY EmptyFacts, SeqItems
<1>3. Waiting' = Items(received)
  BY <1>1, <1>2 DEF Waiting, Sending
<1>4. PostTypes' /\ lostPosts' \subseteq Stamps
  BY <1>1, <1>2 DEF PostTypes
<1>5. Written' /\ BatchInSend' /\ Apart'
  BY <1>1, <1>2 DEF Written, BatchInSend, Apart
<1>6. \A i : ~InHand(i)'
  BY <1>1 DEF InHand
<1>7. OnlyWritten' /\ Accounted'
  BY <1>1, <1>2, <1>3, <1>6 DEF OnlyWritten, Accounted, Waiting
<1> QED
  BY <1>1, <1>4, <1>5, <1>7

LEMMA PostStep ==
  ASSUME PostInv, Control, late \in BOOLEAN, [Next]_vars
  PROVE  PostInv'
<1>1. CASE Keeps
  <2>1. Waiting' = Waiting
    BY <1>1 DEF Keeps, Waiting, Sending
  <2>2. Written' /\ OnlyWritten' /\ Accounted'
    BY <1>1, <2>1, SameOrder DEF Keeps
  <2> QED
    BY <1>1, <2>2 DEF Keeps, PostInv, PostKeys, PostTypes, BatchInSend, Apart
<1> QED
  BY <1>1, AppendsKeep, TakesKeep, SendsKeep, EmitsKeeps, DiesKeeps, PostMoves DEF PostMove, Posting
-----------------------------------------------------------------------------
(* The events that wait stand in the order they were written in.           *)

LEMMA OrderAlongAppend ==
  ASSUME NEW o \in Seq(Stamps), NEW e \in Stamps
  PROVE  /\ \A x, y : Before(o, x, y) => Before(Append(o, e), x, y)
         /\ \A s : Ordered(o, s) => Ordered(Append(o, e), s)
         /\ \A s, u : Precedes(o, s, u) => Precedes(Append(o, e), s, u)
<1>1. \A x, y : Before(o, x, y) => Before(Append(o, e), x, y)
  BY AppendFacts DEF Before
<1> QED
  BY <1>1 DEF Ordered, Precedes

LEMMA InOrderStep ==
  ASSUME PostInv, InOrder, Control, late \in BOOLEAN, ~late', [Next]_vars
  PROVE  InOrder'
<1> USE DEF PostInv, PostKeys, PostTypes
<1>0. PostMove
  BY PostMoves
<1>1. ~late
  BY <1>0 DEF PostMove, Posting, Appends, Takes, Sends, Emits, Dies, Keeps
<1>2. /\ Ordered(order, received) /\ Ordered(order, buffer) /\ Precedes(order, received, buffer)
      /\ \A t \in Threads : /\ Ordered(order, batch[t])
                            /\ Precedes(order, received, batch[t])
                            /\ Precedes(order, batch[t], buffer)
  BY <1>1 DEF InOrder
<1>3. /\ \A o : Ordered(o, <<>>)
      /\ \A o, s : Precedes(o, s, <<>>) /\ Precedes(o, <<>>, s)
  BY EmptyFacts
<1>4. ASSUME Appends  PROVE InOrder'
  <2> DEFINE e == Last(order)
  <2>1. Ahead /\ hook[Worker] = "append" /\ UNCHANGED <<received, order>>
    BY <1>4 DEF Appends
  <2>2. e \in Stamps /\ Len(order) \in DOMAIN order /\ order[Len(order)] = e /\ DOMAIN order = 1..Len(order)
        /\ Len(order) \in Nat
    BY <2>1, SeqItems DEF Written
  <2>3. \A x \in Waiting : Before(order, x, e)
    <3> SUFFICES ASSUME NEW x \in Waiting  PROVE Before(order, x, e)
      OBVIOUS
    <3>1. PICK i \in DOMAIN order : order[i] = x /\ ~InHand(i)
      BY DEF OnlyWritten
    <3>2. i < Len(order)
      BY <2>1, <2>2, <3>1 DEF InHand
    <3> QED
      BY <2>2, <3>1, <3>2 DEF Before
  <2>4. <<e>> \in Seq(Stamps) /\ Append(buffer, e) = buffer \o <<e>> /\ Items(<<e>>) = {e}
        /\ \A o : Ordered(o, <<e>>)
    <3>1. DOMAIN <<e>> = {1} /\ <<e>>[1] = e
      OBVIOUS
    <3> QED
      BY <2>2, <3>1 DEF Items, Ordered
  <2>5. /\ Precedes(order, buffer, <<e>>) /\ Precedes(order, received, <<e>>)
        /\ \A t \in Threads : Precedes(order, batch[t], <<e>>)
    BY <2>3, <2>4 DEF Precedes, Waiting, Sending
  <2>6. /\ Ordered(order, Append(buffer, e))
        /\ Items(Append(buffer, e)) = Items(buffer) \cup {e}
    <3>1. PICK u \in Seq(Stamps) : u = <<e>>
      BY <2>4
    <3>2. /\ Items(buffer \o u) = Items(buffer) \cup Items(u)
          /\ \A o : Ordered(o, buffer) /\ Ordered(o, u) /\ Precedes(o, buffer, u)
                   => Ordered(o, buffer \o u)
      <4>1. buffer \in Seq(Stamps)
        OBVIOUS
      <4> QED
        BY <4>1, ConcatFacts
    <3>3. Ordered(order, u) /\ Precedes(order, buffer, u) /\ Items(u) = {e}
      BY <2>4, <2>5, <3>1
    <3>4. Append(buffer, e) = buffer \o u
      BY <2>4, <3>1
    <3> HIDE DEF e
    <3> QED
      BY <1>2, <3>2, <3>3, <3>4
  <2>7. /\ Precedes(order, received, Append(buffer, e))
        /\ \A t \in Threads : Precedes(order, batch[t], Append(buffer, e))
    BY <1>2, <2>4, <2>5, <2>6 DEF Precedes
  <2>8. CASE buffer' = Append(buffer, e) /\ batch' = batch
    BY <1>2, <2>1, <2>6, <2>7, <2>8 DEF InOrder
  <2>9. CASE batch' = [batch EXCEPT ![Worker] = Append(buffer, e)] /\ buffer' = <<>>
    <3>1. \A t \in Threads : batch'[t] = IF t = Worker THEN Append(buffer, e) ELSE batch[t]
      BY <2>9
    <3> QED
      BY <1>2, <1>3, <2>1, <2>6, <2>7, <2>9, <3>1 DEF InOrder
  <2> QED
    BY <1>4, <2>8, <2>9 DEF Appends
<1>5. ASSUME NEW t \in Threads, Takes(t)  PROVE InOrder'
  <2>1. /\ \A u \in Threads : batch'[u] = IF u = t THEN buffer ELSE batch[u]
        /\ buffer' = <<>> /\ UNCHANGED <<received, order>>
    BY <1>5 DEF Takes
  <2> QED
    BY <1>2, <1>3, <2>1 DEF InOrder
<1>6. ASSUME NEW t \in Threads, Sends(t)  PROVE InOrder'
  <2>1. /\ \A u \in Threads : batch'[u] = IF u = t THEN <<>> ELSE batch[u]
        /\ received' \in {received, received \o batch[t]} /\ UNCHANGED <<buffer, order>>
        /\ hook[t] = "send"
    BY <1>6 DEF Sends
  <2>2. \A u \in Threads : u # t => batch[u] = <<>>
    <3>1. call[t] # "none"
      BY <2>1 DEF Control, OnePlace
    <3> QED
      BY <1>1, <3>1, OneActive DEF BatchInSend
  <2>3. batch[t] \in Seq(Stamps) /\ received \in Seq(Stamps)
    OBVIOUS
  <2>4. /\ Items(received \o batch[t]) = Items(received) \cup Items(batch[t])
        /\ Ordered(order, received \o batch[t])
    BY <1>2, <2>3, ConcatFacts
  <2>5. Precedes(order, received \o batch[t], buffer)
    BY <1>2, <2>4 DEF Precedes
  <2>6. Ordered(order, received') /\ Precedes(order, received', buffer)
    BY <1>2, <2>1, <2>4, <2>5
  <2>7. \A u \in Threads : batch'[u] = <<>>
    BY <2>1, <2>2
  <2> QED
    BY <1>2, <1>3, <2>1, <2>6, <2>7 DEF InOrder
<1>7. ASSUME Emits  PROVE InOrder'
  <2>1. PICK e \in Stamps : order' = Append(order, e)
    BY <1>7 DEF Emits
  <2>2. UNCHANGED <<buffer, batch, received>>
    BY <1>7 DEF Emits
  <2> QED
    BY <1>2, <2>1, <2>2, OrderAlongAppend DEF InOrder
<1>8. ASSUME Dies  PROVE InOrder'
  <2>1. buffer' = <<>> /\ UNCHANGED <<received, order>> /\ \A t \in Threads : batch'[t] = <<>>
    BY <1>8 DEF Dies
  <2> QED
    BY <1>2, <1>3, <2>1 DEF InOrder
<1>9. ASSUME Keeps  PROVE InOrder'
  BY <1>2, <1>9 DEF Keeps, InOrder
<1> QED
  BY <1>0, <1>4, <1>5, <1>6, <1>7, <1>8, <1>9 DEF PostMove, Posting

LEMMA InOrderStart ==
  ASSUME Init  PROVE InOrder /\ Emptied
BY EmptyFacts DEF Init, WebhookInit, InOrder, Emptied, Finished

(* The last flush finds what is left. *)
LEMMA EmptiedStep ==
  ASSUME Emptied, Control, late \in BOOLEAN, running \in BOOLEAN, [Next]_vars
  PROVE  Emptied'
<1> SUFFICES ASSUME ~late', Finished'  PROVE buffer' = <<>>
  BY DEF Emptied
<1>0. PostMove /\ Worker \in Threads /\ Closer \in Threads
  BY PostMoves DEF Threads
<1>1. ~late
  BY <1>0 DEF PostMove, Posting, Appends, Takes, Sends, Emits, Dies, Keeps
<1>2. PlaceTypes /\ OnePlace /\ Callers /\ CloserWaits
  BY DEF Control
<1>3. ASSUME NEW t \in Threads, Takes(t)  PROVE buffer' = <<>>
  BY <1>3 DEF Takes
<1>4. ASSUME NEW t \in Threads, Sends(t)  PROVE buffer' = <<>>
  <2>1. closerAt = "done" /\ hook[t] = "send" /\ buffer' = buffer
    BY <1>4 DEF Sends, Finished
  <2>2. t = Closer
    BY <1>1, <1>2, <2>1 DEF OnePlace, CloserWaits, Threads
  <2> QED
    BY <1>1, <2>1, <2>2 DEF Emptied, Finished
<1>5. ASSUME Appends  PROVE buffer' = <<>>
  <2>1. closerAt = "done" /\ call[Worker] = "write"
    BY <1>5 DEF Appends, Ahead, Finished
  <2> QED
    BY <1>1, <1>2, <2>1 DEF CloserWaits
<1>6. ASSUME Emits  PROVE buffer' = <<>>
  <2>1. running /\ closerAt = "done"
    BY <1>6 DEF Emits, Finished
  <2> QED
    BY <1>1, <1>2, <2>1 DEF CloserWaits
<1>7. ASSUME Dies  PROVE buffer' = <<>>
  BY <1>7 DEF Dies, Finished
<1>8. ASSUME Keeps  PROVE buffer' = <<>>
  BY <1>1, <1>8 DEF Keeps, Emptied
<1> QED
  BY <1>0, <1>3, <1>4, <1>5, <1>6, <1>7, <1>8 DEF PostMove, Posting
-----------------------------------------------------------------------------
(* What the runs check of the webhook.                                     *)

LEMMA OnceFromInv ==
  ASSUME PostInv
  PROVE  ReachesWebhookOnce
<1> USE DEF PostInv, PostKeys, PostTypes
<1> DEFINE w == batch[Worker]
           c == batch[Closer]
           queued == received \o w \o c \o buffer
<1>1. /\ received \in Seq(Stamps) /\ w \in Seq(Stamps) /\ c \in Seq(Stamps) /\ buffer \in Seq(Stamps)
      /\ Worker \in Threads /\ Closer \in Threads
  BY DEF Threads
<1>2. /\ IsInjective(received) /\ IsInjective(w) /\ IsInjective(c) /\ IsInjective(buffer)
      /\ Items(received) \cap Items(buffer) = {}
      /\ Items(w) \cap (Items(received) \cup Items(buffer)) = {}
      /\ Items(c) \cap (Items(received) \cup Items(buffer)) = {}
      /\ Items(w) \cap Items(c) = {}
  BY <1>1, ThreadsAssumption DEF Apart
<1>5. /\ IsInjective(queued)
      /\ Items(queued) = Items(received) \cup Items(w) \cup Items(c) \cup Items(buffer)
  <2>1. SUFFICES ASSUME NEW a \in Seq(Stamps), NEW b \in Seq(Stamps), NEW e \in Seq(Stamps),
                        NEW d \in Seq(Stamps), received = a, w = b, c = e, buffer = d
                 PROVE  /\ IsInjective(a \o b \o e \o d)
                        /\ Items(a \o b \o e \o d) = Items(a) \cup Items(b) \cup Items(e) \cup Items(d)
    BY <1>1
  <2> DEFINE Distinct(s) == s \in Seq(Stamps) /\ IsInjective(s)
             ab  == a \o b
             abe == ab \o e
  <2>2. ASSUME NEW s, NEW u, Distinct(s), Distinct(u), Items(s) \cap Items(u) = {}
        PROVE  Distinct(s \o u) /\ Items(s \o u) = Items(s) \cup Items(u)
    BY <2>2, ConcatFacts
  <2>3. /\ Distinct(a) /\ Distinct(b) /\ Distinct(e) /\ Distinct(d)
        /\ Items(a) \cap Items(d) = {} /\ Items(b) \cap (Items(a) \cup Items(d)) = {}
        /\ Items(e) \cap (Items(a) \cup Items(d)) = {} /\ Items(b) \cap Items(e) = {}
    BY <1>2, <2>1
  <2> HIDE DEF Distinct
  <2>4. Distinct(ab) /\ Items(ab) = Items(a) \cup Items(b)
    BY <2>2, <2>3
  <2> HIDE DEF ab
  <2>5. Distinct(abe) /\ Items(abe) = Items(a) \cup Items(b) \cup Items(e)
    <3>1. Items(ab) \cap Items(e) = {}
      BY <2>3, <2>4
    <3> QED
      BY <2>2, <2>3, <2>4, <3>1
  <2> HIDE DEF abe
  <2>6. /\ Distinct(abe \o d)
        /\ Items(abe \o d) = Items(a) \cup Items(b) \cup Items(e) \cup Items(d)
    <3>1. Items(abe) \cap Items(d) = {}
      BY <2>3, <2>5
    <3> QED
      BY <2>2, <2>3, <2>5, <3>1
  <2> QED
    BY <2>6 DEF ab, abe, Distinct
<1>6. Waiting = Items(queued)
  BY <1>1, <1>5 DEF Waiting, Sending, Threads
<1>7. CASE Ahead
  <2>1. order # <<>> /\ Len(order) \in Nat \ {0} /\ DOMAIN order = 1..Len(order)
    BY <1>7, SeqItems DEF Written
  <2>2. Front(order) = [i \in 1..(Len(order) - 1) |-> order[i]]
    BY <2>1 DEF Front
  <2>3. DOMAIN Front(order) = 1..(Len(order) - 1)
    BY <2>1, <2>2
  <2>4. \A i \in DOMAIN Front(order) : i \in DOMAIN order /\ i # Len(order) /\ Front(order)[i] = order[i]
    BY <2>1, <2>2, <2>3
  <2>5. \A i \in DOMAIN Front(order) : Front(order)[i] \in Items(queued) \cup failed \cup lostPosts
    BY <1>6, <2>4 DEF Accounted, InHand
  <2>6. Items(Front(order)) \subseteq Items(queued) \cup failed \cup lostPosts
    BY <2>5 DEF Items
  <2> QED
    BY <1>5, <1>7, <2>6 DEF ReachesWebhookOnce, Ahead
<1>8. CASE ~Ahead
  <2>1. Items(order) \subseteq Items(queued) \cup failed \cup lostPosts
    BY <1>6, <1>8 DEF Items, Accounted, InHand
  <2> QED
    BY <1>5, <1>8, <2>1 DEF ReachesWebhookOnce, Ahead
<1> QED
  BY <1>7, <1>8

LEMMA SentFromInv ==
  ASSUME InOrder
  PROVE  SentInOrder
BY DEF InOrder, SentInOrder, Ordered, Before

LEMMA NothingLeftFromInv ==
  ASSUME PostInv, Emptied, Control
  PROVE  NothingLeftBehind
<1> SUFFICES ASSUME ~late, closerAt = "done", call[Closer] = "none"
             PROVE  Items(order) \subseteq Items(received) \cup failed \cup lostPosts
  BY DEF NothingLeftBehind
<1>1. buffer = <<>>
  BY DEF Emptied, Finished
<1>2. \A t \in Threads : call[t] = "none" /\ hook[t] = "out"
  BY DEF Control, CloserWaits, OnePlace, Threads
<1>3. ~Ahead /\ \A t \in Threads : batch[t] = <<>>
  BY <1>2 DEF Ahead, Threads, PostInv, PostKeys, BatchInSend
<1>4. Waiting = Items(received)
  BY <1>1, <1>3, EmptyFacts DEF Waiting, Sending
<1> QED
  BY <1>3, <1>4 DEF PostInv, Accounted, InHand, Items

HookInv == Control /\ FlagTypes /\ PostInv /\ InOrder /\ Emptied

LEMMA HookAlways == Spec => []HookInv
<1>1. Init => HookInv
  BY ControlStart, PostStart, InOrderStart DEF HookInv
<1>2. HookInv /\ [Next]_vars => HookInv'
  <2> SUFFICES ASSUME HookInv, [Next]_vars  PROVE HookInv'
    OBVIOUS
  <2>1. late \in BOOLEAN /\ running \in BOOLEAN /\ late' \in BOOLEAN /\ PlaceTypes
    <3>1. FlagTypes'
      BY FlagStep DEF HookInv, Control
    <3> QED
      BY <3>1 DEF HookInv, FlagTypes, Control
  <2>2. Control' /\ FlagTypes' /\ PostInv' /\ Emptied'
    BY <2>1, ControlStep, FlagStep, PostStep, EmptiedStep DEF HookInv
  <2>3. InOrder'
    <3>1. CASE late'
      BY <3>1 DEF InOrder
    <3>2. CASE ~late'
      BY <2>1, <3>2, InOrderStep DEF HookInv
    <3> QED
      BY <3>1, <3>2
  <2> QED
    BY <2>2, <2>3 DEF HookInv
<1> QED
  BY <1>1, <1>2, PTL DEF Spec

(* The webhook misses no event and sends none twice, whatever SQLite did   *)
(* with it, whoever flushes and whatever fails.                             *)
THEOREM WebhookOnce == Spec => []ReachesWebhookOnce
<1>1. HookInv => ReachesWebhookOnce
  BY OnceFromInv DEF HookInv
<1> QED
  BY <1>1, HookAlways, PTL

(* The endpoint receives the events in the order they were written. *)
THEOREM Sent == Spec => []SentInOrder
<1>1. HookInv => SentInOrder
  BY SentFromInv DEF HookInv
<1> QED
  BY <1>1, HookAlways, PTL

(* A shutdown whose join was in time leaves nothing in the buffer. *)
THEOREM NothingLeft == Spec => []NothingLeftBehind
<1>1. HookInv => NothingLeftBehind
  BY NothingLeftFromInv DEF HookInv
<1> QED
  BY <1>1, HookAlways, PTL
-----------------------------------------------------------------------------
(* Finite sets of numbers.                                                 *)

LEMMA LeastNumber ==
  ASSUME NEW S \in SUBSET Nat, S # {}
  PROVE  \E x \in S : \A y \in S : x <= y
<1>1. PICK x \in S : \A y \in S : ~(<<y, x>> \in OpToRel(<, Nat))
  BY NatLessThanWellFounded, WFMin
<1>2. \A y \in S : ~(y < x)
  BY <1>1 DEF OpToRel
<1> QED
  BY <1>2

LEMMA GreatestExists ==
  ASSUME NEW S \in SUBSET Nat, IsFiniteSet(S), S # {}
  PROVE  \E m \in S : \A y \in S : y <= m
<1> DEFINE HasMax(T) == \E m \in T : \A y \in T : y <= m
           Sets(n) == {T \in SUBSET Nat : IsFiniteSet(T) /\ T # {} /\ Cardinality(T) = n}
           Bad == {n \in Nat : \E T \in Sets(n) : ~HasMax(T)}
<1>1. SUFFICES ASSUME ~HasMax(S)  PROVE FALSE
  OBVIOUS
<1>2. Cardinality(S) \in Bad
  <2>1. Cardinality(S) \in Nat
    BY FS_CardinalityType
  <2> QED
    BY <1>1, <2>1
<1>3. PICK n \in Bad : \A k \in Bad : n <= k
  <2>1. Bad \in SUBSET Nat /\ Bad # {}
    BY <1>2
  <2> HIDE DEF Bad
  <2> QED
    BY <2>1, LeastNumber
<1>4. PICK T \in Sets(n) : ~HasMax(T)
  BY <1>3
<1>5. PICK x \in T : TRUE
  BY <1>4
<1>6. /\ T \ {x} \in SUBSET Nat /\ IsFiniteSet(T \ {x}) /\ Cardinality(T \ {x}) = n - 1
      /\ n - 1 \in Nat
  <2>1. IsFiniteSet(T) /\ Cardinality(T) = n /\ T \in SUBSET Nat
    BY <1>4
  <2>2. IsFiniteSet(T \ {x}) /\ Cardinality(T \ {x}) = Cardinality(T) - 1
    BY <1>5, <2>1, FS_RemoveElement
  <2>3. Cardinality(T \ {x}) \in Nat
    BY <2>2, FS_CardinalityType
  <2> QED
    BY <2>1, <2>2, <2>3
<1>7. n - 1 \notin Bad
  BY <1>3, <1>6
<1>8. T \ {x} = {} \/ HasMax(T \ {x})
  BY <1>6, <1>7
<1>9. HasMax(T)
  <2>1. x \in Nat /\ \A y \in T : y \in Nat
    BY <1>4, <1>5
  <2>2. CASE T \ {x} = {}
    <3>1. \A y \in T : y <= x
      BY <2>1, <2>2
    <3> QED
      BY <1>5, <3>1
  <2>3. CASE HasMax(T \ {x})
    <3>1. PICK m \in T \ {x} : \A y \in T \ {x} : y <= m
      BY <2>3
    <3>2. CASE x <= m
      <4>1. \A y \in T : y <= m
        BY <3>1, <3>2
      <4> QED
        BY <3>1, <4>1
    <3>3. CASE m < x
      <4>1. \A y \in T : y <= x
        BY <2>1, <3>1, <3>3
      <4> QED
        BY <1>5, <4>1
    <3> QED
      BY <2>1, <3>1, <3>2, <3>3
  <2> QED
    BY <1>8, <2>2, <2>3
<1> QED
  BY <1>4, <1>9

LEMMA MaxFacts ==
  ASSUME NEW S \in SUBSET Nat, IsFiniteSet(S), S # {}
  PROVE  Max(S) \in S /\ Max(S) \in Nat /\ \A y \in S : y <= Max(S)
<1>1. PICK m \in S : \A y \in S : m >= y
  BY GreatestExists
<1>2. Max(S) \in S /\ \A y \in S : Max(S) >= y
  BY <1>1 DEF Max
<1> QED
  BY <1>2

LEMMA SubsetCard ==
  ASSUME NEW T, IsFiniteSet(T), NEW S \in SUBSET T
  PROVE  /\ IsFiniteSet(S) /\ Cardinality(S) \in Nat /\ Cardinality(T) \in Nat
         /\ Cardinality(S) <= Cardinality(T)
         /\ Cardinality(S) = Cardinality(T) => S = T
<1>1. IsFiniteSet(S) /\ Cardinality(S) <= Cardinality(T)
  BY FS_Subset
<1>2. Cardinality(S) \in Nat /\ Cardinality(T) \in Nat
  BY <1>1, FS_CardinalityType
<1>3. Cardinality(S) = Cardinality(T) => S = T
  BY FS_Subset
<1> QED
  BY <1>1, <1>2, <1>3

LEMMA OneMoreCard ==
  ASSUME NEW T, IsFiniteSet(T), NEW x, x \notin T
  PROVE  IsFiniteSet(T \cup {x}) /\ Cardinality(T \cup {x}) = Cardinality(T) + 1
BY FS_AddElement

(* The rows with the n least values: n of them, and less than the others.  *)
Older(f, r)  == {q \in DOMAIN f : f[q] < f[r]}
Oldest(f, n) == {r \in DOMAIN f : Cardinality(Older(f, r)) < n}

LEMMA OlderFacts ==
  ASSUME NEW f, f \in [DOMAIN f -> Nat], IsFiniteSet(DOMAIN f), NEW r \in DOMAIN f
  PROVE  /\ IsFiniteSet(Older(f, r)) /\ Cardinality(Older(f, r)) \in Nat
         /\ \A q \in DOMAIN f : Cardinality(Older(f, q)) < Cardinality(Older(f, r)) => f[q] < f[r]
<1>1. ASSUME NEW q \in DOMAIN f
      PROVE  IsFiniteSet(Older(f, q)) /\ Cardinality(Older(f, q)) \in Nat
  <2>1. Older(f, q) \in SUBSET DOMAIN f
    BY DEF Older
  <2> QED
    BY <2>1, SubsetCard
<1>2. ASSUME NEW q \in DOMAIN f, ~(f[q] < f[r])
      PROVE  Cardinality(Older(f, r)) <= Cardinality(Older(f, q))
  <2>1. f[q] \in Nat /\ f[r] \in Nat /\ \A p \in DOMAIN f : f[p] \in Nat
    OBVIOUS
  <2>2. Older(f, r) \in SUBSET Older(f, q)
    BY <1>2, <2>1 DEF Older
  <2> QED
    BY <1>1, <2>2, SubsetCard
<1>3. \A q \in DOMAIN f : Cardinality(Older(f, q)) < Cardinality(Older(f, r)) => f[q] < f[r]
  BY <1>1, <1>2
<1> QED
  BY <1>1, <1>3

LEMMA OldestStep ==
  ASSUME NEW f, f \in [DOMAIN f -> Nat], IsFiniteSet(DOMAIN f), IsInjective(f), NEW n \in Nat,
         n + 1 <= Cardinality(DOMAIN f), Cardinality(Oldest(f, n)) = n
  PROVE  Cardinality(Oldest(f, n + 1)) = n + 1
<1> DEFINE D == DOMAIN f
           O == Oldest(f, n)
<1>1. O \in SUBSET D /\ IsFiniteSet(O) /\ Cardinality(D) \in Nat
  <2>1. O \in SUBSET D
    BY DEF Oldest
  <2> QED
    BY <2>1, SubsetCard
<1>2. \A q \in D : f[q] \in Nat
  OBVIOUS
<1>3. D \ O # {}
  BY <1>1
<1>4. PICK r \in D \ O : \A q \in D \ O : f[r] <= f[q]
  <2> DEFINE V == {f[q] : q \in D \ O}
  <2>1. V \in SUBSET Nat /\ V # {}
    BY <1>2, <1>3
  <2>2. PICK x \in V : \A y \in V : x <= y
    <3> HIDE DEF V
    <3> QED
      BY <2>1, LeastNumber
  <2> QED
    BY <2>2
<1>5. \A q \in D : IsFiniteSet(Older(f, q)) /\ Cardinality(Older(f, q)) \in Nat
  BY OlderFacts
<1>6. ASSUME NEW q \in D \ O  PROVE O \subseteq Older(f, q)
  <2>1. \A p \in O : Cardinality(Older(f, p)) < Cardinality(Older(f, q))
    BY <1>5 DEF Oldest
  <2>2. \A p \in O : f[p] < f[q]
    BY <1>1, <2>1, OlderFacts
  <2> QED
    BY <1>1, <2>2 DEF Older
<1>7. Older(f, r) = O
  <2>1. \A q \in Older(f, r) : q \in O
    BY <1>2, <1>4 DEF Older
  <2> QED
    BY <1>4, <1>6, <2>1
<1>8. ASSUME NEW q \in D \ O, q # r  PROVE ~(Cardinality(Older(f, q)) < n + 1)
  <2>1. f[r] < f[q]
    BY <1>2, <1>4, <1>8 DEF IsInjective
  <2>2. O \cup {r} \in SUBSET Older(f, q)
    BY <1>4, <1>6, <1>8, <2>1 DEF Older
  <2>3. Cardinality(O \cup {r}) = n + 1
    BY <1>1, <1>4, OneMoreCard
  <2>4. Cardinality(O \cup {r}) <= Cardinality(Older(f, q))
    BY <1>5, <2>2, SubsetCard
  <2> QED
    BY <1>5, <2>3, <2>4
<1>9. Oldest(f, n + 1) = O \cup {r}
  <2>1. O \subseteq Oldest(f, n + 1)
    BY <1>5 DEF Oldest
  <2>2. Cardinality(Older(f, r)) < n + 1
    BY <1>7
  <2>3. r \in Oldest(f, n + 1)
    BY <2>2, <1>4 DEF Oldest
  <2>4. \A q \in Oldest(f, n + 1) : q \in O \cup {r}
    BY <1>8 DEF Oldest
  <2> QED
    BY <2>1, <2>3, <2>4
<1> QED
  BY <1>1, <1>4, <1>9, OneMoreCard

LEMMA OldestFacts ==
  ASSUME NEW f, f \in [DOMAIN f -> Nat], IsFiniteSet(DOMAIN f), IsInjective(f), NEW n \in Nat,
         n <= Cardinality(DOMAIN f)
  PROVE  /\ Cardinality(Oldest(f, n)) = n /\ Oldest(f, n) \subseteq DOMAIN f
         /\ \A g \in Oldest(f, n), k \in DOMAIN f \ Oldest(f, n) : f[g] < f[k]
         /\ IsFiniteSet(DOMAIN f \ Oldest(f, n))
         /\ Cardinality(DOMAIN f \ Oldest(f, n)) = Cardinality(DOMAIN f) - n
<1>1. Cardinality(Oldest(f, n)) = n
  <2> DEFINE Bad == {k \in Nat : k <= Cardinality(DOMAIN f) /\ Cardinality(Oldest(f, k)) # k}
  <2>1. SUFFICES ASSUME Bad # {}  PROVE FALSE
    OBVIOUS
  <2>2. PICK k \in Bad : \A j \in Bad : k <= j
    <3>1. Bad \in SUBSET Nat
      OBVIOUS
    <3> HIDE DEF Bad
    <3> QED
      BY <2>1, <3>1, LeastNumber
  <2>3. Cardinality(DOMAIN f) \in Nat
    BY FS_CardinalityType
  <2>4. CASE k = 0
    <3>1. Oldest(f, 0) = {}
      BY OlderFacts DEF Oldest
    <3> QED
      BY <2>2, <2>4, <3>1, FS_EmptySet
  <2>5. CASE k # 0
    <3>1. k - 1 \in Nat /\ k - 1 \notin Bad /\ (k - 1) + 1 = k
      BY <2>2, <2>5
    <3>2. Cardinality(Oldest(f, k - 1)) = k - 1 /\ (k - 1) + 1 <= Cardinality(DOMAIN f)
      BY <2>2, <2>3, <3>1
    <3> QED
      BY <2>2, <3>1, <3>2, OldestStep
  <2> QED
    BY <2>4, <2>5
<1>2. Oldest(f, n) \in SUBSET DOMAIN f
  BY DEF Oldest
<1>3. ASSUME NEW g \in Oldest(f, n), NEW k \in DOMAIN f \ Oldest(f, n)
      PROVE  f[g] < f[k]
  <2>1. Cardinality(Older(f, g)) \in Nat /\ Cardinality(Older(f, k)) \in Nat
    BY <1>2, OlderFacts
  <2>2. Cardinality(Older(f, g)) < Cardinality(Older(f, k))
    BY <2>1 DEF Oldest
  <2> QED
    BY <1>2, <2>2, OlderFacts
<1>4. /\ IsFiniteSet(DOMAIN f \ Oldest(f, n))
      /\ Cardinality(DOMAIN f \ Oldest(f, n)) = Cardinality(DOMAIN f) - n
  <2>1. DOMAIN f \cap Oldest(f, n) = Oldest(f, n)
    BY <1>2
  <2>2. Cardinality(DOMAIN f \ Oldest(f, n))
          = Cardinality(DOMAIN f) - Cardinality(DOMAIN f \cap Oldest(f, n))
    BY FS_Difference
  <2>3. DOMAIN f \ Oldest(f, n) \in SUBSET DOMAIN f
    OBVIOUS
  <2> QED
    BY <1>1, <2>1, <2>2, <2>3, SubsetCard
<1> QED
  BY <1>1, <1>2, <1>3, <1>4
-----------------------------------------------------------------------------
(* The database's part of a step.                                          *)

WayOnly(t, from, to) ==
  Way(t) = from /\ Way(t)' = to /\ \A u \in Threads : u # t => Way(u)' = Way(u)
sameRows   == <<table, committed, deleted, pruned>>
sameLosses == <<missed, lostRows>>
sameReader == <<lastRow, shown>>

WithRow(e) ==
  [r \in DOMAIN table \cup {NextRowid} |-> IF r \in DOMAIN table THEN table[r] ELSE e]
Inserts ==
  /\ WayOnly(Worker, "insert", "none") /\ sql[Worker] = "insert" /\ connected
  /\ table' = WithRow(Last(order))
  /\ UNCHANGED <<committed, deleted, pruned, connected, excess, order, sameLosses, sameReader>>
Counts(t) ==
  /\ MaxRows > 0 /\ sql[t] = "count"
  /\ \/ /\ Cardinality(DOMAIN table) > MaxRows
        /\ excess' = [excess EXCEPT ![t] = Cardinality(DOMAIN table) - MaxRows]
        /\ WayOnly(t, "none", "delete")
     \/ /\ ~(Cardinality(DOMAIN table) > MaxRows)
        /\ excess' = excess
        /\ WayOnly(t, "none", "commit") \/ WayOnly(t, "none", "none")
  /\ UNCHANGED <<sameRows, connected, order, sameLosses, sameReader>>
Deletes(t) ==
  /\ MaxRows > 0 /\ sql[t] = "delete" /\ connected
  /\ WayOnly(t, "delete", "commitPrune")
  /\ LET gone == Oldest(table, excess[t]) IN
       /\ table' = [r \in DOMAIN table \ gone |-> table[r]]
       /\ deleted' = deleted \cup {table[r] : r \in gone}
  /\ UNCHANGED <<committed, pruned, connected, excess, order, sameLosses, sameReader>>
Publishes(t) ==
  /\ sql[t] \in {"commitPrune", "commit"} /\ (sql[t] = "commitPrune" => MaxRows > 0)
  /\ \E to \in {"none", "commit", "shut"} :
       WayOnly(t, Way(t), to) /\ (to = "commit" => sql[t] = "commitPrune")
  /\ Publish /\ table' = table
  /\ UNCHANGED <<connected, excess, order, sameLosses, sameReader>>
Shuts(t) ==
  /\ sql[t] = "shut" /\ WayOnly(t, "shut", "none")
  /\ connected' = FALSE /\ table' = committed /\ deleted' = {}
  /\ UNCHANGED <<committed, pruned, excess, order, sameLosses, sameReader>>
Fails(t) ==
  /\ \E from \in {"insert", "delete", "commitPrune", "commit", "none"} : WayOnly(t, from, "none")
  /\ missed' = IF sql[t] = "insert" THEN missed \cup {Last(order)} ELSE missed
  /\ sql[t] # "shut"
  /\ UNCHANGED <<sameRows, connected, excess, order, lostRows, sameReader>>
RollsBack(t) ==
  /\ \E from \in {"insert", "delete", "commitPrune", "commit", "none"} : WayOnly(t, from, "none")
  /\ sql[t] \in {"insert", "count", "delete", "commitPrune", "commit"} /\ connected
  /\ table' = committed /\ deleted' = {}
  /\ missed' = IF sql[t] = "insert" THEN missed \cup {Last(order)} ELSE missed
  /\ lostRows' = lostRows \cup ((Rows(table) \cup deleted) \ Rows(committed))
  /\ UNCHANGED <<committed, pruned, connected, excess, order, sameReader>>
Receives ==
  /\ WayOnly(Worker, "none", "insert")
  /\ \E e \in Stamps \ Items(order) : order' = Append(order, e)
  /\ UNCHANGED <<sameRows, connected, excess, sameLosses, sameReader>>
DbDies ==
  /\ table' = committed /\ deleted' = {} /\ connected' = TRUE
  /\ excess' = [t \in Threads |-> 0]
  /\ \A t \in Threads : Way(t)' = "none"
  /\ lostRows' = lostRows \cup (Items(order) \ (Rows(committed) \cup pruned \cup missed))
  /\ UNCHANGED <<committed, pruned, order, missed, sameReader>>
Polls ==
  /\ Poll /\ \A t \in Threads : Way(t)' = Way(t)
  /\ UNCHANGED <<sameRows, connected, excess, order, sameLosses>>
DbKeeps ==
  /\ \A t \in Threads : Way(t)' = Way(t)
  /\ UNCHANGED <<sameRows, connected, excess, order, sameLosses, sameReader>>

DbStep(t) ==
  Counts(t) \/ Deletes(t) \/ Publishes(t) \/ Shuts(t) \/ Fails(t) \/ RollsBack(t)
DbMove == Inserts \/ (\E t \in Threads : DbStep(t)) \/ Receives \/ DbDies \/ Polls \/ DbKeeps

LEMMA WayChange ==
  ASSUME PlaceTypes, NEW t \in Threads, NEW p \in SqlPlaces, sql' = [sql EXCEPT ![t] = p]
  PROVE  WayOnly(t, Way(t), IF p \in {"insert", "delete", "commitPrune", "shut"} THEN p
                            ELSE IF p = "commit" /\ MaxRows > 0 THEN "commit" ELSE "none")
BY DEF Way, WayOnly, PlaceTypes

LEMMA WaySame ==
  ASSUME PlaceTypes, NEW t \in Threads, WayOnly(t, Way(t), Way(t))
  PROVE  \A u \in Threads : Way(u)' = Way(u)
BY DEF WayOnly

LEMMA DbMoves ==
  ASSUME Control, [Next]_vars
  PROVE  DbMove
<1> USE DEF SqlGoto, lifeVars, pastVars, sqliteVars, rowVars, connVars, sqlThreads, readerVars,
            sameRows, sameLosses, sameReader
<1>a. PlaceTypes /\ OnePlace
  BY DEF Control
<1>0. ASSUME sql' = sql  PROVE \A t \in Threads : Way(t)' = Way(t)
  BY <1>0 DEF Way
<1>1. ASSUME NEW t \in Threads, Statement(t), CountRows(t)  PROVE Counts(t)
  <2>1. sql[t] = "count" /\ MaxRows > 0 /\ Way(t) = "none"
    BY <1>1, <1>a DEF CountRows, OnePlace, Way
  <2>2. CASE Cardinality(DOMAIN table) > MaxRows
    <3>1. /\ sql' = [sql EXCEPT ![t] = "delete"]
          /\ excess' = [excess EXCEPT ![t] = Cardinality(DOMAIN table) - MaxRows]
      BY <1>1, <2>2 DEF CountRows
    <3>2. WayOnly(t, "none", "delete")
      BY <1>a, <2>1, <3>1, WayChange DEF SqlPlaces
    <3> QED
      BY <1>1, <2>1, <2>2, <3>1, <3>2 DEF CountRows, Statement, Counts
  <2>3. CASE ~(Cardinality(DOMAIN table) > MaxRows)
    <3>1. sql' \in {[sql EXCEPT ![t] = "returned"], [sql EXCEPT ![t] = "commit"]} /\ excess' = excess
      BY <1>1, <2>3 DEF CountRows, AfterPrune
    <3>2. WayOnly(t, "none", "commit") \/ WayOnly(t, "none", "none")
      BY <1>a, <2>1, <3>1, WayChange DEF SqlPlaces
    <3> QED
      BY <1>1, <2>1, <2>3, <3>1, <3>2 DEF CountRows, Statement, Counts
  <2> QED
    BY <2>2, <2>3
<1>2. ASSUME NEW t \in Threads, Statement(t), DeleteOldest(t)  PROVE Deletes(t)
  <2>1. sql[t] = "delete" /\ MaxRows > 0 /\ Way(t) = "delete" /\ sql' = [sql EXCEPT ![t] = "commitPrune"]
    BY <1>2, <1>a DEF DeleteOldest, OnePlace, Way
  <2>2. WayOnly(t, "delete", "commitPrune")
    BY <1>a, <2>1, WayChange DEF SqlPlaces
  <2>3. OldestRows(excess[t]) = Oldest(table, excess[t])
    BY DEF OldestRows, Oldest, Older
  <2> QED
    BY <1>2, <2>1, <2>2, <2>3 DEF DeleteOldest, Statement, Deletes, Restrict
<1>3. ASSUME NEW t \in Threads, Statement(t), CommitPrune(t)  PROVE Publishes(t)
  <2>1. /\ sql[t] = "commitPrune" /\ MaxRows > 0
        /\ sql' \in {[sql EXCEPT ![t] = "returned"], [sql EXCEPT ![t] = "commit"]}
    BY <1>3, <1>a DEF CommitPrune, AfterPrune, OnePlace
  <2>2. WayOnly(t, Way(t), "commit") \/ WayOnly(t, Way(t), "none")
    BY <1>a, <2>1, WayChange DEF SqlPlaces
  <2>3. \E to \in {"none", "commit", "shut"} : WayOnly(t, Way(t), to)
    BY <2>2
  <2> QED
    BY <1>3, <2>1, <2>3 DEF CommitPrune, Statement, Publishes
<1>4. ASSUME NEW t \in Threads, Statement(t), Commit(t)  PROVE Publishes(t)
  <2>1. /\ sql[t] = "commit"
        /\ sql' \in {[sql EXCEPT ![t] = "returned"], [sql EXCEPT ![t] = "shut"]}
    BY <1>4 DEF Commit
  <2>2. WayOnly(t, Way(t), "shut") \/ WayOnly(t, Way(t), "none")
    BY <1>a, <2>1, WayChange DEF SqlPlaces
  <2>3. \E to \in {"none", "commit", "shut"} :
          WayOnly(t, Way(t), to) /\ (to = "commit" => sql[t] = "commitPrune")
    BY <2>2
  <2> QED
    BY <1>4, <2>1, <2>3 DEF Commit, Statement, Publishes
<1>5. ASSUME NEW t \in Threads, Statement(t), Shut(t)  PROVE Shuts(t)
  <2>1. sql[t] = "shut" /\ Way(t) = "shut" /\ sql' = [sql EXCEPT ![t] = "returned"]
    BY <1>5 DEF Shut, Way
  <2>2. WayOnly(t, "shut", "none")
    BY <1>a, <2>1, WayChange DEF SqlPlaces
  <2> QED
    BY <1>5, <2>1, <2>2 DEF Shut, Statement, Shuts
<1>6. ASSUME NEW t \in Threads, Raise(t)  PROVE Fails(t) \/ RollsBack(t)
  <2>1. /\ sql[t] \in {"insert", "count", "delete", "commitPrune", "commit"}
        /\ sql' = [sql EXCEPT ![t] = "raised"]
    BY <1>6 DEF Raise, SqlRaises
  <2>2. WayOnly(t, Way(t), "none")
    BY <1>a, <2>1, WayChange DEF SqlPlaces
  <2>3. Way(t) \in {"insert", "delete", "commitPrune", "commit", "none"}
    BY <2>1 DEF Way
  <2>4. /\ missed' = IF sql[t] = "insert" THEN missed \cup {Last(order)} ELSE missed
        /\ lostRows' = lostRows \cup ((Rows(table) \cup deleted) \ (Rows(table') \cup deleted'))
        /\ UNCHANGED <<committed, pruned, connected, excess, order, sameReader>>
    BY <1>6 DEF Raise, SqlRaises
  <2>5. CASE UNCHANGED <<table, deleted>>
    <3>1. (Rows(table) \cup deleted) \ (Rows(table') \cup deleted') = {}
      BY <2>5
    <3>2. lostRows' = lostRows
      BY <2>4, <3>1
    <3> QED
      BY <2>1, <2>2, <2>3, <2>4, <2>5, <3>2 DEF Fails
  <2>6. CASE connected /\ table' = committed /\ deleted' = {}
    <3>1. lostRows' = lostRows \cup ((Rows(table) \cup deleted) \ Rows(committed))
      BY <2>4, <2>6
    <3> QED
      BY <2>1, <2>2, <2>3, <2>4, <2>6, <3>1 DEF RollsBack
  <2> QED
    BY <1>6, <2>5, <2>6 DEF Raise, SqlRaises
<1>7. ASSUME NEW t \in Threads, NextBackend(t)  PROVE DbKeeps
  <2>1. Way(t) = "none" /\ sql' = [sql EXCEPT ![t] = "out"]
    BY <1>7 DEF NextBackend, SqlLeft, Way
  <2>2. WayOnly(t, Way(t), Way(t))
    BY <1>a, <2>1, WayChange DEF SqlPlaces
  <2>3. \A u \in Threads : Way(u)' = Way(u)
    BY <1>a, <2>2, WaySame
  <2> QED
    BY <1>7, <2>3 DEF NextBackend, DbKeeps
<1>8. ASSUME NEW t \in Threads, Send(t) \/ SendFails(t) \/ Leave(t)  PROVE DbKeeps
  BY <1>0, <1>8 DEF Send, SendFails, Leave, DbKeeps
<1>9. ASSUME WriteRow  PROVE Inserts
  <2>0. Worker \in Threads
    BY DEF Threads
  <2>1. /\ sql[Worker] = "insert" /\ Way(Worker) = "insert"
        /\ sql' \in {[sql EXCEPT ![Worker] = "count"], [sql EXCEPT ![Worker] = "returned"]}
    BY <1>9 DEF WriteRow, Insert, Way
  <2>2. WayOnly(Worker, "insert", "none")
    BY <1>a, <2>0, <2>1, WayChange DEF SqlPlaces
  <2> QED
    BY <1>9, <2>2 DEF WriteRow, Insert, Inserts, WithRow
<1>10. ASSUME WriteHook \/ StartShutdown \/ Joined \/ UNCHANGED vars  PROVE DbKeeps
  BY <1>0, <1>10 DEF WriteHook, StartShutdown, Joined, vars, DbKeeps
<1>11. ASSUME NEW e \in Stamps, TakeEvent(e)  PROVE Receives
  <2>0. Worker \in Threads /\ "write" \in Methods
    BY DEF Threads, Methods
  <2>1. /\ call[Worker] = "none" /\ sql' = [sql EXCEPT ![Worker] = "insert"]
        /\ UNCHANGED <<sameRows, connected, excess, readerVars>>
    BY <1>a, <1>11, <2>0, EnterFacts DEF TakeEvent
  <2>2. Way(Worker) = "none"
    BY <1>a, <2>0, <2>1 DEF OnePlace, Way
  <2>3. WayOnly(Worker, "none", "insert")
    BY <1>a, <2>0, <2>1, <2>2, WayChange DEF SqlPlaces
  <2> QED
    BY <1>11, <2>1, <2>3 DEF TakeEvent, Receives
<1>12. ASSUME NEW t \in Threads, NEW m \in {"flush", "close"}, Enter(t, m),
              UNCHANGED <<order, sameLosses>>
       PROVE  DbKeeps
  <2>1. PICK p \in {"count", "commit", "returned"} :
          /\ call[t] = "none" /\ sql' = [sql EXCEPT ![t] = p] /\ (p = "commit" => ~(MaxRows > 0))
          /\ UNCHANGED <<sameRows, connected, excess, readerVars>>
    BY <1>a, <1>12, EnterFacts DEF Methods
  <2>2. Way(t) = "none"
    BY <1>a, <2>1 DEF OnePlace, Way
  <2>3. WayOnly(t, Way(t), Way(t))
    BY <1>a, <2>1, <2>2, WayChange DEF SqlPlaces
  <2>4. \A u \in Threads : Way(u)' = Way(u)
    BY <1>a, <2>3, WaySame
  <2> QED
    BY <1>12, <2>1, <2>4 DEF DbKeeps
<1>13. ASSUME IdleFlush \/ FinalFlush \/ CloserFlush \/ CloserClose  PROVE DbKeeps
  BY <1>12, <1>13 DEF IdleFlush, FinalFlush, CloserFlush, CloserClose, Threads
<1>14. ASSUME Crash  PROVE DbDies
  <2>1. sql' = [t \in Threads |-> "out"]
    BY <1>14 DEF Crash, SqliteRestart
  <2>2. \A t \in Threads : Way(t)' = "none"
    BY <2>1 DEF Way
  <2> QED
    BY <1>14, <2>2 DEF Crash, SqliteRestart, DbDies
<1>15. ASSUME Read  PROVE Polls
  <2>1. sql' = sql
    BY <1>15 DEF Read, Poll
  <2> QED
    BY <1>0, <1>15, <2>1 DEF Read, Poll, Polls
<1> QED
  BY <1>1, <1>2, <1>3, <1>4, <1>5, <1>6, <1>7, <1>8, <1>9, <1>10, <1>11, <1>13, <1>14, <1>15,
     NextCases DEF DbMove, DbStep
-----------------------------------------------------------------------------
(* Rows are distinct events, each of which has been inserted.              *)

RowsInv == RowTypes /\ ReaderTypes /\ RowsDistinct /\ OnlyInserted

LEMMA RowsStart ==
  ASSUME Init  PROVE RowsInv
<1>1. /\ table = <<>> /\ committed = <<>> /\ deleted = {} /\ pruned = {}
      /\ excess = [t \in Threads |-> 0] /\ lastRow = 0 /\ shown = {}
  BY DEF Init, SqliteInit, ReaderInit
<1>2. DOMAIN table = {} /\ DOMAIN committed = {} /\ IsFiniteSet({})
  BY <1>1, FS_EmptySet
<1>3. table \in [DOMAIN table -> Stamps] /\ committed \in [DOMAIN committed -> Stamps]
  BY <1>1
<1>4. RowTypes
  BY <1>1, <1>2, <1>3 DEF RowTypes
<1>5. Known = {}
  BY <1>1, <1>2 DEF Known, Rows, Gone
<1> QED
  BY <1>1, <1>2, <1>4, <1>5 DEF RowsInv, ReaderTypes, RowsDistinct, IsInjective, OnlyInserted

LEMMA RowsFacts ==
  ASSUME RowTypes
  PROVE  /\ \A r \in DOMAIN table : table[r] \in Stamps /\ table[r] \in Rows(table) /\ r \in Nat
         /\ \A r \in DOMAIN committed : committed[r] \in Stamps /\ committed[r] \in Rows(committed)
                                        /\ r \in Nat
         /\ Rows(table) \subseteq Stamps /\ Rows(committed) \subseteq Stamps /\ Stamps \subseteq Nat
BY SqliteAssumption DEF RowTypes, Rows

(* The event that is being inserted. *)
LEMMA InHandFacts ==
  ASSUME PostInv, Control, RowsInv, Way(Worker) = "insert"
  PROVE  /\ Last(order) \in Stamps /\ Len(order) \in DOMAIN order
         /\ order[Len(order)] = Last(order) /\ Last(order) \notin Known
<1>1. Worker \in Threads /\ sql[Worker] = "insert"
  BY DEF Way, Threads
<1>2. Ahead
  BY <1>1 DEF Control, OnePlace, Ahead
<1>3. Last(order) \in Stamps /\ Len(order) \in DOMAIN order /\ order[Len(order)] = Last(order)
  BY <1>2, SeqItems DEF PostInv, PostKeys, Written
<1>4. IsInjective(order)
  BY DEF PostInv, PostKeys, Written
<1>5. Last(order) \notin Known
  BY <1>3, <1>4 DEF RowsInv, OnlyInserted, Inserting, IsInjective
<1> QED
  BY <1>3, <1>5

LEMMA InsertFacts ==
  ASSUME RowTypes, NEW e, table' = WithRow(e)
  PROVE  \E k \in Nat \ {0} :
           /\ \A r \in DOMAIN table : r < k /\ table'[r] = table[r]
           /\ k \notin DOMAIN table /\ DOMAIN table' = DOMAIN table \cup {k} /\ table'[k] = e
           /\ Rows(table') = Rows(table) \cup {e}
           /\ table' \in [DOMAIN table' -> Rows(table) \cup {e}]
           /\ IsFiniteSet(DOMAIN table')
           /\ Cardinality(DOMAIN table') = Cardinality(DOMAIN table) + 1
<1> DEFINE k == NextRowid
<1>1. k \in Nat \ {0} /\ \A r \in DOMAIN table : r < k
  <2> DEFINE S == DOMAIN table \cup {0}
  <2>1. S \in SUBSET Nat /\ S # {}
    BY DEF RowTypes
  <2>2. IsFiniteSet(S)
    BY FS_AddElement DEF RowTypes
  <2>3. Max(S) \in Nat /\ \A y \in S : y <= Max(S)
    BY <2>1, <2>2, MaxFacts
  <2>4. k = 1 + Max(S)
    BY DEF NextRowid
  <2> HIDE DEF k
  <2>5. \A r \in DOMAIN table : r \in Nat /\ r <= Max(S)
    BY <2>1, <2>3
  <2> HIDE DEF S
  <2> QED
    BY <2>3, <2>4, <2>5
<1> HIDE DEF k
<1>2. table' = [x \in DOMAIN table \cup {k} |-> IF x \in DOMAIN table THEN table[x] ELSE e]
  BY DEF WithRow, k
<1>3. k \notin DOMAIN table
  <2>1. k \in DOMAIN table => k < k
    BY <1>1
  <2> QED
    BY <1>1, <2>1
<1>4. DOMAIN table' = DOMAIN table \cup {k} /\ table'[k] = e /\ \A r \in DOMAIN table : table'[r] = table[r]
  BY <1>2, <1>3
<1>5. Rows(table') = Rows(table) \cup {e}
  BY <1>4 DEF Rows
<1>6. table' \in [DOMAIN table' -> Rows(table) \cup {e}]
  BY <1>2, <1>4 DEF Rows
<1>7. /\ IsFiniteSet(DOMAIN table')
      /\ Cardinality(DOMAIN table') = Cardinality(DOMAIN table) + 1
  BY <1>3, <1>4, OneMoreCard DEF RowTypes
<1> QED
  BY <1>1, <1>3, <1>4, <1>5, <1>6, <1>7

LEMMA DeleteFacts ==
  ASSUME RowTypes, NEW gone \in SUBSET DOMAIN table,
         table' = [r \in DOMAIN table \ gone |-> table[r]],
         deleted' = deleted \cup {table[r] : r \in gone}
  PROVE  /\ DOMAIN table' = DOMAIN table \ gone
         /\ \A r \in DOMAIN table' : r \in DOMAIN table /\ table'[r] = table[r]
         /\ Rows(table') \subseteq Rows(table) /\ {table[r] : r \in gone} \subseteq Rows(table)
         /\ Rows(table) \cup deleted = Rows(table') \cup deleted'
         /\ table' \in [DOMAIN table' -> Stamps] /\ IsFiniteSet(DOMAIN table')
<1>1. DOMAIN table' = DOMAIN table \ gone
  OBVIOUS
<1>2. \A r \in DOMAIN table' : r \in DOMAIN table /\ table'[r] = table[r]
  BY <1>1
<1>3. {table[r] : r \in gone} \subseteq Rows(table) /\ Rows(table') \subseteq Rows(table)
  BY <1>2 DEF Rows
<1>4. Rows(table) \subseteq Rows(table') \cup {table[r] : r \in gone}
  BY <1>1, <1>2 DEF Rows
<1>5. table' \in [DOMAIN table' -> Stamps]
  BY <1>1, RowsFacts
<1>6. IsFiniteSet(DOMAIN table')
  <2>1. DOMAIN table' \in SUBSET DOMAIN table
    BY <1>1
  <2> QED
    BY <2>1, SubsetCard DEF RowTypes
<1> QED
  BY <1>1, <1>2, <1>3, <1>4, <1>5, <1>6

(* A step that adds no event to the database. *)
LEMMA NoNewRow ==
  ASSUME OnlyInserted, Known' \subseteq Known, order' = order,
         Way(Worker)' = "insert" => Way(Worker) = "insert"
  PROVE  OnlyInserted'
<1>1. \A i : Inserting(i)' => Inserting(i)
  BY DEF Inserting
<1> QED
  BY <1>1 DEF OnlyInserted

LEMMA RowsStep ==
  ASSUME RowsInv, PostInv, Control, [Next]_vars
  PROVE  RowsInv'
<1> USE DEF RowsInv, sameRows, sameReader, sameLosses, readerVars
<1>0. DbMove /\ Worker \in Threads
  BY DbMoves DEF Threads
<1>1. ASSUME Inserts  PROVE RowsInv'
  <2> DEFINE e == Last(order)
  <2>1. Way(Worker) = "insert" /\ Way(Worker)' = "none"
    BY <1>1 DEF Inserts, WayOnly
  <2>2. e \in Stamps /\ e \notin Known /\ Len(order) \in DOMAIN order /\ order[Len(order)] = e
    BY <2>1, InHandFacts
  <2>3. /\ table' = WithRow(e)
        /\ UNCHANGED <<committed, deleted, pruned, excess, order, lastRow, shown>>
    BY <1>1 DEF Inserts
  <2>4. PICK k \in Nat \ {0} :
           /\ \A r \in DOMAIN table : r < k /\ table'[r] = table[r]
           /\ k \notin DOMAIN table /\ DOMAIN table' = DOMAIN table \cup {k} /\ table'[k] = e
           /\ Rows(table') = Rows(table) \cup {e}
           /\ table' \in [DOMAIN table' -> Rows(table) \cup {e}]
           /\ IsFiniteSet(DOMAIN table')
    <3> HIDE DEF e
    <3> QED
      BY <2>3, InsertFacts
  <2>5. Rows(table) \subseteq Stamps
    BY RowsFacts
  <2>6. table' \in [DOMAIN table' -> Stamps]
    BY <2>2, <2>4, <2>5
  <2>7. RowTypes' /\ ReaderTypes'
    BY <2>3, <2>4, <2>6 DEF RowTypes, ReaderTypes
  <2>8. RowsDistinct'
    <3>1. \A r \in DOMAIN table : table[r] # e
      BY <2>2 DEF Known, Rows
    <3> QED
      BY <2>3, <2>4, <3>1 DEF RowsDistinct, IsInjective
  <2>9. OnlyInserted'
    <3>1. Known' = Known \cup {e}
      BY <2>3, <2>4 DEF Known, Gone
    <3>2. \A i : ~Inserting(i)'
      BY <2>1 DEF Inserting
    <3> QED
      BY <2>2, <2>3, <3>1, <3>2 DEF OnlyInserted
  <2> QED
    BY <2>7, <2>8, <2>9
<1>2. ASSUME NEW t \in Threads, Counts(t)  PROVE RowsInv'
  <2>1. UNCHANGED <<table, committed, deleted, pruned, order, lastRow, shown>>
    BY <1>2 DEF Counts
  <2>2. excess' \in [Threads -> Nat]
    <3>1. Cardinality(DOMAIN table) \in Nat /\ excess \in [Threads -> Nat] /\ MaxRows \in Nat
      BY FS_CardinalityType, SqliteAssumption DEF RowTypes
    <3> QED
      BY <1>2, <3>1 DEF Counts
  <2>3. RowTypes' /\ ReaderTypes' /\ RowsDistinct'
    BY <2>1, <2>2 DEF RowTypes, ReaderTypes, RowsDistinct
  <2>4. Known' = Known
    BY <2>1 DEF Known, Gone
  <2>5. Way(Worker)' = "insert" => Way(Worker) = "insert"
    BY <1>0, <1>2 DEF Counts, WayOnly
  <2> QED
    BY <2>1, <2>3, <2>4, <2>5, NoNewRow
<1>3. ASSUME NEW t \in Threads, Deletes(t)  PROVE RowsInv'
  <2> DEFINE gone == Oldest(table, excess[t])
  <2>1. /\ table' = [r \in DOMAIN table \ gone |-> table[r]]
        /\ deleted' = deleted \cup {table[r] : r \in gone}
        /\ UNCHANGED <<committed, pruned, excess, order, lastRow, shown>>
    BY <1>3 DEF Deletes
  <2>2. gone \in SUBSET DOMAIN table
    BY DEF Oldest
  <2>3. /\ DOMAIN table' = DOMAIN table \ gone
        /\ \A r \in DOMAIN table' : r \in DOMAIN table /\ table'[r] = table[r]
        /\ Rows(table') \subseteq Rows(table) /\ {table[r] : r \in gone} \subseteq Rows(table)
        /\ table' \in [DOMAIN table' -> Stamps] /\ IsFiniteSet(DOMAIN table')
    <3> HIDE DEF gone
    <3> QED
      BY <2>1, <2>2, DeleteFacts
  <2>4. RowTypes' /\ ReaderTypes'
    BY <2>1, <2>3, RowsFacts DEF RowTypes, ReaderTypes
  <2>5. RowsDistinct'
    BY <2>1, <2>3 DEF RowsDistinct, IsInjective
  <2>6. Known' \subseteq Known
    BY <2>1, <2>3 DEF Known, Gone
  <2>7. Way(Worker)' = "insert" => Way(Worker) = "insert"
    BY <1>0, <1>3 DEF Deletes, WayOnly
  <2> QED
    BY <2>1, <2>4, <2>5, <2>6, <2>7, NoNewRow
<1>4. ASSUME NEW t \in Threads, Publishes(t)  PROVE RowsInv'
  <2>1. /\ table' = table /\ committed' = table /\ pruned' = pruned \cup deleted /\ deleted' = {}
        /\ UNCHANGED <<excess, order, lastRow, shown>>
    BY <1>4 DEF Publishes, Publish
  <2>2. RowTypes' /\ ReaderTypes' /\ RowsDistinct'
    BY <2>1 DEF RowTypes, ReaderTypes, RowsDistinct
  <2>3. Known' \subseteq Known
    BY <2>1 DEF Known, Gone
  <2>4. Way(Worker)' = "insert" => Way(Worker) = "insert"
    BY <1>0, <1>4 DEF Publishes, WayOnly
  <2> QED
    BY <2>1, <2>2, <2>3, <2>4, NoNewRow
<1>5. ASSUME NEW t \in Threads, Shuts(t)  PROVE RowsInv'
  <2>1. /\ table' = committed /\ deleted' = {}
        /\ UNCHANGED <<committed, pruned, excess, order, lastRow, shown>>
    BY <1>5 DEF Shuts
  <2>2. RowTypes' /\ ReaderTypes' /\ RowsDistinct'
    BY <2>1 DEF RowTypes, ReaderTypes, RowsDistinct
  <2>3. Known' \subseteq Known
    BY <2>1 DEF Known, Gone
  <2>4. Way(Worker)' = "insert" => Way(Worker) = "insert"
    BY <1>0, <1>5 DEF Shuts, WayOnly
  <2> QED
    BY <2>1, <2>2, <2>3, <2>4, NoNewRow
<1>6. ASSUME NEW t \in Threads, Fails(t)  PROVE RowsInv'
  <2>1. UNCHANGED <<table, committed, deleted, pruned, excess, order, lastRow, shown>>
    BY <1>6 DEF Fails
  <2>2. RowTypes' /\ ReaderTypes' /\ RowsDistinct'
    BY <2>1 DEF RowTypes, ReaderTypes, RowsDistinct
  <2>3. Known' \subseteq Known
    BY <2>1 DEF Known, Gone
  <2>4. Way(Worker)' = "insert" => Way(Worker) = "insert"
    BY <1>0, <1>6 DEF Fails, WayOnly
  <2> QED
    BY <2>1, <2>2, <2>3, <2>4, NoNewRow
<1>11. ASSUME NEW t \in Threads, RollsBack(t)  PROVE RowsInv'
  <2>1. /\ table' = committed /\ deleted' = {}
        /\ UNCHANGED <<committed, pruned, excess, order, lastRow, shown>>
    BY <1>11 DEF RollsBack
  <2>2. RowTypes' /\ ReaderTypes' /\ RowsDistinct'
    BY <2>1 DEF RowTypes, ReaderTypes, RowsDistinct
  <2>3. Known' \subseteq Known
    BY <2>1 DEF Known, Gone
  <2>4. Way(Worker)' = "insert" => Way(Worker) = "insert"
    BY <1>0, <1>11 DEF RollsBack, WayOnly
  <2> QED
    BY <2>1, <2>2, <2>3, <2>4, NoNewRow
<1>7. ASSUME Receives  PROVE RowsInv'
  <2>1. /\ UNCHANGED <<table, committed, deleted, pruned, excess, lastRow, shown>>
        /\ Way(Worker) = "none"
    BY <1>7 DEF Receives, WayOnly
  <2>2. PICK e \in Stamps : order' = Append(order, e)
    BY <1>7 DEF Receives
  <2>3. RowTypes' /\ ReaderTypes' /\ RowsDistinct'
    BY <2>1 DEF RowTypes, ReaderTypes, RowsDistinct
  <2>4. Known' = Known
    BY <2>1 DEF Known, Gone
  <2>5. order \in Seq(Stamps)
    BY DEF PostInv, PostKeys
  <2>6. /\ DOMAIN order' = DOMAIN order \cup {Len(order) + 1} /\ Len(order') = Len(order) + 1
        /\ \A i \in DOMAIN order : order'[i] = order[i]
    BY <2>2, <2>5, AppendFacts
  <2>7. DOMAIN order = 1..Len(order) /\ Len(order) \in Nat
    BY <2>5, SeqItems
  <2>8. \A i \in DOMAIN order : ~Inserting(i)'
    BY <2>6, <2>7 DEF Inserting
  <2> QED
    BY <2>3, <2>4, <2>6, <2>8 DEF OnlyInserted
<1>8. ASSUME DbDies  PROVE RowsInv'
  <2>1. /\ table' = committed /\ deleted' = {} /\ excess' = [t \in Threads |-> 0]
        /\ UNCHANGED <<committed, pruned, order, lastRow, shown>>
    BY <1>8 DEF DbDies
  <2>2. RowTypes' /\ ReaderTypes' /\ RowsDistinct'
    BY <2>1 DEF RowTypes, ReaderTypes, RowsDistinct
  <2>3. Known' \subseteq Known
    BY <2>1 DEF Known, Gone
  <2>4. Way(Worker)' = "none"
    BY <1>0, <1>8 DEF DbDies
  <2> QED
    BY <2>1, <2>2, <2>3, <2>4, NoNewRow
<1>9. ASSUME Polls  PROVE RowsInv'
  <2>1. /\ UNCHANGED <<table, committed, deleted, pruned, excess, order>>
        /\ NewRows # {} /\ lastRow' = Max(NewRows)
        /\ shown' = shown \cup {committed[r] : r \in NewRows}
    BY <1>9 DEF Polls, Poll
  <2>2. NewRows \in SUBSET DOMAIN committed
    BY DEF NewRows
  <2>3. Max(NewRows) \in Nat
    <3>1. IsFiniteSet(NewRows)
      BY <2>2, SubsetCard DEF RowTypes
    <3>2. NewRows \in SUBSET Nat
      BY <2>2 DEF RowTypes
    <3> QED
      BY <2>1, <3>1, <3>2, MaxFacts
  <2>4. {committed[r] : r \in NewRows} \subseteq Rows(committed) /\ Rows(committed) \subseteq Stamps
    BY <2>2, RowsFacts DEF Rows
  <2>5. RowTypes' /\ ReaderTypes' /\ RowsDistinct'
    BY <2>1, <2>3, <2>4 DEF RowTypes, ReaderTypes, RowsDistinct
  <2>6. Known' \subseteq Known
    BY <2>1, <2>4 DEF Known, Gone
  <2>7. Way(Worker)' = Way(Worker)
    BY <1>0, <1>9 DEF Polls
  <2> QED
    BY <2>1, <2>5, <2>6, <2>7, NoNewRow
<1>10. ASSUME DbKeeps  PROVE RowsInv'
  <2>1. UNCHANGED <<table, committed, deleted, pruned, excess, order, lastRow, shown>>
    BY <1>10 DEF DbKeeps
  <2>2. RowTypes' /\ ReaderTypes' /\ RowsDistinct'
    BY <2>1 DEF RowTypes, ReaderTypes, RowsDistinct
  <2>3. Known' \subseteq Known
    BY <2>1 DEF Known, Gone
  <2>4. Way(Worker)' = Way(Worker)
    BY <1>0, <1>10 DEF DbKeeps
  <2> QED
    BY <2>1, <2>2, <2>3, <2>4, NoNewRow
<1> QED
  BY <1>0, <1>1, <1>2, <1>3, <1>4, <1>5, <1>6, <1>7, <1>8, <1>9, <1>10, <1>11 DEF DbMove, DbStep
-----------------------------------------------------------------------------
(* The connection is closed over committed rows only.                      *)

LEMMA LateStays ==
  ASSUME Control, late \in BOOLEAN, [Next]_vars, ~late'
  PROVE  ~late
BY PostMoves DEF PostMove, Posting, Appends, Takes, Sends, Emits, Dies, Keeps

(* One thread at most is between two statements. *)
LEMMA OneOnWay ==
  ASSUME Control, ~late, NEW t \in Threads, sql[t] # "out", NEW u \in Threads, u # t
  PROVE  Way(u) = "none"
<1>1. call[t] # "none"
  BY DEF Control, OnePlace
<1>2. sql[u] = "out"
  BY <1>1, OneActive
<1> QED
  BY <1>2 DEF Way

LEMMA DoneStays ==
  ASSUME Control, [Next]_vars, closerAt = "done"
  PROVE  closerAt' = "done" \/ connected' = TRUE
<1>1. CASE SqlMove \/ HookMove \/ Rests
  BY <1>1 DEF SqlMove, SqlMoves, HookMove, HookMoves, Rests
<1>2. CASE \E t \in Threads : PassOn(t) \/ GoOut(t)
  BY <1>2 DEF PassOn, GoOut
<1>3. CASE WorkerEnters \/ CloserEnters \/ CloserWaiting \/ Restarts
  BY <1>3 DEF WorkerEnters, CloserEnters, CloserWaiting, Restarts
<1> QED
  BY <1>1, <1>2, <1>3, Moves DEF Control

LossInv == RowsAccounted /\ ShutClean /\ ClosedByCloser

LEMMA LossStart ==
  ASSUME Init  PROVE LossInv
<1>1. DOMAIN order = {} /\ connected = TRUE /\ sql = [t \in Threads |-> "out"]
  BY DEF Init, SqliteInit
<1>2. \A t \in Threads : Way(t) = "none"
  BY <1>1 DEF Way
<1> QED
  BY <1>1, <1>2 DEF LossInv, RowsAccounted, ShutClean, ClosedByCloser

(* What was accounted for still is. *)
Accounts == Rows(table) \cup Gone \cup missed \cup lostRows

LEMMA StillAccounted ==
  ASSUME RowsAccounted, ~late, order' = order, Accounts \subseteq Accounts',
         Way(Worker) = "insert" => Way(Worker)' = "insert" \/ order[Len(order)] \in Accounts'
  PROVE  RowsAccounted'
<1>1. \A i \in DOMAIN order : Inserting(i) => Inserting(i)' \/ order[i] \in Accounts'
  BY DEF Inserting
<1>2. \A i \in DOMAIN order : ~Inserting(i) => order[i] \in Accounts
  BY DEF RowsAccounted, Accounts
<1> QED
  BY <1>1, <1>2 DEF RowsAccounted, Accounts

LEMMA LossStep ==
  ASSUME LossInv, RowsInv, PostInv, Control, FlagTypes, ~late', [Next]_vars
  PROVE  LossInv'
<1> USE DEF LossInv, sameRows, sameReader, sameLosses
<1>0. DbMove /\ Worker \in Threads /\ ~late
  BY DbMoves, LateStays DEF Threads, FlagTypes
<1>a. /\ ~connected => Clean /\ closerAt = "done"
      /\ \A t \in Threads : Way(t) = "shut" => Clean
  BY <1>0 DEF ShutClean, ClosedByCloser
<1>b. (connected' = connected \/ connected' = TRUE) => ClosedByCloser'
  <2>1. SUFFICES ASSUME connected' = connected \/ connected' = TRUE, ~connected'
                 PROVE  closerAt' = "done"
    BY DEF ClosedByCloser
  <2>2. connected' # TRUE /\ ~connected
    <3>1. connected' # TRUE
      BY <2>1
    <3>2. connected' = connected
      BY <2>1, <3>1
    <3>3. connected # TRUE /\ connected \in BOOLEAN
      BY <3>1, <3>2 DEF FlagTypes
    <3> QED
      BY <3>1, <3>3
  <2>3. closerAt = "done"
    BY <1>a, <2>2
  <2> QED
    BY <2>2, <2>3, DoneStays
<1>1. ASSUME Inserts  PROVE LossInv'
  <2>1. /\ Way(Worker) = "insert" /\ Way(Worker)' = "none" /\ sql[Worker] = "insert" /\ connected
        /\ \A u \in Threads : u # Worker => Way(u)' = Way(u)
        /\ table' = WithRow(Last(order))
        /\ UNCHANGED <<committed, deleted, pruned, connected, order, missed, lostRows>>
    BY <1>1 DEF Inserts, WayOnly
  <2>2. order[Len(order)] = Last(order)
    BY DEF Last
  <2>3. Rows(table') = Rows(table) \cup {Last(order)}
    BY <2>1, InsertFacts DEF RowsInv
  <2>4. Accounts \subseteq Accounts' /\ order[Len(order)] \in Accounts'
    BY <2>1, <2>2, <2>3 DEF Accounts, Gone
  <2>5. RowsAccounted'
    BY <1>0, <2>1, <2>4, StillAccounted
  <2>6. \A u \in Threads : Way(u)' # "shut"
    BY <1>0, <2>1, OneOnWay
  <2>7. ShutClean'
    BY <2>1, <2>6 DEF ShutClean
  <2> QED
    BY <1>b, <2>1, <2>5, <2>7
<1>2. ASSUME NEW t \in Threads, Counts(t)  PROVE LossInv'
  <2>1. UNCHANGED <<table, committed, deleted, pruned, connected, order, missed, lostRows>>
    BY <1>2 DEF Counts
  <2>2. \A u \in Threads : (Way(u)' = "shut" => Way(u) = "shut") /\ (Way(u) = "insert" => Way(u)' = "insert")
    BY <1>2 DEF Counts, WayOnly
  <2>3. Accounts' = Accounts /\ (Clean => Clean')
    BY <2>1 DEF Accounts, Gone, Clean
  <2>4. RowsAccounted'
    BY <1>0, <2>1, <2>2, <2>3, StillAccounted
  <2>5. ShutClean'
    BY <1>a, <2>1, <2>2, <2>3 DEF ShutClean
  <2> QED
    BY <1>b, <2>1, <2>4, <2>5
<1>3. ASSUME NEW t \in Threads, Deletes(t)  PROVE LossInv'
  <2> DEFINE gone == Oldest(table, excess[t])
  <2>1. /\ table' = [r \in DOMAIN table \ gone |-> table[r]]
        /\ deleted' = deleted \cup {table[r] : r \in gone}
        /\ UNCHANGED <<committed, pruned, connected, order, missed, lostRows>>
        /\ connected /\ sql[t] = "delete"
    BY <1>3 DEF Deletes
  <2>2. gone \in SUBSET DOMAIN table
    BY DEF Oldest
  <2>3. Rows(table) \cup deleted = Rows(table') \cup deleted'
    <3> HIDE DEF gone
    <3> QED
      BY <2>1, <2>2, DeleteFacts DEF RowsInv
  <2>4. /\ Way(t) = "delete" /\ Way(t)' = "commitPrune"
        /\ \A u \in Threads : u # t => Way(u)' = Way(u)
    BY <1>3 DEF Deletes, WayOnly
  <2>5. Accounts' = Accounts
    BY <2>1, <2>3 DEF Accounts, Gone
  <2>6. RowsAccounted'
    BY <1>0, <2>1, <2>4, <2>5, StillAccounted
  <2>7. \A u \in Threads : Way(u)' # "shut"
    BY <1>0, <2>1, <2>4, OneOnWay
  <2>8. ShutClean'
    BY <2>1, <2>7 DEF ShutClean
  <2> QED
    BY <1>b, <2>1, <2>6, <2>8
<1>4. ASSUME NEW t \in Threads, Publishes(t)  PROVE LossInv'
  <2>1. /\ table' = table /\ committed' = table /\ pruned' = pruned \cup deleted /\ deleted' = {}
        /\ UNCHANGED <<connected, order, missed, lostRows>>
    BY <1>4 DEF Publishes, Publish
  <2>2. Accounts' = Accounts /\ Clean'
    BY <2>1 DEF Accounts, Gone, Clean
  <2>3. Way(Worker) = "insert" => Way(Worker)' = "insert"
    BY <1>0, <1>4 DEF Publishes, WayOnly, Way
  <2>4. RowsAccounted'
    BY <1>0, <2>1, <2>2, <2>3, StillAccounted
  <2>5. ShutClean'
    BY <2>2 DEF ShutClean
  <2> QED
    BY <1>b, <2>1, <2>4, <2>5
<1>5. ASSUME NEW t \in Threads, Shuts(t)  PROVE LossInv'
  <2>1. /\ table' = committed /\ deleted' = {}
        /\ UNCHANGED <<committed, pruned, order, missed, lostRows>>
        /\ sql[t] = "shut" /\ Way(t) = "shut" /\ connected' = FALSE
    BY <1>5 DEF Shuts, WayOnly
  <2>2. Clean
    BY <1>a, <2>1
  <2>3. Accounts' = Accounts /\ Clean'
    BY <2>1, <2>2 DEF Accounts, Gone, Clean
  <2>4. Way(Worker) = "insert" => Way(Worker)' = "insert"
    BY <1>0, <1>5 DEF Shuts, WayOnly
  <2>5. RowsAccounted'
    BY <1>0, <2>1, <2>3, <2>4, StillAccounted
  <2>6. ShutClean'
    BY <2>3 DEF ShutClean
  <2>7. closerAt = "done"
    BY <2>1 DEF Control, OnePlace, Callers, Threads
  <2>8. ClosedByCloser'
    BY <2>1, <2>7, DoneStays DEF ClosedByCloser
  <2> QED
    BY <2>5, <2>6, <2>8
<1>6. ASSUME NEW t \in Threads, Fails(t)  PROVE LossInv'
  <2>1. /\ UNCHANGED <<table, committed, deleted, pruned, connected, order, lostRows>>
        /\ missed' = IF sql[t] = "insert" THEN missed \cup {Last(order)} ELSE missed
        /\ Way(t)' = "none" /\ \A u \in Threads : u # t => Way(u)' = Way(u)
    BY <1>6 DEF Fails, WayOnly
  <2>2. Accounts \subseteq Accounts' /\ (Clean => Clean')
    BY <2>1 DEF Accounts, Gone, Clean
  <2>3. ASSUME Way(Worker) = "insert"  PROVE Way(Worker)' = "insert" \/ order[Len(order)] \in Accounts'
    <3>1. CASE t # Worker
      BY <1>0, <2>1, <2>3, <3>1
    <3>2. CASE t = Worker
      <4>1. sql[t] = "insert"
        BY <2>3, <3>2 DEF Way
      <4>2. Last(order) \in missed'
        BY <2>1, <4>1
      <4> QED
        BY <4>2 DEF Accounts, Last
    <3> QED
      BY <3>1, <3>2
  <2>4. RowsAccounted'
    BY <1>0, <2>1, <2>2, <2>3, StillAccounted
  <2>5. ShutClean'
    BY <1>a, <2>1, <2>2 DEF ShutClean
  <2> QED
    BY <1>b, <2>1, <2>4, <2>5
<1>10. ASSUME NEW t \in Threads, RollsBack(t)  PROVE LossInv'
  <2>1. /\ table' = committed /\ deleted' = {}
        /\ UNCHANGED <<committed, pruned, connected, order>>
        /\ missed' = IF sql[t] = "insert" THEN missed \cup {Last(order)} ELSE missed
        /\ lostRows' = lostRows \cup ((Rows(table) \cup deleted) \ Rows(committed))
        /\ Way(t)' = "none" /\ \A u \in Threads : u # t => Way(u)' = Way(u)
    BY <1>10 DEF RollsBack, WayOnly
  <2>2. Accounts \subseteq Accounts' /\ Clean'
    BY <2>1 DEF Accounts, Gone, Clean
  <2>3. ASSUME Way(Worker) = "insert"  PROVE Way(Worker)' = "insert" \/ order[Len(order)] \in Accounts'
    <3>1. CASE t # Worker
      BY <1>0, <2>1, <2>3, <3>1
    <3>2. CASE t = Worker
      <4>1. sql[t] = "insert"
        BY <2>3, <3>2 DEF Way
      <4>2. Last(order) \in missed'
        BY <2>1, <4>1
      <4> QED
        BY <4>2 DEF Accounts, Last
    <3> QED
      BY <3>1, <3>2
  <2>4. RowsAccounted'
    BY <1>0, <2>1, <2>2, <2>3, StillAccounted
  <2>5. ShutClean'
    BY <2>2 DEF ShutClean
  <2> QED
    BY <1>b, <2>1, <2>4, <2>5
<1>7. ASSUME Receives  PROVE LossInv'
  <2>1. /\ UNCHANGED <<table, committed, deleted, pruned, connected, missed, lostRows>>
        /\ Way(Worker) = "none" /\ Way(Worker)' = "insert"
        /\ \A u \in Threads : u # Worker => Way(u)' = Way(u)
    BY <1>7 DEF Receives, WayOnly
  <2>2. PICK e \in Stamps : order' = Append(order, e)
    BY <1>7 DEF Receives
  <2>3. order \in Seq(Stamps)
    BY DEF PostInv, PostKeys
  <2>4. /\ DOMAIN order' = DOMAIN order \cup {Len(order) + 1} /\ Len(order') = Len(order) + 1
        /\ \A i \in DOMAIN order : order'[i] = order[i]
    BY <2>2, <2>3, AppendFacts
  <2>5. \A i \in DOMAIN order : order[i] \in Accounts
    BY <1>0, <2>1 DEF RowsAccounted, Inserting, Accounts
  <2>6. Accounts' = Accounts /\ (Clean => Clean')
    BY <2>1 DEF Accounts, Gone, Clean
  <2>7. RowsAccounted'
    BY <2>1, <2>4, <2>5, <2>6 DEF RowsAccounted, Inserting, Accounts
  <2>8. ShutClean'
    BY <1>a, <2>1, <2>6 DEF ShutClean
  <2> QED
    BY <1>b, <2>1, <2>7, <2>8
<1>8. ASSUME DbDies  PROVE LossInv'
  <2>1. /\ table' = committed /\ deleted' = {} /\ connected' = TRUE
        /\ UNCHANGED <<committed, pruned, order, missed>>
        /\ lostRows' = lostRows \cup (Items(order) \ (Rows(committed) \cup pruned \cup missed))
        /\ \A t \in Threads : Way(t)' = "none"
    BY <1>8 DEF DbDies
  <2>2. \A i \in DOMAIN order : order[i] \in Items(order)
    BY DEF Items
  <2>3. Items(order) \subseteq Accounts'
    BY <2>1 DEF Accounts, Gone
  <2>4. RowsAccounted'
    BY <2>1, <2>2, <2>3 DEF RowsAccounted, Accounts
  <2>5. ShutClean'
    BY <2>1 DEF ShutClean
  <2> QED
    BY <1>b, <2>1, <2>4, <2>5
<1>9. ASSUME Polls \/ DbKeeps  PROVE LossInv'
  <2>1. /\ UNCHANGED <<table, committed, deleted, pruned, connected, order, missed, lostRows>>
        /\ \A t \in Threads : Way(t)' = Way(t)
    BY <1>9 DEF Polls, DbKeeps
  <2>2. Accounts' = Accounts /\ (Clean => Clean')
    BY <2>1 DEF Accounts, Gone, Clean
  <2>3. RowsAccounted'
    BY <1>0, <2>1, <2>2, StillAccounted
  <2>4. ShutClean'
    BY <1>a, <2>1, <2>2 DEF ShutClean
  <2> QED
    BY <1>b, <2>1, <2>3, <2>4
<1> QED
  BY <1>0, <1>1, <1>2, <1>3, <1>4, <1>5, <1>6, <1>7, <1>8, <1>9, <1>10 DEF DbMove, DbStep

LEMMA ClosesFromInv ==
  ASSUME LossInv, Control
  PROVE  ClosesOverNothing
<1> SUFFICES ASSUME ~late, ~connected
             PROVE  Items(order) \subseteq Rows(committed) \cup pruned \cup missed \cup lostRows
  BY DEF ClosesOverNothing
<1>1. Clean /\ closerAt = "done"
  BY DEF LossInv, ShutClean, ClosedByCloser
<1>2. sql[Worker] = "out"
  BY <1>1 DEF Control, CloserWaits, OnePlace, Threads
<1>3. \A i \in DOMAIN order : ~Inserting(i)
  BY <1>2 DEF Inserting, Way
<1>4. \A i \in DOMAIN order : order[i] \in Rows(table) \cup Gone \cup missed \cup lostRows
  BY <1>3 DEF LossInv, RowsAccounted
<1> QED
  BY <1>1, <1>4 DEF Items, Clean, Gone
-----------------------------------------------------------------------------
(* Pruning keeps the newest.                                               *)

CapInv == Capped /\ EnoughNewer /\ AtDelete /\ AtCommit /\ OnlyCapped /\ KeepsNewest

LEMMA CapStart ==
  ASSUME Init  PROVE CapInv
<1>1. /\ DOMAIN committed = {} /\ deleted = {} /\ pruned = {}
      /\ sql = [t \in Threads |-> "out"]
  BY DEF Init, SqliteInit
<1>2. \A t \in Threads : Way(t) = "none"
  BY <1>1 DEF Way
<1>3. Cardinality({}) = 0 /\ MaxRows \in Nat
  BY FS_EmptySet, SqliteAssumption
<1> QED
  BY <1>1, <1>2, <1>3 DEF CapInv, Capped, EnoughNewer, AtDelete, AtCommit, OnlyCapped, KeepsNewest, Gone

(* With no more rows than the cap, all of them are newer than what is gone. *)
LEMMA AllNewer ==
  ASSUME RowsInv, EnoughNewer, ~late, Gone # {}, Cardinality(DOMAIN table) <= MaxRows
  PROVE  /\ Cardinality(DOMAIN table) = MaxRows
         /\ \A e \in Gone, k \in Rows(table) : e < k
<1>1. Newer \in SUBSET DOMAIN table /\ IsFiniteSet(DOMAIN table)
  BY DEF Newer, RowsInv, RowTypes
<1>2. /\ Cardinality(Newer) \in Nat /\ Cardinality(DOMAIN table) \in Nat
      /\ Cardinality(Newer) <= Cardinality(DOMAIN table)
      /\ Cardinality(Newer) = Cardinality(DOMAIN table) => Newer = DOMAIN table
  BY <1>1, SubsetCard
<1>3. Cardinality(Newer) >= MaxRows /\ MaxRows \in Nat
  BY SqliteAssumption DEF EnoughNewer
<1>4. Newer = DOMAIN table /\ Cardinality(DOMAIN table) = MaxRows
  BY <1>2, <1>3
<1> QED
  BY <1>4 DEF Newer, Rows

(* A commit of at most the capped number of rows. *)
LEMMA PublishedNewest ==
  ASSUME RowsInv, EnoughNewer, OnlyCapped, ~late,
         MaxRows > 0 => Cardinality(DOMAIN table) <= MaxRows,
         table' = table, committed' = table, pruned' = pruned \cup deleted, deleted' = {}, late' = late
  PROVE  Capped' /\ EnoughNewer' /\ OnlyCapped' /\ KeepsNewest'
<1>1. Gone' = Gone /\ pruned' = Gone
  BY DEF Gone
<1>2. Newer' = Newer
  BY <1>1 DEF Newer
<1>3. EnoughNewer' /\ OnlyCapped'
  BY <1>1, <1>2 DEF EnoughNewer, OnlyCapped
<1>4. Capped'
  BY DEF Capped
<1>5. ASSUME Gone # {}
      PROVE  /\ Cardinality(DOMAIN table) = MaxRows
             /\ \A e \in Gone, k \in Rows(table) : e < k
  <2>1. MaxRows > 0
    BY <1>5, SqliteAssumption DEF OnlyCapped
  <2> QED
    BY <1>5, <2>1, AllNewer
<1>6. KeepsNewest'
  BY <1>1, <1>5 DEF KeepsNewest
<1> QED
  BY <1>3, <1>4, <1>6

(* Back to what is committed. *)
LEMMA RolledBackNewest ==
  ASSUME KeepsNewest, OnlyCapped, ~late, RowsInv,
         table' = committed, committed' = committed, pruned' = pruned, deleted' = {}
  PROVE  EnoughNewer' /\ OnlyCapped'
<1>1. Gone' = pruned
  BY DEF Gone
<1>2. OnlyCapped'
  BY <1>1 DEF OnlyCapped, Gone
<1>3. ASSUME pruned # {}  PROVE Cardinality(Newer') >= MaxRows
  <2>1. Cardinality(DOMAIN committed) = MaxRows /\ \A e \in pruned, k \in Rows(committed) : e < k
    BY <1>3 DEF KeepsNewest
  <2>2. Newer' = DOMAIN committed
    BY <1>1, <2>1 DEF Newer, Rows
  <2> QED
    BY <2>1, <2>2, SqliteAssumption
<1> QED
  BY <1>1, <1>2, <1>3 DEF EnoughNewer

LEMMA InsertedNewest ==
  ASSUME RowsInv, PostInv, Control, EnoughNewer, ~late, Inserts
  PROVE  EnoughNewer'
<1>1. /\ table' = WithRow(Last(order)) /\ UNCHANGED <<deleted, pruned>> /\ Way(Worker) = "insert"
  BY DEF Inserts, WayOnly
<1>2. PICK k \in Nat \ {0} :
        /\ \A r \in DOMAIN table : table'[r] = table[r]
        /\ DOMAIN table' = DOMAIN table \cup {k} /\ IsFiniteSet(DOMAIN table')
  BY <1>1, InsertFacts DEF RowsInv
<1>3. Gone' = Gone
  BY <1>1 DEF Gone
<1>4. Newer \in SUBSET Newer'
  BY <1>2, <1>3 DEF Newer
<1>5. IsFiniteSet(Newer')
  <2>1. Newer' \in SUBSET DOMAIN table'
    BY DEF Newer
  <2> QED
    BY <1>2, <2>1, SubsetCard
<1>6. Cardinality(Newer) <= Cardinality(Newer') /\ Cardinality(Newer) \in Nat /\ Cardinality(Newer') \in Nat
  BY <1>4, <1>5, SubsetCard
<1> QED
  BY <1>3, <1>6, SqliteAssumption DEF EnoughNewer

(* The prune itself. *)
LEMMA PrunedNewest ==
  ASSUME RowsInv, EnoughNewer, AtDelete, ~late, NEW t \in Threads, Deletes(t)
  PROVE  EnoughNewer' /\ Cardinality(DOMAIN table') = MaxRows
<1> DEFINE n == excess[t]
           gone == Oldest(table, n)
           kept == DOMAIN table \ gone
<1>1. /\ table' = [r \in kept |-> table[r]]
      /\ deleted' = deleted \cup {table[r] : r \in gone}
      /\ UNCHANGED <<committed, pruned>> /\ MaxRows > 0 /\ Way(t) = "delete"
  BY DEF Deletes, WayOnly
<1>2. /\ n \in Nat /\ n + MaxRows = Cardinality(DOMAIN table) /\ MaxRows \in Nat
      /\ Cardinality(DOMAIN table) \in Nat /\ IsFiniteSet(DOMAIN table)
  <2>1. n \in Nat /\ IsFiniteSet(DOMAIN table)
    BY DEF RowsInv, RowTypes
  <2>2. n + MaxRows = Cardinality(DOMAIN table)
    BY <1>1 DEF AtDelete
  <2> QED
    BY <2>1, <2>2, FS_CardinalityType, SqliteAssumption
<1>3. \A r \in DOMAIN table : table[r] \in Nat
  BY RowsFacts DEF RowsInv
<1>4. /\ gone \subseteq DOMAIN table
      /\ \A g \in gone, k \in kept : table[g] < table[k]
      /\ IsFiniteSet(kept) /\ Cardinality(kept) = Cardinality(DOMAIN table) - n
  <2>1. table \in [DOMAIN table -> Nat]
    BY <1>3 DEF RowsInv, RowTypes
  <2>2. IsInjective(table) /\ n <= Cardinality(DOMAIN table)
    BY <1>2 DEF RowsInv, RowsDistinct
  <2> HIDE DEF n
  <2> QED
    BY <1>2, <2>1, <2>2, OldestFacts
<1>5. Cardinality(kept) = MaxRows
  <2> HIDE DEF kept, n
  <2> QED
    BY <1>2, <1>4
<1>6. DOMAIN table' = kept /\ \A r \in kept : table'[r] = table[r]
  BY <1>1
<1>7. Gone' = Gone \cup {table[r] : r \in gone}
  BY <1>1 DEF Gone
<1>8. ASSUME NEW k \in kept, NEW e \in Gone  PROVE e < table[k]
  <2>1. Newer \in SUBSET DOMAIN table /\ Cardinality(Newer) >= MaxRows
    BY <1>8 DEF EnoughNewer, Newer
  <2>2. SUFFICES ASSUME ~(e < table[k])  PROVE FALSE
    OBVIOUS
  <2>3. e \in Nat /\ k \in DOMAIN table
    BY <1>8, SqliteAssumption DEF RowsInv, RowTypes, Gone
  <2>4. k \notin Newer
    BY <2>2, <1>8 DEF Newer
  <2>5. \A r \in Newer : r \in kept
    <3> SUFFICES ASSUME NEW r \in Newer, r \in gone  PROVE FALSE
      BY <2>1
    <3>1. table[r] < table[k] /\ e < table[r]
      BY <1>4, <1>8 DEF Newer
    <3>2. table[r] \in Nat /\ table[k] \in Nat
      BY <1>3, <2>1, <2>3
    <3> QED
      BY <2>2, <2>3, <3>1, <3>2
  <2>6. Newer \in SUBSET kept /\ Newer # kept
    BY <1>8, <2>4, <2>5
  <2> HIDE DEF kept
  <2>7. Cardinality(Newer) \in Nat /\ Cardinality(Newer) <= Cardinality(kept)
        /\ Cardinality(Newer) # Cardinality(kept)
    BY <1>4, <2>6, SubsetCard
  <2> QED
    BY <1>2, <1>5, <2>1, <2>7
<1>9. \A e \in Gone', k \in kept : e < table'[k]
  <2> SUFFICES ASSUME NEW e \in Gone', NEW k \in kept  PROVE e < table[k]
    BY <1>6
  <2>1. CASE e \in Gone
    BY <1>8, <2>1
  <2>2. CASE \E g \in gone : e = table[g]
    BY <1>4, <2>2
  <2> QED
    BY <1>7, <2>1, <2>2
<1>10. Newer' = kept
  <2> HIDE DEF kept
  <2> QED
    BY <1>6, <1>9 DEF Newer
<1> QED
  BY <1>2, <1>5, <1>6, <1>10 DEF EnoughNewer

LEMMA CapStep ==
  ASSUME CapInv, RowsInv, PostInv, Control, late \in BOOLEAN, ~late', [Next]_vars
  PROVE  CapInv'
<1> USE DEF CapInv, sameRows, sameReader, sameLosses
<1>0. DbMove /\ Worker \in Threads /\ ~late
  BY DbMoves, LateStays DEF Threads
<1>a. late' = late
  <2>1. late' \in BOOLEAN
    <3>1. CASE SqlMove \/ HookMove \/ Rests
      BY <3>1 DEF SqlMove, SqlMoves, HookMove, HookMoves, Rests
    <3>2. CASE \E t \in Threads : PassOn(t) \/ GoOut(t)
      BY <3>2 DEF PassOn, GoOut
    <3>3. CASE WorkerEnters \/ CloserEnters \/ CloserWaiting \/ Restarts
      BY <3>3 DEF WorkerEnters, CloserEnters, CloserWaiting, Restarts
    <3> QED
      BY <3>1, <3>2, <3>3, Moves DEF Control
  <2> QED
    BY <1>0, <2>1
<1>b. /\ \A t \in Threads : Way(t) = "delete" =>
           excess[t] > 0 /\ excess[t] + MaxRows = Cardinality(DOMAIN table)
      /\ \A t \in Threads : Way(t) \in {"commitPrune", "commit"} => Cardinality(DOMAIN table) <= MaxRows
  BY <1>0 DEF AtDelete, AtCommit
<1>c. ASSUME \A t \in Threads : Way(t)' \notin {"delete", "commitPrune", "commit"}
      PROVE  AtDelete' /\ AtCommit'
  BY <1>c DEF AtDelete, AtCommit
<1>d. ASSUME UNCHANGED <<committed, pruned>>  PROVE Capped' /\ KeepsNewest'
  BY <1>0, <1>d DEF Capped, KeepsNewest
<1>e. ASSUME UNCHANGED <<table, deleted, pruned>>  PROVE EnoughNewer' /\ OnlyCapped'
  <2>1. Gone' = Gone
    BY <1>e DEF Gone
  <2>2. Newer' = Newer
    BY <1>e, <2>1 DEF Newer
  <2> QED
    BY <1>0, <2>1, <2>2 DEF EnoughNewer, OnlyCapped
<1>1. ASSUME Inserts  PROVE CapInv'
  <2>1. /\ Way(Worker)' = "none" /\ sql[Worker] = "insert"
        /\ \A u \in Threads : u # Worker => Way(u)' = Way(u)
        /\ UNCHANGED <<committed, deleted, pruned>>
    BY <1>1 DEF Inserts, WayOnly
  <2>2. \A u \in Threads : Way(u)' = "none"
    BY <1>0, <2>1, OneOnWay
  <2>3. EnoughNewer'
    BY <1>0, <1>1, InsertedNewest
  <2>4. OnlyCapped'
    BY <1>0, <2>1 DEF OnlyCapped, Gone
  <2> QED
    BY <1>c, <1>d, <2>1, <2>2, <2>3, <2>4
<1>2. ASSUME NEW t \in Threads, Counts(t)  PROVE CapInv'
  <2>1. /\ UNCHANGED <<table, committed, deleted, pruned>>
        /\ \A u \in Threads : u # t => Way(u)' = Way(u)
        /\ sql[t] = "count"
    BY <1>2 DEF Counts, WayOnly
  <2>2. \A u \in Threads : u # t => Way(u)' = "none"
    BY <1>0, <2>1, OneOnWay
  <2>3. /\ Cardinality(DOMAIN table) \in Nat /\ MaxRows \in Nat /\ excess \in [Threads -> Nat]
    BY FS_CardinalityType, SqliteAssumption DEF RowsInv, RowTypes
  <2>4. CASE /\ Cardinality(DOMAIN table) > MaxRows
             /\ excess' = [excess EXCEPT ![t] = Cardinality(DOMAIN table) - MaxRows]
             /\ WayOnly(t, "none", "delete")
    <3>1. /\ Way(t)' = "delete"
          /\ excess'[t] > 0 /\ excess'[t] + MaxRows = Cardinality(DOMAIN table)
      BY <2>3, <2>4 DEF WayOnly
    <3>2. AtDelete' /\ AtCommit'
      BY <2>1, <2>2, <3>1 DEF AtDelete, AtCommit
    <3> QED
      BY <1>d, <1>e, <2>1, <3>2
  <2>5. CASE ~(Cardinality(DOMAIN table) > MaxRows) /\ (WayOnly(t, "none", "commit") \/ WayOnly(t, "none", "none"))
    <3>1. Way(t)' # "delete" /\ Cardinality(DOMAIN table) <= MaxRows
      BY <2>3, <2>5 DEF WayOnly
    <3>2. AtDelete' /\ AtCommit'
      BY <2>1, <2>2, <3>1 DEF AtDelete, AtCommit
    <3> QED
      BY <1>d, <1>e, <2>1, <3>2
  <2> QED
    BY <1>2, <2>4, <2>5 DEF Counts
<1>3. ASSUME NEW t \in Threads, Deletes(t)  PROVE CapInv'
  <2>1. /\ UNCHANGED <<committed, pruned>> /\ sql[t] = "delete" /\ Way(t)' = "commitPrune" /\ MaxRows > 0
        /\ \A u \in Threads : u # t => Way(u)' = Way(u)
    BY <1>3 DEF Deletes, WayOnly
  <2>2. \A u \in Threads : u # t => Way(u)' = "none"
    BY <1>0, <2>1, OneOnWay
  <2>3. EnoughNewer' /\ Cardinality(DOMAIN table') = MaxRows
    BY <1>0, <1>3, PrunedNewest
  <2>4. AtDelete' /\ AtCommit'
    <3>1. Cardinality(DOMAIN table') <= MaxRows
      BY <2>3, SqliteAssumption
    <3> QED
      BY <2>1, <2>2, <3>1 DEF AtDelete, AtCommit
  <2>5. OnlyCapped'
    BY <1>0, <2>1 DEF OnlyCapped
  <2> QED
    BY <1>d, <2>1, <2>3, <2>4, <2>5
<1>4. ASSUME NEW t \in Threads, Publishes(t)  PROVE CapInv'
  <2>1. /\ table' = table /\ committed' = table /\ pruned' = pruned \cup deleted /\ deleted' = {}
        /\ sql[t] \in {"commitPrune", "commit"} /\ (sql[t] = "commitPrune" => MaxRows > 0)
    BY <1>4 DEF Publishes, Publish
  <2>2. MaxRows > 0 => Cardinality(DOMAIN table) <= MaxRows
    BY <1>b, <2>1 DEF Way
  <2>3. Capped' /\ EnoughNewer' /\ OnlyCapped' /\ KeepsNewest'
    BY <1>0, <1>a, <2>1, <2>2, PublishedNewest
  <2>4. PICK to \in {"none", "commit", "shut"} :
          WayOnly(t, Way(t), to) /\ (to = "commit" => sql[t] = "commitPrune")
    BY <1>4 DEF Publishes
  <2>5. \A u \in Threads : u # t => Way(u)' = "none"
    BY <1>0, <2>1, <2>4, OneOnWay DEF WayOnly
  <2>6. Way(t)' # "delete" /\ (Way(t)' \in {"commitPrune", "commit"} => Cardinality(DOMAIN table) <= MaxRows)
    BY <2>1, <2>2, <2>4 DEF WayOnly
  <2>7. AtDelete' /\ AtCommit'
    BY <2>1, <2>5, <2>6 DEF AtDelete, AtCommit
  <2> QED
    BY <2>3, <2>7
<1>5. ASSUME NEW t \in Threads, Shuts(t)  PROVE CapInv'
  <2>1. /\ table' = committed /\ deleted' = {} /\ UNCHANGED <<committed, pruned>>
        /\ sql[t] = "shut" /\ Way(t)' = "none" /\ \A u \in Threads : u # t => Way(u)' = Way(u)
    BY <1>5 DEF Shuts, WayOnly
  <2>2. \A u \in Threads : Way(u)' = "none"
    BY <1>0, <2>1, OneOnWay
  <2>3. EnoughNewer' /\ OnlyCapped'
    BY <1>0, <2>1, RolledBackNewest
  <2> QED
    BY <1>c, <1>d, <2>1, <2>2, <2>3
<1>6. ASSUME NEW t \in Threads, Fails(t)  PROVE CapInv'
  <2>1. /\ UNCHANGED <<table, committed, deleted, pruned, excess>>
        /\ Way(t)' = "none" /\ \A u \in Threads : u # t => Way(u)' = Way(u)
    BY <1>6 DEF Fails, WayOnly
  <2>2. AtDelete' /\ AtCommit'
    BY <1>b, <2>1 DEF AtDelete, AtCommit
  <2> QED
    BY <1>d, <1>e, <2>1, <2>2
<1>10. ASSUME NEW t \in Threads, RollsBack(t)  PROVE CapInv'
  <2>1. /\ table' = committed /\ deleted' = {} /\ UNCHANGED <<committed, pruned>>
        /\ sql[t] \in {"insert", "count", "delete", "commitPrune", "commit"}
        /\ Way(t)' = "none" /\ \A u \in Threads : u # t => Way(u)' = Way(u)
    BY <1>10 DEF RollsBack, WayOnly
  <2>2. \A u \in Threads : Way(u)' = "none"
    BY <1>0, <2>1, OneOnWay
  <2>3. EnoughNewer' /\ OnlyCapped'
    BY <1>0, <2>1, RolledBackNewest
  <2> QED
    BY <1>c, <1>d, <2>1, <2>2, <2>3
<1>7. ASSUME Receives  PROVE CapInv'
  <2>1. /\ UNCHANGED <<table, committed, deleted, pruned, excess>>
        /\ Way(Worker)' = "insert" /\ \A u \in Threads : u # Worker => Way(u)' = Way(u)
    BY <1>7 DEF Receives, WayOnly
  <2>2. AtDelete' /\ AtCommit'
    BY <1>b, <2>1 DEF AtDelete, AtCommit
  <2> QED
    BY <1>d, <1>e, <2>1, <2>2
<1>8. ASSUME DbDies  PROVE CapInv'
  <2>1. /\ table' = committed /\ deleted' = {} /\ UNCHANGED <<committed, pruned>>
        /\ \A u \in Threads : Way(u)' = "none"
    BY <1>8 DEF DbDies
  <2>2. EnoughNewer' /\ OnlyCapped'
    BY <1>0, <2>1, RolledBackNewest
  <2> QED
    BY <1>c, <1>d, <2>1, <2>2
<1>9. ASSUME Polls \/ DbKeeps  PROVE CapInv'
  <2>1. /\ UNCHANGED <<table, committed, deleted, pruned, excess>>
        /\ \A u \in Threads : Way(u)' = Way(u)
    BY <1>9 DEF Polls, DbKeeps
  <2>2. AtDelete' /\ AtCommit'
    BY <1>b, <2>1 DEF AtDelete, AtCommit
  <2> QED
    BY <1>d, <1>e, <2>1, <2>2
<1> QED
  BY <1>0, <1>1, <1>2, <1>3, <1>4, <1>5, <1>6, <1>7, <1>8, <1>9, <1>10 DEF DbMove, DbStep
-----------------------------------------------------------------------------
(* The live view keeps in step.                                            *)

ViewInv == TopKept /\ NewAbove /\ ReadBelow /\ ReaderInStep

LEMMA ViewStart ==
  ASSUME Init  PROVE ViewInv
BY DEF Init, SqliteInit, ReaderInit, ViewInv, TopKept, NewAbove, ReadBelow, ReaderInStep

(* Row ids only grow in what is committed: a prune that takes the highest  *)
(* committed row leaves a row above it.                                     *)
LEMMA PrunedTop ==
  ASSUME RowsInv, Capped, AtDelete, EnoughNewer, NewAbove, TopKept, ~late,
         NEW t \in Threads, Deletes(t)
  PROVE  TopKept'
<1>1. /\ table' = [r \in DOMAIN table \ Oldest(table, excess[t]) |-> table[r]]
      /\ UNCHANGED <<committed, pruned>> /\ MaxRows > 0
  BY DEF Deletes
<1>2. DOMAIN table' \in SUBSET DOMAIN table
  BY <1>1
<1>3. Cardinality(DOMAIN table') = MaxRows /\ MaxRows \in Nat
  BY PrunedNewest, SqliteAssumption
<1>4. /\ Cardinality(DOMAIN committed) <= MaxRows /\ IsFiniteSet(DOMAIN committed)
      /\ DOMAIN committed \subseteq Nat /\ DOMAIN table \subseteq Nat
  BY <1>1 DEF Capped, RowsInv, RowTypes
<1>5. SUFFICES ASSUME NEW c \in DOMAIN committed, \A r \in DOMAIN table' : ~(c <= r)
               PROVE  FALSE
  BY <1>1 DEF TopKept
<1>6. ASSUME NEW r \in DOMAIN table'  PROVE r \in DOMAIN committed \ {c}
  <2>1. r \in DOMAIN table /\ r < c
    BY <1>2, <1>4, <1>5
  <2>2. r \in DOMAIN committed
    BY <1>4, <2>1 DEF NewAbove
  <2> QED
    BY <1>4, <2>1, <2>2
<1>7. DOMAIN table' \in SUBSET (DOMAIN committed \ {c})
  BY <1>6
<1>8. IsFiniteSet(DOMAIN committed \ {c}) /\ Cardinality(DOMAIN committed \ {c}) = Cardinality(DOMAIN committed) - 1
  BY <1>4, FS_RemoveElement
<1>9. /\ Cardinality(DOMAIN table') <= Cardinality(DOMAIN committed \ {c})
      /\ Cardinality(DOMAIN committed) \in Nat
  BY <1>4, <1>7, <1>8, SubsetCard, FS_CardinalityType
<1> QED
  BY <1>3, <1>4, <1>8, <1>9

(* The page of the live view is the lowest rows it has not shown. *)
LEMMA PageFacts ==
  ASSUME RowTypes, lastRow \in Nat, NewRows # {}
  PROVE  /\ NewRows \subseteq DOMAIN committed /\ Max(NewRows) \in NewRows
         /\ \A r \in NewRows : lastRow < r /\ r <= Max(NewRows)
         /\ \A r \in DOMAIN committed : lastRow < r /\ r <= Max(NewRows) => r \in NewRows
<1> DEFINE above == {r \in DOMAIN committed : r > lastRow}
           Below(r) == {q \in above : q < r}
           m == Max(NewRows)
<1>1. NewRows = {r \in above : Cardinality(Below(r)) < PollLimit}
  BY DEF NewRows
<1>2. DOMAIN committed \subseteq Nat /\ IsFiniteSet(DOMAIN committed)
  BY DEF RowTypes
<1>3. NewRows \in SUBSET DOMAIN committed /\ NewRows \in SUBSET Nat
  BY <1>1, <1>2
<1>4. IsFiniteSet(NewRows)
  BY <1>2, <1>3, SubsetCard
<1>5. m \in NewRows /\ m \in Nat /\ \A y \in NewRows : y <= m
  BY <1>3, <1>4, MaxFacts
<1> HIDE DEF m
<1>6. \A r \in NewRows : lastRow < r
  BY <1>1, <1>2
<1>7. ASSUME NEW r \in DOMAIN committed, lastRow < r, r <= m
      PROVE  r \in NewRows
  <2>1. r \in above /\ r \in Nat
    BY <1>2, <1>7
  <2>2. Below(r) \in SUBSET Below(m)
    BY <1>2, <1>5, <1>7
  <2>3. Below(m) \in SUBSET DOMAIN committed
    OBVIOUS
  <2>4. IsFiniteSet(Below(m))
    <3> HIDE DEF Below
    <3> QED
      BY <1>2, <2>3, SubsetCard
  <2>5. Cardinality(Below(m)) < PollLimit
    BY <1>1, <1>5
  <2>6. Cardinality(Below(r)) <= Cardinality(Below(m)) /\ Cardinality(Below(r)) \in Nat /\ Cardinality(Below(m)) \in Nat
    <3> HIDE DEF Below
    <3> QED
      BY <2>2, <2>4, SubsetCard
  <2>7. Cardinality(Below(r)) < PollLimit
    <3> HIDE DEF Below
    <3> QED
      BY <2>5, <2>6, PollAssumption
  <2> QED
    BY <1>1, <2>1, <2>7
<1> QED
  BY <1>3, <1>5, <1>6, <1>7 DEF m

(* A step that leaves the rows and the view alone. *)
LEMMA SameView ==
  ASSUME ViewInv, ~late, UNCHANGED <<table, committed, lastRow, shown>>
  PROVE  ViewInv'
BY DEF ViewInv, TopKept, NewAbove, ReadBelow, ReaderInStep

(* A step that sets the table back to what is committed. *)
LEMMA BackView ==
  ASSUME ViewInv, ~late, RowsInv, table' = committed, UNCHANGED <<committed, lastRow, shown>>
  PROVE  ViewInv'
<1>1. \A c \in DOMAIN committed : c \in Nat
  BY RowsFacts DEF RowsInv
<1>2. TopKept'
  <2>1. \A c \in DOMAIN committed : c <= c
    BY <1>1
  <2> QED
    BY <2>1 DEF TopKept
<1>3. NewAbove' /\ ReadBelow' /\ ReaderInStep'
  BY DEF ViewInv, NewAbove, ReadBelow, ReaderInStep
<1> QED
  BY <1>2, <1>3 DEF ViewInv

LEMMA ViewStep ==
  ASSUME ViewInv, CapInv, RowsInv, PostInv, Control, late \in BOOLEAN, ~late', [Next]_vars
  PROVE  ViewInv'
<1> USE DEF sameRows, sameReader, sameLosses
<1>0. DbMove /\ Worker \in Threads /\ ~late
  BY DbMoves, LateStays DEF Threads
<1>a. /\ \A c \in DOMAIN committed : \E r \in DOMAIN table : c <= r
      /\ \A r \in DOMAIN table :
           \/ r \in DOMAIN committed /\ table[r] = committed[r]
           \/ (\A c \in DOMAIN committed : c < r) /\ table[r] \notin Rows(committed) \cup shown
      /\ lastRow = 0 \/ \E c \in DOMAIN committed : lastRow <= c
      /\ \A r \in DOMAIN committed : committed[r] \in shown <=> r <= lastRow
  BY <1>0 DEF ViewInv, TopKept, NewAbove, ReadBelow, ReaderInStep
<1>b. /\ \A r \in DOMAIN table : r \in Nat \ {0} /\ table[r] \in Rows(table)
      /\ \A c \in DOMAIN committed : c \in Nat \ {0} /\ committed[c] \in Rows(committed)
      /\ lastRow \in Nat
  BY RowsFacts DEF RowsInv, RowTypes, ReaderTypes
<1>1. ASSUME Inserts  PROVE ViewInv'
  <2> DEFINE e == Last(order)
  <2>1. /\ Way(Worker) = "insert" /\ table' = WithRow(e)
        /\ UNCHANGED <<committed, lastRow, shown>>
    BY <1>1 DEF Inserts, WayOnly
  <2>2. e \notin Known
    BY <2>1, InHandFacts
  <2>3. PICK k \in Nat \ {0} :
          /\ \A r \in DOMAIN table : r < k /\ table'[r] = table[r]
          /\ DOMAIN table' = DOMAIN table \cup {k} /\ table'[k] = e
    <3> HIDE DEF e
    <3> QED
      BY <2>1, InsertFacts DEF RowsInv
  <2>4. TopKept'
    BY <1>a, <2>1, <2>3 DEF TopKept
  <2>5. \A c \in DOMAIN committed : c < k
    <3> SUFFICES ASSUME NEW c \in DOMAIN committed  PROVE c < k
      OBVIOUS
    <3>1. PICK r \in DOMAIN table : c <= r
      BY <1>a
    <3>2. r < k
      BY <2>3
    <3> QED
      BY <1>b, <3>1, <3>2
  <2>6. NewAbove'
    <3>1. e \notin Rows(committed) \cup shown
      BY <2>2 DEF Known
    <3>2. \A r \in DOMAIN table' : r = k \/ (r \in DOMAIN table /\ table'[r] = table[r])
      BY <2>3
    <3> HIDE DEF e
    <3> QED
      BY <1>a, <2>1, <2>3, <2>5, <3>1, <3>2 DEF NewAbove
  <2>7. ReadBelow' /\ ReaderInStep'
    BY <1>a, <2>1 DEF ReadBelow, ReaderInStep
  <2> QED
    BY <2>4, <2>6, <2>7 DEF ViewInv
<1>2. ASSUME NEW t \in Threads, Deletes(t)  PROVE ViewInv'
  <2>1. UNCHANGED <<committed, lastRow, shown>>
    BY <1>2 DEF Deletes
  <2>2. \A r \in DOMAIN table' : r \in DOMAIN table /\ table'[r] = table[r]
    BY <1>2 DEF Deletes
  <2>3. TopKept'
    BY <1>0, <1>2, PrunedTop DEF CapInv, ViewInv
  <2>4. NewAbove'
    BY <1>a, <2>1, <2>2 DEF NewAbove
  <2>5. ReadBelow' /\ ReaderInStep'
    BY <1>a, <2>1 DEF ReadBelow, ReaderInStep
  <2> QED
    BY <2>3, <2>4, <2>5 DEF ViewInv
<1>3. ASSUME NEW t \in Threads, Publishes(t)  PROVE ViewInv'
  <2>1. table' = table /\ committed' = table /\ UNCHANGED <<lastRow, shown>>
    BY <1>3 DEF Publishes, Publish
  <2>2. \A r \in DOMAIN table : r <= r
    BY <1>b
  <2>3. TopKept' /\ NewAbove'
    BY <2>1, <2>2 DEF TopKept, NewAbove
  <2>4. lastRow = 0 \/ \E r \in DOMAIN table : lastRow <= r
    <3> SUFFICES ASSUME NEW c \in DOMAIN committed, lastRow <= c
                 PROVE  \E r \in DOMAIN table : lastRow <= r
      BY <1>a
    <3>1. PICK r \in DOMAIN table : c <= r
      BY <1>a
    <3> QED
      BY <1>b, <3>1
  <2>5. ReadBelow'
    BY <2>1, <2>4 DEF ReadBelow
  <2>6. ASSUME NEW r \in DOMAIN table  PROVE table[r] \in shown <=> r <= lastRow
    <3>1. CASE r \in DOMAIN committed /\ table[r] = committed[r]
      BY <1>a, <3>1
    <3>2. CASE (\A c \in DOMAIN committed : c < r) /\ table[r] \notin shown
      <4>1. ~(r <= lastRow)
        BY <1>a, <1>b, <3>2
      <4> QED
        BY <3>2, <4>1
    <3> QED
      BY <1>a, <3>1, <3>2
  <2>7. ReaderInStep'
    BY <2>1, <2>6 DEF ReaderInStep
  <2> QED
    BY <2>3, <2>5, <2>7 DEF ViewInv
<1>4. ASSUME Polls  PROVE ViewInv'
  <2>1. /\ UNCHANGED <<table, committed>> /\ NewRows # {} /\ lastRow' = Max(NewRows)
        /\ shown' = shown \cup {committed[r] : r \in NewRows}
    BY <1>4 DEF Polls, Poll
  <2>2. /\ NewRows \subseteq DOMAIN committed /\ lastRow' \in NewRows
        /\ \A r \in NewRows : lastRow < r /\ r <= lastRow'
        /\ \A r \in DOMAIN committed : lastRow < r /\ r <= lastRow' => r \in NewRows
    BY <1>b, <2>1, PageFacts DEF RowsInv
  <2>3. shown' \subseteq shown \cup Rows(committed)
    BY <1>b, <2>1, <2>2
  <2>4. TopKept' /\ NewAbove'
    BY <1>a, <2>1, <2>3 DEF TopKept, NewAbove
  <2>5. ReadBelow'
    <3>1. lastRow' <= lastRow'
      BY <1>b, <2>2
    <3> QED
      BY <2>1, <2>2, <3>1 DEF ReadBelow
  <2>6. ASSUME NEW r \in DOMAIN committed  PROVE committed[r] \in shown' <=> r <= lastRow'
    <3>1. r \in Nat /\ lastRow' \in Nat
      BY <1>b, <2>2
    <3>2. ASSUME committed[r] \in shown'  PROVE r <= lastRow'
      <4>1. CASE committed[r] \in shown
        <5>1. r <= lastRow
          BY <1>a, <4>1
        <5>2. lastRow < lastRow'
          BY <2>2
        <5> QED
          BY <1>b, <3>1, <5>1, <5>2
      <4>2. CASE \E q \in NewRows : committed[r] = committed[q]
        <5>1. r \in NewRows
          BY <2>2, <4>2 DEF RowsInv, RowsDistinct, IsInjective
        <5> QED
          BY <2>2, <5>1
      <4> QED
        BY <2>1, <3>2, <4>1, <4>2
    <3>3. ASSUME r <= lastRow'  PROVE committed[r] \in shown'
      <4>1. CASE r <= lastRow
        BY <1>a, <2>1, <4>1
      <4>2. CASE lastRow < r
        BY <2>1, <2>2, <3>3, <4>2
      <4> QED
        BY <1>b, <3>1, <4>1, <4>2
    <3> QED
      BY <3>2, <3>3
  <2>7. ReaderInStep'
    BY <2>1, <2>6 DEF ReaderInStep
  <2> QED
    BY <2>4, <2>5, <2>7 DEF ViewInv
<1>5. ASSUME NEW t \in Threads, Shuts(t) \/ RollsBack(t)  PROVE ViewInv'
  BY <1>0, <1>5, BackView DEF Shuts, RollsBack
<1>6. ASSUME DbDies  PROVE ViewInv'
  BY <1>0, <1>6, BackView DEF DbDies
<1>7. ASSUME NEW t \in Threads, Counts(t) \/ Fails(t)  PROVE ViewInv'
  BY <1>0, <1>7, SameView DEF Counts, Fails
<1>8. ASSUME Receives \/ DbKeeps  PROVE ViewInv'
  BY <1>0, <1>8, SameView DEF Receives, DbKeeps
<1> QED
  BY <1>0, <1>1, <1>2, <1>3, <1>4, <1>5, <1>6, <1>7, <1>8 DEF DbMove, DbStep
-----------------------------------------------------------------------------
(* All together.                                                           *)

LEMMA CountStep ==
  ASSUME CountTypes, [Next]_vars
  PROVE  CountTypes'
<1> USE MultiAssumption DEF CountTypes, Fault, pastVars, connVars, sqliteVars
<1>1. ASSUME NEW t \in Threads, CountRows(t) /\ Statement(t)  PROVE CountTypes'
  BY <1>1 DEF CountRows, AfterPrune, Statement
<1>2. ASSUME NEW t \in Threads, CommitPrune(t) /\ Statement(t)  PROVE CountTypes'
  BY <1>2 DEF CommitPrune, AfterPrune, Statement
<1>3. ASSUME NEW t \in Threads, DeleteOldest(t) \/ Commit(t) \/ Shut(t), Statement(t)
      PROVE  CountTypes'
  BY <1>3 DEF DeleteOldest, Commit, Shut, Statement
<1>4. ASSUME NEW t \in Threads, Raise(t)  PROVE CountTypes'
  BY <1>4 DEF Raise, SqlRaises
<1>5. ASSUME NEW t \in Threads, NextBackend(t) \/ Send(t) \/ SendFails(t) \/ Leave(t)
      PROVE  CountTypes'
  BY <1>5 DEF NextBackend, Send, SendFails, Leave
<1>6. ASSUME WriteRow \/ WriteHook  PROVE CountTypes'
  BY <1>6 DEF WriteRow, Insert, WriteHook
<1>7. ASSUME NEW t \in Threads, NEW m \in Methods, Enter(t, m)  PROVE sincePrune' = sincePrune
  BY <1>7 DEF Enter, SqlEnter
<1>8. ASSUME NEW e \in Stamps, TakeEvent(e)  PROVE CountTypes'
  BY <1>7, <1>8 DEF TakeEvent, Threads, Methods
<1>9. ASSUME IdleFlush \/ FinalFlush \/ CloserFlush \/ CloserClose  PROVE CountTypes'
  BY <1>7, <1>9 DEF IdleFlush, FinalFlush, CloserFlush, CloserClose, Threads, Methods
<1>10. ASSUME StartShutdown \/ Joined \/ Read \/ UNCHANGED vars  PROVE CountTypes'
  BY <1>10 DEF StartShutdown, Joined, Read, Poll, vars
<1>11. ASSUME Crash  PROVE CountTypes'
  BY <1>11 DEF Crash, SqliteRestart
<1> QED
  BY <1>1, <1>2, <1>3, <1>4, <1>5, <1>6, <1>8, <1>9, <1>10, <1>11, NextCases DEF Send

LEMMA LossTypesStep ==
  ASSUME LossTypes, PostInv, Control, RowsInv, [Next]_vars
  PROVE  LossTypes'
<1> USE DEF LossTypes, sameLosses
<1>1. Items(order) \subseteq Stamps
  BY SeqItems DEF PostInv, PostKeys
<1>2. ASSUME NEW t \in Threads, Fails(t)  PROVE LossTypes'
  <2>1. CASE sql[t] = "insert"
    <3>1. t = Worker /\ Way(Worker) = "insert"
      BY <2>1 DEF Control, OnePlace, Callers, Threads, Way
    <3> QED
      BY <1>2, <2>1, <3>1, InHandFacts DEF Fails
  <2>2. CASE sql[t] # "insert"
    BY <1>2, <2>2 DEF Fails
  <2> QED
    BY <2>1, <2>2
<1>6. ASSUME NEW t \in Threads, RollsBack(t)  PROVE LossTypes'
  <2>1. lostRows' \subseteq Stamps
    BY <1>6, RowsFacts DEF RollsBack, RowsInv, RowTypes
  <2>2. CASE sql[t] = "insert"
    <3>1. t = Worker /\ Way(Worker) = "insert"
      BY <2>2 DEF Control, OnePlace, Callers, Threads, Way
    <3> QED
      BY <1>6, <2>1, <2>2, <3>1, InHandFacts DEF RollsBack
  <2>3. CASE sql[t] # "insert"
    BY <1>6, <2>1, <2>3 DEF RollsBack
  <2> QED
    BY <2>2, <2>3
<1>3. ASSUME DbDies  PROVE LossTypes'
  BY <1>1, <1>3 DEF DbDies
<1>4. ASSUME NEW t \in Threads, Counts(t) \/ Deletes(t) \/ Publishes(t) \/ Shuts(t)
      PROVE  LossTypes'
  BY <1>4 DEF Counts, Deletes, Publishes, Shuts
<1>5. ASSUME Inserts \/ Receives \/ Polls \/ DbKeeps  PROVE LossTypes'
  BY <1>5 DEF Inserts, Receives, Polls, DbKeeps
<1> QED
  BY <1>2, <1>3, <1>4, <1>5, <1>6, DbMoves DEF DbMove, DbStep

MultiInv ==
  /\ HookInv /\ CountTypes /\ LossTypes /\ RowsInv
  /\ LossInv /\ CapInv /\ ViewInv


LEMMA MultiAlways == Spec => []MultiInv
<1>1. Init => MultiInv
  <2> SUFFICES ASSUME Init  PROVE MultiInv
    OBVIOUS
  <2>1. LossTypes
    BY DEF Init, LossTypes
  <2>2. HookInv
    BY ControlStart, PostStart, InOrderStart DEF HookInv
  <2> QED
    BY <2>1, <2>2, ControlStart, RowsStart, LossStart, CapStart, ViewStart DEF MultiInv
<1>2. MultiInv /\ HookInv' /\ [Next]_vars => MultiInv'
  <2> SUFFICES ASSUME MultiInv, HookInv', [Next]_vars  PROVE MultiInv'
    OBVIOUS
  <2>1. Control /\ FlagTypes /\ PostInv /\ RowsInv /\ late \in BOOLEAN
    BY DEF MultiInv, HookInv, FlagTypes
  <2>2. CountTypes' /\ LossTypes' /\ RowsInv'
    BY <2>1, CountStep, LossTypesStep, RowsStep DEF MultiInv
  <2>3. LossInv' /\ CapInv' /\ ViewInv'
    <3>1. CASE late'
      BY <3>1 DEF LossInv, RowsAccounted, ShutClean, ClosedByCloser, CapInv, Capped, EnoughNewer,
                  AtDelete, AtCommit, OnlyCapped, KeepsNewest, ViewInv, TopKept, NewAbove,
                  ReadBelow, ReaderInStep
    <3>2. CASE ~late'
      BY <2>1, <3>2, LossStep, CapStep, ViewStep DEF MultiInv
    <3> QED
      BY <3>1, <3>2
  <2> QED
    BY <2>2, <2>3 DEF MultiInv
<1> QED
  BY <1>1, <1>2, HookAlways, PTL DEF Spec

(* Every variable has its type. *)
THEOREM TypeCorrect == Spec => []TypeOK
<1>1. MultiInv => TypeOK
  <2> SUFFICES ASSUME MultiInv  PROVE TypeOK
    OBVIOUS
  <2>1. /\ PlaceTypes /\ FlagTypes /\ PostTypes /\ order \in Seq(Stamps) /\ lostPosts \subseteq Stamps
    BY DEF MultiInv, HookInv, Control, PostInv, PostKeys
  <2>2. CountTypes /\ LossTypes /\ RowTypes /\ ReaderTypes
    BY DEF MultiInv, RowsInv
  <2>3. Rows(table) \subseteq Stamps /\ Rows(committed) \subseteq Stamps
    BY <2>2, RowsFacts
  <2> QED
    BY <2>1, <2>2, <2>3 DEF TypeOK, PlaceTypes, FlagTypes, PostTypes, CountTypes, LossTypes,
                            RowTypes, ReaderTypes, SqlPlaces
<1> QED
  BY <1>1, MultiAlways, PTL

(* close() rolls nothing back: a row that was inserted is in the database  *)
(* when the connection has been closed, unless it was pruned, the process   *)
(* died before the commit, or SQLite had rolled it back on its own at a     *)
(* statement that failed, a commit among them.                              *)
THEOREM NothingRolledBack == Spec => []ClosesOverNothing
<1>1. MultiInv => ClosesOverNothing
  BY ClosesFromInv DEF MultiInv, HookInv
<1> QED
  BY <1>1, MultiAlways, PTL

(* Pruning keeps the newest: after a prune the database holds exactly      *)
(* max_rows rows, all newer than every event ever pruned.                   *)
THEOREM NewestKept == Spec => []KeepsNewest
<1>1. MultiInv => KeepsNewest
  BY DEF MultiInv, CapInv
<1> QED
  BY <1>1, MultiAlways, PTL

(* The live view has shown exactly the committed rows up to its last row   *)
(* id, although row ids are used again after a prune.                       *)
THEOREM NoRowSkipped == Spec => []ReaderInStep
<1>1. MultiInv => ReaderInStep
  BY DEF MultiInv, ViewInv
<1> QED
  BY <1>1, MultiAlways, PTL
=============================================================================
