---------------------------- MODULE SqliteBackend ----------------------------
(***************************************************************************)
(* SQLiteBackend (backends/sqlite.py): rows are inserted into a            *)
(* transaction that flush() or a prune commits, and a prune deletes the    *)
(* rows with the oldest timestamps beyond max_rows.                        *)
(*                                                                         *)
(* One action is one statement on the connection, which SQLite runs alone. *)
(* The thread that writes and the one that shuts down may both be inside.  *)
(* An event is named by its timestamp; events are written in any order of  *)
(* their timestamps, because emitters stamp them before they queue them.   *)
(***************************************************************************)
EXTENDS StorageProtocol, Naturals, FiniteSets, Functions, FiniteSetsExt

CONSTANTS
  Stamps,         \* timestamps of the events
  MaxRows,        \* max_rows, 0 for None
  PruneInterval   \* _PRUNE_CHECK_INTERVAL

ASSUME SqliteAssumption ==
  /\ Stamps \subseteq Nat
  /\ MaxRows \in Nat /\ PruneInterval \in Nat \ {0}

VARIABLES
  table,       \* the rows as this connection sees them: row id -> event
  committed,   \* the rows as every other connection sees them
  connected,   \* the connection has not been closed
  sqlClosed,   \* _closed
  sincePrune,  \* _writes_since_prune
  sql,         \* where a thread is in a method of the backend
  method,      \* which method that is
  excess,      \* rows a thread is about to prune
  \* history
  deleted,     \* events the open transaction has deleted
  pruned       \* events a committed prune has deleted

rowVars    == <<table, committed, deleted, pruned>>
connVars   == <<connected, sqlClosed, sincePrune>>
sqlThreads == <<sql, method, excess>>
sqliteVars == <<rowVars, connVars, sqlThreads>>

SqliteInit ==
  /\ table = <<>> /\ committed = <<>>
  /\ connected = TRUE /\ sqlClosed = FALSE /\ sincePrune = 0
  /\ sql = [t \in Threads |-> "out"] /\ method = [t \in Threads |-> "write"]
  /\ excess = [t \in Threads |-> 0]
  /\ deleted = {} /\ pruned = {}

(* Without AUTOINCREMENT, the next row id is one above the highest in use. *)
NextRowid == 1 + Max(DOMAIN table \cup {0})

(* The n rows with the oldest timestamps. *)
OldestRows(n) ==
  {r \in DOMAIN table : Cardinality({q \in DOMAIN table : table[q] < table[r]}) < n}

SqlGoto(t, to) == sql' = [sql EXCEPT ![t] = to]

(* What a commit publishes. *)
Publish ==
  /\ committed' = table
  /\ pruned' = pruned \cup deleted
  /\ deleted' = {}
-----------------------------------------------------------------------------
(* A sub-backend's method is entered with these. *)
FlushEntry == IF MaxRows > 0 THEN "count" ELSE "commit"
SqlEnter(t, m) ==
  /\ method' = [method EXCEPT ![t] = m]
  /\ CASE m = "write" -> SqlGoto(t, "insert") /\ UNCHANGED sqlClosed
       [] m = "flush" -> SqlGoto(t, FlushEntry) /\ UNCHANGED sqlClosed
       [] m = "close" -> /\ SqlGoto(t, IF sqlClosed THEN "returned" ELSE FlushEntry)
                         /\ sqlClosed' = TRUE
  /\ UNCHANGED <<rowVars, connected, sincePrune, excess>>

Insert(t, e) ==
  /\ sql[t] = "insert" /\ connected
  /\ table' = [r \in DOMAIN table \cup {NextRowid} |-> IF r \in DOMAIN table THEN table[r] ELSE e]
  /\ sincePrune' = sincePrune + 1
  /\ SqlGoto(t, IF MaxRows > 0 /\ sincePrune' >= PruneInterval THEN "count" ELSE "returned")
  /\ UNCHANGED <<committed, deleted, pruned, connected, sqlClosed, method, excess>>

(* What follows _prune: write() resets its counter, flush() commits. *)
AfterPrune(t) ==
  /\ SqlGoto(t, IF method[t] = "write" THEN "returned" ELSE "commit")
  /\ sincePrune' = IF method[t] = "write" THEN 0 ELSE sincePrune

(* Mutant: the excess is deleted without asking whether there is one. *)
CountRows_Always(t) ==
  /\ sql[t] = "count" /\ connected
  /\ excess' = [excess EXCEPT ![t] = Cardinality(DOMAIN table) - MaxRows]
  /\ SqlGoto(t, "delete")
  /\ UNCHANGED <<rowVars, connVars, method>>

CountRows(t) ==
  /\ sql[t] = "count" /\ connected
  /\ LET count == Cardinality(DOMAIN table) IN
       IF count > MaxRows
         THEN /\ excess' = [excess EXCEPT ![t] = count - MaxRows]
              /\ SqlGoto(t, "delete")
              /\ UNCHANGED sincePrune
         ELSE AfterPrune(t) /\ UNCHANGED excess
  /\ UNCHANGED <<rowVars, connected, sqlClosed, method>>

(* Mutant: the oldest rows are those inserted first. *)
DeleteOldest_ByRowid(t) ==
  /\ sql[t] = "delete" /\ connected
  /\ LET gone == {r \in DOMAIN table : Cardinality({q \in DOMAIN table : q < r}) < excess[t]} IN
       /\ table' = Restrict(table, DOMAIN table \ gone)
       /\ deleted' = deleted \cup {table[r] : r \in gone}
  /\ SqlGoto(t, "commitPrune")
  /\ UNCHANGED <<committed, pruned, connVars, method, excess>>

(* Mutant: one row too many. *)
DeleteOldest_OneMore(t) ==
  /\ sql[t] = "delete" /\ connected
  /\ LET gone == OldestRows(excess[t] + 1) IN
       /\ table' = Restrict(table, DOMAIN table \ gone)
       /\ deleted' = deleted \cup {table[r] : r \in gone}
  /\ SqlGoto(t, "commitPrune")
  /\ UNCHANGED <<committed, pruned, connVars, method, excess>>

(* The rows are chosen by timestamp: the row just inserted may be one. *)
DeleteOldest(t) ==
  /\ sql[t] = "delete" /\ connected
  /\ LET gone == OldestRows(excess[t]) IN
       /\ table' = Restrict(table, DOMAIN table \ gone)
       /\ deleted' = deleted \cup {table[r] : r \in gone}
  /\ SqlGoto(t, "commitPrune")
  /\ UNCHANGED <<committed, pruned, connVars, method, excess>>

CommitPrune(t) ==
  /\ sql[t] = "commitPrune" /\ connected
  /\ Publish
  /\ AfterPrune(t)
  /\ UNCHANGED <<table, connected, sqlClosed, method, excess>>

(* Mutant: flush() trusts the prune to have committed. *)
Commit_Skipped(t) ==
  /\ sql[t] = "commit" /\ connected
  /\ IF MaxRows > 0 THEN UNCHANGED rowVars ELSE Publish /\ UNCHANGED table
  /\ SqlGoto(t, IF method[t] = "close" THEN "shut" ELSE "returned")
  /\ UNCHANGED <<connVars, method, excess>>

Commit(t) ==
  /\ sql[t] = "commit" /\ connected
  /\ Publish
  /\ SqlGoto(t, IF method[t] = "close" THEN "shut" ELSE "returned")
  /\ UNCHANGED <<table, connVars, method, excess>>

(* Closing the connection rolls an open transaction back. *)
Shut(t) ==
  /\ sql[t] = "shut" /\ connected
  /\ connected' = FALSE
  /\ table' = committed /\ deleted' = {}
  /\ SqlGoto(t, "returned")
  /\ UNCHANGED <<committed, pruned, sqlClosed, sincePrune, method, excess>>

(* A statement raises: the connection is closed, or the database is locked, *)
(* the disk is full or I/O fails.  SQLite undoes that statement alone, or,  *)
(* for some of these errors and always when the disk fails under a COMMIT,  *)
(* rolls the open transaction back, of which the code is not told.          *)
SqlRaises(t) ==
  /\ sql[t] \in {"insert", "count", "delete", "commitPrune", "commit"}
  /\ SqlGoto(t, "raised")
  /\ \/ UNCHANGED <<table, deleted>>
     \/ connected /\ table' = committed /\ deleted' = {}
  /\ UNCHANGED <<committed, pruned, connVars, method, excess>>

(* The process dies and another opens the same file: what was committed    *)
(* is there, the rest is not.                                               *)
SqliteRestart ==
  /\ table' = committed /\ deleted' = {}
  /\ connected' = TRUE /\ sqlClosed' = FALSE /\ sincePrune' = 0
  /\ sql' = [t \in Threads |-> "out"]
  /\ excess' = [t \in Threads |-> 0]
  /\ UNCHANGED <<committed, pruned, method>>

SqliteStep(t) ==
  \/ CountRows(t) \/ DeleteOldest(t) \/ CommitPrune(t) \/ Commit(t) \/ Shut(t)
=============================================================================
