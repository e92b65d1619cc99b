------------------------------ MODULE TuiReader ------------------------------
(***************************************************************************)
(* The live view (tui/app.py): a process of its own that polls the table   *)
(* for rows above the last row id it has shown.  It sees committed rows.   *)
(***************************************************************************)
EXTENDS SqliteBackend

CONSTANT PollLimit   \* LIMIT of the query

ASSUME PollAssumption == PollLimit \in Nat \ {0}

VARIABLES
  lastRow,   \* _last_rowid
  shown      \* events in the table of the view

readerVars == <<lastRow, shown>>

ReaderInit == lastRow = 0 /\ shown = {}

(* The rows of one query: above the last one shown, lowest first. *)
NewRows ==
  LET above == {r \in DOMAIN committed : r > lastRow}
  IN  {r \in above : Cardinality({q \in above : q < r}) < PollLimit}

Poll ==
  /\ NewRows # {}
  /\ lastRow' = Max(NewRows)
  /\ shown' = shown \cup {committed[r] : r \in NewRows}
  /\ UNCHANGED sqliteVars
=============================================================================
