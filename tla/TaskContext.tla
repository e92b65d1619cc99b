----------------------------- MODULE TaskContext -----------------------------
(***************************************************************************)
(* What the session log API and the adapters keep between calls            *)
(* (core/context.py, core/dedup.py, core/sequences.py, core/detection.py): *)
(* ContextVars, which every asyncio task has a copy of, taken when the task *)
(* is created.  The copy is shallow: the deduplication registry and the     *)
(* list of tool calls are objects that copies share; the session cost, the  *)
(* delegation depth and the flags are values.                               *)
(*                                                                         *)
(* A call of the API and a callback of a framework have no await in them:   *)
(* each is one step.  Identifiers of all kinds come from one counter.       *)
(***************************************************************************)
EXTENDS Integers, FiniteSets, Sequences

CONSTANTS
  Tasks,      \* asyncio tasks of the application
  Main,       \* the one that starts first
  Threshold,  \* cost threshold, in units of what one model call costs
  MaxDepth,   \* MAX_DELEGATION_DEPTH
  MaxCalls,   \* bound of the model: calls, callbacks and new tasks in a behaviour
  MaxFailed   \* bound of the model: different reports that fail in a behaviour

ASSUME ContextAssumption ==
  /\ Main \in Tasks
  /\ Threshold \in Nat \ {0} /\ MaxDepth \in Nat
  /\ MaxCalls \in Nat /\ MaxFailed \in Nat

VARIABLES
  live,      \* tasks that have been created
  ctx,       \* the ContextVars of each task
  ids,       \* identifiers generated so far
  registry,  \* entries of the deduplication registries
  lists,     \* entries of the lists of tool calls
  calls,     \* calls, callbacks and new tasks so far
  \* history
  emitted,   \* events put on the queue: type, span, source
  failed,    \* events that were registered, and then something raised
  skipped,   \* events the registry held back
  alerts,    \* traces of the cost alerts raised, in order
  toolCalls, \* tool calls recorded, by trace
  started,   \* traces begun by a session_start
  users      \* sources that have called at all

pastVars == <<emitted, failed, skipped, alerts, toolCalls, started, users>>
contextVars == <<live, ctx, ids, registry, lists, calls, pastVars>>

Sources == {"log", "adapter"}
Unset == 0      \* ContextVar.get() raises LookupError, or gives None

NewContext ==
  [trace |-> Unset, span |-> Unset, reg |-> Unset, tools |-> Unset,
   cost |-> 0, depth |-> 0, alerted |-> [s \in Sources |-> FALSE], turn |-> FALSE]

ContextInit ==
  /\ live = {Main} /\ ctx = [t \in Tasks |-> NewContext]
  /\ ids = 0 /\ registry = {} /\ lists = {} /\ calls = 0
  /\ emitted = {} /\ failed = {} /\ skipped = {} /\ alerts = <<>> /\ toolCalls = {}
  /\ started = {} /\ users = {}
-----------------------------------------------------------------------------
(* Changes of a context c.  Only one identifier of a kind is new in a step. *)
Fresh == ids + 1

NewSpan(c) == [c EXCEPT !.span = Fresh]

(* get_trace_id and get_span_id generate what is not set, and the registry *)
(* is created at its first use.                                             *)
Filled(c) ==
  [c EXCEPT !.trace = IF @ = Unset THEN Fresh ELSE @,
            !.span  = IF @ = Unset THEN Fresh ELSE @,
            !.reg   = IF @ = Unset THEN Fresh ELSE @]

(* Mutant: the alert flag is not reset. *)
NewSession_KeepsFlag(c, source) ==
  [c EXCEPT !.trace = Fresh, !.span = Fresh, !.reg = Fresh, !.tools = Fresh,
            !.cost = 0, !.depth = 0]

(* What every session_start does, and its own flag. *)
NewSession(c, source) ==
  [c EXCEPT !.trace = Fresh, !.span = Fresh, !.reg = Fresh, !.tools = Fresh,
            !.cost = 0, !.depth = 0, !.alerted[source] = FALSE]

Deeper(c) == [c EXCEPT !.depth = @ + 1]

(* Mutant: no floor at 0. *)
Shallower_NoFloor(c) == [c EXCEPT !.depth = @ - 1]

Shallower(c) == [c EXCEPT !.depth = IF @ = 0 THEN 0 ELSE @ - 1]

Spend(c) == [c EXCEPT !.cost = @ + 1]
Crosses(c, source) == ~c.alerted[source] /\ c.cost >= Threshold
-----------------------------------------------------------------------------
(* Mutant: an entry is looked up by the type of the event only. *)
Owners_ByType(c, type) ==
  {e.source : e \in {r \in registry : r.reg = c.reg /\ r.type = type}}

(* The source that first emitted this type in this span. *)
Owners(c, type) ==
  {e.source : e \in {r \in registry : r.reg = c.reg /\ r.type = type /\ r.span = c.span}}

Allowed(c, type, source) == Owners(c, type) \subseteq {source}

(* Mutant: the entry is stored under the trace. *)
Entry_TraceKey(c, type, source) ==
  [reg |-> c.reg, type |-> type, span |-> c.trace, source |-> source]

Entry(c, type, source) ==
  [reg |-> c.reg, type |-> type, span |-> c.span, source |-> source]
Emission(c, type, source) == [type |-> type, span |-> c.span, source |-> source]

(* register_emission, and then the queue, for events of these types.  Those *)
(* in lost get no further than the registry: building the event or putting *)
(* it on the queue raises, which is logged only, and the entry stays.       *)
Report(c, types, source, lost) ==
  LET passing == {y \in types : Allowed(c, y, source)} IN
    /\ lost \subseteq passing
    /\ registry' = registry \cup {Entry(c, y, source) : y \in passing}
    /\ emitted'  = emitted \cup {Emission(c, y, source) : y \in passing \ lost}
    /\ failed'   = failed \cup {Emission(c, y, source) : y \in lost}
    /\ skipped'  = skipped \cup {Emission(c, y, source) : y \in types \ passing}
    /\ Cardinality(failed') <= MaxFailed

Emit(c, types, source) == \E lost \in SUBSET types : Report(c, types, source, lost)

(* A tool call is appended to the list, which is created when there is     *)
(* none; c is the context with its trace.                                   *)
Listed(c) == [c EXCEPT !.tools = IF @ = Unset THEN Fresh ELSE @]
Position(c) == 1 + Cardinality({e \in lists : e.list = c.tools})

(* Mutant: the list is copied, and only this task sees the call. *)
RecordTool_Copies(t, c) ==
  /\ lists' = lists \cup {[list |-> Fresh, n |-> e.n, by |-> e.by] :
                           e \in {x \in lists : x.list = c.tools}}
                    \cup {[list |-> Fresh, n |-> Position(c), by |-> t]}
  /\ toolCalls' = toolCalls \cup
       {[trace |-> c.trace, n |-> 1 + Cardinality({e \in toolCalls : e.trace = c.trace}), by |-> t]}
  /\ ctx' = [ctx EXCEPT ![t] = [c EXCEPT !.tools = Fresh]]

RecordTool(t, c) ==
  /\ lists' = lists \cup {[list |-> c.tools, n |-> Position(c), by |-> t]}
  /\ toolCalls' = toolCalls \cup
       {[trace |-> c.trace, n |-> 1 + Cardinality({e \in toolCalls : e.trace = c.trace}), by |-> t]}
  /\ ctx' = [ctx EXCEPT ![t] = c]

Leaves(t, c) == ctx' = [ctx EXCEPT ![t] = c] /\ UNCHANGED <<lists, toolCalls>>
Alert(c) == alerts' = Append(alerts, c.trace)
NoAlert  == UNCHANGED alerts

(* A call by a source in a task, which leaves context c. *)
Called(t, c, source) ==
  /\ t \in live /\ calls < MaxCalls
  /\ calls' = calls + 1
  /\ ids' = IF Fresh \in {c.trace, c.span, c.reg, c.tools} THEN Fresh ELSE ids
  /\ users' = users \cup {source}
  /\ UNCHANGED live

(* asyncio.create_task copies the context. *)
CreateTask(p, t) ==
  /\ p \in live /\ t \in Tasks \ live
  /\ calls < MaxCalls /\ calls' = calls + 1
  /\ live' = live \cup {t}
  /\ ctx' = [ctx EXCEPT ![t] = ctx[p]]
  /\ UNCHANGED <<ids, registry, lists, pastVars>>
=============================================================================
