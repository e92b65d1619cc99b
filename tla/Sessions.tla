------------------------------ MODULE Sessions ------------------------------
(***************************************************************************)
(* The explicit logging API and the ADK plugin in one application: the     *)
(* code of the application logs on its own, around and inside what the     *)
(* framework runs, in tasks that inherit each other's context.             *)
(***************************************************************************)
EXTENDS AdkPlugin

(* Before anything has been called. *)
Idle == ContextInit /\ open = [t \in Tasks |-> <<>>]

(* In the first agent of a first run: what BeforeRun and BeforeAgent leave. *)
InAgent ==
  LET begun == {[type |-> "session_start", span |-> 1, source |-> "adapter"],
                [type |-> "agent_start", span |-> 2, source |-> "adapter"]}
  IN  /\ live = {Main}
      /\ ctx = [t \in Tasks |-> IF t # Main THEN NewContext ELSE
                 [NewContext EXCEPT !.trace = 1, !.span = 2, !.reg = 1, !.tools = 1, !.depth = 1]]
      /\ ids = 2 /\ calls = 0 /\ lists = {}
      /\ registry = {[reg |-> 1, type |-> e.type, span |-> e.span, source |-> e.source] : e \in begun}
      /\ emitted = begun /\ failed = {} /\ skipped = {} /\ alerts = <<>> /\ toolCalls = {}
      /\ started = {1} /\ users = {"adapter"}
      /\ open = [t \in Tasks |-> IF t = Main THEN <<"run", "agent">> ELSE <<>>]

Init == Idle \/ InAgent

(* What runs in the new task runs for the innermost agent, if there is one. *)
Fork(p, t) ==
  /\ CreateTask(p, t)
  /\ open' = [open EXCEPT ![t] = IF \E i \in DOMAIN open[p] : open[p][i] = "agent"
                                   THEN <<"agent">> ELSE <<>>]

LogCall(t) == LogStep(t) /\ UNCHANGED open

Next ==
  \/ \E t \in Tasks : LogCall(t) \/ AdkStep(t)
  \/ \E p, t \in Tasks : Fork(p, t)

Spec == Init /\ [][Next]_sessionVars
-----------------------------------------------------------------------------
Ids == 0 .. MaxCalls + 2
Types ==
  {"session_start", "session_end", "agent_start", "agent_end", "model_request",
   "model_response", "model_error", "turn_duration", "tool_start", "tool_end", "tool_error",
   "cost_threshold_exceeded", "depth_exceeded", "stream_event", "adapter_close"} \cup LogTypes
Contexts ==
  [trace : Ids, span : Ids, reg : Ids, tools : Ids, cost : 0 .. MaxCalls, depth : 0 .. MaxCalls + 1,
   alerted : [Sources -> BOOLEAN], turn : BOOLEAN]

(* Every variable has its type, and no more is generated than calls made. *)
TypeOK ==
  /\ live \subseteq Tasks /\ Main \in live
  /\ ctx \in [Tasks -> Contexts]
  /\ calls \in 0 .. MaxCalls /\ ids \in Ids
  /\ registry \subseteq [reg : Ids, type : Types, span : Ids, source : Sources]
  /\ lists \subseteq [list : Ids, n : 1 .. MaxCalls, by : Tasks]
  /\ emitted \subseteq [type : Types, span : Ids, source : Sources]
  /\ failed \subseteq [type : Types, span : Ids, source : Sources]
  /\ skipped \subseteq [type : Types, span : Ids, source : Sources]
  /\ alerts \in Seq(Ids)
  /\ toolCalls \subseteq [trace : Ids, n : 1 .. MaxCalls, by : Tasks]
  /\ started \subseteq Ids
  /\ users \subseteq Sources
  /\ open \in [Tasks -> Seq({"run", "agent", "model", "tool"})]

(* The deduplication promise (core/dedup.py): in one span, the events of   *)
(* one type all come from one source, across tasks that share the registry, *)
(* nested agents and tools, and sessions begun by either source inside the  *)
(* other's.                                                                 *)
OneSourcePerSpan ==
  \A a, b \in emitted : a.type = b.type /\ a.span = b.span => a.source = b.source

(* What the registry held back (core/dedup.py), the other source had        *)
(* reported for the same span, or had failed to: an entry is only ever that *)
(* of a report, so with nothing failing the only report is never lost.  One *)
(* that raises after its registration (log.py, the plugin's emit) leaves an *)
(* entry that holds back the other source's, and then nobody reports.       *)
SkippedHasTwin ==
  \A a \in skipped : \E b \in emitted \cup failed :
    b.type = a.type /\ b.span = a.span /\ b.source # a.source

(* The cost alert, when one source reports everything: a session at or     *)
(* over the threshold has had its alert raised, whatever failed before, and *)
(* without child tasks exactly once (docs/getting-started/adk.md: once per  *)
(* session).  The flag is set before the alert is built and put, so one     *)
(* that fails is not raised again.  A child task has its own copy of the    *)
(* flag and may repeat it, and with two sources each has a flag that the    *)
(* other's session_start leaves alone.                                      *)
AlertWhenOver ==
  Cardinality(users) = 1 =>
    /\ \A t \in live : ctx[t].cost >= Threshold => \E i \in DOMAIN alerts : alerts[i] = ctx[t].trace
    /\ live = {Main} => \A i, j \in DOMAIN alerts : alerts[i] = alerts[j] => i = j

(* The tool sequence of a session is all its tool calls in order, those of *)
(* child tasks and of both sources: the list is shared where the rest of    *)
(* the context is copied.                                                   *)
SequenceSeesAll ==
  \A t \in live : ctx[t].trace \in started =>
    {<<e.n, e.by>> : e \in {x \in lists : x.list = ctx[t].tools}} =
    {<<e.n, e.by>> : e \in {x \in toolCalls : x.trace = ctx[t].trace}}
=============================================================================
