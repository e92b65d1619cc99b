------------------------------ MODULE AdkPlugin ------------------------------
(***************************************************************************)
(* TelemetryPlugin (adapters/adk/plugin.py): the callbacks the framework    *)
(* makes around runs, agents, model calls and tool calls.  An event is      *)
(* registered last, when the context has been changed already; of several,  *)
(* each can fail alone.                                                     *)
(*                                                                         *)
(* The framework is external: open[t] is what it has begun in task t.  A    *)
(* consumer that leaves the generator early makes after_run the only        *)
(* callback of all that is open.                                            *)
(***************************************************************************)
EXTENDS LogApi

VARIABLE open   \* what the framework has begun in each task, innermost last

sessionVars == <<contextVars, open>>

Within(t, kinds) == open[t] # <<>> /\ open[t][Len(open[t])] \in kinds
Begin(t, kind)   == open' = [open EXCEPT ![t] = Append(@, kind)]

(* A task created by an agent works for that agent, which it cannot end.   *)
Own(t) == Len(open[t]) > 1
End(t, kind) ==
  /\ Within(t, {kind}) /\ Own(t)
  /\ open' = [open EXCEPT ![t] = SubSeq(@, 1, Len(@) - 1)]

Callback(t, c, types) == Called(t, c, "adapter") /\ Emit(c, types, "adapter")
-----------------------------------------------------------------------------
BeforeRun(t) ==
  LET c == [NewSession(ctx[t], "adapter") EXCEPT !.turn = FALSE] IN
    /\ open[t] = <<>> /\ Begin(t, "run")
    /\ Callback(t, c, {"session_start"})
    /\ Leaves(t, c) /\ NoAlert
    /\ started' = started \cup {c.trace}

AfterRun(t) ==
  LET c == [Filled(ctx[t]) EXCEPT !.depth = 0] IN
    /\ open[t] # <<>> /\ open[t][1] = "run"
    /\ open' = [open EXCEPT ![t] = <<>>]
    /\ Callback(t, c, {"session_end"})
    /\ Leaves(t, c) /\ NoAlert /\ UNCHANGED started

BeforeAgent(t) ==
  LET c == Filled(Deeper(NewSpan(ctx[t])))
      alarm == IF c.depth > MaxDepth THEN {"depth_exceeded"} ELSE {}
  IN  /\ Within(t, {"run", "agent"}) /\ Begin(t, "agent")
      /\ Callback(t, c, {"agent_start"} \cup alarm)
      /\ Leaves(t, c) /\ NoAlert /\ UNCHANGED started

AfterAgent(t) ==
  LET c == Filled(Shallower(ctx[t])) IN
    /\ End(t, "agent")
    /\ Callback(t, c, {"agent_end"})
    /\ Leaves(t, c) /\ NoAlert /\ UNCHANGED started

BeforeModel(t) ==
  LET c == [Filled(ctx[t]) EXCEPT !.turn = TRUE] IN
    /\ Within(t, {"agent"}) /\ Begin(t, "model")
    /\ Callback(t, c, {"model_request"})
    /\ Leaves(t, c) /\ NoAlert /\ UNCHANGED started

Duration(c) == IF c.turn THEN {"turn_duration"} ELSE {}

(* Cost is added, and the flag set, whether or not the events then pass.   *)
AfterModel(t) ==
  LET c == Spend(Filled(ctx[t]))
      alert == Crosses(c, "adapter")
      left == [c EXCEPT !.turn = FALSE, !.alerted["adapter"] = @ \/ alert]
      raised == IF alert THEN {"cost_threshold_exceeded"} ELSE {}
  IN  /\ End(t, "model")
      /\ Callback(t, c, {"model_response"} \cup raised \cup Duration(c))
      /\ Leaves(t, left)
      /\ IF alert /\ Allowed(c, "cost_threshold_exceeded", "adapter") THEN Alert(c) ELSE NoAlert
      /\ UNCHANGED started

(* An answer without token counts has no cost. *)
AfterModelNoUsage(t) ==
  LET c == Filled(ctx[t]) IN
    /\ End(t, "model")
    /\ Callback(t, c, {"model_response"} \cup Duration(c))
    /\ Leaves(t, [c EXCEPT !.turn = FALSE]) /\ NoAlert /\ UNCHANGED started

ModelError(t) ==
  LET c == Filled(ctx[t]) IN
    /\ End(t, "model")
    /\ Callback(t, c, {"model_error"} \cup Duration(c))
    /\ Leaves(t, [c EXCEPT !.turn = FALSE]) /\ NoAlert /\ UNCHANGED started

BeforeTool(t) ==
  LET c == Listed(Filled(NewSpan(ctx[t]))) IN
    /\ Within(t, {"agent"}) /\ Begin(t, "tool")
    /\ Callback(t, c, {"tool_start"})
    /\ RecordTool(t, c) /\ NoAlert /\ UNCHANGED started

(* after_tool and on_tool_error. *)
AfterTool(t, type) ==
  LET c == Filled(ctx[t]) IN
    /\ type \in {"tool_end", "tool_error"}
    /\ End(t, "tool")
    /\ Callback(t, c, {type})
    /\ Leaves(t, c) /\ NoAlert /\ UNCHANGED started

(* on_user_message, on_event and close: events that only name what         *)
(* happened.                                                                *)
Notice(t, type) ==
  LET c == Filled(ctx[t]) IN
    /\ type \in {"user_message", "stream_event", "adapter_close"} \cap LogTypes
    /\ UNCHANGED open
    /\ Callback(t, c, {type})
    /\ Leaves(t, c) /\ NoAlert /\ UNCHANGED started

AdkStep(t) ==
  \/ BeforeRun(t) \/ AfterRun(t) \/ BeforeAgent(t) \/ AfterAgent(t)
  \/ BeforeModel(t) \/ AfterModel(t) \/ AfterModelNoUsage(t) \/ ModelError(t)
  \/ BeforeTool(t)
  \/ \E type \in {"tool_end", "tool_error"} : AfterTool(t, type)
  \/ \E type \in LogTypes : Notice(t, type)
=============================================================================
