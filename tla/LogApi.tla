------------------------------- MODULE LogApi -------------------------------
(***************************************************************************)
(* The explicit logging API (log.py), which the decorators                 *)
(* (core/decorators.py) call as well.  The application may call it in any   *)
(* order.  An event is registered first, and a call held back by the        *)
(* registry ends there.  What a call still does then stands in one try that *)
(* only logs: the event is built, from what the application passed, and put *)
(* on the queue.                                                            *)
(***************************************************************************)
EXTENDS TaskContext

CONSTANT LogTypes   \* types of the events that only name what happened

Log(t, c, types) == Called(t, c, "log") /\ Emit(c, types, "log")

LogSessionStart(t) ==
  LET c == NewSession(ctx[t], "log") IN
    /\ Log(t, c, {"session_start"})
    /\ Leaves(t, c) /\ NoAlert
    /\ started' = started \cup {c.trace}

(* The depth alarm does not pass the registry. *)
LogAgentStart(t) ==
  LET c == Filled(Deeper(NewSpan(ctx[t]))) IN
    /\ Log(t, c, {"agent_start"})
    /\ Leaves(t, c) /\ NoAlert /\ UNCHANGED started

LogAgentEnd(t) ==
  LET c == Filled(Shallower(ctx[t])) IN
    /\ Log(t, c, {"agent_end"})
    /\ Leaves(t, c) /\ NoAlert /\ UNCHANGED started

(* The alert does not pass the registry either. *)
LogModelResponse(t) ==
  LET c == Filled(ctx[t])
      spent == Spend(c)
      alert == Crosses(spent, "log")
  IN  /\ Log(t, c, {"model_response"})
      /\ IF ~Allowed(c, "model_response", "log") THEN Leaves(t, c) /\ NoAlert
         ELSE IF alert THEN Leaves(t, [spent EXCEPT !.alerted["log"] = TRUE]) /\ Alert(c)
         ELSE Leaves(t, spent) /\ NoAlert
      /\ UNCHANGED started

(* A token count that is no number: the sum raises before the cost is      *)
(* added.                                                                   *)
LogModelResponseFails(t) ==
  LET c == Filled(ctx[t]) IN
    /\ Called(t, c, "log")
    /\ Report(c, {"model_response"}, "log", {"model_response"})
    /\ Leaves(t, c) /\ NoAlert /\ UNCHANGED started

LogToolStart(t) ==
  LET c == Listed(Filled(NewSpan(ctx[t]))) IN
    /\ Log(t, c, {"tool_start"})
    /\ RecordTool(t, c) /\ NoAlert /\ UNCHANGED started

(* session_end, model_request, model_error, tool_end, tool_error,          *)
(* user_message, agent_handoff, and emit(), which starts no span whatever   *)
(* the type; with token counts emit() is LogModelResponse.                  *)
LogEvent(t, type) ==
  LET c == Filled(ctx[t]) IN
    /\ Log(t, c, {type})
    /\ Leaves(t, c) /\ NoAlert /\ UNCHANGED started

LogStep(t) ==
  \/ LogSessionStart(t) \/ LogAgentStart(t) \/ LogAgentEnd(t)
  \/ LogModelResponse(t) \/ LogModelResponseFails(t) \/ LogToolStart(t)
  \/ \E type \in LogTypes : LogEvent(t, type)
=============================================================================
