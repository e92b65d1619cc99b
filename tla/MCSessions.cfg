\* Two tasks, the logging API and the plugin in both, an alert at the second
\* unit of cost.  Five calls after a start outside, or inside, an agent of the
\* plugin's first run: a session of each source inside the other's, two model
\* calls and a new task, or three tool calls in two tasks.  Deadlock is not
\* checked: the behaviours end at MaxCalls.
SPECIFICATION Spec
CONSTANTS
  Tasks = {main, child}
  Main = main
  Threshold = 2
  MaxDepth = 1
  MaxCalls = 5
  MaxFailed = 1
  LogTypes = {"user_message", "tool_end"}
INVARIANTS
  TypeOK
  
  SkippedHasTwin
  AlertWhenOver
  SequenceSeesAll
CHECK_DEADLOCK FALSE
