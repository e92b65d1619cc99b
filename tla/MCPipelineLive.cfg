\* Liveness under the fairness of running threads: one producer, two shutdown
\* callers, a queue of one slot (every put meets a full queue or an empty one).
SPECIFICATION FairSpec
CONSTANTS
  Producers = {p1}
  Closers = {c1, c2}
  Nobody = Nobody
  MaxSize = 1
  Threshold = 2
  MaxCalls = 2
PROPERTIES
  QueuedEventsLeave
  PutReturns
  ShutdownReturns
CHECK_DEADLOCK FALSE
