\* Safety and refinement: two producer threads, two shutdown callers
\* (shutdown() and atexit), a queue of two slots and a breaker that trips at
\* two failures.  Deadlock is not checked: the process really ends once
\* everyone has returned.
SPECIFICATION Spec
CONSTANTS
  Producers = {p1, p2}
  Closers = {c1, c2}
  Nobody = Nobody
  MaxSize = 2
  Threshold = 2
  MaxCalls = 3
INVARIANTS
  TypeOK
  StatsAddUp
  WrittenInOrder
  GaugeCoversQueue
  CleanShutdownDrains
  ClosedUnderWorkerOnlyIfLate
PROPERTIES
  ImplementsChannel
CHECK_DEADLOCK FALSE
