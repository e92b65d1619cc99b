\* One slot, one crash: the retry after a broken pool releases a slot it never
\* acquired.
SPECIFICATION Spec
CONSTANTS
  MaxWorkers = 1
  BatchSize = 1
  MaxEvents = 3
  MaxCrashes = 1
INVARIANTS
  SemaphoreInvariant
CHECK_DEADLOCK FALSE
