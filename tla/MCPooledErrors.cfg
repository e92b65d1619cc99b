\* One slot and no crash: a batch submitted after the slot wait timed out fails
\* and nobody counts it.
SPECIFICATION Spec
CONSTANTS
  MaxWorkers = 1
  BatchSize = 1
  MaxEvents = 2
  MaxCrashes = 0
INVARIANTS
  ErrorsCountFailures
CHECK_DEADLOCK FALSE
