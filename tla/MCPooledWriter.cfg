\* Two subprocesses and two slots, batches of at most two out of three events
\* (so up to three batches compete for the slots), one subprocess crash.
\* Deadlock is not checked: the process ends after close().
SPECIFICATION FairSpec
CONSTANTS
  MaxWorkers = 2
  BatchSize = 2
  MaxEvents = 3
  MaxCrashes = 1
INVARIANTS
  TypeOK
  NoSlotLeaks
  AtMostOnce
  CleanCloseFinishes
PROPERTIES
  PartialBatchSent
CHECK_DEADLOCK FALSE
