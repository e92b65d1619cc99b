\* One backup, files of two events, no fault: initialize() on the same path
\* while the old worker rotates.
SPECIFICATION Spec
CONSTANTS
  BackupCounts = {1}
  MaxBytes = 2
  MaxStored = 6
  MaxFiles = 5
  MaxFaults = 0
INVARIANTS
  RotatesWhenExceeded
CHECK_DEADLOCK FALSE
