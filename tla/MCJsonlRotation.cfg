\* No backup, one and three, each from an empty directory and beside the full
\* backups of a smaller backup_count, one larger by one, and one larger by more,
\* whose last files no rotation removes; files of two events, and enough of them for
\* the oldest backup to be deleted; two faults, each a failing call or a dying
\* process.  Deadlock is not checked: writing ends at the bound.
SPECIFICATION Spec
CONSTANTS
  BackupCounts = {0, 1, 3}
  MaxBytes = 2
  MaxStored = 13
  MaxFiles = 11
  MaxFaults = 2
INVARIANTS
  TypeOK
  KeptInOrder
  OnlyOldestGoes
  RetentionDegradesByFault
  SizeBounded
PROPERTY
  BeyondCountShrinks
CHECK_DEADLOCK FALSE
