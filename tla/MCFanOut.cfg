\* A database capped at one row and a webhook with batches of two, three
\* events written in any order of their timestamps, and one fault: a failing
\* statement, a failing POST, a late join or a crash.  A cap of one row and
\* three events are the least that make a row id be used twice.  Deadlock is
\* not checked: the process really ends after the shutdown.
SPECIFICATION FairSpec
CONSTANTS
  Worker = Worker
  Closer = Closer
  Stamps = {1, 2, 3}
  MaxRows = 1
  PruneInterval = 2
  PollLimit = 2
  BatchSize = 2
  MaxFaults = 1
INVARIANTS
  TypeOK
  ReaderInStep
  KeepsNewest
  ClosesOverNothing
  ReachesWebhookOnce
  SentInOrder
  NothingLeftBehind
PROPERTIES
  WrittenShows
CHECK_DEADLOCK FALSE
