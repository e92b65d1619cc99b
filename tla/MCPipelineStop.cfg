\* One producer, one shutdown caller: the smallest setting in which a put_nowait
\* on a full queue evicts the shutdown sentinel.
SPECIFICATION FairSpec
CONSTANTS
  Producers = {p1}
  Closers = {c1}
  Nobody = Nobody
  MaxSize = 2
  Threshold = 2
  MaxCalls = 3
PROPERTIES
  ShutdownStopsWorker
CHECK_DEADLOCK FALSE
