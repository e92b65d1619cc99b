\* One thread that initializes twice, one that calls shutdown(), one emitter with
\* three events and a queue of two.  Deadlock is not checked: the process
\* ends when everyone has returned.
SPECIFICATION FairSpec
CONSTANTS
  Emitters = {e1}
  Initializers = {i1}
  Stoppers = {s1}
  QueueSize = 2
  MaxPipelines = 2
  MaxEmits = 3
INVARIANTS
  TypeOK
  ServesUnlessAsked
  OneWriterAtATime
  EmitterOrderKept
PROPERTIES
  QueuedWhileRunningLeaves
  ReplacedWorkerStops
CHECK_DEADLOCK FALSE
