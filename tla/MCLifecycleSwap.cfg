\* One emitter and one thread that initializes twice: the smallest setting in
\* which an event is put into a queue that nobody reads any more.
SPECIFICATION Spec
CONSTANTS
  Emitters = {e1}
  Initializers = {i1}
  Stoppers = {}
  QueueSize = 2
  MaxPipelines = 2
  MaxEmits = 2
INVARIANTS
  NothingLeftBehind
CHECK_DEADLOCK FALSE
