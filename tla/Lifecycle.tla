------------------------------ MODULE Lifecycle ------------------------------
(***************************************************************************)
(* The global pipeline of the observra package (__init__.py): initialize() *)
(* replaces it, shutdown() stops it, and adapters keep emitting through    *)
(* _QueueProxy while either is under way.                                  *)
(*                                                                         *)
(* A pipeline is a queue, a worker thread and a backend; pipelines are     *)
(* numbered as they are built.  The interleavings inside one are module    *)
(* Pipeline's concern: here put_nowait and the worker's take-and-write are *)
(* one step each.  Every pipeline writes to one store, as when             *)
(* initialize() is called again with the same path.                        *)
(***************************************************************************)
EXTENDS Naturals, Sequences, FiniteSets

CONSTANTS
  Emitters,      \* threads that emit through the proxy
  Initializers,  \* threads that call initialize()
  Stoppers,      \* threads that call shutdown()
  QueueSize,     \* queue_size
  MaxPipelines,  \* bound of the model: pipelines built
  MaxEmits       \* bound of the model: emissions of one emitter

Callers == Initializers \cup Stoppers
Pipelines == 1..MaxPipelines

ASSUME LifecycleAssumption ==
  /\ Initializers \cap Stoppers = {}
  /\ QueueSize \in Nat \ {0} /\ MaxPipelines \in Nat /\ MaxEmits \in Nat

VARIABLES
  current,   \* _worker and _queue: a pipeline, 0 for None
  target,    \* _queue_proxy._target
  built,     \* pipelines built so far
  \* each pipeline
  queue,     \* what waits in its queue
  running,   \* _running of its worker
  alive,     \* its worker thread runs
  open,      \* its backend has not been closed
  stored,    \* events written by any backend, in order
  \* emitters
  aim,       \* the queue an emitter inside put_nowait has read, 0 when outside
  emits,     \* emissions each emitter has begun
  \* callers of initialize() and shutdown()
  pc,        \* where each is
  victim,    \* the pipeline whose _shutdown it is in
  new,       \* the pipeline it has built
  asked,     \* pipelines that shutdown() was asked to stop
  unwaited,  \* pipelines someone went on from while their worker was alive
  unsent     \* pipelines whose sentinel found no room or was evicted

pipelineVars == <<queue, running, alive, open, stored>>
emitterVars  == <<aim, emits>>
callerVars   == <<pc, victim, new, asked, unwaited, unsent>>
vars == <<current, target, built, pipelineVars, emitterVars, callerVars>>

Sentinel == <<>>     \* not an event: events are <<emitter, number>>
IsFull(g) == Len(queue[g]) >= QueueSize

Init ==
  /\ current = 0 /\ target = 0 /\ built = 0
  /\ queue = [g \in Pipelines |-> <<>>]
  /\ running = [g \in Pipelines |-> FALSE]
  /\ alive = [g \in Pipelines |-> FALSE]
  /\ open = [g \in Pipelines |-> FALSE]
  /\ stored = <<>>
  /\ aim = [e \in Emitters |-> 0] /\ emits = [e \in Emitters |-> 0]
  /\ pc = [c \in Callers |-> "idle"]
  /\ victim = [c \in Callers |-> 0] /\ new = [c \in Callers |-> 0]
  /\ asked = {} /\ unwaited = {} /\ unsent = {}
-----------------------------------------------------------------------------
(* _QueueProxy.put_nowait: read the target, then put into what was read.   *)

ReadTarget(e) ==
  /\ aim[e] = 0 /\ target # 0 /\ emits[e] < MaxEmits
  /\ aim' = [aim EXCEPT ![e] = target]
  /\ emits' = [emits EXCEPT ![e] = @ + 1]
  /\ UNCHANGED <<current, target, built, pipelineVars, callerVars>>

(* Mutant: the queue grows. *)
PutEvent_Unbounded(e) ==
  /\ aim[e] # 0
  /\ queue' = [queue EXCEPT ![aim[e]] = Append(@, <<e, emits[e]>>)]
  /\ aim' = [aim EXCEPT ![e] = 0]
  /\ UNCHANGED <<current, target, built, running, alive, open, stored, emits, callerVars>>

(* A full queue gives up its head, be it a sentinel. *)
PutEvent(e) ==
  /\ aim[e] # 0
  /\ LET g == aim[e]  evicts == IsFull(g) IN
       /\ queue' = [queue EXCEPT ![g] = Append(IF evicts THEN Tail(@) ELSE @, <<e, emits[e]>>)]
       /\ unsent' = IF evicts /\ Head(queue[g]) = Sentinel THEN unsent \cup {g} ELSE unsent
  /\ aim' = [aim EXCEPT ![e] = 0]
  /\ UNCHANGED <<current, target, built, running, alive, open, stored, emits,
                 pc, victim, new, asked, unwaited>>
-----------------------------------------------------------------------------
(* The worker of pipeline g.                                               *)

(* Mutant: the worker stops as soon as _running is cleared. *)
WriteNext_PollsRunning(g) ==
  /\ alive[g] /\ running[g] /\ queue[g] # <<>> /\ Head(queue[g]) # Sentinel
  /\ queue' = [queue EXCEPT ![g] = Tail(@)]
  /\ stored' = Append(stored, Head(queue[g]))
  /\ UNCHANGED <<current, target, built, running, alive, open, emitterVars, callerVars>>

(* A write may fail, and a closed backend takes nothing. *)
WriteNext(g) ==
  /\ alive[g] /\ queue[g] # <<>> /\ Head(queue[g]) # Sentinel
  /\ queue' = [queue EXCEPT ![g] = Tail(@)]
  /\ stored' \in {stored} \cup (IF open[g] THEN {Append(stored, Head(queue[g]))} ELSE {})
  /\ UNCHANGED <<current, target, built, running, alive, open, emitterVars, callerVars>>

WorkerStops(g) ==
  /\ alive[g] /\ queue[g] # <<>> /\ Head(queue[g]) = Sentinel
  /\ queue' = [queue EXCEPT ![g] = Tail(@)]
  /\ alive' = [alive EXCEPT ![g] = FALSE]
  /\ UNCHANGED <<current, target, built, running, open, stored, emitterVars, callerVars>>
-----------------------------------------------------------------------------
(* initialize() and shutdown() up to BackgroundWorker._shutdown.           *)

Goto(c, from, to) == pc[c] = from /\ pc' = [pc EXCEPT ![c] = to]

(* What follows _shutdown: initialize() builds, shutdown() returns. *)
AfterShutdown(c) == IF c \in Initializers THEN "build" ELSE "idle"

(* Mutant: initialize() forgets to stop the pipeline it replaces. *)
BeginInitialize_KeepsOld(c) ==
  /\ c \in Initializers /\ built < MaxPipelines
  /\ Goto(c, "idle", "build")
  /\ UNCHANGED <<victim, new, asked, unwaited, unsent, current, target, built,
                 pipelineVars, emitterVars>>

(* _create_backend succeeded; _worker is read. *)
BeginInitialize(c) ==
  /\ c \in Initializers /\ built + Cardinality({i \in Initializers : pc[i] # "idle"}) < MaxPipelines
  /\ Goto(c, "idle", IF current = 0 THEN "build" ELSE "check")
  /\ victim' = [victim EXCEPT ![c] = current]
  /\ UNCHANGED <<new, asked, unwaited, unsent, current, target, built, pipelineVars, emitterVars>>

(* Mutant: the backend is created after the old pipeline was stopped. *)
InitializeRaises_AfterStop(c) ==
  /\ c \in Initializers
  /\ Goto(c, "build", "idle")
  /\ UNCHANGED <<victim, new, asked, unwaited, unsent, current, target, built,
                 pipelineVars, emitterVars>>

(* _create_backend raised (an unknown name, a bad path): nothing was touched. *)
(* That the new worker's thread cannot be started, later, is left out.      *)
InitializeRaises(c) ==
  /\ c \in Initializers /\ pc[c] = "idle"
  /\ UNCHANGED vars

BeginShutdown(c) ==
  /\ c \in Stoppers /\ current # 0
  /\ Goto(c, "idle", "check")
  /\ victim' = [victim EXCEPT ![c] = current]
  /\ asked' = asked \cup {current}
  /\ UNCHANGED <<new, unwaited, unsent, current, target, built, pipelineVars, emitterVars>>
-----------------------------------------------------------------------------
(* BackgroundWorker._shutdown of the victim.                               *)

(* _running was cleared already: return at once, whoever cleared it may     *)
(* still be waiting for the worker.                                         *)
AlreadyStopped(c) ==
  /\ Goto(c, "check", AfterShutdown(c)) /\ ~running[victim[c]]
  /\ unwaited' = IF alive[victim[c]] THEN unwaited \cup {victim[c]} ELSE unwaited
  /\ UNCHANGED <<victim, new, asked, unsent, current, target, built, pipelineVars, emitterVars>>

CheckRunning(c) ==
  /\ Goto(c, "check", "claim") /\ running[victim[c]]
  /\ UNCHANGED <<victim, new, asked, unwaited, unsent, current, target, built,
                 pipelineVars, emitterVars>>

ClearRunning(c) ==
  /\ Goto(c, "claim", "sentinel")
  /\ running' = [running EXCEPT ![victim[c]] = FALSE]
  /\ UNCHANGED <<victim, new, asked, unwaited, unsent, current, target, built,
                 queue, alive, open, stored, emitterVars>>

(* Mutant: the sentinel is never sent. *)
PutSentinel_Forgotten(c) ==
  /\ Goto(c, "sentinel", "join")
  /\ UNCHANGED <<victim, new, asked, unwaited, unsent, current, target, built,
                 pipelineVars, emitterVars>>

PutSentinel(c) ==
  /\ Goto(c, "sentinel", "join") /\ ~IsFull(victim[c])
  /\ queue' = [queue EXCEPT ![victim[c]] = Append(@, Sentinel)]
  /\ UNCHANGED <<victim, new, asked, unwaited, unsent, current, target, built,
                 running, alive, open, stored, emitterVars>>

(* queue.Full after 5 s: join, flush and close are skipped. *)
SentinelTimeout(c) ==
  /\ Goto(c, "sentinel", AfterShutdown(c)) /\ IsFull(victim[c])
  /\ unsent' = unsent \cup {victim[c]}
  /\ unwaited' = unwaited \cup {victim[c]}
  /\ UNCHANGED <<victim, new, asked, current, target, built, pipelineVars, emitterVars>>

(* Mutant: nobody waits for the worker. *)
WorkerJoined_NoWait(c) ==
  /\ Goto(c, "join", "close")
  /\ UNCHANGED <<victim, new, asked, unwaited, unsent, current, target, built,
                 pipelineVars, emitterVars>>

WorkerJoined(c) ==
  /\ Goto(c, "join", "close") /\ ~alive[victim[c]]
  /\ UNCHANGED <<victim, new, asked, unwaited, unsent, current, target, built,
                 pipelineVars, emitterVars>>

JoinTimeout(c) ==
  /\ Goto(c, "join", "close") /\ alive[victim[c]]
  /\ unwaited' = unwaited \cup {victim[c]}
  /\ UNCHANGED <<victim, new, asked, unsent, current, target, built, pipelineVars, emitterVars>>

(* flush() or close() may raise, which is logged. *)
CloseBackend(c) ==
  /\ Goto(c, "close", AfterShutdown(c))
  /\ open' \in {open, [open EXCEPT ![victim[c]] = FALSE]}
  /\ UNCHANGED <<victim, new, asked, unwaited, unsent, current, target, built,
                 queue, running, alive, stored, emitterVars>>
-----------------------------------------------------------------------------
(* The rest of initialize(): a queue and a started worker, then the        *)
(* globals, and the proxy's target last.                                   *)

BuildPipeline(c) ==
  /\ Goto(c, "build", "assign")
  /\ built' = built + 1
  /\ new' = [new EXCEPT ![c] = built']
  /\ running' = [running EXCEPT ![built'] = TRUE]
  /\ alive' = [alive EXCEPT ![built'] = TRUE]
  /\ open' = [open EXCEPT ![built'] = TRUE]
  /\ UNCHANGED <<victim, asked, unwaited, unsent, current, target, queue, stored, emitterVars>>

AssignGlobals(c) ==
  /\ Goto(c, "assign", "retarget")
  /\ current' = new[c]
  /\ UNCHANGED <<victim, new, asked, unwaited, unsent, target, built, pipelineVars, emitterVars>>

SetTarget(c) ==
  /\ Goto(c, "retarget", "idle")
  /\ target' = new[c]
  /\ UNCHANGED <<victim, new, asked, unwaited, unsent, current, built, pipelineVars, emitterVars>>
-----------------------------------------------------------------------------
CallerStep(c) ==
  \/ AlreadyStopped(c) \/ CheckRunning(c) \/ ClearRunning(c) \/ PutSentinel(c) \/ SentinelTimeout(c)
  \/ WorkerJoined(c) \/ JoinTimeout(c) \/ CloseBackend(c)
  \/ BuildPipeline(c) \/ AssignGlobals(c) \/ SetTarget(c)

WorkerStep(g) == WriteNext(g) \/ WorkerStops(g)

Next ==
  \/ \E e \in Emitters : ReadTarget(e) \/ PutEvent(e)
  \/ \E g \in Pipelines : WorkerStep(g)
  \/ \E c \in Callers :
       BeginInitialize(c) \/ InitializeRaises(c) \/ BeginShutdown(c) \/ CallerStep(c)

(* Worker threads, and callers inside initialize() or shutdown(), go on. *)
Fairness ==
  /\ \A g \in Pipelines : WF_vars(WorkerStep(g))
  /\ \A c \in Callers : WF_vars(CallerStep(c))

Spec == Init /\ [][Next]_vars
FairSpec == Spec /\ Fairness
-----------------------------------------------------------------------------
Events(g) == {queue[g][i] : i \in DOMAIN queue[g]} \ {Sentinel}
Initializing == \E c \in Initializers : pc[c] # "idle"
AllEvents == Emitters \X (1..MaxEmits)

TypeOK ==
  /\ current \in 0..built /\ target \in 0..built /\ built \in 0..MaxPipelines
  /\ queue \in [Pipelines -> Seq(AllEvents \cup {Sentinel})]
  /\ \A g \in Pipelines : Len(queue[g]) <= QueueSize
  /\ running \in [Pipelines -> BOOLEAN] /\ alive \in [Pipelines -> BOOLEAN]
  /\ open \in [Pipelines -> BOOLEAN]
  /\ stored \in Seq(AllEvents)
  /\ aim \in [Emitters -> 0..built] /\ emits \in [Emitters -> 0..MaxEmits]
  /\ pc \in [Callers -> {"idle", "check", "claim", "sentinel", "join", "close",
                         "build", "assign", "retarget"}]
  /\ victim \in [Callers -> 0..built] /\ new \in [Callers -> 0..built]
  /\ asked \subseteq 1..built /\ unwaited \subseteq 1..built
  /\ unsent \subseteq 1..built

(* Between two calls of initialize(), adapters feed the pipeline that       *)
(* serves: it is stopped by shutdown() only, never by an initialize() that  *)
(* raised ("A failed reinitialize attempt must not tear down a healthy      *)
(* pipeline", test_public_api.py).                                          *)
ServesUnlessAsked ==
  ~Initializing =>
    /\ target = current
    /\ current # 0 /\ current \notin asked =>
         running[current] /\ alive[current] /\ open[current]

(* Two workers write to the store at once only when a caller went on        *)
(* without the old worker: a join timed out, or another thread was already  *)
(* in its _shutdown.                                                        *)
OneWriterAtATime ==
  Cardinality({g \in Pipelines : alive[g]}) > 1 => unwaited # {}

(* One emitter's events reach the store in the order it emitted them, even  *)
(* across a re-initialization.                                              *)
EmitterOrderKept ==
  unwaited = {} =>
    \A i, j \in DOMAIN stored :
      i < j /\ stored[i][1] = stored[j][1] => stored[i][2] < stored[j][2]

(* What was queued while the pipeline ran leaves its queue, even when the   *)
(* pipeline is replaced or stopped meanwhile.                               *)
QueuedWhileRunningLeaves ==
  \A g \in Pipelines : \A x \in AllEvents :
    (running[g] /\ x \in Events(g)) ~> (x \notin Events(g))

(* "Repeated initialize() should replace old worker instead of leaking      *)
(* threads" (test_public_api.py), provided its sentinel got through.        *)
ReplacedWorkerStops ==
  \A g \in Pipelines : (g < current) ~> (~alive[g] \/ g \in unsent)

(* "existing adapters transparently start writing to the new queue"         *)
(* (__init__.py, _QueueProxy): no event is left in the queue of a pipeline  *)
(* that was replaced and whose worker is gone.                              *)
NothingLeftBehind ==
  \A g \in Pipelines : g < current /\ ~alive[g] => Events(g) = {}
=============================================================================
