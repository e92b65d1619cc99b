-------------------------- MODULE LifecycleProofs --------------------------
(***************************************************************************)
(* Theorems about module Lifecycle, for any set of emitters and of threads *)
(* that call shutdown(), any queue size and any number of pipelines, with  *)
(* one thread that calls initialize(): "Initialize the observability       *)
(* pipeline. Call once at application startup" (__init__.py:114), and no   *)
(* lock arbitrates between two.                                            *)
(***************************************************************************)
EXTENDS Lifecycle, FiniteSetTheorems, TLAPS

OneInitializer == \A a, b \in Initializers : a = b

(* One action at a time: what [Next]_vars stands for in the proofs below.  *)
LEMMA NextCases ==
  ASSUME [Next]_vars
  PROVE  \/ \E e \in Emitters : ReadTarget(e) \/ PutEvent(e)
         \/ \E g \in Pipelines : WriteNext(g) \/ WorkerStops(g)
         \/ \E c \in Callers :
              \/ BeginInitialize(c) \/ BeginShutdown(c)
              \/ AlreadyStopped(c) \/ CheckRunning(c) \/ ClearRunning(c) \/ PutSentinel(c)
              \/ SentinelTimeout(c) \/ WorkerJoined(c) \/ JoinTimeout(c) \/ CloseBackend(c)
              \/ BuildPipeline(c) \/ AssignGlobals(c) \/ SetTarget(c)
         \/ UNCHANGED vars
  BY DEF Next, WorkerStep, CallerStep, InitializeRaises
-----------------------------------------------------------------------------
(* Types.  The thread in initialize() has room for the pipeline it will    *)
(* build, and threads in shutdown() never build one.                       *)

States == {"idle", "check", "claim", "sentinel", "join", "close", "build", "assign", "retarget"}
InShutdown == {"check", "claim", "sentinel", "join", "close"}

GlobalTypes ==
  /\ built \in 0..MaxPipelines /\ current \in 0..built /\ target \in 0..built
  /\ asked \subseteq 1..built /\ unwaited \subseteq 1..built /\ unsent \subseteq 1..built
QueueTypes ==
  /\ queue \in [Pipelines -> Seq(AllEvents \cup {Sentinel})]
  /\ \A g \in Pipelines : Len(queue[g]) <= QueueSize
  /\ stored \in Seq(AllEvents)
FlagTypes ==
  /\ running \in [Pipelines -> BOOLEAN] /\ alive \in [Pipelines -> BOOLEAN]
  /\ open \in [Pipelines -> BOOLEAN]
EmitterTypes == aim \in [Emitters -> 0..built] /\ emits \in [Emitters -> 0..MaxEmits]
CallerTypes ==
  /\ pc \in [Callers -> States]
  /\ victim \in [Callers -> 0..built] /\ new \in [Callers -> 0..built]
(* What each thread has when it gets where it is. *)
Prepared ==
  /\ \A e \in Emitters : aim[e] # 0 => emits[e] # 0
  /\ \A i \in Initializers : pc[i] \in InShutdown \cup {"build"} => built < MaxPipelines
  /\ \A i \in Initializers : pc[i] \in {"assign", "retarget"} => new[i] = built /\ built # 0
  /\ \A c \in Stoppers : pc[c] \notin {"build", "assign", "retarget"}
  /\ \A c \in Callers : pc[c] \in InShutdown => victim[c] \in 1..built

TypeInv ==
  GlobalTypes /\ QueueTypes /\ FlagTypes /\ EmitterTypes /\ CallerTypes /\ Prepared

(* A caller moves, the others stay. *)
LEMMA GotoFacts ==
  ASSUME pc \in [Callers -> States], NEW c \in Callers, NEW from, NEW to \in States,
         Goto(c, from, to)
  PROVE  /\ pc' \in [Callers -> States]
         /\ pc[c] = from /\ pc'[c] = to
         /\ \A d \in Callers \ {c} : pc'[d] = pc[d]
  BY DEF Goto

LEMMA TypeInit == Init => TypeInv
<1> SUFFICES ASSUME Init PROVE TypeInv
  OBVIOUS
<1> USE LifecycleAssumption DEF Init
<1>1. GlobalTypes /\ FlagTypes
  BY DEF GlobalTypes, FlagTypes
<1>2. QueueTypes
  <2>1. <<>> \in Seq(AllEvents \cup {Sentinel}) /\ <<>> \in Seq(AllEvents) /\ Len(<<>>) = 0
    OBVIOUS
  <2>2. QED
    BY <2>1 DEF QueueTypes
<1>3. EmitterTypes /\ CallerTypes
  BY DEF EmitterTypes, CallerTypes, States
<1>4. Prepared
  BY DEF Prepared, InShutdown, Callers
<1>5. QED
  BY <1>1, <1>2, <1>3, <1>4 DEF TypeInv

(* Any step of a caller moves that caller and no other. *)
CallerAction(c) ==
  \/ BeginInitialize(c) \/ BeginShutdown(c)
  \/ AlreadyStopped(c) \/ CheckRunning(c) \/ ClearRunning(c) \/ PutSentinel(c)
  \/ SentinelTimeout(c) \/ WorkerJoined(c) \/ JoinTimeout(c) \/ CloseBackend(c)
  \/ BuildPipeline(c) \/ AssignGlobals(c) \/ SetTarget(c)

LEMMA CallerMoves ==
  ASSUME pc \in [Callers -> States], NEW c \in Callers, CallerAction(c)
  PROVE  pc' \in [Callers -> States] /\ \A d \in Callers \ {c} : pc'[d] = pc[d]
<1>1. PICK from, to \in States : Goto(c, from, to)
  <2>1. CASE BeginInitialize(c)
    <3>1. (IF current = 0 THEN "build" ELSE "check") \in States /\ "idle" \in States
      BY DEF States
    <3>2. QED
      BY <2>1, <3>1 DEF BeginInitialize
  <2>2. CASE AlreadyStopped(c) \/ SentinelTimeout(c) \/ CloseBackend(c)
    <3>1. AfterShutdown(c) \in States /\ {"check", "sentinel", "close"} \subseteq States
      BY DEF AfterShutdown, States
    <3>2. QED
      BY <2>2, <3>1 DEF AlreadyStopped, SentinelTimeout, CloseBackend
  <2>3. CASE BeginShutdown(c) \/ CheckRunning(c) \/ ClearRunning(c) \/ PutSentinel(c)
    BY <2>3 DEF BeginShutdown, CheckRunning, ClearRunning, PutSentinel, States
  <2>4. CASE WorkerJoined(c) \/ JoinTimeout(c) \/ BuildPipeline(c) \/ AssignGlobals(c) \/ SetTarget(c)
    BY <2>4 DEF WorkerJoined, JoinTimeout, BuildPipeline, AssignGlobals, SetTarget, States
  <2>5. QED
    BY <2>1, <2>2, <2>3, <2>4 DEF CallerAction
<1>2. QED
  BY <1>1, GotoFacts

LEMMA BuilderHasRoom ==
  ASSUME TypeInv, NEW c \in Callers, BuildPipeline(c)
  PROVE  /\ c \in Initializers /\ pc[c] = "build" /\ pc'[c] = "assign"
         /\ built' = built + 1 /\ built' \in 1..MaxPipelines /\ built' \in Pipelines
         /\ 0..built \subseteq 0..built' /\ 1..built \subseteq 1..built'
<1>1. pc \in [Callers -> States] /\ "assign" \in States
  BY DEF TypeInv, CallerTypes, States
<1>2. pc[c] = "build" /\ pc'[c] = "assign"
  BY <1>1, GotoFacts DEF BuildPipeline
<1>3. c \in Initializers
  BY <1>2 DEF TypeInv, Prepared, Callers
<1>4. built \in Nat /\ built < MaxPipelines /\ MaxPipelines \in Nat
  BY <1>2, <1>3, LifecycleAssumption DEF TypeInv, Prepared, InShutdown, GlobalTypes
<1>5. built' = built + 1
  BY DEF BuildPipeline
<1>6. QED
  BY <1>2, <1>3, <1>4, <1>5 DEF Pipelines

LEMMA GlobalStep == TypeInv /\ [Next]_vars => GlobalTypes'
<1> SUFFICES ASSUME TypeInv, [Next]_vars PROVE GlobalTypes'
  OBVIOUS
<1>0. GlobalTypes /\ CallerTypes /\ EmitterTypes /\ Prepared
  BY DEF TypeInv
<1> USE DEF callerVars, emitterVars, pipelineVars
<1>1. CASE \/ \E e \in Emitters : ReadTarget(e)
           \/ \E g \in Pipelines : WriteNext(g) \/ WorkerStops(g)
           \/ \E c \in Callers :
                \/ BeginInitialize(c) \/ CheckRunning(c) \/ ClearRunning(c) \/ PutSentinel(c)
                \/ WorkerJoined(c) \/ CloseBackend(c)
           \/ UNCHANGED vars
  <2>1. UNCHANGED <<built, current, target, asked, unwaited, unsent>>
    BY <1>1 DEF ReadTarget, WriteNext, WorkerStops, BeginInitialize, CheckRunning, ClearRunning,
         PutSentinel, WorkerJoined, CloseBackend, vars
  <2>2. QED
    BY <1>0, <2>1 DEF GlobalTypes
<1>2. ASSUME NEW e \in Emitters, PutEvent(e) PROVE GlobalTypes'
  <2>1. aim[e] \in 1..built
    BY <1>0, <1>2 DEF PutEvent, EmitterTypes, GlobalTypes
  <2>2. unsent' = unsent \/ unsent' = unsent \cup {aim[e]}
    BY <1>2 DEF PutEvent
  <2>3. UNCHANGED <<built, current, target, asked, unwaited>>
    BY <1>2 DEF PutEvent
  <2>4. QED
    BY <1>0, <2>1, <2>2, <2>3 DEF GlobalTypes
<1>3. ASSUME NEW c \in Callers, BeginShutdown(c) PROVE GlobalTypes'
  <2>1. current \in 1..built
    BY <1>0, <1>3 DEF BeginShutdown, GlobalTypes
  <2>2. QED
    BY <1>0, <1>3, <2>1 DEF BeginShutdown, GlobalTypes
<1>4. ASSUME NEW c \in Callers, AlreadyStopped(c) \/ JoinTimeout(c) \/ SentinelTimeout(c)
      PROVE  GlobalTypes'
  <2>1. pc[c] \in InShutdown
    BY <1>4 DEF AlreadyStopped, JoinTimeout, SentinelTimeout, Goto, InShutdown
  <2>2. victim[c] \in 1..built
    BY <1>0, <2>1 DEF Prepared
  <2>3. /\ unwaited' \in {unwaited, unwaited \cup {victim[c]}}
        /\ unsent' \in {unsent, unsent \cup {victim[c]}}
        /\ UNCHANGED <<built, current, target, asked>>
    BY <1>4 DEF AlreadyStopped, JoinTimeout, SentinelTimeout
  <2>4. QED
    BY <1>0, <2>2, <2>3 DEF GlobalTypes
<1>5. ASSUME NEW c \in Callers, BuildPipeline(c) PROVE GlobalTypes'
  <2>1. UNCHANGED <<current, target, asked, unwaited, unsent>>
    BY <1>5 DEF BuildPipeline
  <2>2. QED
    BY <1>0, <1>5, <2>1, BuilderHasRoom, LifecycleAssumption DEF GlobalTypes
<1>6. ASSUME NEW c \in Callers, AssignGlobals(c) \/ SetTarget(c) PROVE GlobalTypes'
  <2>1. new[c] \in 0..built
    BY <1>0 DEF CallerTypes
  <2>2. /\ current' \in {current, new[c]} /\ target' \in {target, new[c]}
        /\ UNCHANGED <<built, asked, unwaited, unsent>>
    BY <1>6 DEF AssignGlobals, SetTarget
  <2>3. QED
    BY <1>0, <2>1, <2>2 DEF GlobalTypes
<1>7. QED
  BY NextCases, <1>1, <1>2, <1>3, <1>4, <1>5, <1>6

(* A queue after a put that evicts, after a get, and after a sentinel. *)
LEMMA QueueFacts ==
  ASSUME NEW T, NEW s \in Seq(T), NEW x \in T
  PROVE  /\ Len(s) \in Nat /\ Append(s, x) \in Seq(T) /\ Len(Append(s, x)) = Len(s) + 1
         /\ s # <<>> => /\ Tail(s) \in Seq(T) /\ Len(Tail(s)) = Len(s) - 1 /\ Head(s) \in T
                        /\ Append(Tail(s), x) \in Seq(T) /\ Len(Append(Tail(s), x)) = Len(s)
  OBVIOUS

LEMMA QueueStep == TypeInv /\ [Next]_vars => QueueTypes'
<1> SUFFICES ASSUME TypeInv, [Next]_vars PROVE QueueTypes'
  OBVIOUS
<1> DEFINE Items == AllEvents \cup {Sentinel}
<1>0. /\ GlobalTypes /\ CallerTypes /\ EmitterTypes /\ Prepared /\ QueueTypes
      /\ queue \in [Pipelines -> Seq(Items)] /\ QueueSize \in Nat \ {0}
      /\ \A g \in Pipelines : Len(queue[g]) <= QueueSize
      /\ 1..built \subseteq Pipelines
  BY LifecycleAssumption DEF TypeInv, QueueTypes, GlobalTypes, Pipelines
<1> USE DEF callerVars, emitterVars, pipelineVars
<1>1. CASE \/ \E e \in Emitters : ReadTarget(e)
           \/ \E c \in Callers :
                \/ BeginInitialize(c) \/ BeginShutdown(c) \/ AlreadyStopped(c) \/ CheckRunning(c)
                \/ ClearRunning(c) \/ SentinelTimeout(c) \/ WorkerJoined(c) \/ JoinTimeout(c)
                \/ CloseBackend(c) \/ BuildPipeline(c) \/ AssignGlobals(c) \/ SetTarget(c)
           \/ UNCHANGED vars
  <2>1. UNCHANGED <<queue, stored>>
    BY <1>1 DEF ReadTarget, BeginInitialize, BeginShutdown, AlreadyStopped, CheckRunning,
         ClearRunning, SentinelTimeout, WorkerJoined, JoinTimeout, CloseBackend, BuildPipeline,
         AssignGlobals, SetTarget, vars
  <2>2. QED
    BY <1>0, <2>1 DEF QueueTypes
<1>2. ASSUME NEW e \in Emitters, PutEvent(e) PROVE QueueTypes'
  <2>1. aim[e] \in Pipelines /\ <<e, emits[e]>> \in Items
    <3>1. aim[e] \in 1..built
      BY <1>0, <1>2 DEF PutEvent, EmitterTypes, GlobalTypes
    <3>2. emits[e] \in 1..MaxEmits
      BY <1>0, <1>2 DEF PutEvent, EmitterTypes, Prepared
    <3>3. QED
      BY <1>0, <3>1, <3>2 DEF AllEvents
  <2>2. PICK s : s = IF IsFull(aim[e]) THEN Append(Tail(queue[aim[e]]), <<e, emits[e]>>)
                                       ELSE Append(queue[aim[e]], <<e, emits[e]>>)
    OBVIOUS
  <2>3. s \in Seq(Items) /\ Len(s) <= QueueSize
    <3>1. queue[aim[e]] \in Seq(Items) /\ Len(queue[aim[e]]) <= QueueSize
      BY <1>0, <2>1
    <3>2. CASE IsFull(aim[e])
      <4>1. queue[aim[e]] # <<>>
        BY <1>0, <3>1, <3>2 DEF IsFull
      <4>2. QED
        BY <1>0, <2>1, <2>2, <3>1, <3>2, <4>1, QueueFacts
    <3>3. CASE ~IsFull(aim[e])
      <4>1. s = Append(queue[aim[e]], <<e, emits[e]>>)
        BY <2>2, <3>3
      <4>2. s \in Seq(Items) /\ Len(s) = Len(queue[aim[e]]) + 1 /\ Len(queue[aim[e]]) \in Nat
        BY <2>1, <3>1, <4>1, QueueFacts
      <4>3. QED
        BY <1>0, <3>1, <3>3, <4>2 DEF IsFull
    <3>4. QED
      BY <3>2, <3>3
  <2>4. queue' = [queue EXCEPT ![aim[e]] = s] /\ stored' = stored
    BY <1>2, <2>2 DEF PutEvent
  <2>5. QED
    BY <1>0, <2>3, <2>4 DEF QueueTypes
<1>3. ASSUME NEW g \in Pipelines, WriteNext(g) \/ WorkerStops(g) PROVE QueueTypes'
  <2>1. queue[g] \in Seq(Items) /\ queue[g] # <<>> /\ queue' = [queue EXCEPT ![g] = Tail(@)]
    BY <1>0, <1>3 DEF WriteNext, WorkerStops
  <2>2. /\ Tail(queue[g]) \in Seq(Items) /\ Len(Tail(queue[g])) <= QueueSize
        /\ Head(queue[g]) \in Items
    <3>1. Len(queue[g]) \in Nat /\ Len(queue[g]) <= QueueSize
      BY <1>0, <2>1
    <3>2. QED
      BY <1>0, <2>1, <3>1
  <2>3. stored' \in Seq(AllEvents)
    <3>1. CASE WriteNext(g)
      <4>1. Head(queue[g]) \in AllEvents /\ stored \in Seq(AllEvents)
        BY <1>0, <2>2, <3>1 DEF WriteNext, QueueTypes
      <4>2. Append(stored, Head(queue[g])) \in Seq(AllEvents)
        BY <4>1
      <4>3. stored' = stored \/ stored' = Append(stored, Head(queue[g]))
        BY <3>1 DEF WriteNext
      <4>4. QED
        BY <4>1, <4>2, <4>3
    <3>2. CASE WorkerStops(g)
      BY <1>0, <3>2 DEF WorkerStops, QueueTypes
    <3>3. QED
      BY <1>3, <3>1, <3>2
  <2>4. QED
    BY <1>0, <2>1, <2>2, <2>3 DEF QueueTypes
<1>4. ASSUME NEW c \in Callers, PutSentinel(c) PROVE QueueTypes'
  <2>1. victim[c] \in Pipelines
    <3>1. pc[c] = "sentinel"
      BY <1>4 DEF PutSentinel, Goto
    <3>2. QED
      BY <1>0, <3>1 DEF Prepared, InShutdown
  <2>2. queue[victim[c]] \in Seq(Items) /\ Sentinel \in Items /\ Len(queue[victim[c]]) < QueueSize
    <3>1. queue[victim[c]] \in Seq(Items) /\ Len(queue[victim[c]]) \in Nat
      BY <1>0, <2>1
    <3>2. QED
      BY <1>0, <1>4, <3>1 DEF PutSentinel, IsFull
  <2>3. /\ Append(queue[victim[c]], Sentinel) \in Seq(Items)
        /\ Len(Append(queue[victim[c]], Sentinel)) <= QueueSize
    BY <1>0, <2>2, QueueFacts
  <2>4. queue' = [queue EXCEPT ![victim[c]] = Append(@, Sentinel)] /\ stored' = stored
    BY <1>4 DEF PutSentinel
  <2>5. QED
    BY <1>0, <2>3, <2>4 DEF QueueTypes
<1>5. QED
  BY NextCases, <1>1, <1>2, <1>3, <1>4

LEMMA FlagStep == TypeInv /\ [Next]_vars => FlagTypes'
<1> SUFFICES ASSUME TypeInv, [Next]_vars PROVE FlagTypes'
  OBVIOUS
<1>0. FlagTypes
  BY DEF TypeInv
<1> USE DEF callerVars, emitterVars, pipelineVars
<1>1. CASE \/ \E e \in Emitters : ReadTarget(e) \/ PutEvent(e)
           \/ \E g \in Pipelines : WriteNext(g)
           \/ \E c \in Callers :
                \/ BeginInitialize(c) \/ BeginShutdown(c) \/ AlreadyStopped(c) \/ CheckRunning(c)
                \/ PutSentinel(c) \/ SentinelTimeout(c) \/ WorkerJoined(c) \/ JoinTimeout(c)
                \/ AssignGlobals(c) \/ SetTarget(c)
           \/ UNCHANGED vars
  <2>1. UNCHANGED <<running, alive, open>>
    BY <1>1 DEF ReadTarget, PutEvent, WriteNext, BeginInitialize, BeginShutdown, AlreadyStopped,
         CheckRunning, PutSentinel, SentinelTimeout, WorkerJoined, JoinTimeout, AssignGlobals,
         SetTarget, vars
  <2>2. QED
    BY <1>0, <2>1 DEF FlagTypes
<1>2. ASSUME NEW g \in Pipelines, WorkerStops(g) PROVE FlagTypes'
  BY <1>0, <1>2 DEF WorkerStops, FlagTypes
<1>3. ASSUME NEW c \in Callers, ClearRunning(c) PROVE FlagTypes'
  BY <1>0, <1>3 DEF ClearRunning, FlagTypes
<1>4. ASSUME NEW c \in Callers, CloseBackend(c) PROVE FlagTypes'
  BY <1>0, <1>4 DEF CloseBackend, FlagTypes
<1>5. ASSUME NEW c \in Callers, BuildPipeline(c) PROVE FlagTypes'
  BY <1>0, <1>5 DEF BuildPipeline, FlagTypes
<1>6. QED
  BY NextCases, <1>1, <1>2, <1>3, <1>4, <1>5

LEMMA EmitterStep == TypeInv /\ [Next]_vars => EmitterTypes'
<1> SUFFICES ASSUME TypeInv, [Next]_vars PROVE EmitterTypes'
  OBVIOUS
<1>0. EmitterTypes /\ GlobalTypes /\ MaxEmits \in Nat
  BY LifecycleAssumption DEF TypeInv
<1> USE DEF callerVars, emitterVars, pipelineVars
<1>1. CASE \/ \E g \in Pipelines : WriteNext(g) \/ WorkerStops(g)
           \/ \E c \in Callers :
                \/ BeginInitialize(c) \/ BeginShutdown(c) \/ AlreadyStopped(c) \/ CheckRunning(c)
                \/ ClearRunning(c) \/ PutSentinel(c) \/ SentinelTimeout(c) \/ WorkerJoined(c)
                \/ JoinTimeout(c) \/ CloseBackend(c) \/ AssignGlobals(c) \/ SetTarget(c)
           \/ UNCHANGED vars
  <2>1. UNCHANGED <<built, aim, emits>>
    BY <1>1 DEF WriteNext, WorkerStops, BeginInitialize, BeginShutdown, AlreadyStopped,
         CheckRunning, ClearRunning, PutSentinel, SentinelTimeout, WorkerJoined, JoinTimeout,
         CloseBackend, AssignGlobals, SetTarget, vars
  <2>2. QED
    BY <1>0, <2>1 DEF EmitterTypes
<1>2. ASSUME NEW e \in Emitters, ReadTarget(e) PROVE EmitterTypes'
  <2>1. target \in 0..built /\ emits[e] + 1 \in 0..MaxEmits
    BY <1>0, <1>2 DEF ReadTarget, EmitterTypes, GlobalTypes
  <2>2. QED
    BY <1>0, <1>2, <2>1 DEF ReadTarget, EmitterTypes
<1>3. ASSUME NEW e \in Emitters, PutEvent(e) PROVE EmitterTypes'
  <2>1. 0 \in 0..built
    BY <1>0 DEF GlobalTypes
  <2>2. QED
    BY <1>0, <1>3, <2>1 DEF PutEvent, EmitterTypes
<1>4. ASSUME NEW c \in Callers, BuildPipeline(c) PROVE EmitterTypes'
  <2>1. UNCHANGED <<aim, emits>>
    BY <1>4 DEF BuildPipeline
  <2>2. QED
    BY <1>0, <1>4, <2>1, BuilderHasRoom DEF EmitterTypes
<1>5. QED
  BY NextCases, <1>1, <1>2, <1>3, <1>4

LEMMA CallerStepTypes == TypeInv /\ [Next]_vars => CallerTypes'
<1> SUFFICES ASSUME TypeInv, [Next]_vars PROVE CallerTypes'
  OBVIOUS
<1>0. CallerTypes /\ GlobalTypes
  BY DEF TypeInv
<1> USE DEF callerVars, emitterVars, pipelineVars
<1>1. CASE \/ \E e \in Emitters : ReadTarget(e) \/ PutEvent(e)
           \/ \E g \in Pipelines : WriteNext(g) \/ WorkerStops(g)
           \/ UNCHANGED vars
  <2>1. UNCHANGED <<pc, victim, new, built>>
    BY <1>1 DEF ReadTarget, PutEvent, WriteNext, WorkerStops, vars
  <2>2. QED
    BY <1>0, <2>1 DEF CallerTypes
<1>2. ASSUME NEW c \in Callers, CallerAction(c) PROVE CallerTypes'
  <2>1. pc' \in [Callers -> States]
    BY <1>0, <1>2, CallerMoves DEF CallerTypes
  <2>2. CASE BuildPipeline(c)
    <3>1. built' \in 0..built' /\ 0..built \subseteq 0..built'
      BY <1>0, <2>2, BuilderHasRoom
    <3>2. victim' = victim /\ new' = [new EXCEPT ![c] = built']
      BY <2>2 DEF BuildPipeline
    <3>3. QED
      BY <1>0, <2>1, <3>1, <3>2 DEF CallerTypes
  <2>3. CASE ~BuildPipeline(c)
    <3>1. UNCHANGED <<new, built>> /\ victim' \in {victim, [victim EXCEPT ![c] = current]}
      BY <1>2, <2>3
         DEF CallerAction, BeginInitialize, BeginShutdown, AlreadyStopped, CheckRunning,
             ClearRunning, PutSentinel, SentinelTimeout, WorkerJoined, JoinTimeout, CloseBackend,
             AssignGlobals, SetTarget
    <3>2. current \in 0..built
      BY <1>0 DEF GlobalTypes
    <3>3. QED
      BY <1>0, <2>1, <3>1, <3>2 DEF CallerTypes
  <2>4. QED
    BY <2>2, <2>3
<1>3. QED
  BY NextCases, <1>1, <1>2 DEF CallerAction

(* A caller in BackgroundWorker._shutdown, whose steps build nothing. *)
ShutdownAction(c) ==
  \/ AlreadyStopped(c) \/ CheckRunning(c) \/ ClearRunning(c) \/ PutSentinel(c)
  \/ SentinelTimeout(c) \/ WorkerJoined(c) \/ JoinTimeout(c) \/ CloseBackend(c)

LEMMA ShutdownMoves ==
  ASSUME pc \in [Callers -> States], NEW c \in Callers, ShutdownAction(c)
  PROVE  /\ pc[c] \in InShutdown /\ pc'[c] \in InShutdown \cup {AfterShutdown(c)}
         /\ \A d \in Callers \ {c} : pc'[d] = pc[d]
         /\ UNCHANGED <<current, target, built, victim, new, asked, stored, aim, emits>>
<1>1. PICK from \in InShutdown, to \in InShutdown \cup {AfterShutdown(c)} : Goto(c, from, to)
  <2>1. CASE AlreadyStopped(c) \/ SentinelTimeout(c) \/ CloseBackend(c)
    BY <2>1 DEF AlreadyStopped, SentinelTimeout, CloseBackend, InShutdown
  <2>2. CASE CheckRunning(c) \/ ClearRunning(c) \/ PutSentinel(c) \/ WorkerJoined(c) \/ JoinTimeout(c)
    BY <2>2 DEF CheckRunning, ClearRunning, PutSentinel, WorkerJoined, JoinTimeout, InShutdown
  <2>3. QED
    BY <2>1, <2>2 DEF ShutdownAction
<1>2. to \in States
  BY DEF InShutdown, AfterShutdown, States
<1>3. UNCHANGED <<current, target, built, victim, new, asked, stored, aim, emits>>
  BY DEF ShutdownAction, AlreadyStopped, CheckRunning, ClearRunning, PutSentinel,
       SentinelTimeout, WorkerJoined, JoinTimeout, CloseBackend, pipelineVars, emitterVars
<1>4. QED
  BY <1>1, <1>2, <1>3, GotoFacts

LEMMA PreparedStep ==
  ASSUME OneInitializer
  PROVE  TypeInv /\ [Next]_vars => Prepared'
<1> SUFFICES ASSUME TypeInv, [Next]_vars PROVE Prepared'
  OBVIOUS
<1>0. /\ CallerTypes /\ GlobalTypes /\ EmitterTypes /\ Prepared
      /\ pc \in [Callers -> States] /\ victim \in [Callers -> 0..built] /\ new \in [Callers -> 0..built]
      /\ Callers = Initializers \cup Stoppers /\ Initializers \cap Stoppers = {}
  BY LifecycleAssumption DEF TypeInv, CallerTypes, Callers
<1> USE DEF callerVars, emitterVars, pipelineVars
<1>1. CASE \/ \E g \in Pipelines : WriteNext(g) \/ WorkerStops(g)
           \/ UNCHANGED vars
  <2>1. UNCHANGED <<built, pc, victim, new, aim, emits>>
    BY <1>1 DEF WriteNext, WorkerStops, vars
  <2>2. QED
    BY <1>0, <2>1 DEF Prepared
<1>2. ASSUME NEW e \in Emitters, ReadTarget(e) \/ PutEvent(e) PROVE Prepared'
  <2>1. UNCHANGED <<built, pc, victim, new>>
    BY <1>2 DEF ReadTarget, PutEvent
  <2>2. \A d \in Emitters : aim'[d] # 0 => emits'[d] # 0
    <3>1. \A d \in Emitters : aim[d] # 0 => emits[d] # 0
      BY <1>0 DEF Prepared
    <3>2. CASE ReadTarget(e)
      <4>1. \A d \in Emitters \ {e} : aim'[d] = aim[d] /\ emits'[d] = emits[d]
        BY <1>0, <3>2 DEF ReadTarget, EmitterTypes
      <4>2. emits[e] \in Nat /\ emits'[e] = emits[e] + 1
        BY <1>0, <3>2 DEF ReadTarget, EmitterTypes
      <4>3. QED
        BY <3>1, <4>1, <4>2
    <3>3. CASE PutEvent(e)
      BY <1>0, <3>1, <3>3 DEF PutEvent, EmitterTypes
    <3>4. QED
      BY <1>2, <3>2, <3>3
  <2>3. QED
    BY <1>0, <2>1, <2>2 DEF Prepared
<1>3. ASSUME NEW c \in Callers, ShutdownAction(c) PROVE Prepared'
  <2>1. AfterShutdown(c) = "idle" \/ (c \in Initializers /\ AfterShutdown(c) = "build")
    BY DEF AfterShutdown
  <2>2. QED
    BY <1>0, <1>3, <2>1, ShutdownMoves DEF Prepared, InShutdown
<1>4. ASSUME NEW c \in Callers, BeginInitialize(c) PROVE Prepared'
  <2>1. /\ c \in Initializers /\ pc[c] = "idle" /\ pc'[c] \in {"build", "check"}
        /\ pc'[c] = "check" => current # 0
        /\ \A d \in Callers \ {c} : pc'[d] = pc[d]
    <3>1. "build" \in States /\ "check" \in States
      BY DEF States
    <3>2. QED
      BY <1>0, <1>4, <3>1, GotoFacts DEF BeginInitialize
  <2>2. {i \in Initializers : pc[i] # "idle"} = {}
    BY <2>1 DEF OneInitializer
  <2>3. Cardinality({i \in Initializers : pc[i] # "idle"}) = 0
    BY <2>2, FS_EmptySet
  <2>4. built < MaxPipelines
    BY <1>0, <1>4, <2>3 DEF BeginInitialize, GlobalTypes
  <2>5. /\ UNCHANGED <<built, new, aim, emits>> /\ victim' = [victim EXCEPT ![c] = current]
    BY <1>4 DEF BeginInitialize
  <2>6. current # 0 => current \in 1..built
    BY <1>0 DEF GlobalTypes
  <2>7. ASSUME NEW d \in Callers, pc'[d] \in InShutdown PROVE victim'[d] \in 1..built
    <3>1. CASE d = c
      BY <1>0, <2>1, <2>5, <2>6, <2>7, <3>1 DEF InShutdown
    <3>2. CASE d # c
      BY <1>0, <2>1, <2>5, <2>7, <3>2 DEF Prepared
    <3>3. QED
      BY <3>1, <3>2
  <2>8. QED
    BY <1>0, <2>1, <2>4, <2>5, <2>7 DEF Prepared, InShutdown, OneInitializer
<1>5. ASSUME NEW c \in Callers, BeginShutdown(c) PROVE Prepared'
  <2>1. /\ c \in Stoppers /\ pc[c] = "idle" /\ pc'[c] = "check" /\ current # 0
        /\ \A d \in Callers \ {c} : pc'[d] = pc[d]
    <3>1. "check" \in States
      BY DEF States
    <3>2. QED
      BY <1>0, <1>5, <3>1, GotoFacts DEF BeginShutdown
  <2>2. /\ UNCHANGED <<built, new, aim, emits>> /\ victim' = [victim EXCEPT ![c] = current]
    BY <1>5 DEF BeginShutdown
  <2>3. current \in 1..built
    BY <1>0, <2>1 DEF GlobalTypes
  <2>4. QED
    BY <1>0, <2>1, <2>2, <2>3 DEF Prepared, InShutdown
<1>6. ASSUME NEW c \in Callers, BuildPipeline(c) PROVE Prepared'
  <2>1. /\ c \in Initializers /\ pc'[c] = "assign" /\ built' = built + 1
        /\ 1..built \subseteq 1..built' /\ built' # 0
        /\ \A d \in Callers \ {c} : pc'[d] = pc[d]
    <3>1. built \in Nat
      BY <1>0 DEF GlobalTypes
    <3>2. \A d \in Callers \ {c} : pc'[d] = pc[d]
      BY <1>0, <1>6, CallerMoves DEF CallerAction
    <3>3. QED
      BY <1>6, <3>1, <3>2, BuilderHasRoom
  <2>2. /\ UNCHANGED <<victim, aim, emits>> /\ new'[c] = built'
    BY <1>0, <1>6 DEF BuildPipeline
  <2>3. \A i \in Initializers : i = c
    BY <2>1 DEF OneInitializer
  <2>4. \A d \in Callers : pc'[d] \in InShutdown => pc[d] \in InShutdown
    BY <2>1 DEF InShutdown
  <2>5. QED
    BY <1>0, <2>1, <2>2, <2>3, <2>4 DEF Prepared, InShutdown
<1>7. ASSUME NEW c \in Callers, AssignGlobals(c) \/ SetTarget(c) PROVE Prepared'
  <2>1. /\ pc[c] \in {"assign", "retarget"} /\ pc'[c] \in {"retarget", "idle"}
        /\ \A d \in Callers \ {c} : pc'[d] = pc[d]
        /\ pc'[c] = "retarget" => pc[c] = "assign"
    <3>1. "retarget" \in States /\ "idle" \in States
      BY DEF States
    <3>2. QED
      BY <1>0, <1>7, <3>1, GotoFacts DEF AssignGlobals, SetTarget
  <2>2. UNCHANGED <<built, victim, new, aim, emits>>
    BY <1>7 DEF AssignGlobals, SetTarget
  <2>3. c \in Initializers
    BY <1>0, <2>1 DEF Prepared
  <2>4. QED
    BY <1>0, <2>1, <2>2, <2>3 DEF Prepared, InShutdown
<1>8. QED
  BY NextCases, <1>1, <1>2, <1>3, <1>4, <1>5, <1>6, <1>7 DEF ShutdownAction

LEMMA TypeInvariant ==
  ASSUME OneInitializer
  PROVE  Spec => []TypeInv
<1>1. TypeInv /\ [Next]_vars => TypeInv'
  BY OneInitializer, GlobalStep, QueueStep, FlagStep, EmitterStep, CallerStepTypes, PreparedStep
     DEF TypeInv
<1>2. QED
  BY <1>1, TypeInit, PTL DEF Spec

(* With one thread in initialize(), every pipeline has room in the model's *)
(* bound, every queue stays within queue_size, and what is stored, queued   *)
(* or being put is an event of an emitter: the types hold in every          *)
(* reachable state.                                                         *)
THEOREM TypeCorrect ==
  ASSUME OneInitializer
  PROVE  Spec => []TypeOK
<1>1. TypeInv => TypeOK
  BY DEF TypeInv, TypeOK, GlobalTypes, QueueTypes, FlagTypes, EmitterTypes, CallerTypes, States
<1>2. QED
  BY <1>1, TypeInvariant, PTL
-----------------------------------------------------------------------------
(* The globals.  Only the thread in initialize() changes them: the newest  *)
(* pipeline is the current one but between building and assigning it, and  *)
(* the proxy's target lags behind for one step more.                       *)

Globals ==
  /\ \A i \in Initializers :
       /\ pc[i] \in InShutdown => victim[i] = current
       /\ pc[i] # "assign" => current = built
       /\ pc[i] # "retarget" => target = current
  /\ Initializers = {} => built = 0 /\ current = 0 /\ target = 0

LEMMA GlobalsInit == Init => Globals
  BY DEF Init, Globals, InShutdown, Callers

(* What emitters and workers never touch. *)
LEMMA PipelineKeeps ==
  ASSUME \/ \E e \in Emitters : ReadTarget(e) \/ PutEvent(e)
         \/ \E g \in Pipelines : WriteNext(g) \/ WorkerStops(g)
         \/ UNCHANGED vars
  PROVE  UNCHANGED <<current, target, built, running, open, pc, victim, new, asked, unwaited>>
  BY DEF ReadTarget, PutEvent, WriteNext, WorkerStops, vars, pipelineVars, callerVars

(* How initialize() and shutdown() begin, and how initialize() ends. *)
LEMMA BeginMoves ==
  ASSUME pc \in [Callers -> States], NEW c \in Callers,
         BeginInitialize(c) \/ BeginShutdown(c)
  PROVE  /\ pc[c] = "idle" /\ \A d \in Callers \ {c} : pc'[d] = pc[d]
         /\ BeginInitialize(c) =>
              c \in Initializers /\ pc'[c] = IF current = 0 THEN "build" ELSE "check"
         /\ BeginShutdown(c) => c \in Stoppers /\ current # 0 /\ pc'[c] = "check"
         /\ victim' = [victim EXCEPT ![c] = current]
         /\ UNCHANGED <<current, target, built, new, unwaited, unsent, pipelineVars, emitterVars>>
<1>1. {"build", "check"} \subseteq States
  BY DEF States
<1>2. CASE BeginInitialize(c)
  <2>1. (IF current = 0 THEN "build" ELSE "check") \in States
    BY <1>1
  <2>2. UNCHANGED <<current, target, built, new, unwaited, unsent, pipelineVars, emitterVars>>
    BY <1>2 DEF BeginInitialize
  <2>3. QED
    BY <1>2, <2>1, <2>2, GotoFacts DEF BeginInitialize, BeginShutdown, Goto
<1>3. CASE BeginShutdown(c)
  <2>1. UNCHANGED <<current, target, built, new, unwaited, unsent, pipelineVars, emitterVars>>
    BY <1>3 DEF BeginShutdown
  <2>2. QED
    BY <1>1, <1>3, <2>1, GotoFacts DEF BeginInitialize, BeginShutdown, Goto, Callers
<1>4. QED
  BY <1>2, <1>3

LEMMA FinishMoves ==
  ASSUME TypeInv, NEW c \in Callers, AssignGlobals(c) \/ SetTarget(c)
  PROVE  /\ c \in Initializers /\ new[c] = built /\ \A d \in Callers \ {c} : pc'[d] = pc[d]
         /\ \/ pc[c] = "assign" /\ pc'[c] = "retarget" /\ current' = built /\ target' = target
            \/ pc[c] = "retarget" /\ pc'[c] = "idle" /\ target' = built /\ current' = current
         /\ UNCHANGED <<built, victim, new, asked, unwaited, unsent, pipelineVars, emitterVars>>
<1>0. pc \in [Callers -> States] /\ {"retarget", "idle"} \subseteq States
  BY DEF TypeInv, CallerTypes, States
<1>1. CASE AssignGlobals(c)
  <2>1. /\ pc[c] = "assign" /\ pc'[c] = "retarget" /\ \A d \in Callers \ {c} : pc'[d] = pc[d]
        /\ current' = new[c] /\ target' = target
    BY <1>0, <1>1, GotoFacts DEF AssignGlobals
  <2>2. c \in Initializers /\ new[c] = built
    BY <2>1 DEF TypeInv, Prepared, Callers
  <2>3. QED
    BY <1>1, <2>1, <2>2 DEF AssignGlobals
<1>2. CASE SetTarget(c)
  <2>1. /\ pc[c] = "retarget" /\ pc'[c] = "idle" /\ \A d \in Callers \ {c} : pc'[d] = pc[d]
        /\ target' = new[c] /\ current' = current
    BY <1>0, <1>2, GotoFacts DEF SetTarget
  <2>2. c \in Initializers /\ new[c] = built
    BY <2>1 DEF TypeInv, Prepared, Callers
  <2>3. QED
    BY <1>2, <2>1, <2>2 DEF SetTarget
<1>3. QED
  BY <1>1, <1>2

LEMMA GlobalsStep ==
  ASSUME OneInitializer
  PROVE  TypeInv /\ Globals /\ [Next]_vars => Globals'
<1> SUFFICES ASSUME TypeInv, Globals, [Next]_vars PROVE Globals'
  OBVIOUS
<1>0. /\ pc \in [Callers -> States] /\ victim \in [Callers -> 0..built]
      /\ Initializers \subseteq Callers /\ Initializers \cap Stoppers = {}
  BY LifecycleAssumption DEF TypeInv, CallerTypes, Callers
<1>1. CASE \/ \E e \in Emitters : ReadTarget(e) \/ PutEvent(e)
           \/ \E g \in Pipelines : WriteNext(g) \/ WorkerStops(g)
           \/ UNCHANGED vars
  BY <1>1, PipelineKeeps DEF Globals
<1>2. ASSUME NEW c \in Callers, ShutdownAction(c) PROVE Globals'
  <2>1. AfterShutdown(c) \in {"idle", "build"}
    BY DEF AfterShutdown
  <2>2. QED
    BY <1>0, <1>2, <2>1, ShutdownMoves DEF Globals, InShutdown
<1>3. ASSUME NEW c \in Callers, BeginInitialize(c) \/ BeginShutdown(c) PROVE Globals'
  <2>1. \A i \in Initializers : pc'[i] \in InShutdown => victim'[i] = current
    <3> SUFFICES ASSUME NEW i \in Initializers, pc'[i] \in InShutdown PROVE victim'[i] = current
      OBVIOUS
    <3>1. CASE i = c
      BY <1>0, <1>3, <3>1, BeginMoves
    <3>2. CASE i # c
      BY <1>0, <1>3, <3>2, BeginMoves DEF Globals
    <3>3. QED
      BY <3>1, <3>2
  <2>2. \A i \in Initializers : /\ pc'[i] = "assign" <=> pc[i] = "assign"
                                /\ pc'[i] = "retarget" <=> pc[i] = "retarget"
    BY <1>0, <1>3, BeginMoves
  <2>3. UNCHANGED <<current, target, built>>
    BY <1>0, <1>3, BeginMoves
  <2>4. QED
    BY <2>1, <2>2, <2>3 DEF Globals
<1>4. ASSUME NEW c \in Callers, BuildPipeline(c) PROVE Globals'
  <2>1. /\ c \in Initializers /\ pc[c] = "build" /\ pc'[c] = "assign"
        /\ UNCHANGED <<current, target>>
    BY <1>4, BuilderHasRoom DEF BuildPipeline
  <2>2. \A i \in Initializers : i = c
    BY <2>1 DEF OneInitializer
  <2>3. QED
    BY <2>1, <2>2 DEF Globals, InShutdown
<1>5. ASSUME NEW c \in Callers, AssignGlobals(c) \/ SetTarget(c) PROVE Globals'
  <2>1. c \in Initializers /\ \A i \in Initializers : i = c
    BY <1>5, FinishMoves DEF OneInitializer
  <2>2. QED
    BY <1>5, <2>1, FinishMoves DEF Globals, InShutdown
<1>6. QED
  BY NextCases, <1>1, <1>2, <1>3, <1>4, <1>5 DEF ShutdownAction
-----------------------------------------------------------------------------
(* Workers.  While nobody went on without waiting, only the newest         *)
(* pipeline's worker runs, and none when the next is about to be built.    *)

AliveInv ==
  /\ \A g \in Pipelines : alive[g] => g <= built
  /\ unwaited = {} =>
       /\ \A g \in Pipelines : alive[g] => g = built
       /\ \A i \in Initializers : pc[i] = "build" => \A g \in Pipelines : ~alive[g]
       /\ \A i \in Initializers : pc[i] = "close" => ~alive[victim[i]]

LEMMA AliveInit == Init => AliveInv
<1> SUFFICES ASSUME Init PROVE AliveInv
  OBVIOUS
<1>1. \A g \in Pipelines : ~alive[g]
  BY DEF Init
<1>2. \A i \in Initializers : pc[i] = "idle"
  BY DEF Init, Callers
<1>3. QED
  BY <1>1, <1>2 DEF AliveInv

(* Steps that start no worker. *)
LEMMA AliveKept ==
  ASSUME AliveInv, UNCHANGED built, unwaited \subseteq unwaited',
         \A g \in Pipelines : alive'[g] => alive[g],
         unwaited' = {} =>
           /\ \A i \in Initializers : pc'[i] = "build" => \A g \in Pipelines : ~alive'[g]
           /\ \A i \in Initializers : pc'[i] = "close" => ~alive'[victim'[i]]
  PROVE  AliveInv'
<1>1. unwaited' = {} => unwaited = {}
  OBVIOUS
<1>2. QED
  BY <1>1 DEF AliveInv

LEMMA AliveStep ==
  ASSUME OneInitializer
  PROVE  TypeInv /\ Globals /\ AliveInv /\ [Next]_vars => AliveInv'
<1> SUFFICES ASSUME TypeInv, Globals, AliveInv, [Next]_vars PROVE AliveInv'
  OBVIOUS
<1>0. /\ pc \in [Callers -> States] /\ victim \in [Callers -> 0..built]
      /\ Initializers \subseteq Callers /\ Initializers \cap Stoppers = {}
      /\ built \in Nat /\ 1..built \subseteq Pipelines /\ alive \in [Pipelines -> BOOLEAN]
      /\ \A i \in Initializers : pc[i] \in InShutdown => victim[i] \in 1..built
      /\ \A c \in Stoppers : pc[c] \notin {"build", "assign", "retarget"}
  BY LifecycleAssumption DEF TypeInv, CallerTypes, Callers, GlobalTypes, FlagTypes, Pipelines, Prepared
<1>c. \A i \in Initializers : pc[i] = "close" => victim[i] \in Pipelines
  BY <1>0 DEF InShutdown
<1>1. CASE \/ \E e \in Emitters : ReadTarget(e) \/ PutEvent(e)
           \/ \E g \in Pipelines : WriteNext(g) \/ WorkerStops(g)
           \/ UNCHANGED vars
  <2>1. UNCHANGED <<built, pc, victim, unwaited>>
    BY <1>1, PipelineKeeps
  <2>2. \A g \in Pipelines : alive'[g] => alive[g]
    BY <1>0, <1>1 DEF ReadTarget, PutEvent, WriteNext, WorkerStops, vars, pipelineVars
  <2>3. QED
    BY <1>c, <2>1, <2>2, AliveKept DEF AliveInv
<1>2. ASSUME NEW c \in Callers, ShutdownAction(c) PROVE AliveInv'
  <2>1. /\ UNCHANGED <<built, victim, alive>> /\ unwaited \subseteq unwaited'
    BY <1>0, <1>2, ShutdownMoves
       DEF ShutdownAction, AlreadyStopped, CheckRunning, ClearRunning, PutSentinel,
           SentinelTimeout, WorkerJoined, JoinTimeout, CloseBackend, pipelineVars
  <2>2. CASE c \in Stoppers
    <3>1. \A i \in Initializers : pc'[i] = pc[i]
      BY <1>0, <1>2, <2>2, ShutdownMoves
    <3>2. QED
      BY <2>1, <3>1, AliveKept DEF AliveInv
  <2>3. CASE c \in Initializers
    <3>1. \A i \in Initializers : i = c
      BY <2>3 DEF OneInitializer
    <3>2. victim[c] = built /\ victim[c] \in 1..built
      BY <1>0, <1>2, <2>3, ShutdownMoves DEF Globals, InShutdown
    <3>3. AfterShutdown(c) = "build" /\ "build" \in States
      BY <2>3 DEF AfterShutdown, States
    <3>4. ASSUME unwaited' = {}, pc'[c] \in {"build", "close"} PROVE ~alive[victim[c]]
      <4>1. CASE AlreadyStopped(c) \/ SentinelTimeout(c) \/ JoinTimeout(c)
        BY <3>4, <4>1 DEF AlreadyStopped, SentinelTimeout, JoinTimeout
      <4>2. CASE WorkerJoined(c)
        BY <4>2 DEF WorkerJoined
      <4>3. CASE CloseBackend(c)
        <5>1. pc[c] = "close" /\ unwaited = {}
          BY <2>1, <3>4, <4>3 DEF CloseBackend, Goto
        <5>2. QED
          BY <2>3, <5>1 DEF AliveInv
      <4>4. CASE CheckRunning(c) \/ ClearRunning(c) \/ PutSentinel(c)
        <5>1. pc'[c] \in {"claim", "sentinel", "join"}
          BY <1>0, <4>4 DEF CheckRunning, ClearRunning, PutSentinel, Goto
        <5>2. QED
          BY <3>4, <5>1
      <4>5. QED
        BY <1>2, <4>1, <4>2, <4>3, <4>4 DEF ShutdownAction
    <3>5. ASSUME unwaited' = {}, pc'[c] = "build" PROVE \A g \in Pipelines : ~alive[g]
      <4>1. unwaited = {}
        BY <2>1, <3>5
      <4>2. ~alive[built]
        BY <3>2, <3>4, <3>5
      <4>3. QED
        BY <4>1, <4>2 DEF AliveInv
    <3>6. QED
      BY <2>1, <3>1, <3>4, <3>5, AliveKept
  <2>4. QED
    BY <2>2, <2>3 DEF Callers
<1>3. ASSUME NEW c \in Callers, BeginInitialize(c) \/ BeginShutdown(c) PROVE AliveInv'
  <2>1. UNCHANGED <<built, alive, unwaited>>
    BY <1>0, <1>3, BeginMoves DEF pipelineVars
  <2>2. ASSUME NEW i \in Initializers, pc'[i] = "build", NEW g \in Pipelines, unwaited = {}
        PROVE  ~alive[g]
    <3>1. CASE i = c
      <4>1. pc[c] = "idle" /\ current = 0
        BY <1>0, <1>3, <2>2, <3>1, BeginMoves
      <4>2. built = 0
        BY <2>2, <3>1, <4>1 DEF Globals
      <4>3. QED
        BY <1>0, <4>2 DEF AliveInv, Pipelines
    <3>2. CASE i # c
      BY <1>0, <1>3, <2>2, <3>2, BeginMoves DEF AliveInv
    <3>3. QED
      BY <3>1, <3>2
  <2>3. ASSUME NEW i \in Initializers, pc'[i] = "close", unwaited = {}
        PROVE  ~alive[victim'[i]]
    <3>1. i # c
      BY <1>0, <1>3, <2>3, BeginMoves
    <3>2. pc[i] = "close" /\ victim'[i] = victim[i]
      BY <1>0, <1>3, <2>3, <3>1, BeginMoves
    <3>3. QED
      BY <2>3, <3>2 DEF AliveInv
  <2>4. QED
    BY <2>1, <2>2, <2>3, AliveKept
<1>4. ASSUME NEW c \in Callers, BuildPipeline(c) PROVE AliveInv'
  <2>1. /\ c \in Initializers /\ pc[c] = "build" /\ pc'[c] = "assign"
        /\ built' = built + 1 /\ built' \in Pipelines
    BY <1>4, BuilderHasRoom
  <2>2. \A i \in Initializers : i = c
    BY <2>1 DEF OneInitializer
  <2>3. alive' = [alive EXCEPT ![built'] = TRUE] /\ unwaited' = unwaited
    BY <1>4 DEF BuildPipeline
  <2>4. \A g \in Pipelines : alive'[g] => g = built' \/ alive[g]
    BY <1>0, <2>3
  <2>5. unwaited = {} => \A g \in Pipelines : ~alive[g]
    BY <2>1 DEF AliveInv
  <2>6. \A g \in Pipelines : alive'[g] => g <= built'
    <3>1. \A g \in Pipelines : alive[g] => g <= built
      BY DEF AliveInv
    <3>2. \A g \in Pipelines : g \in Nat
      BY DEF Pipelines
    <3>3. QED
      BY <1>0, <2>1, <2>4, <3>1, <3>2
  <2>7. QED
    BY <2>1, <2>2, <2>3, <2>4, <2>5, <2>6 DEF AliveInv
<1>5. ASSUME NEW c \in Callers, AssignGlobals(c) \/ SetTarget(c) PROVE AliveInv'
  <2>1. /\ UNCHANGED <<built, alive, unwaited, victim>>
        /\ \A i \in Initializers : /\ pc'[i] = "build" => pc[i] = "build"
                                   /\ pc'[i] = "close" => pc[i] = "close"
    BY <1>0, <1>5, FinishMoves DEF pipelineVars
  <2>2. QED
    BY <2>1, AliveKept DEF AliveInv
<1>6. QED
  BY NextCases, <1>1, <1>2, <1>3, <1>4, <1>5 DEF ShutdownAction

LEMMA AliveInvariant ==
  ASSUME OneInitializer
  PROVE  Spec => [](TypeInv /\ Globals /\ AliveInv)
<1>1. TypeInv /\ Globals /\ [Next]_vars => Globals'
  BY OneInitializer, GlobalsStep
<1>2. TypeInv /\ Globals /\ AliveInv /\ [Next]_vars => AliveInv'
  BY OneInitializer, AliveStep
<1>3. Spec => []TypeInv
  BY OneInitializer, TypeInvariant
<1>4. QED
  BY <1>1, <1>2, <1>3, GlobalsInit, AliveInit, PTL DEF Spec

(* Two workers write to the store at once only when a caller of            *)
(* initialize() or shutdown() went on without the old one: its join timed  *)
(* out, its sentinel found no room, or another thread was in its           *)
(* _shutdown already (__init__.py, initialize; worker.py, _shutdown).      *)
THEOREM OneWriter ==
  ASSUME OneInitializer
  PROVE  Spec => []OneWriterAtATime
<1>1. AliveInv => OneWriterAtATime
  <2> SUFFICES ASSUME AliveInv, unwaited = {}
               PROVE  ~(Cardinality({g \in Pipelines : alive[g]}) > 1)
    BY DEF OneWriterAtATime
  <2>1. {g \in Pipelines : alive[g]} = {} \/ {g \in Pipelines : alive[g]} = {built}
    BY DEF AliveInv
  <2>2. Cardinality({g \in Pipelines : alive[g]}) \in {0, 1}
    BY <2>1, FS_EmptySet, FS_Singleton
  <2>3. QED
    BY <2>2
<1>2. Spec => []AliveInv
  BY OneInitializer, AliveInvariant, PTL
<1>3. QED
  BY <1>1, <1>2, PTL
-----------------------------------------------------------------------------
(* Service.  The newest pipeline is spared while shutdown() was not asked  *)
(* to stop it and initialize() has not yet cleared its _running; until     *)
(* then it runs, its backend is open and no sentinel waits in its queue.   *)

Spared ==
  /\ built \notin asked
  /\ \A i \in Initializers : pc[i] \in {"idle", "check", "claim", "assign", "retarget"}

StoppersAsked == \A c \in Stoppers : pc[c] \in InShutdown => victim[c] \in asked
UnbuiltEmpty == \A g \in Pipelines : g > built => queue[g] = <<>>
SparedServes ==
  built # 0 /\ Spared =>
    /\ running[built] /\ alive[built] /\ open[built]
    /\ \A i \in DOMAIN queue[built] : queue[built][i] # Sentinel

ServeInv == StoppersAsked /\ UnbuiltEmpty /\ SparedServes

LEMMA ServeInit == Init => ServeInv
  BY DEF Init, ServeInv, StoppersAsked, UnbuiltEmpty, SparedServes, InShutdown, Callers

LEMMA StoppersAskedStep == TypeInv /\ StoppersAsked /\ [Next]_vars => StoppersAsked'
<1> SUFFICES ASSUME TypeInv, StoppersAsked, [Next]_vars PROVE StoppersAsked'
  OBVIOUS
<1>0. /\ pc \in [Callers -> States] /\ victim \in [Callers -> 0..built]
      /\ Stoppers \subseteq Callers /\ Initializers \cap Stoppers = {}
      /\ \A c \in Stoppers : pc[c] \notin {"build", "assign", "retarget"}
  BY LifecycleAssumption DEF TypeInv, CallerTypes, Callers, Prepared
<1>1. CASE \/ \E e \in Emitters : ReadTarget(e) \/ PutEvent(e)
           \/ \E g \in Pipelines : WriteNext(g) \/ WorkerStops(g)
           \/ UNCHANGED vars
  BY <1>1, PipelineKeeps DEF StoppersAsked
<1>2. ASSUME NEW c \in Callers, ShutdownAction(c) PROVE StoppersAsked'
  <2>1. AfterShutdown(c) \in {"idle", "build"}
    BY DEF AfterShutdown
  <2>2. QED
    BY <1>0, <1>2, <2>1, ShutdownMoves DEF StoppersAsked, InShutdown
<1>3. ASSUME NEW c \in Callers, BeginInitialize(c) PROVE StoppersAsked'
  <2>1. c \notin Stoppers /\ asked' = asked
    BY <1>0, <1>3 DEF BeginInitialize
  <2>2. QED
    BY <1>0, <1>3, <2>1, BeginMoves DEF StoppersAsked
<1>4. ASSUME NEW c \in Callers, BeginShutdown(c) PROVE StoppersAsked'
  <2>1. asked' = asked \cup {current}
    BY <1>4 DEF BeginShutdown
  <2>2. QED
    BY <1>0, <1>4, <2>1, BeginMoves DEF StoppersAsked
<1>5. ASSUME NEW c \in Callers, BuildPipeline(c) PROVE StoppersAsked'
  <2>1. c \notin Stoppers
    BY <1>0, <1>5, BuilderHasRoom
  <2>2. \A d \in Callers \ {c} : pc'[d] = pc[d]
    BY <1>0, <1>5, CallerMoves DEF CallerAction
  <2>3. UNCHANGED <<victim, asked>>
    BY <1>5 DEF BuildPipeline
  <2>4. QED
    BY <1>0, <2>1, <2>2, <2>3 DEF StoppersAsked
<1>6. ASSUME NEW c \in Callers, AssignGlobals(c) \/ SetTarget(c) PROVE StoppersAsked'
  BY <1>0, <1>6, FinishMoves DEF StoppersAsked
<1>7. QED
  BY NextCases, <1>1, <1>2, <1>3, <1>4, <1>5, <1>6 DEF ShutdownAction

(* What any step does to the queues: at most one changes, by a put that may *)
(* evict, by a get, or by a caller's sentinel.                              *)
LEMMA QueueMoves ==
  ASSUME TypeInv, [Next]_vars
  PROVE  \/ UNCHANGED queue
         \/ \E e \in Emitters : PutEvent(e) /\ aim[e] \in 1..built
         \/ \E g \in Pipelines :
              /\ WriteNext(g) \/ WorkerStops(g)
              /\ queue[g] # <<>> /\ queue' = [queue EXCEPT ![g] = Tail(@)]
         \/ \E c \in Callers :
              /\ PutSentinel(c) /\ pc[c] = "sentinel" /\ victim[c] \in 1..built
              /\ queue' = [queue EXCEPT ![victim[c]] = Append(@, Sentinel)]
<1>1. CASE \/ \E e \in Emitters : ReadTarget(e)
           \/ \E c \in Callers :
                \/ BeginInitialize(c) \/ BeginShutdown(c) \/ AlreadyStopped(c) \/ CheckRunning(c)
                \/ ClearRunning(c) \/ SentinelTimeout(c) \/ WorkerJoined(c) \/ JoinTimeout(c)
                \/ CloseBackend(c) \/ BuildPipeline(c) \/ AssignGlobals(c) \/ SetTarget(c)
           \/ UNCHANGED vars
  BY <1>1 DEF ReadTarget, BeginInitialize, BeginShutdown, AlreadyStopped, CheckRunning,
       ClearRunning, SentinelTimeout, WorkerJoined, JoinTimeout, CloseBackend, BuildPipeline,
       AssignGlobals, SetTarget, vars, pipelineVars
<1>2. ASSUME NEW e \in Emitters, PutEvent(e) PROVE aim[e] \in 1..built
  BY <1>2 DEF PutEvent, TypeInv, EmitterTypes, GlobalTypes
<1>3. ASSUME NEW g \in Pipelines, WriteNext(g) \/ WorkerStops(g)
      PROVE  queue[g] # <<>> /\ queue' = [queue EXCEPT ![g] = Tail(@)]
  BY <1>3 DEF WriteNext, WorkerStops
<1>4. ASSUME NEW c \in Callers, PutSentinel(c)
      PROVE  /\ pc[c] = "sentinel" /\ victim[c] \in 1..built
             /\ queue' = [queue EXCEPT ![victim[c]] = Append(@, Sentinel)]
  <2>1. pc[c] = "sentinel" /\ queue' = [queue EXCEPT ![victim[c]] = Append(@, Sentinel)]
    BY <1>4 DEF PutSentinel, Goto
  <2>2. QED
    BY <2>1 DEF TypeInv, Prepared, InShutdown
<1>5. QED
  BY NextCases, <1>1, <1>2, <1>3, <1>4

LEMMA BuiltMoves ==
  ASSUME TypeInv, [Next]_vars
  PROVE  /\ built' = built \/ (\E c \in Callers : BuildPipeline(c) /\ built' = built + 1)
         /\ unwaited \subseteq unwaited'
<1>1. CASE \/ \E e \in Emitters : ReadTarget(e) \/ PutEvent(e)
           \/ \E h \in Pipelines : WriteNext(h) \/ WorkerStops(h)
           \/ UNCHANGED vars
  BY <1>1, PipelineKeeps
<1>2. CASE \E c \in Callers : ShutdownAction(c)
  BY <1>2 DEF ShutdownAction, AlreadyStopped, CheckRunning, ClearRunning, PutSentinel,
       SentinelTimeout, WorkerJoined, JoinTimeout, CloseBackend
<1>3. CASE \E c \in Callers : BeginInitialize(c) \/ BeginShutdown(c)
  BY <1>3 DEF BeginInitialize, BeginShutdown
<1>4. CASE \E c \in Callers : BuildPipeline(c) \/ AssignGlobals(c) \/ SetTarget(c)
  BY <1>4 DEF BuildPipeline, AssignGlobals, SetTarget
<1>5. QED
  BY NextCases, <1>1, <1>2, <1>3, <1>4 DEF ShutdownAction

LEMMA UnbuiltEmptyStep == TypeInv /\ UnbuiltEmpty /\ [Next]_vars => UnbuiltEmpty'
<1> SUFFICES ASSUME TypeInv, UnbuiltEmpty, [Next]_vars,
                    NEW g \in Pipelines, g > built'
             PROVE  queue'[g] = <<>>
  BY DEF UnbuiltEmpty
<1>1. built <= built' /\ g \in Nat /\ built \in Nat /\ built' \in Nat
  <2>1. built \in Nat /\ g \in Nat
    BY DEF TypeInv, GlobalTypes, Pipelines
  <2>2. QED
    BY <2>1, BuiltMoves
<1>2. g > built /\ queue[g] = <<>>
  BY <1>1 DEF UnbuiltEmpty
<1>3. \A h \in 1..built : h # g
  BY <1>1, <1>2
<1>4. queue \in [Pipelines -> Seq(AllEvents \cup {Sentinel})]
  BY DEF TypeInv, QueueTypes
<1>5. ASSUME NEW e \in Emitters, PutEvent(e), aim[e] \in 1..built PROVE queue'[g] = <<>>
  BY <1>2, <1>3, <1>4, <1>5 DEF PutEvent
<1>6. QED
  BY QueueMoves, <1>2, <1>3, <1>4, <1>5

(* The items of a sequence after a put and after a get. *)
LEMMA AppendItems ==
  ASSUME NEW T, NEW s \in Seq(T), NEW x \in T
  PROVE  /\ DOMAIN s = 1..Len(s) /\ Len(s) \in Nat
         /\ DOMAIN Append(s, x) = 1..Len(s) + 1
         /\ \A i \in DOMAIN s : Append(s, x)[i] = s[i]
         /\ Append(s, x)[Len(s) + 1] = x
         /\ \A i \in DOMAIN Append(s, x) : i \in DOMAIN s \/ i = Len(s) + 1
  OBVIOUS

LEMMA TailItems ==
  ASSUME NEW T, NEW s \in Seq(T), s # <<>>
  PROVE  /\ 1 \in DOMAIN s /\ Head(s) = s[1]
         /\ Tail(s) \in Seq(T) /\ DOMAIN s \subseteq Nat /\ DOMAIN Tail(s) \subseteq Nat
         /\ \A i \in DOMAIN Tail(s) : i + 1 \in DOMAIN s /\ Tail(s)[i] = s[i + 1] /\ 1 < i + 1
  OBVIOUS

(* put_nowait: the event goes behind what was there, or behind all of it   *)
(* but the head.                                                           *)
LEMMA PutMoves ==
  ASSUME TypeInv, NEW e \in Emitters, PutEvent(e)
  PROVE  /\ aim[e] \in 1..built /\ aim[e] \in Pipelines /\ <<e, emits[e]>> \in AllEvents
         /\ \E s \in Seq(AllEvents \cup {Sentinel}) :
              /\ s = queue[aim[e]] \/ (queue[aim[e]] # <<>> /\ s = Tail(queue[aim[e]]))
              /\ queue' = [queue EXCEPT ![aim[e]] = Append(s, <<e, emits[e]>>)]
         /\ aim' = [aim EXCEPT ![e] = 0]
         /\ UNCHANGED <<current, target, built, running, alive, open, stored, emits, pc, victim,
                        new, asked, unwaited>>
<1>1. aim[e] \in 1..built /\ aim[e] \in Pipelines
  BY LifecycleAssumption DEF PutEvent, TypeInv, EmitterTypes, GlobalTypes, Pipelines
<1>2. <<e, emits[e]>> \in AllEvents
  BY DEF PutEvent, TypeInv, EmitterTypes, Prepared, AllEvents
<1>3. /\ queue[aim[e]] \in Seq(AllEvents \cup {Sentinel}) /\ QueueSize > 0
  BY <1>1, LifecycleAssumption DEF TypeInv, QueueTypes
<1>4. CASE IsFull(aim[e])
  <2>1. queue[aim[e]] # <<>>
    BY <1>3, <1>4, LifecycleAssumption DEF IsFull
  <2>2. Tail(queue[aim[e]]) \in Seq(AllEvents \cup {Sentinel})
    BY <1>3, <2>1
  <2>3. queue' = [queue EXCEPT ![aim[e]] = Append(Tail(queue[aim[e]]), <<e, emits[e]>>)]
    BY <1>4 DEF PutEvent
  <2>4. QED
    BY <1>1, <1>2, <2>1, <2>2, <2>3 DEF PutEvent
<1>5. CASE ~IsFull(aim[e])
  <2>1. queue' = [queue EXCEPT ![aim[e]] = Append(queue[aim[e]], <<e, emits[e]>>)]
    BY <1>5 DEF PutEvent
  <2>2. QED
    BY <1>1, <1>2, <1>3, <2>1 DEF PutEvent
<1>6. QED
  BY <1>4, <1>5

LEMMA SparedServesStep ==
  ASSUME OneInitializer
  PROVE  TypeInv /\ Globals /\ ServeInv /\ [Next]_vars => SparedServes'
<1> SUFFICES ASSUME TypeInv, Globals, ServeInv, [Next]_vars, built' # 0, Spared'
             PROVE  /\ running'[built'] /\ alive'[built'] /\ open'[built']
                    /\ \A i \in DOMAIN queue'[built'] : queue'[built'][i] # Sentinel
  BY DEF SparedServes
<1> DEFINE Items == AllEvents \cup {Sentinel}
           Clean(s) == \A i \in DOMAIN s : s[i] # Sentinel
<1>0. /\ pc \in [Callers -> States] /\ built \in Nat /\ (built # 0 => built \in Pipelines)
      /\ Initializers \subseteq Callers /\ Callers = Initializers \cup Stoppers
      /\ queue \in [Pipelines -> Seq(Items)]
      /\ running \in [Pipelines -> BOOLEAN] /\ alive \in [Pipelines -> BOOLEAN]
      /\ open \in [Pipelines -> BOOLEAN]
      /\ \A x \in AllEvents : x # Sentinel
  <2>1. built \in Nat /\ (built # 0 => built \in Pipelines)
    BY LifecycleAssumption DEF TypeInv, GlobalTypes, Pipelines
  <2>2. \A x \in AllEvents : x # Sentinel
    BY DEF AllEvents, Sentinel
  <2>3. queue \in [Pipelines -> Seq(Items)]
    BY DEF TypeInv, QueueTypes
  <2>4. QED
    BY <2>1, <2>2, <2>3 DEF TypeInv, CallerTypes, Callers, FlagTypes
<1>1. CASE \/ \E e \in Emitters : ReadTarget(e) \/ PutEvent(e)
           \/ \E g \in Pipelines : WriteNext(g) \/ WorkerStops(g)
           \/ UNCHANGED vars
  <2>1. UNCHANGED <<built, running, open, pc, asked>>
    BY <1>1, PipelineKeeps
  <2>2. running[built] /\ alive[built] /\ open[built] /\ Clean(queue[built])
    BY <2>1 DEF Spared, ServeInv, SparedServes
  <2>3. built \in Pipelines /\ queue[built] \in Seq(Items)
    BY <1>0, <2>1
  <2>4. CASE \/ \E e \in Emitters : ReadTarget(e)
             \/ UNCHANGED vars
    <3>1. UNCHANGED <<alive, queue>>
      BY <2>4 DEF ReadTarget, vars, pipelineVars
    <3>2. QED
      BY <2>1, <2>2, <3>1
  <2>5. ASSUME NEW e \in Emitters, PutEvent(e)
        PROVE  alive'[built] /\ Clean(queue'[built])
    <3>1. PICK s \in Seq(Items) :
             /\ s = queue[aim[e]] \/ (queue[aim[e]] # <<>> /\ s = Tail(queue[aim[e]]))
             /\ queue' = [queue EXCEPT ![aim[e]] = Append(s, <<e, emits[e]>>)]
      BY <2>5, PutMoves
    <3>2. alive' = alive /\ <<e, emits[e]>> \in AllEvents /\ <<e, emits[e]>> # Sentinel
      BY <1>0, <2>5, PutMoves
    <3>3. CASE aim[e] = built
      <4>1. Clean(s)
        <5>1. CASE s = queue[built]
          BY <2>2, <5>1
        <5>2. CASE queue[built] # <<>> /\ s = Tail(queue[built])
          <6>1. \A i \in DOMAIN s : i + 1 \in DOMAIN queue[built] /\ s[i] = queue[built][i + 1]
            BY <2>3, <5>2, TailItems
          <6>2. QED
            BY <2>2, <6>1
        <5>3. QED
          BY <3>1, <3>3, <5>1, <5>2
      <4>2. Clean(Append(s, <<e, emits[e]>>))
        BY <3>1, <3>2, <4>1, AppendItems
      <4>3. queue'[built] = Append(s, <<e, emits[e]>>)
        BY <1>0, <2>3, <3>1, <3>3
      <4>4. QED
        BY <2>2, <3>2, <4>2, <4>3
    <3>4. CASE aim[e] # built
      <4>1. queue'[built] = queue[built]
        BY <1>0, <2>3, <3>1, <3>4
      <4>2. QED
        BY <2>2, <3>2, <4>1
    <3>5. QED
      BY <3>3, <3>4
  <2>6. ASSUME NEW g \in Pipelines, WriteNext(g) \/ WorkerStops(g)
        PROVE  alive'[built] /\ Clean(queue'[built])
    <3>1. queue[g] # <<>> /\ queue' = [queue EXCEPT ![g] = Tail(@)]
      BY <2>6 DEF WriteNext, WorkerStops
    <3>2. CASE g = built
      <4>1. Head(queue[built]) # Sentinel
        BY <2>2, <2>3, <3>1, <3>2, TailItems
      <4>2. alive' = alive
        BY <2>6, <3>2, <4>1 DEF WriteNext, WorkerStops
      <4>3. Clean(Tail(queue[built]))
        BY <2>2, <2>3, <3>1, <3>2, TailItems
      <4>4. queue'[built] = Tail(queue[built])
        BY <1>0, <2>3, <3>1, <3>2
      <4>5. QED
        BY <2>2, <4>2, <4>3, <4>4
    <3>3. CASE g # built
      <4>1. queue'[built] = queue[built]
        BY <1>0, <2>3, <3>1, <3>3
      <4>2. alive' = alive \/ alive' = [alive EXCEPT ![g] = FALSE]
        BY <2>6 DEF WriteNext, WorkerStops
      <4>3. alive'[built] = alive[built]
        BY <1>0, <2>3, <3>3, <4>2
      <4>4. QED
        BY <2>2, <4>1, <4>3
    <3>4. QED
      BY <3>2, <3>3
  <2>7. QED
    BY <1>1, <2>1, <2>2, <2>4, <2>5, <2>6
<1>2. ASSUME NEW c \in Callers, ShutdownAction(c)
      PROVE  /\ running'[built'] /\ alive'[built'] /\ open'[built'] /\ Clean(queue'[built'])
  <2>1. /\ pc[c] \in InShutdown /\ pc'[c] \in InShutdown \cup {AfterShutdown(c)}
        /\ \A d \in Callers \ {c} : pc'[d] = pc[d]
        /\ UNCHANGED <<built, asked, victim>>
    BY <1>0, <1>2, ShutdownMoves
  <2>2. CASE c \in Initializers
    <3>1. AfterShutdown(c) = "build" /\ pc'[c] \in {"check", "claim"}
      BY <2>1, <2>2 DEF AfterShutdown, Spared, InShutdown
    <3>2. CheckRunning(c)
      BY <1>0, <1>2, <3>1
         DEF ShutdownAction, AlreadyStopped, ClearRunning, PutSentinel, SentinelTimeout,
             WorkerJoined, JoinTimeout, CloseBackend, Goto
    <3>3. pc[c] = "check" /\ UNCHANGED <<running, alive, open, queue>>
      BY <3>2 DEF CheckRunning, Goto, pipelineVars
    <3>4. Spared /\ built # 0
      BY <1>0, <2>1, <3>3 DEF Spared
    <3>5. QED
      BY <2>1, <3>3, <3>4 DEF ServeInv, SparedServes
  <2>3. CASE c \in Stoppers /\ c \notin Initializers
    <3>1. Spared /\ built # 0 /\ built \in Pipelines
      BY <1>0, <2>1, <2>3 DEF Spared
    <3>2. running[built] /\ alive[built] /\ open[built] /\ Clean(queue[built])
      BY <3>1 DEF ServeInv, SparedServes
    <3>3. victim[c] # built
      BY <2>1, <2>3, <3>1 DEF ServeInv, StoppersAsked, Spared
    <3>4. /\ running' = running \/ running' = [running EXCEPT ![victim[c]] = FALSE]
          /\ open' = open \/ open' = [open EXCEPT ![victim[c]] = FALSE]
          /\ queue' = queue \/ queue' = [queue EXCEPT ![victim[c]] = Append(@, Sentinel)]
          /\ alive' = alive
      BY <1>2 DEF ShutdownAction, AlreadyStopped, CheckRunning, ClearRunning, PutSentinel,
           SentinelTimeout, WorkerJoined, JoinTimeout, CloseBackend, pipelineVars
    <3>5. /\ running'[built] = running[built] /\ open'[built] = open[built]
          /\ queue'[built] = queue[built] /\ alive'[built] = alive[built]
      BY <1>0, <3>1, <3>3, <3>4
    <3>6. QED
      BY <2>1, <3>2, <3>5
  <2>4. QED
    BY <1>0, <2>2, <2>3
<1>3. ASSUME NEW c \in Callers, BeginInitialize(c) \/ BeginShutdown(c)
      PROVE  /\ running'[built'] /\ alive'[built'] /\ open'[built'] /\ Clean(queue'[built'])
  <2>1. /\ pc[c] = "idle" /\ \A d \in Callers \ {c} : pc'[d] = pc[d]
        /\ UNCHANGED <<built, running, alive, open, queue>>
    BY <1>0, <1>3, BeginMoves DEF pipelineVars
  <2>2. asked \subseteq asked'
    BY <1>3 DEF BeginInitialize, BeginShutdown
  <2>3. Spared
    BY <1>0, <2>1, <2>2 DEF Spared
  <2>4. QED
    BY <2>1, <2>3 DEF ServeInv, SparedServes
<1>4. ASSUME NEW c \in Callers, BuildPipeline(c)
      PROVE  /\ running'[built'] /\ alive'[built'] /\ open'[built'] /\ Clean(queue'[built'])
  <2>1. built' = built + 1 /\ built' \in Pipelines
    BY <1>4, BuilderHasRoom
  <2>2. /\ running' = [running EXCEPT ![built'] = TRUE] /\ alive' = [alive EXCEPT ![built'] = TRUE]
        /\ open' = [open EXCEPT ![built'] = TRUE] /\ queue' = queue
    BY <1>4 DEF BuildPipeline
  <2>3. built' > built
    BY <1>0, <2>1
  <2>4. queue[built'] = <<>>
    BY <2>1, <2>3 DEF ServeInv, UnbuiltEmpty
  <2>5. QED
    BY <1>0, <2>1, <2>2, <2>4
<1>5. ASSUME NEW c \in Callers, AssignGlobals(c) \/ SetTarget(c)
      PROVE  /\ running'[built'] /\ alive'[built'] /\ open'[built'] /\ Clean(queue'[built'])
  <2>1. /\ pc[c] \in {"assign", "retarget"} /\ \A d \in Callers \ {c} : pc'[d] = pc[d]
        /\ UNCHANGED <<built, asked, running, alive, open, queue>>
    BY <1>5, FinishMoves DEF pipelineVars
  <2>2. Spared
    BY <1>0, <2>1 DEF Spared
  <2>3. QED
    BY <2>1, <2>2 DEF ServeInv, SparedServes
<1>6. QED
  BY NextCases, <1>1, <1>2, <1>3, <1>4, <1>5 DEF ShutdownAction

LEMMA ServeInvariant ==
  ASSUME OneInitializer
  PROVE  Spec => [](TypeInv /\ Globals /\ ServeInv)
<1>1. TypeInv /\ Globals /\ [Next]_vars => Globals'
  BY OneInitializer, GlobalsStep
<1>2. TypeInv /\ Globals /\ ServeInv /\ [Next]_vars => ServeInv'
  BY OneInitializer, StoppersAskedStep, UnbuiltEmptyStep, SparedServesStep DEF ServeInv
<1>3. Spec => []TypeInv
  BY OneInitializer, TypeInvariant
<1>4. QED
  BY <1>1, <1>2, <1>3, GlobalsInit, ServeInit, PTL DEF Spec

(* Between two calls of initialize() the proxy feeds the pipeline that      *)
(* _worker holds, and unless shutdown() was asked to stop that pipeline,    *)
(* its worker runs and its backend is open: an initialize() that raised     *)
(* left it alone (__init__.py, initialize, _QueueProxy).                    *)
THEOREM Serves ==
  ASSUME OneInitializer
  PROVE  Spec => []ServesUnlessAsked
<1>1. Globals /\ ServeInv => ServesUnlessAsked
  <2> SUFFICES ASSUME Globals, ServeInv, ~Initializing PROVE ServesUnlessAsked
    BY DEF ServesUnlessAsked
  <2>1. \A i \in Initializers : pc[i] = "idle"
    BY DEF Initializing
  <2>2. target = current /\ current = built
    BY <2>1 DEF Globals
  <2>3. current \notin asked => Spared
    BY <2>1, <2>2 DEF Spared
  <2>4. QED
    BY <2>2, <2>3 DEF ServesUnlessAsked, ServeInv, SparedServes
<1>2. QED
  BY OneInitializer, <1>1, ServeInvariant, PTL
-----------------------------------------------------------------------------
(* Order.  An event carries the number of its emission, so no event that   *)
(* is queued or stored has a number above its emitter's, nor the number of *)
(* the one being put; each queue is in order, and while every caller       *)
(* waited, what is stored comes before what waits in the newest queue, the *)
(* only one a worker reads.                                                *)

In(x, s) == \E i \in DOMAIN s : s[i] = x
Numbered(x) == x[2] <= emits[x[1]] /\ (aim[x[1]] # 0 => x[2] < emits[x[1]])
Before(x, y) == x # Sentinel /\ y # Sentinel /\ x[1] = y[1] => x[2] < y[2]
Sorted(s) == \A i, j \in DOMAIN s : i < j => Before(s[i], s[j])

QueueNumbers == \A g \in Pipelines : \A x \in AllEvents : In(x, queue[g]) => Numbered(x)
StoredNumbers == \A x \in AllEvents : In(x, stored) => Numbered(x)
QueueOrder == \A g \in Pipelines : Sorted(queue[g])
StoredFirst ==
  unwaited = {} /\ built # 0 =>
    \A i \in DOMAIN stored : \A j \in DOMAIN queue[built] : Before(stored[i], queue[built][j])
StoredOrder == unwaited = {} => Sorted(stored)

OrderInv == QueueNumbers /\ StoredNumbers /\ QueueOrder /\ StoredFirst /\ StoredOrder

LEMMA OrderInit == Init => OrderInv
  BY DEF Init, OrderInv, QueueNumbers, StoredNumbers, QueueOrder, StoredFirst, StoredOrder,
       In, Sorted

(* Order and membership in a sequence after a put and after a get. *)
LEMMA SortedFacts ==
  ASSUME NEW T, NEW s \in Seq(T)
  PROVE  /\ \A x \in T :
              /\ \A y : In(y, Append(s, x)) <=> In(y, s) \/ y = x
              /\ Sorted(s) /\ (\A i \in DOMAIN s : Before(s[i], x)) => Sorted(Append(s, x))
         /\ s # <<>> =>
              /\ In(Head(s), s) /\ \A y : In(y, Tail(s)) => In(y, s)
              /\ Sorted(s) => /\ Sorted(Tail(s))
                              /\ \A j \in DOMAIN Tail(s) : Before(Head(s), Tail(s)[j])
<1>1. ASSUME NEW x \in T PROVE \A y : In(y, Append(s, x)) <=> In(y, s) \/ y = x
  BY AppendItems DEF In
<1>2. ASSUME NEW x \in T, Sorted(s), \A i \in DOMAIN s : Before(s[i], x)
      PROVE  Sorted(Append(s, x))
  <2> SUFFICES ASSUME NEW i \in DOMAIN Append(s, x), NEW j \in DOMAIN Append(s, x), i < j
               PROVE  Before(Append(s, x)[i], Append(s, x)[j])
    BY DEF Sorted
  <2>1. i \in DOMAIN s
    BY AppendItems
  <2>2. CASE j \in DOMAIN s
    BY <1>2, <2>1, <2>2, AppendItems DEF Sorted
  <2>3. CASE j = Len(s) + 1
    BY <1>2, <2>1, <2>3, AppendItems
  <2>4. QED
    BY <2>2, <2>3, AppendItems
<1>3. ASSUME s # <<>> PROVE In(Head(s), s) /\ \A y : In(y, Tail(s)) => In(y, s)
  BY <1>3, TailItems DEF In
<1>4. ASSUME s # <<>>, Sorted(s)
      PROVE  Sorted(Tail(s)) /\ \A j \in DOMAIN Tail(s) : Before(Head(s), Tail(s)[j])
  <2>1. /\ 1 \in DOMAIN s /\ Head(s) = s[1] /\ DOMAIN Tail(s) \subseteq Nat
        /\ \A i \in DOMAIN Tail(s) : i + 1 \in DOMAIN s /\ Tail(s)[i] = s[i + 1] /\ 1 < i + 1
    BY <1>4, TailItems
  <2>2. \A i, j \in DOMAIN Tail(s) : i < j => i + 1 < j + 1
    BY <2>1
  <2>3. Sorted(Tail(s))
    BY <1>4, <2>1, <2>2 DEF Sorted
  <2>4. QED
    BY <1>4, <2>1, <2>3 DEF Sorted
<1>5. QED
  BY <1>1, <1>2, <1>3, <1>4

(* What any step does to the store: a worker appends the head it takes. *)
LEMMA StoreMoves ==
  ASSUME [Next]_vars
  PROVE  \/ UNCHANGED stored
         \/ \E g \in Pipelines :
              /\ WriteNext(g) /\ alive[g] /\ queue[g] # <<>> /\ Head(queue[g]) # Sentinel
              /\ stored' = Append(stored, Head(queue[g]))
<1>1. CASE \/ \E e \in Emitters : ReadTarget(e) \/ PutEvent(e)
           \/ \E g \in Pipelines : WorkerStops(g)
           \/ \E c \in Callers :
                \/ BeginInitialize(c) \/ BeginShutdown(c) \/ AlreadyStopped(c) \/ CheckRunning(c)
                \/ ClearRunning(c) \/ PutSentinel(c) \/ SentinelTimeout(c) \/ WorkerJoined(c)
                \/ JoinTimeout(c) \/ CloseBackend(c) \/ BuildPipeline(c) \/ AssignGlobals(c)
                \/ SetTarget(c)
           \/ UNCHANGED vars
  BY <1>1 DEF ReadTarget, PutEvent, WorkerStops, BeginInitialize, BeginShutdown, AlreadyStopped,
       CheckRunning, ClearRunning, PutSentinel, SentinelTimeout, WorkerJoined, JoinTimeout,
       CloseBackend, BuildPipeline, AssignGlobals, SetTarget, vars, pipelineVars
<1>2. CASE \E g \in Pipelines : WriteNext(g)
  BY <1>2 DEF WriteNext
<1>3. QED
  BY NextCases, <1>1, <1>2

LEMMA EventParts ==
  ASSUME TypeInv
  PROVE  \A x \in AllEvents : /\ x[1] \in Emitters /\ x[2] \in Nat /\ x # Sentinel
                              /\ x[2] <= MaxEmits
  BY LifecycleAssumption DEF AllEvents, Sentinel

LEMMA NumberedKept ==
  ASSUME TypeInv, [Next]_vars, NEW x \in AllEvents, Numbered(x)
  PROVE  Numbered(x)'
<1>0. /\ x[1] \in Emitters /\ x[2] \in Nat
      /\ aim \in [Emitters -> 0..built] /\ emits \in [Emitters -> Nat]
  BY EventParts DEF TypeInv, EmitterTypes
<1>1. CASE \/ \E g \in Pipelines : WriteNext(g) \/ WorkerStops(g)
           \/ \E c \in Callers : CallerAction(c)
           \/ UNCHANGED vars
  <2>1. UNCHANGED <<aim, emits>>
    BY <1>1 DEF WriteNext, WorkerStops, CallerAction, BeginInitialize, BeginShutdown,
         AlreadyStopped, CheckRunning, ClearRunning, PutSentinel, SentinelTimeout, WorkerJoined,
         JoinTimeout, CloseBackend, BuildPipeline, AssignGlobals, SetTarget, vars, emitterVars
  <2>2. QED
    BY <2>1 DEF Numbered
<1>2. ASSUME NEW e \in Emitters, ReadTarget(e) PROVE Numbered(x)'
  <2>1. /\ aim[e] = 0 /\ aim' = [aim EXCEPT ![e] = target]
        /\ emits' = [emits EXCEPT ![e] = @ + 1]
    BY <1>2 DEF ReadTarget
  <2>2. CASE x[1] = e
    BY <1>0, <2>1, <2>2 DEF Numbered
  <2>3. CASE x[1] # e
    BY <1>0, <2>1, <2>3 DEF Numbered
  <2>4. QED
    BY <2>2, <2>3
<1>3. ASSUME NEW e \in Emitters, PutEvent(e) PROVE Numbered(x)'
  <2>1. aim' = [aim EXCEPT ![e] = 0] /\ emits' = emits
    BY <1>3 DEF PutEvent
  <2>2. CASE x[1] = e
    BY <1>0, <2>1, <2>2 DEF Numbered
  <2>3. CASE x[1] # e
    BY <1>0, <2>1, <2>3 DEF Numbered
  <2>4. QED
    BY <2>2, <2>3
<1>4. QED
  BY NextCases, <1>1, <1>2, <1>3 DEF CallerAction

(* The queue of a pipeline after any step: as it was, or with its head     *)
(* gone, or with an item behind what was left of it.                       *)
LEMMA OneQueue ==
  ASSUME TypeInv, [Next]_vars, NEW g \in Pipelines
  PROVE  /\ queue[g] \in Seq(AllEvents \cup {Sentinel})
         /\ \/ queue'[g] = queue[g]
            \/ queue[g] # <<>> /\ queue'[g] = Tail(queue[g])
            \/ \E s \in Seq(AllEvents \cup {Sentinel}), e \in Emitters :
                 /\ PutEvent(e) /\ aim[e] = g /\ <<e, emits[e]>> \in AllEvents
                 /\ s = queue[g] \/ (queue[g] # <<>> /\ s = Tail(queue[g]))
                 /\ queue'[g] = Append(s, <<e, emits[e]>>)
            \/ queue'[g] = Append(queue[g], Sentinel)
<1>1. queue \in [Pipelines -> Seq(AllEvents \cup {Sentinel})]
  BY DEF TypeInv, QueueTypes
<1>2. ASSUME NEW e \in Emitters, PutEvent(e), queue'[g] # queue[g]
      PROVE  \E s \in Seq(AllEvents \cup {Sentinel}) :
               /\ PutEvent(e) /\ aim[e] = g /\ <<e, emits[e]>> \in AllEvents
               /\ s = queue[g] \/ (queue[g] # <<>> /\ s = Tail(queue[g]))
               /\ queue'[g] = Append(s, <<e, emits[e]>>)
  <2>1. PICK s \in Seq(AllEvents \cup {Sentinel}) :
           /\ s = queue[aim[e]] \/ (queue[aim[e]] # <<>> /\ s = Tail(queue[aim[e]]))
           /\ queue' = [queue EXCEPT ![aim[e]] = Append(s, <<e, emits[e]>>)]
    BY <1>2, PutMoves
  <2>2. aim[e] \in Pipelines /\ <<e, emits[e]>> \in AllEvents
    BY <1>2, PutMoves
  <2>3. aim[e] = g
    BY <1>1, <1>2, <2>1
  <2>4. QED
    BY <1>1, <1>2, <2>1, <2>2, <2>3
<1>3. ASSUME NEW h \in Pipelines, queue[h] # <<>>, queue' = [queue EXCEPT ![h] = Tail(@)],
             queue'[g] # queue[g]
      PROVE  queue[g] # <<>> /\ queue'[g] = Tail(queue[g])
  BY <1>1, <1>3
<1>4. ASSUME NEW h, queue' = [queue EXCEPT ![h] = Append(@, Sentinel)], queue'[g] # queue[g]
      PROVE  queue'[g] = Append(queue[g], Sentinel)
  BY <1>1, <1>4
<1>5. CASE UNCHANGED queue
  BY <1>1, <1>5
<1>6. CASE \E e \in Emitters : PutEvent(e) /\ aim[e] \in 1..built
  BY <1>1, <1>2, <1>6
<1>7. CASE \E h \in Pipelines :
             /\ WriteNext(h) \/ WorkerStops(h)
             /\ queue[h] # <<>> /\ queue' = [queue EXCEPT ![h] = Tail(@)]
  BY <1>1, <1>3, <1>7
<1>8. CASE \E c \in Callers :
             /\ PutSentinel(c) /\ pc[c] = "sentinel" /\ victim[c] \in 1..built
             /\ queue' = [queue EXCEPT ![victim[c]] = Append(@, Sentinel)]
  BY <1>1, <1>4, <1>8
<1>9. QED
  BY QueueMoves, <1>5, <1>6, <1>7, <1>8

LEMMA QueueNumbersStep == TypeInv /\ QueueNumbers /\ [Next]_vars => QueueNumbers'
<1> SUFFICES ASSUME TypeInv, QueueNumbers, [Next]_vars,
                    NEW g \in Pipelines, NEW x \in AllEvents, In(x, queue'[g])
             PROVE  Numbered(x)'
  BY DEF QueueNumbers, In
<1>1. ASSUME In(x, queue[g]) PROVE Numbered(x)'
  BY <1>1, NumberedKept DEF QueueNumbers
<1>2. queue[g] \in Seq(AllEvents \cup {Sentinel}) /\ x # Sentinel
  BY OneQueue, EventParts
<1>3. CASE queue'[g] = queue[g]
  BY <1>1, <1>3
<1>4. CASE queue[g] # <<>> /\ queue'[g] = Tail(queue[g])
  BY <1>1, <1>2, <1>4, SortedFacts
<1>5. CASE queue'[g] = Append(queue[g], Sentinel)
  <2>1. Sentinel \in AllEvents \cup {Sentinel}
    OBVIOUS
  <2>2. In(x, queue[g])
    BY <1>2, <1>5, <2>1, SortedFacts
  <2>3. QED
    BY <1>1, <2>2
<1>6. ASSUME NEW s \in Seq(AllEvents \cup {Sentinel}), NEW e \in Emitters,
             PutEvent(e), <<e, emits[e]>> \in AllEvents,
             s = queue[g] \/ (queue[g] # <<>> /\ s = Tail(queue[g])),
             queue'[g] = Append(s, <<e, emits[e]>>)
      PROVE  Numbered(x)'
  <2>1. In(x, s) \/ x = <<e, emits[e]>>
    BY <1>6, SortedFacts
  <2>2. CASE In(x, s)
    BY <1>1, <1>2, <1>6, <2>2, SortedFacts
  <2>3. CASE x = <<e, emits[e]>>
    <3>1. aim'[e] = 0 /\ emits' = emits /\ emits[e] \in Nat
      BY <1>6, PutMoves DEF TypeInv, EmitterTypes
    <3>2. QED
      BY <2>3, <3>1 DEF Numbered
  <2>4. QED
    BY <2>1, <2>2, <2>3
<1>7. QED
  BY OneQueue, <1>3, <1>4, <1>5, <1>6

LEMMA StoredNumbersStep ==
  TypeInv /\ QueueNumbers /\ StoredNumbers /\ [Next]_vars => StoredNumbers'
<1> SUFFICES ASSUME TypeInv, QueueNumbers, StoredNumbers, [Next]_vars,
                    NEW x \in AllEvents, In(x, stored')
             PROVE  Numbered(x)'
  BY DEF StoredNumbers, In
<1>1. CASE In(x, stored)
  BY <1>1, NumberedKept DEF StoredNumbers
<1>2. ASSUME NEW g \in Pipelines, queue[g] # <<>>, stored' = Append(stored, Head(queue[g])),
             Head(queue[g]) # Sentinel
      PROVE  Numbered(x)'
  <2>1. queue[g] \in Seq(AllEvents \cup {Sentinel}) /\ stored \in Seq(AllEvents)
    BY DEF TypeInv, QueueTypes
  <2>2. In(Head(queue[g]), queue[g]) /\ Head(queue[g]) \in AllEvents
    BY <1>2, <2>1, SortedFacts DEF In
  <2>3. In(x, stored) \/ x = Head(queue[g])
    BY <1>2, <2>1, <2>2, SortedFacts
  <2>4. QED
    BY <1>1, <2>2, <2>3, NumberedKept DEF QueueNumbers
<1>3. QED
  BY StoreMoves, <1>1, <1>2

(* The event being put has a number above all that its emitter has queued   *)
(* or stored.                                                               *)
LEMMA PutIsNewest ==
  ASSUME TypeInv, NEW e \in Emitters, PutEvent(e), NEW x \in AllEvents \cup {Sentinel},
         x \in AllEvents => Numbered(x)
  PROVE  Before(x, <<e, emits[e]>>)
  BY DEF PutEvent, Before, Numbered

LEMMA QueueOrderStep ==
  TypeInv /\ QueueNumbers /\ QueueOrder /\ [Next]_vars => QueueOrder'
<1> SUFFICES ASSUME TypeInv, QueueNumbers, QueueOrder, [Next]_vars, NEW g \in Pipelines
             PROVE  Sorted(queue'[g])
  BY DEF QueueOrder, Sorted
<1>1. queue[g] \in Seq(AllEvents \cup {Sentinel}) /\ Sorted(queue[g])
  BY OneQueue DEF QueueOrder
<1>2. CASE queue'[g] = queue[g]
  BY <1>1, <1>2
<1>3. CASE queue[g] # <<>> /\ queue'[g] = Tail(queue[g])
  BY <1>1, <1>3, SortedFacts
<1>4. CASE queue'[g] = Append(queue[g], Sentinel)
  <2>1. \A i \in DOMAIN queue[g] : Before(queue[g][i], Sentinel)
    BY DEF Before
  <2>2. Sentinel \in AllEvents \cup {Sentinel}
    OBVIOUS
  <2>3. QED
    BY <1>1, <1>4, <2>1, <2>2, SortedFacts
<1>5. ASSUME NEW s \in Seq(AllEvents \cup {Sentinel}), NEW e \in Emitters,
             PutEvent(e), <<e, emits[e]>> \in AllEvents,
             s = queue[g] \/ (queue[g] # <<>> /\ s = Tail(queue[g])),
             queue'[g] = Append(s, <<e, emits[e]>>)
      PROVE  Sorted(queue'[g])
  <2>1. Sorted(s) /\ \A y : In(y, s) => In(y, queue[g])
    BY <1>1, <1>5, SortedFacts
  <2>2. \A i \in DOMAIN s : s[i] \in AllEvents \cup {Sentinel} /\ In(s[i], queue[g])
    BY <2>1 DEF In
  <2>3. \A i \in DOMAIN s : s[i] \in AllEvents => Numbered(s[i])
    BY <2>2 DEF QueueNumbers
  <2>4. \A i \in DOMAIN s : Before(s[i], <<e, emits[e]>>)
    BY <1>5, <2>2, <2>3, PutIsNewest
  <2>5. <<e, emits[e]>> \in AllEvents \cup {Sentinel}
    BY <1>5
  <2>6. Sorted(Append(s, <<e, emits[e]>>))
    BY <2>1, <2>4, <2>5, SortedFacts
  <2>7. QED
    BY <1>5, <2>6
<1>6. QED
  BY OneQueue, <1>2, <1>3, <1>4, <1>5

(* While nobody went on without waiting, the worker that writes is the      *)
(* newest pipeline's.                                                       *)
LEMMA StoredFirstStep ==
  TypeInv /\ AliveInv /\ UnbuiltEmpty /\ OrderInv /\ [Next]_vars => StoredFirst'
<1> SUFFICES ASSUME TypeInv, AliveInv, UnbuiltEmpty, OrderInv, [Next]_vars,
                    unwaited' = {}, built' # 0,
                    NEW i \in DOMAIN stored', NEW j \in DOMAIN queue'[built']
             PROVE  Before(stored'[i], queue'[built'][j])
  BY DEF StoredFirst
<1>1. unwaited = {} /\ built \in Nat /\ stored \in Seq(AllEvents)
  BY BuiltMoves DEF TypeInv, GlobalTypes, QueueTypes
<1>2. ASSUME NEW c \in Callers, BuildPipeline(c), built' = built + 1 PROVE FALSE
  <2>1. built' > built /\ built' \in Pipelines
    BY <1>1, <1>2, BuilderHasRoom
  <2>2. queue' = queue /\ queue[built'] = <<>>
    BY <1>2, <2>1 DEF BuildPipeline, pipelineVars, UnbuiltEmpty
  <2>3. QED
    BY <2>2
<1>3. CASE built' = built
  <2>1. built \in Pipelines /\ queue[built] \in Seq(AllEvents \cup {Sentinel})
    BY <1>1, <1>3, LifecycleAssumption DEF TypeInv, GlobalTypes, Pipelines, QueueTypes
  <2>2. \A k \in DOMAIN stored : \A l \in DOMAIN queue[built] : Before(stored[k], queue[built][l])
    BY <1>1, <1>3 DEF OrderInv, StoredFirst
  <2>3. ASSUME NEW g \in Pipelines, WriteNext(g), alive[g], queue[g] # <<>>,
               Head(queue[g]) # Sentinel, stored' = Append(stored, Head(queue[g]))
        PROVE  Before(stored'[i], queue'[built][j])
    <3>1. g = built /\ queue' = [queue EXCEPT ![built] = Tail(@)]
      BY <1>1, <2>3 DEF AliveInv, WriteNext
    <3>2. queue'[built] = Tail(queue[built]) /\ Sorted(queue[built])
      BY <2>1, <3>1 DEF TypeInv, QueueTypes, OrderInv, QueueOrder
    <3>3. Head(queue[built]) \in AllEvents
      BY <2>1, <2>3, <3>1
    <3>4. CASE i \in DOMAIN stored
      <4>1. stored'[i] = stored[i]
        BY <1>1, <2>3, <3>1, <3>3, <3>4, AppendItems
      <4>2. j + 1 \in DOMAIN queue[built] /\ queue'[built][j] = queue[built][j + 1]
        <5>1. queue[built] # <<>> /\ j \in DOMAIN Tail(queue[built])
          BY <1>3, <2>3, <3>1, <3>2
        <5>2. QED
          BY <2>1, <3>2, <5>1, TailItems
      <4>3. QED
        BY <2>2, <3>4, <4>1, <4>2
    <3>5. CASE i = Len(stored) + 1
      <4>1. stored'[i] = Head(queue[built])
        BY <1>1, <2>3, <3>1, <3>3, <3>5, AppendItems
      <4>2. queue[built] # <<>> /\ \A l \in DOMAIN Tail(queue[built]) :
               Before(Head(queue[built]), Tail(queue[built])[l])
        BY <2>1, <2>3, <3>1, <3>2, SortedFacts
      <4>3. QED
        BY <1>3, <3>2, <4>1, <4>2
    <3>6. i \in DOMAIN Append(stored, Head(queue[built]))
      BY <2>3, <3>1
    <3>7. i \in DOMAIN stored \/ i = Len(stored) + 1
      BY <1>1, <3>3, <3>6, AppendItems
    <3>8. QED
      BY <3>4, <3>5, <3>7
  <2>4. CASE UNCHANGED stored
    <3>1. CASE queue'[built] = queue[built]
      BY <1>3, <2>2, <2>4, <3>1
    <3>2. CASE queue[built] # <<>> /\ queue'[built] = Tail(queue[built])
      <4>1. j + 1 \in DOMAIN queue[built] /\ queue'[built][j] = queue[built][j + 1]
        BY <1>3, <2>1, <3>2, TailItems
      <4>2. QED
        BY <1>3, <2>2, <2>4, <4>1
    <3>3. CASE queue'[built] = Append(queue[built], Sentinel)
      <4>1. CASE j \in DOMAIN queue[built]
        <5>1. queue'[built][j] = queue[built][j]
          BY <2>1, <3>3, <4>1, AppendItems
        <5>2. QED
          BY <1>3, <2>2, <2>4, <4>1, <5>1
      <4>2. CASE j = Len(queue[built]) + 1
        <5>1. queue'[built][j] = Sentinel
          BY <2>1, <3>3, <4>2, AppendItems
        <5>2. QED
          BY <1>3, <5>1 DEF Before
      <4>3. QED
        BY <1>3, <2>1, <3>3, <4>1, <4>2, AppendItems
    <3>4. ASSUME NEW s \in Seq(AllEvents \cup {Sentinel}), NEW e \in Emitters,
                 PutEvent(e), <<e, emits[e]>> \in AllEvents,
                 s = queue[built] \/ (queue[built] # <<>> /\ s = Tail(queue[built])),
                 queue'[built] = Append(s, <<e, emits[e]>>)
          PROVE  Before(stored'[i], queue'[built'][j])
      <4>1. CASE j \in DOMAIN s
        <5>1. queue'[built][j] = s[j]
          BY <3>4, <4>1, AppendItems
        <5>2. \E l \in DOMAIN queue[built] : s[j] = queue[built][l]
          <6>1. CASE s = queue[built]
            BY <4>1, <6>1
          <6>2. CASE queue[built] # <<>> /\ s = Tail(queue[built])
            BY <2>1, <4>1, <6>2, TailItems
          <6>3. QED
            BY <3>4, <6>1, <6>2
        <5>3. QED
          BY <1>3, <2>2, <2>4, <5>1, <5>2
      <4>2. CASE j = Len(s) + 1
        <5>1. queue'[built][j] = <<e, emits[e]>>
          BY <3>4, <4>2, AppendItems
        <5>2. stored[i] \in AllEvents /\ In(stored[i], stored)
          BY <1>1, <2>4 DEF In
        <5>3. Numbered(stored[i])
          BY <5>2 DEF OrderInv, StoredNumbers
        <5>4. QED
          BY <1>3, <2>4, <3>4, <5>1, <5>2, <5>3, PutIsNewest
      <4>3. QED
        BY <1>3, <3>4, <4>1, <4>2, AppendItems
    <3>5. QED
      BY <2>1, <3>1, <3>2, <3>3, <3>4, OneQueue
  <2>5. QED
    BY <1>3, <2>3, <2>4, StoreMoves
<1>4. QED
  BY <1>2, <1>3, BuiltMoves

LEMMA StoredOrderStep ==
  TypeInv /\ AliveInv /\ OrderInv /\ [Next]_vars => StoredOrder'
<1> SUFFICES ASSUME TypeInv, AliveInv, OrderInv, [Next]_vars, unwaited' = {}
             PROVE  Sorted(stored')
  BY DEF StoredOrder, Sorted
<1>1. unwaited = {} /\ stored \in Seq(AllEvents) /\ Sorted(stored)
  BY BuiltMoves DEF TypeInv, QueueTypes, OrderInv, StoredOrder
<1>2. ASSUME NEW g \in Pipelines, alive[g], queue[g] # <<>>, Head(queue[g]) # Sentinel,
             stored' = Append(stored, Head(queue[g]))
      PROVE  Sorted(stored')
  <2>1. g = built /\ queue[g] \in Seq(AllEvents \cup {Sentinel}) /\ built # 0
    BY <1>1, <1>2 DEF AliveInv, TypeInv, QueueTypes, Pipelines
  <2>2. 1 \in DOMAIN queue[g] /\ Head(queue[g]) = queue[g][1] /\ Head(queue[g]) \in AllEvents
    BY <1>2, <2>1, TailItems
  <2>3. \A i \in DOMAIN stored : Before(stored[i], Head(queue[g]))
    BY <1>1, <2>1, <2>2 DEF OrderInv, StoredFirst
  <2>4. QED
    BY <1>1, <1>2, <2>2, <2>3, SortedFacts
<1>3. QED
  BY <1>1, <1>2, StoreMoves

LEMMA OrderInvariant ==
  ASSUME OneInitializer
  PROVE  Spec => []OrderInv
<1>1. TypeInv /\ AliveInv /\ UnbuiltEmpty /\ OrderInv /\ [Next]_vars => OrderInv'
  BY QueueNumbersStep, StoredNumbersStep, QueueOrderStep, StoredFirstStep, StoredOrderStep
     DEF OrderInv
<1>2. ServeInv => UnbuiltEmpty
  BY DEF ServeInv
<1>3. Spec => [](TypeInv /\ AliveInv /\ ServeInv)
  BY OneInitializer, AliveInvariant, ServeInvariant, PTL
<1>4. QED
  BY <1>1, <1>2, <1>3, OrderInit, PTL DEF Spec

(* One emitter's events are stored in the order it emitted them, across     *)
(* re-initializations too, as long as every caller waited for the worker    *)
(* it stopped (__init__.py, _QueueProxy; worker.py, _run).                  *)
THEOREM StoredInEmissionOrder ==
  ASSUME OneInitializer
  PROVE  Spec => []EmitterOrderKept
<1>1. TypeInv /\ OrderInv => EmitterOrderKept
  <2> SUFFICES ASSUME TypeInv, OrderInv, unwaited = {}, NEW i \in DOMAIN stored,
                      NEW j \in DOMAIN stored, i < j, stored[i][1] = stored[j][1]
               PROVE  stored[i][2] < stored[j][2]
    BY DEF EmitterOrderKept
  <2>1. stored[i] \in AllEvents /\ stored[j] \in AllEvents
    BY DEF TypeInv, QueueTypes
  <2>2. stored[i] # Sentinel /\ stored[j] # Sentinel
    BY <2>1, EventParts
  <2>3. QED
    BY <2>2 DEF OrderInv, StoredOrder, Sorted, Before
<1>2. QED
  BY OneInitializer, <1>1, TypeInvariant, OrderInvariant, PTL
=============================================================================
