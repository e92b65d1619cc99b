------------------------- MODULE PooledWriterProofs -------------------------
(***************************************************************************)
(* Theorems about module PooledWriter, for any number of subprocesses and  *)
(* slots, any batch size, any number of events and of crashes.             *)
(***************************************************************************)
EXTENDS PooledWriter, FiniteSetTheorems, TLAPS

(* One action at a time: what [Next]_vars stands for in the proofs below.  *)
LEMMA NextCases ==
  ASSUME [Next]_vars
  PROVE  \/ ReceiveEvent \/ ReceiveSentinel \/ IdleFlush \/ AcquireSlot \/ AcquireAgain
         \/ SubmitAccepted \/ SubmitBroken \/ SubmitRefused
         \/ ResubmitAccepted \/ ResubmitFails
         \/ \E f \in DOMAIN futures :
              WriteNext(f) \/ FinishBatch(f) \/ BatchRaises(f) \/ BatchDone(f)
         \/ \E g \in 1..pool : Crash(g)
         \/ StartShutdown \/ Join \/ DrainSlot \/ ShutPool \/ PoolJoined
         \/ UNCHANGED vars
  BY DEF Next, WorkerStep, SubprocessStep, CloserStep
-----------------------------------------------------------------------------
(* The list of futures, as submit, the subprocesses and a crash change it. *)

(* Submitting a batch adds one future after all the others. *)
LEMMA SubmitFacts ==
  ASSUME NEW fs \in Seq(FutureType), NEW b \in Seq(Nat), NEW g \in Nat,
         NEW cb \in BOOLEAN, NEW owns \in BOOLEAN,
         NEW gs, gs = Append(fs, Future(b, g, cb, owns))
  PROVE  /\ Len(fs) \in Nat /\ DOMAIN fs = 1..Len(fs)
         /\ gs \in Seq(FutureType) /\ Len(gs) = Len(fs) + 1 /\ DOMAIN gs = 1..(Len(fs) + 1)
         /\ \A f \in DOMAIN fs : gs[f] = fs[f]
         /\ gs[Len(fs) + 1] = Future(b, g, cb, owns)
<1>1. Future(b, g, cb, owns) \in FutureType
  BY DEF Future, FutureType
<1>2. QED
  BY <1>1

(* A subprocess writes one event more of the batch of future f. *)
LEMMA AdvanceFacts ==
  ASSUME NEW fs \in Seq(FutureType), NEW f \in DOMAIN fs,
         NEW gs, gs = [fs EXCEPT ![f].pos = @ + 1]
  PROVE  /\ gs \in Seq(FutureType) /\ DOMAIN gs = DOMAIN fs
         /\ \A h \in DOMAIN fs \ {f} : gs[h] = fs[h]
         /\ gs[f] = [fs[f] EXCEPT !.pos = fs[f].pos + 1]
<1>1. /\ Len(fs) \in Nat /\ DOMAIN fs = 1..Len(fs) /\ fs[f] \in FutureType
      /\ \A h \in DOMAIN fs : fs[h] \in FutureType
  OBVIOUS
<1>2. [fs[f] EXCEPT !.pos = fs[f].pos + 1] \in FutureType
  <2>1. \A s \in FutureType : s.pos + 1 \in Nat
    BY DEF FutureType
  <2>2. \A s \in FutureType : \A n \in Nat : [s EXCEPT !.pos = n] \in FutureType
    BY DEF FutureType
  <2>3. QED
    BY <1>1, <2>1, <2>2
<1>3. /\ DOMAIN gs = DOMAIN fs
      /\ \A h \in DOMAIN fs \ {f} : gs[h] = fs[h]
      /\ gs[f] = [fs[f] EXCEPT !.pos = fs[f].pos + 1]
  BY <1>1
<1>4. gs = [h \in 1..Len(fs) |-> gs[h]] /\ \A h \in 1..Len(fs) : gs[h] \in FutureType
  BY <1>1, <1>2, <1>3
<1>5. QED
  BY <1>1, <1>3, <1>4

(* The state of future f becomes s, and nothing else changes. *)
LEMMA AnswerFacts ==
  ASSUME NEW fs \in Seq(FutureType), NEW f \in DOMAIN fs,
         NEW s \in {"pending", "written", "raised", "ok", "failed"},
         NEW gs, gs = [fs EXCEPT ![f].st = s]
  PROVE  /\ gs \in Seq(FutureType) /\ DOMAIN gs = DOMAIN fs
         /\ \A h \in DOMAIN fs \ {f} : gs[h] = fs[h]
         /\ gs[f] = [fs[f] EXCEPT !.st = s]
<1>1. /\ Len(fs) \in Nat /\ DOMAIN fs = 1..Len(fs) /\ fs[f] \in FutureType
      /\ \A h \in DOMAIN fs : fs[h] \in FutureType
  OBVIOUS
<1>2. [fs[f] EXCEPT !.st = s] \in FutureType
  BY <1>1 DEF FutureType
<1>3. /\ DOMAIN gs = DOMAIN fs
      /\ \A h \in DOMAIN fs \ {f} : gs[h] = fs[h]
      /\ gs[f] = [fs[f] EXCEPT !.st = s]
  BY <1>1
<1>4. gs = [h \in 1..Len(fs) |-> gs[h]] /\ \A h \in 1..Len(fs) : gs[h] \in FutureType
  BY <1>1, <1>2, <1>3
<1>5. QED
  BY <1>1, <1>3, <1>4

(* The callback answers a future that was written with "ok" and one that   *)
(* raised with "failed".                                                   *)
Answer(f) == IF futures[f].st = "written" THEN "ok" ELSE "failed"

LEMMA BatchDoneFacts ==
  ASSUME futures \in Seq(FutureType), NEW f \in DOMAIN futures, BatchDone(f)
  PROVE  /\ futures' \in Seq(FutureType) /\ DOMAIN futures' = DOMAIN futures
         /\ \A h \in DOMAIN futures \ {f} : futures'[h] = futures[h]
         /\ futures'[f] = [futures[f] EXCEPT !.st = Answer(f)]
         /\ futures'[f].st \in {"ok", "failed"}
<1>1. futures' = [futures EXCEPT ![f].st = Answer(f)] /\ Answer(f) \in {"ok", "failed"}
  BY DEF BatchDone, Answer
<1>2. futures[f] \in FutureType
  OBVIOUS
<1>3. [futures[f] EXCEPT !.st = Answer(f)].st = Answer(f)
  BY <1>2 DEF FutureType
<1>4. QED
  BY <1>1, <1>3, AnswerFacts

(* A crash answers what the broken pool had not answered, and nothing else. *)
LEMMA CrashFacts ==
  ASSUME futures \in Seq(FutureType), NEW g, Crash(g)
  PROVE  /\ futures' \in Seq(FutureType) /\ DOMAIN futures' = DOMAIN futures
         /\ \A f \in DOMAIN futures \ Unresolved(g) : futures'[f] = futures[f]
         /\ \A f \in Unresolved(g) : futures'[f] = [futures[f] EXCEPT !.st = "raised"]
<1>1. /\ Len(futures) \in Nat /\ DOMAIN futures = 1..Len(futures)
      /\ \A f \in DOMAIN futures : futures[f] \in FutureType
  OBVIOUS
<1>2. \A f \in DOMAIN futures : [futures[f] EXCEPT !.st = "raised"] \in FutureType
  BY <1>1 DEF FutureType
<1>3. /\ DOMAIN futures' = DOMAIN futures
      /\ \A f \in DOMAIN futures \ Unresolved(g) : futures'[f] = futures[f]
      /\ \A f \in Unresolved(g) : futures'[f] = [futures[f] EXCEPT !.st = "raised"]
  BY DEF Crash, Unresolved
<1>4. /\ futures' = [f \in 1..Len(futures) |-> futures'[f]]
  BY <1>1 DEF Crash
<1>5. ASSUME NEW f \in 1..Len(futures) PROVE futures'[f] \in FutureType
  <2>1. CASE f \in Unresolved(g)
    <3>1. futures'[f] = [futures[f] EXCEPT !.st = "raised"]
      BY <1>3, <2>1
    <3>2. QED
      BY <1>1, <1>2, <3>1
  <2>2. CASE f \notin Unresolved(g)
    BY <2>2, <1>1, <1>3
  <2>3. QED
    BY <2>1, <2>2
<1>6. QED
  BY <1>1, <1>3, <1>4, <1>5

(* The fields of a future these steps leave alone. *)
LEMMA AdvanceKeeps ==
  ASSUME NEW fs \in Seq(FutureType), NEW f \in DOMAIN fs,
         NEW gs, gs = [fs EXCEPT ![f].pos = @ + 1]
  PROVE  /\ gs \in Seq(FutureType) /\ DOMAIN gs = DOMAIN fs
         /\ \A h \in DOMAIN fs :
              /\ gs[h].events = fs[h].events /\ gs[h].pool = fs[h].pool
              /\ gs[h].callback = fs[h].callback /\ gs[h].owns = fs[h].owns
              /\ gs[h].st = fs[h].st
              /\ gs[h].pos = IF h = f THEN fs[h].pos + 1 ELSE fs[h].pos
<1>1. \A h \in DOMAIN fs : fs[h] \in FutureType
  OBVIOUS
<1>2. \A r \in FutureType : \A n :
        /\ [r EXCEPT !.pos = n].events = r.events /\ [r EXCEPT !.pos = n].pool = r.pool
        /\ [r EXCEPT !.pos = n].callback = r.callback /\ [r EXCEPT !.pos = n].owns = r.owns
        /\ [r EXCEPT !.pos = n].st = r.st /\ [r EXCEPT !.pos = n].pos = n
  BY DEF FutureType
<1>3. QED
  BY <1>1, <1>2, AdvanceFacts

LEMMA AnswerKeeps ==
  ASSUME NEW fs \in Seq(FutureType), NEW f \in DOMAIN fs,
         NEW s \in {"pending", "written", "raised", "ok", "failed"},
         NEW gs, gs = [fs EXCEPT ![f].st = s]
  PROVE  /\ gs \in Seq(FutureType) /\ DOMAIN gs = DOMAIN fs
         /\ \A h \in DOMAIN fs :
              /\ gs[h].events = fs[h].events /\ gs[h].pool = fs[h].pool
              /\ gs[h].callback = fs[h].callback /\ gs[h].owns = fs[h].owns
              /\ gs[h].pos = fs[h].pos
              /\ gs[h].st = IF h = f THEN s ELSE fs[h].st
<1>1. \A h \in DOMAIN fs : fs[h] \in FutureType
  OBVIOUS
<1>2. \A r \in FutureType :
        /\ [r EXCEPT !.st = s].events = r.events /\ [r EXCEPT !.st = s].pool = r.pool
        /\ [r EXCEPT !.st = s].callback = r.callback /\ [r EXCEPT !.st = s].owns = r.owns
        /\ [r EXCEPT !.st = s].pos = r.pos /\ [r EXCEPT !.st = s].st = s
  BY DEF FutureType
<1>3. ASSUME NEW h \in DOMAIN fs
      PROVE  gs[h] = IF h = f THEN [fs[h] EXCEPT !.st = s] ELSE fs[h]
  BY AnswerFacts
<1>4. gs \in Seq(FutureType) /\ DOMAIN gs = DOMAIN fs
  BY AnswerFacts
<1>5. QED
  BY <1>1, <1>2, <1>3, <1>4

LEMMA CrashKeeps ==
  ASSUME futures \in Seq(FutureType), NEW g, Crash(g)
  PROVE  /\ futures' \in Seq(FutureType) /\ DOMAIN futures' = DOMAIN futures
         /\ \A h \in DOMAIN futures :
              /\ futures'[h].events = futures[h].events /\ futures'[h].pool = futures[h].pool
              /\ futures'[h].callback = futures[h].callback /\ futures'[h].owns = futures[h].owns
              /\ futures'[h].pos = futures[h].pos
              /\ futures'[h].st \in {"ok", "failed"} <=> futures[h].st \in {"ok", "failed"}
              /\ futures'[h].st = IF h \in Unresolved(g) THEN "raised" ELSE futures[h].st
<1>1. \A h \in DOMAIN futures : futures[h] \in FutureType
  OBVIOUS
<1>2. \A r \in FutureType :
        LET s == [r EXCEPT !.st = "raised"] IN
          /\ s.events = r.events /\ s.pool = r.pool /\ s.callback = r.callback
          /\ s.owns = r.owns /\ s.pos = r.pos /\ s.st = "raised"
  BY DEF FutureType
<1>3. \A h \in Unresolved(g) : futures[h].st \notin {"ok", "failed"}
  BY DEF Unresolved
<1>4. ASSUME NEW h \in DOMAIN futures
      PROVE  futures'[h] = IF h \in Unresolved(g) THEN [futures[h] EXCEPT !.st = "raised"]
                                                 ELSE futures[h]
  BY CrashFacts
<1>5. futures' \in Seq(FutureType) /\ DOMAIN futures' = DOMAIN futures
  BY CrashFacts
<1>6. ASSUME NEW h \in DOMAIN futures
      PROVE  futures'[h].st = IF h \in Unresolved(g) THEN "raised" ELSE futures[h].st
  BY <1>1, <1>2, <1>4
<1>7. ASSUME NEW h \in DOMAIN futures
      PROVE  futures'[h].st \in {"ok", "failed"} <=> futures[h].st \in {"ok", "failed"}
  BY <1>3, <1>6
<1>8. ASSUME NEW h \in DOMAIN futures
      PROVE  /\ futures'[h].events = futures[h].events /\ futures'[h].pool = futures[h].pool
             /\ futures'[h].callback = futures[h].callback /\ futures'[h].owns = futures[h].owns
             /\ futures'[h].pos = futures[h].pos
  <2>1. CASE h \in Unresolved(g)
    BY <1>1, <1>2, <1>4, <2>1
  <2>2. CASE h \notin Unresolved(g)
    BY <1>4, <2>2
  <2>3. QED
    BY <2>1, <2>2
<1>9. QED
  BY <1>5, <1>6, <1>7, <1>8
(* What a subprocess and a callback leave alone. *)
LEMMA SubprocessKeeps ==
  ASSUME futures \in Seq(FutureType), NEW f \in DOMAIN futures,
         WriteNext(f) \/ FinishBatch(f) \/ BatchRaises(f) \/ BatchDone(f)
  PROVE  /\ DOMAIN futures' = DOMAIN futures /\ UNCHANGED <<workerVars, pool, broken, shut>>
         /\ \A h \in DOMAIN futures :
              futures'[h].events = futures[h].events /\ futures'[h].pool = futures[h].pool
<1>1. CASE WriteNext(f)
  BY <1>1, AdvanceKeeps DEF WriteNext
<1>2. CASE FinishBatch(f)
  BY <1>2, AnswerKeeps DEF FinishBatch
<1>3. CASE BatchRaises(f)
  BY <1>3, AnswerKeeps DEF BatchRaises
<1>4. CASE BatchDone(f)
  <2>1. futures' = [futures EXCEPT ![f].st = Answer(f)] /\ Answer(f) \in {"ok", "failed"}
    BY <1>4 DEF BatchDone, Answer
  <2>2. QED
    BY <1>4, <2>1, AnswerKeeps DEF BatchDone
<1>5. QED
  BY <1>1, <1>2, <1>3, <1>4
-----------------------------------------------------------------------------
(* Type correctness.  close() drains no more slots than it has tried.      *)

ModeTypes ==
  /\ wpc \in {"get", "acquire", "submit", "retry", "resubmit", "done"}
  /\ cpc \in {"idle", "join", "drain", "wait", "closed"}
  /\ stopping \in BOOLEAN /\ acquired \in BOOLEAN /\ late \in BOOLEAN
BufferTypes ==
  /\ received \in 0..MaxEvents /\ processed \in Nat /\ consec \in Nat
  /\ batch \in Seq(Nat) /\ Len(batch) < BatchSize
  /\ sending \in Seq(Nat) /\ Len(sending) <= BatchSize
SlotTypes ==
  /\ permits \in 0..MaxWorkers /\ errors \in Nat /\ crashes \in 0..MaxCrashes
  /\ tries \in 0..MaxWorkers /\ drained \in 0..MaxWorkers /\ drained <= tries
PoolTypes ==
  /\ pool \in Nat \ {0} /\ broken \subseteq 1..pool /\ shut \subseteq 1..pool
FutureTypes == futures \in Seq(FutureType) /\ disk \in [1..MaxEvents -> Nat]

TypeInv == ModeTypes /\ BufferTypes /\ SlotTypes /\ PoolTypes /\ FutureTypes

LEMMA TypeInit == Init => TypeInv
<1> SUFFICES ASSUME Init PROVE TypeInv
  OBVIOUS
<1> USE PooledAssumption DEF Init
<1>1. ModeTypes
  BY DEF ModeTypes
<1>2. BufferTypes
  BY DEF BufferTypes
<1>3. SlotTypes /\ PoolTypes
  BY DEF SlotTypes, PoolTypes
<1>4. FutureTypes
  BY DEF FutureTypes
<1>5. QED
  BY <1>1, <1>2, <1>3, <1>4 DEF TypeInv

(* One copy more on disk. *)
LEMMA CountFacts ==
  ASSUME NEW S, NEW d \in [S -> Nat], NEW x
  PROVE  /\ [d EXCEPT ![x] = @ + 1] \in [S -> Nat]
         /\ \A y \in S : [d EXCEPT ![x] = @ + 1][y] = IF y = x THEN d[y] + 1 ELSE d[y]
<1>1. \A y \in S : d[y] + 1 \in Nat
  OBVIOUS
<1>2. QED
  BY <1>1

(* Handing a batch to submit_batch keeps the types of the buffers. *)
LEMMA FlushTypes ==
  ASSUME BufferTypes, NEW b \in Seq(Nat), Len(b) <= BatchSize, StartFlush(b),
         received' \in 0..MaxEvents, UNCHANGED <<processed, consec>>
  PROVE  BufferTypes'
<1>1. batch' = <<>> /\ <<>> \in Seq(Nat) /\ Len(<<>>) = 0
  BY DEF StartFlush
<1>2. QED
  BY <1>1, PooledAssumption DEF BufferTypes, StartFlush

LEMMA TypeStep == TypeInv /\ [Next]_vars => TypeInv'
<1> SUFFICES ASSUME TypeInv, [Next]_vars PROVE TypeInv'
  OBVIOUS
<1>0. ModeTypes /\ BufferTypes /\ SlotTypes /\ PoolTypes /\ FutureTypes
  BY DEF TypeInv
<1> USE PooledAssumption DEF workerVars, poolVars, closerVars
<1>1. ASSUME ReceiveEvent PROVE TypeInv'
  <2>1. /\ Append(batch, received + 1) \in Seq(Nat)
        /\ Len(Append(batch, received + 1)) = Len(batch) + 1 /\ Len(batch) \in Nat
        /\ <<>> \in Seq(Nat) /\ Len(<<>>) = 0
    BY <1>0 DEF BufferTypes
  <2>2. ModeTypes'
    BY <1>0, <1>1 DEF ModeTypes, ReceiveEvent, StartFlush
  <2>3. BufferTypes'
    <3> DEFINE b == Append(batch, received + 1)
    <3>1. received' \in 0..MaxEvents /\ UNCHANGED <<processed, consec>>
      BY <1>0, <1>1 DEF BufferTypes, ReceiveEvent
    <3>2. b \in Seq(Nat) /\ Len(b) <= BatchSize
      BY <1>0, <2>1 DEF BufferTypes
    <3>3. CASE StartFlush(b)
      BY <1>0, <3>1, <3>2, <3>3, FlushTypes
    <3>4. CASE Len(b) < BatchSize /\ batch' = b /\ UNCHANGED sending
      BY <1>0, <3>1, <3>2, <3>4 DEF BufferTypes
    <3>5. QED
      BY <1>1, <3>3, <3>4 DEF ReceiveEvent
  <2>4. SlotTypes' /\ PoolTypes'
    BY <1>0, <1>1 DEF SlotTypes, PoolTypes, ReceiveEvent, StartFlush
  <2>5. FutureTypes'
    BY <1>0, <1>1 DEF FutureTypes, ReceiveEvent, StartFlush
  <2>6. QED
    BY <2>2, <2>3, <2>4, <2>5 DEF TypeInv
<1>2. ASSUME ReceiveSentinel PROVE TypeInv'
  <2>1. ModeTypes'
    BY <1>0, <1>2 DEF ModeTypes, ReceiveSentinel, StartFlush
  <2>2. BufferTypes'
    <3>1. /\ batch \in Seq(Nat) /\ Len(batch) <= BatchSize
          /\ received' \in 0..MaxEvents /\ UNCHANGED <<processed, consec>>
      BY <1>0, <1>2 DEF BufferTypes, ReceiveSentinel
    <3>2. CASE StartFlush(batch)
      BY <1>0, <3>1, <3>2, FlushTypes
    <3>3. CASE UNCHANGED <<batch, sending>>
      BY <1>0, <3>1, <3>3 DEF BufferTypes
    <3>4. QED
      BY <1>2, <3>2, <3>3 DEF ReceiveSentinel
  <2>3. SlotTypes' /\ PoolTypes'
    BY <1>0, <1>2 DEF SlotTypes, PoolTypes, ReceiveSentinel, StartFlush
  <2>4. FutureTypes'
    BY <1>0, <1>2 DEF FutureTypes, ReceiveSentinel, StartFlush
  <2>5. QED
    BY <2>1, <2>2, <2>3, <2>4 DEF TypeInv
<1>3. ASSUME IdleFlush PROVE TypeInv'
  <2>1. ModeTypes'
    BY <1>0, <1>3 DEF ModeTypes, IdleFlush, StartFlush
  <2>2. BufferTypes'
    <3>1. /\ batch \in Seq(Nat) /\ Len(batch) <= BatchSize
          /\ received' \in 0..MaxEvents /\ UNCHANGED <<processed, consec>>
      BY <1>0, <1>3 DEF BufferTypes, IdleFlush
    <3>2. QED
      BY <1>0, <1>3, <3>1, FlushTypes DEF IdleFlush
  <2>3. SlotTypes' /\ PoolTypes'
    BY <1>0, <1>3 DEF SlotTypes, PoolTypes, IdleFlush, StartFlush
  <2>4. FutureTypes'
    BY <1>0, <1>3 DEF FutureTypes, IdleFlush, StartFlush
  <2>5. QED
    BY <2>1, <2>2, <2>3, <2>4 DEF TypeInv
<1>4. ASSUME AcquireSlot PROVE TypeInv'
  <2>1. ModeTypes' /\ BufferTypes'
    BY <1>0, <1>4 DEF ModeTypes, BufferTypes, AcquireSlot, Acquire
  <2>2. SlotTypes' /\ PoolTypes' /\ FutureTypes'
    BY <1>0, <1>4 DEF SlotTypes, PoolTypes, FutureTypes, AcquireSlot, Acquire
  <2>3. QED
    BY <2>1, <2>2 DEF TypeInv
<1>5. ASSUME AcquireAgain PROVE TypeInv'
  <2>1. ModeTypes' /\ BufferTypes'
    BY <1>0, <1>5 DEF ModeTypes, BufferTypes, AcquireAgain, Acquire
  <2>2. SlotTypes' /\ PoolTypes' /\ FutureTypes'
    BY <1>0, <1>5 DEF SlotTypes, PoolTypes, FutureTypes, AcquireAgain, Acquire
  <2>3. QED
    BY <2>1, <2>2 DEF TypeInv
<1>6. ASSUME SubmitAccepted PROVE TypeInv'
  <2>1. futures' \in Seq(FutureType)
    BY <1>0, <1>6, SubmitFacts DEF ModeTypes, BufferTypes, PoolTypes, FutureTypes, SubmitAccepted
  <2>2a. ModeTypes'
    BY <1>0, <1>6 DEF ModeTypes, SubmitAccepted, Submitted
  <2>2b. BufferTypes'
    BY <1>0, <1>6 DEF BufferTypes, SubmitAccepted, Submitted
  <2>3. SlotTypes' /\ PoolTypes' /\ FutureTypes'
    BY <2>1, <1>0, <1>6 DEF SlotTypes, PoolTypes, FutureTypes, SubmitAccepted, Submitted
  <2>4. QED
    BY <2>2a, <2>2b, <2>3 DEF TypeInv
<1>7. ASSUME SubmitBroken PROVE TypeInv'
  <2>1. ModeTypes' /\ BufferTypes'
    BY <1>0, <1>7 DEF ModeTypes, BufferTypes, SubmitBroken, GiveBack, Released
  <2>2. SlotTypes' /\ PoolTypes' /\ FutureTypes'
    BY <1>0, <1>7 DEF SlotTypes, PoolTypes, FutureTypes, SubmitBroken, GiveBack, Released
  <2>3. QED
    BY <2>1, <2>2 DEF TypeInv
<1>8. ASSUME SubmitRefused PROVE TypeInv'
  <2>1a. ModeTypes'
    BY <1>0, <1>8 DEF ModeTypes, SubmitRefused, Submitted, GiveBack, Released
  <2>1b. BufferTypes'
    BY <1>0, <1>8 DEF BufferTypes, SubmitRefused, Submitted, GiveBack, Released
  <2>2. SlotTypes' /\ PoolTypes' /\ FutureTypes'
    BY <1>0, <1>8 DEF SlotTypes, PoolTypes, FutureTypes, SubmitRefused, Submitted, GiveBack, Released
  <2>3. QED
    BY <2>1a, <2>1b, <2>2 DEF TypeInv
<1>9. ASSUME ResubmitAccepted PROVE TypeInv'
  <2>1. futures' \in Seq(FutureType)
    BY <1>0, <1>9, SubmitFacts DEF ModeTypes, BufferTypes, PoolTypes, FutureTypes, ResubmitAccepted
  <2>2a. ModeTypes'
    BY <1>0, <1>9 DEF ModeTypes, ResubmitAccepted, Submitted
  <2>2b. BufferTypes'
    BY <1>0, <1>9 DEF BufferTypes, ResubmitAccepted, Submitted
  <2>3. SlotTypes' /\ PoolTypes' /\ FutureTypes'
    BY <2>1, <1>0, <1>9 DEF SlotTypes, PoolTypes, FutureTypes, ResubmitAccepted, Submitted
  <2>4. QED
    BY <2>2a, <2>2b, <2>3 DEF TypeInv
<1>10. ASSUME ResubmitFails PROVE TypeInv'
  <2>1a. ModeTypes'
    BY <1>0, <1>10 DEF ModeTypes, ResubmitFails, Submitted, GiveBack, Released
  <2>1b. BufferTypes'
    BY <1>0, <1>10 DEF BufferTypes, ResubmitFails, Submitted, GiveBack, Released
  <2>2. SlotTypes' /\ PoolTypes' /\ FutureTypes'
    BY <1>0, <1>10 DEF SlotTypes, PoolTypes, FutureTypes, ResubmitFails, Submitted, GiveBack, Released
  <2>3. QED
    BY <2>1a, <2>1b, <2>2 DEF TypeInv
<1>11. ASSUME NEW f \in DOMAIN futures, WriteNext(f) PROVE TypeInv'
  <2>1. futures' \in Seq(FutureType)
    BY <1>0, <1>11, AdvanceFacts DEF FutureTypes, WriteNext
  <2>2. disk' \in [1..MaxEvents -> Nat]
    BY <1>0, <1>11, CountFacts DEF FutureTypes, WriteNext
  <2>3. ModeTypes' /\ BufferTypes'
    BY <1>0, <1>11 DEF ModeTypes, BufferTypes, WriteNext
  <2>4. SlotTypes' /\ PoolTypes' /\ FutureTypes'
    BY <2>1, <2>2, <1>0, <1>11 DEF SlotTypes, PoolTypes, FutureTypes, WriteNext
  <2>5. QED
    BY <2>3, <2>4 DEF TypeInv
<1>12. ASSUME NEW f \in DOMAIN futures, FinishBatch(f) PROVE TypeInv'
  <2>1. futures' \in Seq(FutureType)
    BY <1>0, <1>12, AnswerFacts DEF FutureTypes, FinishBatch
  <2>2. ModeTypes' /\ BufferTypes'
    BY <1>0, <1>12 DEF ModeTypes, BufferTypes, FinishBatch
  <2>3. SlotTypes' /\ PoolTypes' /\ FutureTypes'
    BY <2>1, <1>0, <1>12 DEF SlotTypes, PoolTypes, FutureTypes, FinishBatch
  <2>4. QED
    BY <2>2, <2>3 DEF TypeInv
<1>13. ASSUME NEW f \in DOMAIN futures, BatchRaises(f) PROVE TypeInv'
  <2>1. futures' \in Seq(FutureType)
    BY <1>0, <1>13, AnswerFacts DEF FutureTypes, BatchRaises
  <2>2. ModeTypes' /\ BufferTypes'
    BY <1>0, <1>13 DEF ModeTypes, BufferTypes, BatchRaises
  <2>3. SlotTypes' /\ PoolTypes' /\ FutureTypes'
    BY <2>1, <1>0, <1>13 DEF SlotTypes, PoolTypes, FutureTypes, BatchRaises
  <2>4. QED
    BY <2>2, <2>3 DEF TypeInv
<1>14. ASSUME NEW f \in DOMAIN futures, BatchDone(f) PROVE TypeInv'
  <2>1. futures' \in Seq(FutureType)
    BY <1>0, <1>14, BatchDoneFacts DEF FutureTypes, BatchDone
  <2>2. ModeTypes' /\ BufferTypes'
    BY <1>0, <1>14 DEF ModeTypes, BufferTypes, BatchDone, Released
  <2>3. SlotTypes' /\ PoolTypes' /\ FutureTypes'
    <3>1. SlotTypes'
      BY <1>0, <1>14 DEF SlotTypes, BatchDone, Released
    <3>2. PoolTypes' /\ FutureTypes'
      BY <2>1, <1>0, <1>14 DEF PoolTypes, FutureTypes, BatchDone
    <3>3. QED
      BY <3>1, <3>2
  <2>4. QED
    BY <2>2, <2>3 DEF TypeInv
<1>15. ASSUME NEW g \in 1..pool, Crash(g) PROVE TypeInv'
  <2>1. futures' \in Seq(FutureType)
    BY <1>0, <1>15, CrashFacts DEF FutureTypes, Crash
  <2>2. ModeTypes' /\ BufferTypes'
    BY <1>0, <1>15 DEF ModeTypes, BufferTypes, Crash
  <2>3. SlotTypes' /\ PoolTypes' /\ FutureTypes'
    BY <2>1, <1>0, <1>15 DEF SlotTypes, PoolTypes, FutureTypes, Crash
  <2>4. QED
    BY <2>2, <2>3 DEF TypeInv
<1>16. ASSUME StartShutdown PROVE TypeInv'
  <2>1. ModeTypes' /\ BufferTypes'
    BY <1>0, <1>16 DEF ModeTypes, BufferTypes, StartShutdown
  <2>2. SlotTypes' /\ PoolTypes' /\ FutureTypes'
    BY <1>0, <1>16 DEF SlotTypes, PoolTypes, FutureTypes, StartShutdown
  <2>3. QED
    BY <2>1, <2>2 DEF TypeInv
<1>17. ASSUME Join PROVE TypeInv'
  <2>1. ModeTypes' /\ BufferTypes'
    BY <1>0, <1>17 DEF ModeTypes, BufferTypes, Join
  <2>2. SlotTypes' /\ PoolTypes' /\ FutureTypes'
    BY <1>0, <1>17 DEF SlotTypes, PoolTypes, FutureTypes, Join
  <2>3. QED
    BY <2>1, <2>2 DEF TypeInv
<1>18. ASSUME DrainSlot PROVE TypeInv'
  <2>1. ModeTypes' /\ BufferTypes'
    BY <1>0, <1>18 DEF ModeTypes, BufferTypes, DrainSlot
  <2>2. SlotTypes' /\ PoolTypes' /\ FutureTypes'
    BY <1>0, <1>18 DEF SlotTypes, PoolTypes, FutureTypes, DrainSlot
  <2>3. QED
    BY <2>1, <2>2 DEF TypeInv
<1>19. ASSUME ShutPool PROVE TypeInv'
  <2>1. ModeTypes' /\ BufferTypes'
    BY <1>0, <1>19 DEF ModeTypes, BufferTypes, ShutPool
  <2>2. SlotTypes' /\ PoolTypes' /\ FutureTypes'
    BY <1>0, <1>19 DEF SlotTypes, PoolTypes, FutureTypes, ShutPool
  <2>3. QED
    BY <2>1, <2>2 DEF TypeInv
<1>20. ASSUME PoolJoined PROVE TypeInv'
  <2>1. ModeTypes' /\ BufferTypes'
    BY <1>0, <1>20 DEF ModeTypes, BufferTypes, PoolJoined
  <2>2. SlotTypes' /\ PoolTypes' /\ FutureTypes'
    BY <1>0, <1>20 DEF SlotTypes, PoolTypes, FutureTypes, PoolJoined
  <2>3. QED
    BY <2>1, <2>2 DEF TypeInv
<1>21. ASSUME UNCHANGED vars PROVE TypeInv'
  BY <1>0, <1>21 DEF vars, TypeInv, ModeTypes, BufferTypes, SlotTypes, PoolTypes, FutureTypes
<1>22. QED
  BY NextCases, <1>1, <1>2, <1>3, <1>4, <1>5, <1>6, <1>7, <1>8, <1>9, <1>10, <1>11, <1>12,
     <1>13, <1>14, <1>15, <1>16, <1>17, <1>18, <1>19, <1>20, <1>21

LEMMA TypeInvariant == Spec => []TypeInv
  BY TypeInit, TypeStep, PTL DEF Spec

(* The semaphore stays between 0 and its bound, a batch in the making is    *)
(* never full, and close() drains at most one slot for each try: the types  *)
(* of the pooled write path hold in every reachable state.                  *)
THEOREM TypeCorrect == Spec => []TypeOK
  <1>1. TypeInv => TypeOK
  BY DEF TypeInv, TypeOK, ModeTypes, BufferTypes, SlotTypes, PoolTypes, FutureTypes
<1>2. QED
  BY <1>1, TypeInvariant, PTL
-----------------------------------------------------------------------------
(* No slot is lost.  A future that owns a slot has its callback, and the   *)
(* worker holds a slot between acquire and submit only.                    *)

SlotInv ==
  /\ acquired => wpc \in {"submit", "resubmit"}
  /\ \A f \in DOMAIN futures : futures[f].owns => futures[f].callback
  /\ NoSlotLeaks

Slot == IF acquired THEN 1 ELSE 0

(* The four places of a slot. *)
LEMMA HeldIs == Held = Cardinality(Holders) + drained + Slot
  BY DEF Held, Slot

LEMMA HeldIsPrimed == Held' = Cardinality(Holders') + drained' + Slot'
  BY DEF Held, Slot

LEMMA HoldersFinite ==
  ASSUME futures \in Seq(FutureType)
  PROVE  IsFiniteSet(Holders) /\ Cardinality(Holders) \in Nat
<1>1. Holders \subseteq 1..Len(futures) /\ Len(futures) \in Nat
  BY DEF Holders
<1>2. IsFiniteSet(1..Len(futures))
  BY <1>1, FS_Interval
<1>3. IsFiniteSet(Holders)
  BY <1>1, <1>2, FS_Subset
<1>4. QED
  BY <1>3, FS_CardinalityType

(* Slots outside the futures. *)
Outside == permits + drained + Slot

LEMMA SlotsOutside ==
  ASSUME TypeInv, TypeInv', SlotInv, UNCHANGED futures,
         acquired' => wpc' \in {"submit", "resubmit"},
         Outside' >= Outside \/ permits' = MaxWorkers
  PROVE  SlotInv'
<1>1. Holders' = Holders
  BY DEF Holders
<1>2. PICK h \in Nat : h = Cardinality(Holders)
  BY HoldersFinite DEF TypeInv, FutureTypes
<1>3. permits \in Nat /\ drained \in Nat /\ Slot \in Nat /\ MaxWorkers \in Nat
  BY PooledAssumption DEF TypeInv, SlotTypes, Slot
<1>4. permits' \in Nat /\ drained' \in Nat /\ Slot' \in Nat
  BY PooledAssumption DEF TypeInv, SlotTypes, Slot
<1>5. Outside \in Nat /\ permits + (h + drained + Slot) = h + Outside
  BY <1>2, <1>3 DEF Outside
<1>6. Outside' \in Nat /\ permits' + (h + drained' + Slot') = h + Outside' /\ Outside' >= permits'
  <2>1. PICK p \in Nat : p = permits'
    BY <1>4
  <2>2. PICK d \in Nat : d = drained'
    BY <1>4
  <2>3. PICK s \in Nat : s = Slot'
    BY <1>4
  <2>4. Outside' = p + d + s
    BY <2>1, <2>2, <2>3 DEF Outside
  <2>5. p + d + s \in Nat /\ p + (h + d + s) = h + (p + d + s) /\ p + d + s >= p
    BY <1>2
  <2>6. QED
    BY <2>1, <2>2, <2>3, <2>4, <2>5
<1>7. h + Outside >= MaxWorkers
  BY <1>2, <1>5, HeldIs DEF SlotInv, NoSlotLeaks
<1>8. h + Outside' >= MaxWorkers
  <2>1. CASE Outside' >= Outside
    BY <1>2, <1>3, <1>5, <1>6, <1>7, <2>1
  <2>2. CASE permits' = MaxWorkers
    BY <1>2, <1>3, <1>6, <2>2
  <2>3. QED
    BY <2>1, <2>2
<1>9. NoSlotLeaks'
  BY <1>1, <1>2, <1>6, <1>8, HeldIsPrimed DEF NoSlotLeaks
<1>10. QED
  BY <1>9 DEF SlotInv

(* What holds a slot is moved, and how many hold one is not changed, by a   *)
(* step of the worker or of close() that leaves the futures alone.          *)
LEMMA SlotsMoved ==
  ASSUME TypeInv, TypeInv', SlotInv, UNCHANGED futures,
         acquired' => wpc' \in {"submit", "resubmit"},
         permits' + drained' + Slot' >= permits + drained + Slot \/ permits' = MaxWorkers
  PROVE  SlotInv'
BY SlotsOutside DEF Outside

(* A subprocess or a crash changes the progress of futures, not who holds. *)
LEMMA SlotsKept ==
  ASSUME TypeInv, SlotInv, DOMAIN futures' = DOMAIN futures,
         \A f \in DOMAIN futures :
           /\ futures'[f].owns = futures[f].owns
           /\ futures'[f].callback = futures[f].callback
           /\ futures'[f].st \in {"ok", "failed"} <=> futures[f].st \in {"ok", "failed"},
         UNCHANGED <<permits, drained, acquired, wpc>>
  PROVE  SlotInv'
<1>1. Holders' = Holders
  BY DEF Holders
<1>2. QED
  BY <1>1 DEF SlotInv, NoSlotLeaks, Held

(* Submission turns the worker's slot into one the future owns. *)
LEMMA SlotsSubmitted ==
  ASSUME TypeInv, TypeInv', SlotInv, NEW cb \in BOOLEAN, acquired => cb,
         futures' = Append(futures, Future(sending, pool, cb, acquired)),
         acquired' = FALSE, UNCHANGED <<permits, drained>>
  PROVE  SlotInv'
<1> DEFINE n == Len(futures) + 1
<1>0. /\ futures \in Seq(FutureType) /\ sending \in Seq(Nat) /\ pool \in Nat
      /\ acquired \in BOOLEAN
  BY DEF TypeInv, FutureTypes, BufferTypes, PoolTypes, ModeTypes
<1>1. /\ DOMAIN futures = 1..Len(futures) /\ Len(futures) \in Nat /\ DOMAIN futures' = 1..n
      /\ \A f \in DOMAIN futures : futures'[f] = futures[f]
      /\ futures'[n] = Future(sending, pool, cb, acquired)
  BY <1>0, SubmitFacts
<1>2. n \notin Holders
  BY <1>1 DEF Holders
<1>3. Holders' = IF acquired THEN Holders \cup {n} ELSE Holders
  BY <1>0, <1>1 DEF Holders, Future
<1>4. IsFiniteSet(Holders) /\ Cardinality(Holders) \in Nat
  BY <1>0, HoldersFinite
<1>5. Cardinality(Holders') = Cardinality(Holders) + Slot
  <2>1. CASE acquired
    BY <1>2, <1>3, <1>4, <2>1, FS_AddElement DEF Slot
  <2>2. CASE ~acquired
    BY <1>3, <1>4, <2>2 DEF Slot
  <2>3. QED
    BY <2>1, <2>2
<1>6. permits \in Nat /\ drained \in Nat
  BY PooledAssumption DEF TypeInv, SlotTypes
<1>7. permits + (Cardinality(Holders) + drained + Slot) >= MaxWorkers
  BY HeldIs DEF SlotInv, NoSlotLeaks
<1>8. permits' + (Cardinality(Holders') + drained' + Slot') >= MaxWorkers
  BY <1>0, <1>4, <1>5, <1>6, <1>7, PooledAssumption DEF Slot
<1>9. NoSlotLeaks'
  BY <1>8, HeldIsPrimed DEF NoSlotLeaks
<1>10. \A f \in DOMAIN futures' : futures'[f].owns => futures'[f].callback
  <2>1. futures'[n].owns => futures'[n].callback
    BY <1>1 DEF Future
  <2>2. QED
    BY <1>1, <2>1 DEF SlotInv
<1>11. QED
  BY <1>9, <1>10 DEF SlotInv

(* The callback gives the slot of its future back. *)
LEMMA SlotsReleased ==
  ASSUME TypeInv, TypeInv', SlotInv, NEW f \in DOMAIN futures, BatchDone(f)
  PROVE  SlotInv'
<1>0. futures \in Seq(FutureType) /\ futures[f] \in FutureType
  BY DEF TypeInv, FutureTypes
<1>1. /\ DOMAIN futures' = DOMAIN futures
      /\ \A h \in DOMAIN futures \ {f} : futures'[h] = futures[h]
      /\ futures'[f] = [futures[f] EXCEPT !.st = Answer(f)]
      /\ futures'[f].st \in {"ok", "failed"}
  BY <1>0, BatchDoneFacts
<1>2. /\ futures'[f].owns = futures[f].owns /\ futures'[f].callback = futures[f].callback
  BY <1>0, <1>1 DEF FutureType
<1>3. Holders' = Holders \ {f}
  BY <1>1, <1>2 DEF Holders
<1>4. IsFiniteSet(Holders) /\ Cardinality(Holders) \in Nat
  BY <1>0, HoldersFinite
<1>5. /\ permits \in 0..MaxWorkers /\ drained \in Nat /\ Slot \in Nat
      /\ UNCHANGED <<acquired, drained, wpc>>
  BY PooledAssumption DEF TypeInv, SlotTypes, BatchDone, Slot, workerVars, closerVars
<1>6. permits + (Cardinality(Holders) + drained + Slot) >= MaxWorkers
  BY HeldIs DEF SlotInv, NoSlotLeaks
<1>7. permits' + (Cardinality(Holders') + drained + Slot) >= MaxWorkers
  <2>1. CASE f \in Holders
    <3>1. Cardinality(Holders') = Cardinality(Holders) - 1 /\ Cardinality(Holders') \in Nat
      BY <1>3, <1>4, <2>1, FS_RemoveElement, FS_CardinalityType
    <3>2. permits' = IF permits < MaxWorkers THEN permits + 1 ELSE permits
      BY <2>1 DEF BatchDone, Released, Holders, SlotInv
    <3>3. QED
      BY <3>1, <3>2, <1>4, <1>5, <1>6, PooledAssumption
  <2>2. CASE f \notin Holders
    <3>1. Holders' = Holders
      BY <1>3, <2>2
    <3>2. permits' \in Nat /\ permits' >= permits
      BY <1>5, PooledAssumption DEF BatchDone, Released
    <3>3. QED
      BY <3>1, <3>2, <1>4, <1>5, <1>6, PooledAssumption
  <2>3. QED
    BY <2>1, <2>2
<1>8. NoSlotLeaks'
  <2>1. Slot' = Slot /\ drained' = drained
    BY <1>5 DEF Slot
  <2>2. QED
    BY <1>7, <2>1, HeldIsPrimed DEF NoSlotLeaks
<1>9. QED
  BY <1>1, <1>2, <1>5, <1>8 DEF SlotInv

LEMMA SlotInit == Init => SlotInv
<1> SUFFICES ASSUME Init PROVE SlotInv
  OBVIOUS
<1>1. Holders = {}
  BY DEF Init, Holders
<1>2. Cardinality(Holders) = 0
  BY <1>1, FS_EmptySet
<1>3. permits = MaxWorkers /\ drained = 0 /\ acquired = FALSE /\ DOMAIN futures = {}
  BY DEF Init
<1>4. NoSlotLeaks
  BY <1>2, <1>3, PooledAssumption DEF NoSlotLeaks, Held
<1>5. QED
  BY <1>3, <1>4 DEF SlotInv

LEMMA SlotStep == TypeInv /\ TypeInv' /\ SlotInv /\ [Next]_vars => SlotInv'
<1> SUFFICES ASSUME TypeInv, TypeInv', SlotInv, [Next]_vars PROVE SlotInv'
  OBVIOUS
<1>0. /\ acquired \in BOOLEAN /\ (acquired => wpc \in {"submit", "resubmit"})
      /\ permits \in 0..MaxWorkers /\ drained \in Nat /\ futures \in Seq(FutureType)
      /\ \A f \in DOMAIN futures : futures[f] \in FutureType
  BY PooledAssumption DEF TypeInv, ModeTypes, SlotTypes, FutureTypes, SlotInv
<1> USE PooledAssumption DEF workerVars, poolVars, closerVars
<1>1. CASE ReceiveEvent \/ ReceiveSentinel \/ IdleFlush \/ StartShutdown \/ Join \/ ShutPool
           \/ PoolJoined \/ UNCHANGED vars
  <2>1. /\ UNCHANGED <<permits, drained, acquired, futures>>
        /\ acquired' => wpc' \in {"submit", "resubmit"}
    BY <1>0, <1>1 DEF ReceiveEvent, ReceiveSentinel, IdleFlush, StartShutdown, Join, ShutPool,
         PoolJoined, vars
  <2>2. permits' + drained' + Slot' >= permits + drained + Slot
    BY <1>0, <2>1 DEF Slot
  <2>3. QED
    BY <2>1, <2>2, SlotsMoved
<1>2. CASE AcquireSlot \/ AcquireAgain
  <2>1. /\ UNCHANGED <<drained, futures>> /\ wpc' \in {"submit", "resubmit"}
        /\ acquired = FALSE
        /\ \/ permits > 0 /\ permits' = permits - 1 /\ acquired' = TRUE
           \/ permits = 0 /\ permits' = permits /\ acquired' = FALSE
    BY <1>0, <1>2 DEF AcquireSlot, AcquireAgain, Acquire
  <2>2. permits' + drained' + Slot' >= permits + drained + Slot
    BY <1>0, <2>1 DEF Slot
  <2>3. QED
    BY <2>1, <2>2, SlotsMoved
<1>3. CASE SubmitBroken \/ SubmitRefused \/ ResubmitFails
  <2>1. /\ UNCHANGED <<drained, futures>> /\ acquired' = FALSE
        /\ permits' = IF acquired THEN Released(permits) ELSE permits
    BY <1>3 DEF SubmitBroken, SubmitRefused, ResubmitFails, Submitted, GiveBack
  <2>2. permits' + drained' + Slot' >= permits + drained + Slot \/ permits' = MaxWorkers
    <3>1. CASE acquired /\ permits < MaxWorkers
      BY <1>0, <2>1, <3>1 DEF Slot, Released
    <3>2. CASE ~acquired
      BY <1>0, <2>1, <3>2 DEF Slot
    <3>3. CASE acquired /\ permits = MaxWorkers
      BY <1>0, <2>1, <3>3 DEF Slot, Released
    <3>4. QED
      BY <1>0, <3>1, <3>2, <3>3
  <2>3. QED
    BY <2>1, <2>2, SlotsMoved
<1>4. CASE SubmitAccepted
  BY <1>0, <1>4, SlotsSubmitted DEF SubmitAccepted, Submitted
<1>5. CASE ResubmitAccepted
  BY <1>0, <1>5, SlotsSubmitted DEF ResubmitAccepted, Submitted
<1>6. ASSUME NEW f \in DOMAIN futures, WriteNext(f) PROVE SlotInv'
  <2>1. futures' = [futures EXCEPT ![f].pos = @ + 1]
    BY <1>6 DEF WriteNext
  <2>2. QED
    BY <1>0, <1>6, <2>1, AdvanceKeeps, SlotsKept DEF WriteNext
<1>7. ASSUME NEW f \in DOMAIN futures, FinishBatch(f) PROVE SlotInv'
  <2>1. futures[f].st = "pending" /\ futures' = [futures EXCEPT ![f].st = "written"]
    BY <1>7 DEF FinishBatch, Running, Pending
  <2>2. QED
    BY <1>0, <1>7, <2>1, AnswerKeeps, SlotsKept DEF FinishBatch
<1>8. ASSUME NEW f \in DOMAIN futures, BatchRaises(f) PROVE SlotInv'
  <2>1. futures[f].st = "pending" /\ futures' = [futures EXCEPT ![f].st = "raised"]
    BY <1>8 DEF BatchRaises, Running, Pending
  <2>2. QED
    BY <1>0, <1>8, <2>1, AnswerKeeps, SlotsKept DEF BatchRaises
<1>9. ASSUME NEW f \in DOMAIN futures, BatchDone(f) PROVE SlotInv'
  BY <1>9, SlotsReleased
<1>10. ASSUME NEW g \in 1..pool, Crash(g) PROVE SlotInv'
  BY <1>0, <1>10, CrashKeeps, SlotsKept DEF Crash
<1>11. CASE DrainSlot
  <2>1. /\ UNCHANGED <<acquired, wpc, futures>>
        /\ permits' + drained' >= permits + drained
    BY <1>0, <1>11 DEF DrainSlot
  <2>2. permits' + drained' + Slot' >= permits + drained + Slot
    BY <1>0, <1>11 DEF Slot, DrainSlot
  <2>3. QED
    BY <1>0, <2>1, <2>2, SlotsMoved
<1>12. QED
  BY NextCases, <1>1, <1>2, <1>3, <1>4, <1>5, <1>6, <1>7, <1>8, <1>9, <1>10, <1>11

(* No slot is ever lost, for any number of slots, batches and crashes:     *)
(* every permit that submit_batch takes is in the worker's hands, owned by *)
(* a future whose callback gives it back, drained by close() or back in    *)
(* the semaphore (pool_writer.py, submit_batch and _on_batch_done).        *)
THEOREM SlotsNeverLeak == Spec => []NoSlotLeaks
<1>1. Spec => []SlotInv
  BY TypeInvariant, SlotInit, SlotStep, PTL DEF Spec
<1>2. SlotInv => NoSlotLeaks
  BY DEF SlotInv
<1>3. QED
  BY <1>1, <1>2, PTL
-----------------------------------------------------------------------------
(* Where an event is.  Events are received in order, so that the batch and *)
(* the batch being sent are the last ones; a submitted event is in one     *)
(* place of one future.                                                    *)

Numbered ==
  /\ processed + Len(sending) + Len(batch) = received
  /\ \A i \in DOMAIN sending : sending[i] = processed + i
  /\ \A i \in DOMAIN batch : batch[i] = processed + i
  /\ wpc # "get" => batch = <<>>
  /\ wpc \in {"get", "done"} => sending = <<>>

SubmittedOnce ==
  /\ \A f \in DOMAIN futures : \A i \in DOMAIN futures[f].events :
       futures[f].events[i] \in 1..processed
  /\ \A f, h \in DOMAIN futures :
       \A i \in DOMAIN futures[f].events, j \in DOMAIN futures[h].events :
         futures[f].events[i] = futures[h].events[j] => f = h /\ i = j

NumberInv == Numbered /\ SubmittedOnce

LEMMA NumberInit == Init => NumberInv
<1> SUFFICES ASSUME Init PROVE NumberInv
  OBVIOUS
<1>1. /\ processed = 0 /\ received = 0 /\ wpc = "get"
      /\ batch = <<>> /\ sending = <<>> /\ futures = <<>>
  BY DEF Init
<1>2. DOMAIN batch = {} /\ DOMAIN sending = {} /\ DOMAIN futures = {} /\ Len(batch) = 0 /\ Len(sending) = 0
  BY <1>1
<1>3. QED
  BY <1>1, <1>2 DEF NumberInv, Numbered, SubmittedOnce

(* The batch handed to submit_batch keeps its events. *)
LEMMA FlushNumbers ==
  ASSUME TypeInv, Numbered, wpc = "get", StartFlush(batch), UNCHANGED <<received, processed>>
  PROVE  Numbered'
<1>1. /\ sending = <<>> /\ Len(sending) = 0 /\ batch \in Seq(Nat) /\ Len(batch) \in Nat
      /\ processed \in Nat
  BY DEF Numbered, TypeInv, BufferTypes
<1>2. /\ sending' = batch /\ batch' = <<>> /\ wpc' = "acquire"
      /\ DOMAIN batch' = {} /\ Len(batch') = 0
  BY DEF StartFlush
<1>3. processed' + Len(sending') + Len(batch') = received'
  BY <1>1, <1>2 DEF Numbered
<1>4. QED
  BY <1>1, <1>2, <1>3 DEF Numbered

(* A batch that submit_batch has answered, one way or the other. *)
LEMMA SubmittedNumbers ==
  ASSUME TypeInv, Numbered, wpc \in {"submit", "resubmit"}, Submitted
  PROVE  /\ Numbered'
         /\ processed' = processed + Len(sending) /\ processed \in Nat
         /\ sending \in Seq(Nat) /\ Len(sending) \in Nat /\ DOMAIN sending = 1..Len(sending)
         /\ \A i \in DOMAIN sending : sending[i] = processed + i
<1>1. /\ sending \in Seq(Nat) /\ Len(sending) \in Nat /\ DOMAIN sending = 1..Len(sending)
      /\ processed \in Nat /\ received \in Nat
  BY PooledAssumption DEF TypeInv, BufferTypes
<1>2. /\ batch = <<>> /\ DOMAIN batch = {} /\ Len(batch) = 0
      /\ processed + Len(sending) = received
  BY <1>1 DEF Numbered
<1>3. /\ processed' = processed + Len(sending) /\ sending' = <<>> /\ batch' = batch
      /\ received' = received /\ wpc' \in {"get", "done"}
      /\ DOMAIN sending' = {} /\ Len(sending') = 0
  BY DEF Submitted
<1>4. processed' + Len(sending') + Len(batch') = received'
  BY <1>1, <1>2, <1>3
<1>5. Numbered'
  BY <1>2, <1>3, <1>4 DEF Numbered
<1>6. QED
  BY <1>1, <1>3, <1>5 DEF Numbered

LEMMA NumberedStep == TypeInv /\ Numbered /\ [Next]_vars => Numbered'
<1> SUFFICES ASSUME TypeInv, Numbered, [Next]_vars PROVE Numbered'
  OBVIOUS
<1> USE DEF workerVars
<1>1. CASE ReceiveEvent
  <2> DEFINE b == Append(batch, received + 1)
  <2>1. /\ wpc = "get" /\ sending = <<>> /\ Len(sending) = 0
        /\ batch \in Seq(Nat) /\ Len(batch) \in Nat /\ processed \in Nat
        /\ received = processed + Len(batch)
    BY <1>1 DEF ReceiveEvent, Numbered, TypeInv, BufferTypes
  <2>2. /\ Len(b) = Len(batch) + 1 /\ DOMAIN b = 1..(Len(batch) + 1)
        /\ \A i \in DOMAIN batch : b[i] = batch[i]
        /\ b[Len(batch) + 1] = received + 1 /\ DOMAIN batch = 1..Len(batch)
    BY <2>1
  <2>3. ASSUME NEW i \in DOMAIN b PROVE b[i] = processed + i
    <3>1. CASE i \in DOMAIN batch
      BY <2>2, <3>1 DEF Numbered
    <3>2. CASE i = Len(batch) + 1
      BY <2>1, <2>2, <3>2
    <3>3. i \in DOMAIN batch \/ i = Len(batch) + 1
      BY <2>1, <2>2
    <3>4. QED
      BY <3>1, <3>2, <3>3
  <2>4. received' = received + 1 /\ processed' = processed
    BY <1>1 DEF ReceiveEvent
  <2> HIDE DEF b
  <2>5. CASE StartFlush(b)
    <3>1. /\ sending' = b /\ batch' = <<>> /\ wpc' = "acquire"
          /\ DOMAIN batch' = {} /\ Len(batch') = 0
      BY <2>5 DEF StartFlush
    <3>2. processed' + Len(sending') + Len(batch') = received'
      BY <2>1, <2>2, <2>4, <3>1
    <3>3. QED
      BY <2>3, <2>4, <3>1, <3>2 DEF Numbered
  <2>6. CASE batch' = b /\ UNCHANGED <<wpc, sending>>
    <3>1. processed' + Len(sending') + Len(batch') = received'
      BY <2>1, <2>2, <2>4, <2>6
    <3>2. QED
      BY <2>1, <2>3, <2>4, <2>6, <3>1 DEF Numbered
  <2>7. QED
    BY <1>1, <2>5, <2>6 DEF ReceiveEvent, b
<1>2. CASE ReceiveSentinel
  <2>1. CASE batch # <<>>
    BY <1>2, <2>1, FlushNumbers DEF ReceiveSentinel
  <2>2. CASE batch = <<>>
    <3>1. wpc = "get" /\ wpc' = "done" /\ UNCHANGED <<batch, sending, received, processed>>
      BY <1>2, <2>2 DEF ReceiveSentinel
    <3>2. QED
      BY <2>2, <3>1 DEF Numbered
  <2>3. QED
    BY <2>1, <2>2
<1>3. CASE IdleFlush
  BY <1>3, FlushNumbers DEF IdleFlush
<1>4. CASE AcquireSlot \/ AcquireAgain
  <2>1. /\ wpc \in {"acquire", "retry"} /\ wpc' \in {"submit", "resubmit"}
        /\ UNCHANGED <<batch, sending, received, processed>>
    BY <1>4 DEF AcquireSlot, AcquireAgain, Acquire
  <2>2. QED
    BY <2>1 DEF Numbered
<1>5. CASE SubmitAccepted \/ SubmitRefused \/ ResubmitAccepted \/ ResubmitFails
  BY <1>5, SubmittedNumbers DEF SubmitAccepted, SubmitRefused, ResubmitAccepted, ResubmitFails
<1>6. CASE SubmitBroken
  <2>1. wpc = "submit" /\ wpc' = "retry" /\ UNCHANGED <<batch, sending, received, processed>>
    BY <1>6 DEF SubmitBroken
  <2>2. QED
    BY <2>1 DEF Numbered
<1>7. CASE \/ \E f \in DOMAIN futures :
                WriteNext(f) \/ FinishBatch(f) \/ BatchRaises(f) \/ BatchDone(f)
           \/ \E g \in 1..pool : Crash(g)
           \/ StartShutdown \/ Join \/ DrainSlot \/ ShutPool \/ PoolJoined
           \/ UNCHANGED vars
  <2>1. UNCHANGED workerVars
    BY <1>7 DEF WriteNext, FinishBatch, BatchRaises, BatchDone, Crash, StartShutdown, Join,
         DrainSlot, ShutPool, PoolJoined, vars
  <2>2. QED
    BY <2>1 DEF Numbered
<1>8. QED
  BY NextCases, <1>1, <1>2, <1>3, <1>4, <1>5, <1>6, <1>7

(* A step that submits nothing keeps every event where it is. *)
LEMMA SubmittedKept ==
  ASSUME SubmittedOnce, processed \in Nat, processed' \in Nat, processed' >= processed,
         DOMAIN futures' = DOMAIN futures,
         \A f \in DOMAIN futures : futures'[f].events = futures[f].events
  PROVE  SubmittedOnce'
<1>1. 1..processed \subseteq 1..processed'
  OBVIOUS
<1>2. QED
  BY <1>1 DEF SubmittedOnce

(* A submitted batch brings events no future had. *)
LEMMA SubmittedAdds ==
  ASSUME TypeInv, NumberInv, wpc \in {"submit", "resubmit"}, Submitted,
         NEW cb \in BOOLEAN, NEW owns \in BOOLEAN,
         futures' = Append(futures, Future(sending, pool, cb, owns))
  PROVE  SubmittedOnce'
<1> DEFINE n == Len(futures) + 1
<1>0. /\ futures \in Seq(FutureType) /\ sending \in Seq(Nat) /\ pool \in Nat
  BY DEF TypeInv, FutureTypes, BufferTypes, PoolTypes
<1>1. /\ DOMAIN futures = 1..Len(futures) /\ Len(futures) \in Nat /\ DOMAIN futures' = 1..n
      /\ \A f \in DOMAIN futures : futures'[f] = futures[f]
      /\ futures'[n] = Future(sending, pool, cb, owns)
  BY <1>0, SubmitFacts
<1>2. futures'[n].events = sending
  BY <1>1 DEF Future
<1>3. /\ processed' = processed + Len(sending) /\ processed \in Nat
      /\ Len(sending) \in Nat /\ DOMAIN sending = 1..Len(sending)
      /\ \A i \in DOMAIN sending : sending[i] = processed + i
  BY SubmittedNumbers DEF NumberInv
<1>4. DOMAIN futures' = DOMAIN futures \cup {n} /\ n \notin DOMAIN futures
  BY <1>1
<1> HIDE DEF n
<1>5. ASSUME NEW f \in DOMAIN futures', NEW i \in DOMAIN futures'[f].events
      PROVE  /\ futures'[f].events[i] \in 1..processed'
             /\ f = n => futures'[f].events[i] = processed + i /\ i \in Nat \ {0}
             /\ f # n => futures'[f].events[i] = futures[f].events[i]
                         /\ futures[f].events[i] \in 1..processed
  <2>1. CASE f = n
    <3>1. i \in 1..Len(sending) /\ futures'[f].events[i] = processed + i
      BY <1>2, <1>3, <2>1, <1>5
    <3>2. i \in Nat \ {0} /\ processed + i \in 1..processed'
      BY <1>3, <3>1
    <3>3. QED
      BY <2>1, <3>1, <3>2
  <2>2. CASE f # n
    <3>1. f \in DOMAIN futures /\ futures'[f] = futures[f]
      BY <1>1, <1>4, <2>2
    <3>2. futures[f].events[i] \in 1..processed
      BY <1>5, <3>1 DEF NumberInv, SubmittedOnce
    <3>3. QED
      BY <1>3, <2>2, <3>1, <3>2
  <2>3. QED
    BY <2>1, <2>2
<1>6. ASSUME NEW f \in DOMAIN futures', NEW h \in DOMAIN futures',
             NEW i \in DOMAIN futures'[f].events, NEW j \in DOMAIN futures'[h].events,
             futures'[f].events[i] = futures'[h].events[j]
      PROVE  f = h /\ i = j
  <2>1. CASE f = n /\ h = n
    BY <1>3, <1>5, <1>6, <2>1
  <2>2. CASE f # n /\ h # n
    <3>1. f \in DOMAIN futures /\ h \in DOMAIN futures
          /\ futures'[f] = futures[f] /\ futures'[h] = futures[h]
      BY <1>1, <1>4, <2>2
    <3>2. QED
      BY <1>6, <3>1 DEF NumberInv, SubmittedOnce
  <2>3. CASE f = n /\ h # n
    <3>1. futures'[f].events[i] > processed
      BY <1>3, <1>5, <2>3
    <3>2. futures'[h].events[j] \in 1..processed
      BY <1>5, <2>3
    <3>3. QED
      BY <1>3, <1>6, <3>1, <3>2
  <2>4. CASE f # n /\ h = n
    <3>1. futures'[h].events[j] > processed
      BY <1>3, <1>5, <2>4
    <3>2. futures'[f].events[i] \in 1..processed
      BY <1>5, <2>4
    <3>3. QED
      BY <1>3, <1>6, <3>1, <3>2
  <2>5. QED
    BY <2>1, <2>2, <2>3, <2>4
<1>7. QED
  BY <1>5, <1>6 DEF SubmittedOnce

LEMMA SubmittedStep == TypeInv /\ NumberInv /\ [Next]_vars => SubmittedOnce'
<1> SUFFICES ASSUME TypeInv, NumberInv, [Next]_vars PROVE SubmittedOnce'
  OBVIOUS
<1>0. /\ SubmittedOnce /\ Numbered /\ processed \in Nat /\ acquired \in BOOLEAN
      /\ futures \in Seq(FutureType)
  BY DEF TypeInv, NumberInv, BufferTypes, ModeTypes, FutureTypes
<1> USE DEF workerVars, poolVars
<1>1. CASE ReceiveEvent \/ ReceiveSentinel \/ IdleFlush \/ AcquireSlot \/ AcquireAgain
           \/ SubmitBroken \/ StartShutdown \/ Join \/ DrainSlot \/ ShutPool \/ PoolJoined
           \/ UNCHANGED vars
  <2>1. UNCHANGED <<futures, processed>>
    BY <1>1 DEF ReceiveEvent, ReceiveSentinel, IdleFlush, AcquireSlot, AcquireAgain, Acquire,
         SubmitBroken, StartShutdown, Join, DrainSlot, ShutPool, PoolJoined, vars
  <2>2. QED
    BY <1>0, <2>1, SubmittedKept
<1>2. CASE SubmitRefused \/ ResubmitFails
  <2>1. /\ wpc \in {"submit", "resubmit"} /\ Submitted /\ UNCHANGED futures
    BY <1>2 DEF SubmitRefused, ResubmitFails
  <2>2. processed' \in Nat /\ processed' >= processed
    BY <1>0, <2>1, SubmittedNumbers
  <2>3. QED
    BY <1>0, <2>1, <2>2, SubmittedKept
<1>3. CASE SubmitAccepted
  BY <1>0, <1>3, SubmittedAdds DEF SubmitAccepted
<1>4. CASE ResubmitAccepted
  BY <1>0, <1>4, SubmittedAdds DEF ResubmitAccepted
<1>5. ASSUME NEW f \in DOMAIN futures,
             WriteNext(f) \/ FinishBatch(f) \/ BatchRaises(f) \/ BatchDone(f)
      PROVE  SubmittedOnce'
  BY <1>0, <1>5, SubprocessKeeps, SubmittedKept
<1>6. ASSUME NEW g \in 1..pool, Crash(g) PROVE SubmittedOnce'
  <2>1. processed' = processed
    BY <1>6 DEF Crash
  <2>2. QED
    BY <1>0, <1>6, <2>1, CrashKeeps, SubmittedKept
<1>7. QED
  BY NextCases, <1>1, <1>2, <1>3, <1>4, <1>5, <1>6

LEMMA NumberInvariant == Spec => []NumberInv
<1>1. TypeInv /\ NumberInv /\ [Next]_vars => NumberInv'
  BY NumberedStep, SubmittedStep DEF NumberInv
<1>2. QED
  BY <1>1, NumberInit, TypeInvariant, PTL DEF Spec
-----------------------------------------------------------------------------
(* What is on disk is what the subprocesses have written, once each.       *)
Written(e) ==
  \E f \in DOMAIN futures : \E i \in 1..futures[f].pos : futures[f].events[i] = e

DiskMatches ==
  /\ \A f \in DOMAIN futures : futures[f].pos <= Len(futures[f].events)
  /\ \A e \in 1..MaxEvents : disk[e] = IF Written(e) THEN 1 ELSE 0

LEMMA DiskInit == Init => DiskMatches
  BY DEF Init, DiskMatches, Written

(* No step but a write changes what is written. *)
LEMMA DiskKept ==
  ASSUME DiskMatches, UNCHANGED disk, DOMAIN futures' = DOMAIN futures,
         \A f \in DOMAIN futures :
           futures'[f].events = futures[f].events /\ futures'[f].pos = futures[f].pos
  PROVE  DiskMatches'
<1>1. \A e : Written(e)' <=> Written(e)
  BY DEF Written
<1>2. QED
  BY <1>1 DEF DiskMatches

(* A batch that has just been submitted has nothing written. *)
LEMMA DiskSubmitted ==
  ASSUME TypeInv, DiskMatches, UNCHANGED disk, NEW cb \in BOOLEAN, NEW owns \in BOOLEAN,
         futures' = Append(futures, Future(sending, pool, cb, owns))
  PROVE  DiskMatches'
<1> DEFINE n == Len(futures) + 1
<1>0. /\ futures \in Seq(FutureType) /\ sending \in Seq(Nat) /\ pool \in Nat
      /\ Len(sending) \in Nat
  BY DEF TypeInv, FutureTypes, BufferTypes, PoolTypes
<1>1. /\ DOMAIN futures = 1..Len(futures) /\ Len(futures) \in Nat /\ DOMAIN futures' = 1..n
      /\ \A f \in DOMAIN futures : futures'[f] = futures[f]
      /\ futures'[n] = Future(sending, pool, cb, owns)
  BY <1>0, SubmitFacts
<1>2. futures'[n].events = sending /\ futures'[n].pos = 0
  BY <1>1 DEF Future
<1>3. DOMAIN futures' = DOMAIN futures \cup {n} /\ n \notin DOMAIN futures
  BY <1>1
<1> HIDE DEF n
<1>4. 1..futures'[n].pos = {}
  BY <1>2
<1>5. \A e : Written(e)' <=> Written(e)
  BY <1>1, <1>3, <1>4 DEF Written
<1>6. futures'[n].pos <= Len(futures'[n].events)
  BY <1>0, <1>2
<1>7. \A f \in DOMAIN futures' : futures'[f].pos <= Len(futures'[f].events)
  BY <1>1, <1>3, <1>6 DEF DiskMatches
<1>8. QED
  BY <1>5, <1>7 DEF DiskMatches

(* The event a subprocess writes was on disk nowhere: it is in no other    *)
(* place of any batch.                                                     *)
LEMMA DiskWritten ==
  ASSUME TypeInv, NumberInv, DiskMatches, NEW f \in DOMAIN futures, WriteNext(f)
  PROVE  DiskMatches'
<1>k. PICK k : k = futures[f].pos + 1
  OBVIOUS
<1>x. PICK x : x = futures[f].events[k]
  OBVIOUS
<1>0. /\ futures \in Seq(FutureType) /\ futures[f] \in FutureType
      /\ \A h \in DOMAIN futures : futures[h] \in FutureType
      /\ disk \in [1..MaxEvents -> Nat]
  BY DEF TypeInv, FutureTypes
<1>1. \A r \in FutureType : r.pos \in Nat /\ r.events \in Seq(Nat)
  BY DEF FutureType
<1>2. /\ k \in DOMAIN futures[f].events /\ k \in Nat /\ futures[f].pos \in Nat
      /\ Len(futures[f].events) \in Nat /\ k <= Len(futures[f].events)
  <2>1. futures[f].pos < Len(futures[f].events)
    BY DEF WriteNext
  <2>2. QED
    BY <1>0, <1>1, <1>k, <2>1
<1>3. /\ disk' = [disk EXCEPT ![x] = @ + 1]
      /\ futures' = [futures EXCEPT ![f].pos = @ + 1]
  BY <1>k, <1>x DEF WriteNext
<1>4. /\ DOMAIN futures' = DOMAIN futures
      /\ \A h \in DOMAIN futures :
           /\ futures'[h].events = futures[h].events
           /\ futures'[h].pos = IF h = f THEN k ELSE futures[h].pos
  BY <1>0, <1>3, <1>k, AdvanceKeeps
<1>5. ~Written(x)
  <2> SUFFICES ASSUME NEW h \in DOMAIN futures, NEW i \in 1..futures[h].pos,
                      futures[h].events[i] = x
               PROVE  FALSE
    BY DEF Written
  <2>1. i \in DOMAIN futures[h].events
    <3>1. futures[h].pos <= Len(futures[h].events)
      BY DEF DiskMatches
    <3>2. futures[h].pos \in Nat /\ futures[h].events \in Seq(Nat)
      BY <1>0, <1>1
    <3>3. QED
      BY <3>1, <3>2
  <2>2. h = f /\ i = k
    BY <1>2, <1>x, <2>1 DEF NumberInv, SubmittedOnce
  <2>3. QED
    BY <1>2, <1>k, <2>2
<1>6. 1..k = (1..futures[f].pos) \cup {k}
  BY <1>2, <1>k
<1>7. \A e : Written(e)' <=> Written(e) \/ e = x
  <2>1. ASSUME NEW e, Written(e)' PROVE Written(e) \/ e = x
    <3>1. PICK h \in DOMAIN futures : \E i \in 1..futures'[h].pos : futures'[h].events[i] = e
      BY <1>4, <2>1 DEF Written
    <3>2. PICK i \in 1..futures'[h].pos : futures[h].events[i] = e
      BY <1>4, <3>1
    <3>3. CASE h = f /\ i = k
      BY <1>x, <3>2, <3>3
    <3>4. CASE h # f \/ i # k
      <4>1. i \in 1..futures[h].pos
        BY <1>4, <1>6, <3>2, <3>4
      <4>2. QED
        BY <3>2, <4>1 DEF Written
    <3>5. QED
      BY <3>3, <3>4
  <2>2. ASSUME NEW e, Written(e) PROVE Written(e)'
    <3>1. PICK h \in DOMAIN futures : \E i \in 1..futures[h].pos : futures[h].events[i] = e
      BY <2>2 DEF Written
    <3>2. PICK i \in 1..futures[h].pos : futures[h].events[i] = e
      BY <3>1
    <3>3. i \in 1..futures'[h].pos /\ futures'[h].events[i] = e
      BY <1>4, <1>6, <3>2
    <3>4. QED
      BY <1>4, <3>3 DEF Written
  <2>3. Written(x)'
    <3>1. k \in 1..futures'[f].pos /\ futures'[f].events[k] = x
      BY <1>4, <1>6, <1>x
    <3>2. QED
      BY <1>4, <3>1 DEF Written
  <2>4. QED
    BY <2>1, <2>2, <2>3
<1>8. \A e \in 1..MaxEvents : disk'[e] = IF e = x THEN disk[e] + 1 ELSE disk[e]
  BY <1>0, <1>3, CountFacts
<1>9. ASSUME NEW e \in 1..MaxEvents PROVE disk'[e] = IF Written(e)' THEN 1 ELSE 0
  <2>1. CASE e = x
    <3>1. disk[e] = 0
      BY <1>5, <2>1 DEF DiskMatches
    <3>2. disk'[e] = 1
      BY <1>8, <2>1, <3>1
    <3>3. QED
      BY <1>7, <2>1, <3>2
  <2>2. CASE e # x
    BY <1>7, <1>8, <2>2 DEF DiskMatches
  <2>3. QED
    BY <2>1, <2>2
<1>10. ASSUME NEW h \in DOMAIN futures' PROVE futures'[h].pos <= Len(futures'[h].events)
  BY <1>2, <1>4 DEF DiskMatches
<1>11. QED
  BY <1>9, <1>10 DEF DiskMatches

LEMMA DiskStep == TypeInv /\ NumberInv /\ DiskMatches /\ [Next]_vars => DiskMatches'
<1> SUFFICES ASSUME TypeInv, NumberInv, DiskMatches, [Next]_vars PROVE DiskMatches'
  OBVIOUS
<1>0. acquired \in BOOLEAN /\ futures \in Seq(FutureType)
  BY DEF TypeInv, ModeTypes, FutureTypes
<1> USE DEF workerVars, poolVars
<1>1. CASE ReceiveEvent \/ ReceiveSentinel \/ IdleFlush \/ AcquireSlot \/ AcquireAgain
           \/ SubmitBroken \/ SubmitRefused \/ ResubmitFails
           \/ StartShutdown \/ Join \/ DrainSlot \/ ShutPool \/ PoolJoined \/ UNCHANGED vars
  <2>1. UNCHANGED <<futures, disk>>
    BY <1>1 DEF ReceiveEvent, ReceiveSentinel, IdleFlush, AcquireSlot, AcquireAgain, Acquire,
         SubmitBroken, SubmitRefused, ResubmitFails, StartShutdown, Join, DrainSlot, ShutPool,
         PoolJoined, vars
  <2>2. QED
    BY <2>1, DiskKept
<1>2. CASE SubmitAccepted
  BY <1>0, <1>2, DiskSubmitted DEF SubmitAccepted
<1>3. CASE ResubmitAccepted
  BY <1>0, <1>3, DiskSubmitted DEF ResubmitAccepted
<1>4. ASSUME NEW f \in DOMAIN futures, WriteNext(f) PROVE DiskMatches'
  BY <1>4, DiskWritten
<1>5. ASSUME NEW f \in DOMAIN futures, FinishBatch(f) \/ BatchRaises(f) \/ BatchDone(f)
      PROVE  DiskMatches'
  <2>1. \E s \in {"pending", "written", "raised", "ok", "failed"} :
          futures' = [futures EXCEPT ![f].st = s]
    BY <1>5 DEF FinishBatch, BatchRaises, BatchDone
  <2>2. UNCHANGED disk
    BY <1>5 DEF FinishBatch, BatchRaises, BatchDone
  <2>3. QED
    BY <1>0, <2>1, <2>2, AnswerKeeps, DiskKept
<1>6. ASSUME NEW g \in 1..pool, Crash(g) PROVE DiskMatches'
  <2>1. UNCHANGED disk
    BY <1>6 DEF Crash
  <2>2. QED
    BY <1>0, <1>6, <2>1, CrashKeeps, DiskKept
<1>7. QED
  BY NextCases, <1>1, <1>2, <1>3, <1>4, <1>5, <1>6

LEMMA DiskInvariant == Spec => []DiskMatches
  BY DiskInit, DiskStep, TypeInvariant, NumberInvariant, PTL DEF Spec

(* No crash, retry or refused batch makes an event be written twice: a     *)
(* submitted event is in one place of one future, a future's process moves *)
(* forward through its batch, and no future is ever run again              *)
(* (pool_writer.py, submit_batch and _write_batch_in_worker).              *)
THEOREM WrittenAtMostOnce == Spec => []AtMostOnce
<1>1. DiskMatches => AtMostOnce
  BY DEF DiskMatches, AtMostOnce
<1>2. QED
  BY <1>1, DiskInvariant, PTL
-----------------------------------------------------------------------------
(* What close() promises. *)
Covered ==
  /\ errors = 0 =>
       \A e \in 1..processed :
         \E f \in DOMAIN futures : \E i \in DOMAIN futures[f].events : futures[f].events[i] = e
  /\ \A f \in DOMAIN futures :
       futures[f].st \in {"written", "ok"} => futures[f].pos = Len(futures[f].events)

Places(e) ==
  \E f \in DOMAIN futures : \E i \in DOMAIN futures[f].events : futures[f].events[i] = e

LEMMA CoveredInit == Init => Covered
<1> SUFFICES ASSUME Init PROVE Covered
  OBVIOUS
<1>1. processed = 0 /\ DOMAIN futures = {} /\ 1..0 = {}
  BY DEF Init
<1>2. QED
  BY <1>1 DEF Covered

(* A step that submits nothing and answers no batch keeps it. *)
LEMMA CoveredKept ==
  ASSUME Covered, processed' = processed, errors' = 0 => errors = 0,
         DOMAIN futures' = DOMAIN futures,
         \A f \in DOMAIN futures :
           /\ futures'[f].events = futures[f].events
           /\ futures'[f].st \in {"written", "ok"} => futures'[f].pos = Len(futures'[f].events)
  PROVE  Covered'
<1>1. \A e : Places(e) => Places(e)'
  BY DEF Places
<1>2. errors' = 0 => \A e \in 1..processed' : Places(e)'
  BY <1>1 DEF Covered, Places
<1>3. QED
  BY <1>2 DEF Covered, Places

LEMMA CoveredSubmitted ==
  ASSUME TypeInv, NumberInv, Covered, wpc \in {"submit", "resubmit"}, Submitted,
         UNCHANGED errors, NEW cb \in BOOLEAN, NEW owns \in BOOLEAN,
         futures' = Append(futures, Future(sending, pool, cb, owns))
  PROVE  Covered'
<1> DEFINE n == Len(futures) + 1
<1>0. /\ futures \in Seq(FutureType) /\ sending \in Seq(Nat) /\ pool \in Nat
  BY DEF TypeInv, FutureTypes, BufferTypes, PoolTypes
<1>1. /\ DOMAIN futures = 1..Len(futures) /\ Len(futures) \in Nat /\ DOMAIN futures' = 1..n
      /\ \A f \in DOMAIN futures : futures'[f] = futures[f]
      /\ futures'[n] = Future(sending, pool, cb, owns)
  BY <1>0, SubmitFacts
<1>2. futures'[n].events = sending /\ futures'[n].st = "pending"
  BY <1>1 DEF Future
<1>3. /\ processed' = processed + Len(sending) /\ processed \in Nat
      /\ Len(sending) \in Nat /\ DOMAIN sending = 1..Len(sending)
      /\ \A i \in DOMAIN sending : sending[i] = processed + i
  BY SubmittedNumbers DEF NumberInv
<1>4. DOMAIN futures' = DOMAIN futures \cup {n}
  BY <1>1
<1> HIDE DEF n
<1>5. ASSUME errors' = 0, NEW e \in 1..processed' PROVE Places(e)'
  <2>1. CASE e <= processed
    <3>1. e \in 1..processed /\ errors = 0
      BY <1>3, <1>5, <2>1
    <3>2. Places(e)
      BY <3>1 DEF Covered, Places
    <3>3. PICK f \in DOMAIN futures : \E i \in DOMAIN futures[f].events : futures[f].events[i] = e
      BY <3>2 DEF Places
    <3>4. QED
      BY <1>1, <1>4, <3>3 DEF Places
  <2>2. CASE e > processed
    <3>1. e - processed \in 1..Len(sending) /\ processed + (e - processed) = e
      BY <1>3, <2>2
    <3>2. sending[e - processed] = e
      BY <1>3, <3>1
    <3>3. \E i \in DOMAIN futures'[n].events : futures'[n].events[i] = e
      BY <1>2, <1>3, <3>1, <3>2
    <3>4. QED
      BY <1>4, <3>3 DEF Places
  <2>3. QED
    BY <1>3, <2>1, <2>2
<1>6. \A f \in DOMAIN futures' :
        futures'[f].st \in {"written", "ok"} => futures'[f].pos = Len(futures'[f].events)
  BY <1>1, <1>2, <1>4 DEF Covered
<1>7. QED
  BY <1>5, <1>6 DEF Covered, Places

LEMMA CoveredStep == TypeInv /\ NumberInv /\ Covered /\ [Next]_vars => Covered'
<1> SUFFICES ASSUME TypeInv, NumberInv, Covered, [Next]_vars PROVE Covered'
  OBVIOUS
<1>0. acquired \in BOOLEAN /\ futures \in Seq(FutureType) /\ errors \in Nat
  BY DEF TypeInv, ModeTypes, FutureTypes, SlotTypes
<1>w. \A f \in DOMAIN futures :
        futures[f].st \in {"written", "ok"} => futures[f].pos = Len(futures[f].events)
  BY DEF Covered
<1> USE DEF workerVars, poolVars
<1>1. CASE ReceiveEvent \/ ReceiveSentinel \/ IdleFlush \/ AcquireSlot \/ AcquireAgain
           \/ SubmitBroken \/ StartShutdown \/ Join \/ DrainSlot \/ ShutPool \/ PoolJoined
           \/ UNCHANGED vars
  <2>1. UNCHANGED <<futures, processed, errors>>
    BY <1>1 DEF ReceiveEvent, ReceiveSentinel, IdleFlush, AcquireSlot, AcquireAgain, Acquire,
         SubmitBroken, StartShutdown, Join, DrainSlot, ShutPool, PoolJoined, vars
  <2>2. QED
    BY <2>1 DEF Covered
<1>2. CASE SubmitRefused \/ ResubmitFails
  <2>1. errors' = errors + 1 /\ UNCHANGED futures
    BY <1>2 DEF SubmitRefused, ResubmitFails
  <2>2. errors' # 0
    BY <1>0, <2>1
  <2>3. QED
    BY <1>w, <2>1, <2>2 DEF Covered
<1>3. CASE SubmitAccepted
  BY <1>0, <1>3, CoveredSubmitted DEF SubmitAccepted
<1>4. CASE ResubmitAccepted
  BY <1>0, <1>4, CoveredSubmitted DEF ResubmitAccepted
<1>5. ASSUME NEW f \in DOMAIN futures, WriteNext(f) PROVE Covered'
  <2>1. futures[f].st = "pending"
    BY <1>5 DEF WriteNext, Running, Pending
  <2>2. UNCHANGED <<processed, errors>> /\ futures' = [futures EXCEPT ![f].pos = @ + 1]
    BY <1>5 DEF WriteNext
  <2>3. QED
    BY <1>0, <1>w, <2>1, <2>2, AdvanceKeeps, CoveredKept
<1>6. ASSUME NEW f \in DOMAIN futures, FinishBatch(f) PROVE Covered'
  <2>1. futures[f].pos = Len(futures[f].events) /\ UNCHANGED <<processed, errors>>
        /\ futures' = [futures EXCEPT ![f].st = "written"]
    BY <1>6 DEF FinishBatch
  <2>2. QED
    BY <1>0, <1>w, <2>1, AnswerKeeps, CoveredKept
<1>7. ASSUME NEW f \in DOMAIN futures, BatchRaises(f) PROVE Covered'
  <2>1. UNCHANGED <<processed, errors>> /\ futures' = [futures EXCEPT ![f].st = "raised"]
    BY <1>7 DEF BatchRaises
  <2>2. QED
    BY <1>0, <1>w, <2>1, AnswerKeeps, CoveredKept
<1>8. ASSUME NEW f \in DOMAIN futures, BatchDone(f) PROVE Covered'
  <2>1. /\ futures' = [futures EXCEPT ![f].st = Answer(f)] /\ Answer(f) \in {"ok", "failed"}
        /\ Answer(f) = "ok" => futures[f].st = "written"
    BY <1>8 DEF BatchDone, Answer
  <2>2. processed' = processed /\ (errors' = 0 => errors = 0)
    BY <1>0, <1>8 DEF BatchDone
  <2>3. QED
    BY <1>0, <1>w, <2>1, <2>2, AnswerKeeps, CoveredKept
<1>9. ASSUME NEW g \in 1..pool, Crash(g) PROVE Covered'
  <2>1. UNCHANGED <<processed, errors>>
    BY <1>9 DEF Crash
  <2>2. QED
    BY <1>0, <1>9, <1>w, <2>1, CrashKeeps, CoveredKept
<1>10. QED
  BY NextCases, <1>1, <1>2, <1>3, <1>4, <1>5, <1>6, <1>7, <1>8, <1>9

(* Every pool but the last was broken when it was replaced, and a broken   *)
(* pool has answered or failed all its futures.                            *)
PoolInv ==
  /\ \A g \in 1..(pool - 1) : g \in broken
  /\ \A f \in DOMAIN futures : futures[f].pool \in 1..pool
  /\ \A f \in DOMAIN futures :
       futures[f].pool \in broken => futures[f].st \notin {"pending", "written"}

LEMMA PoolInit == Init => PoolInv
<1> SUFFICES ASSUME Init PROVE PoolInv
  OBVIOUS
<1>1. pool = 1 /\ DOMAIN futures = {} /\ 1..(1 - 1) = {}
  BY DEF Init
<1>2. QED
  BY <1>1 DEF PoolInv

LEMMA PoolSubmitted ==
  ASSUME TypeInv, PoolInv, UNCHANGED <<pool, broken>>, pool \notin broken,
         NEW cb \in BOOLEAN, NEW owns \in BOOLEAN,
         futures' = Append(futures, Future(sending, pool, cb, owns))
  PROVE  PoolInv'
<1> DEFINE n == Len(futures) + 1
<1>0. /\ futures \in Seq(FutureType) /\ sending \in Seq(Nat) /\ pool \in Nat \ {0}
  BY DEF TypeInv, FutureTypes, BufferTypes, PoolTypes
<1>1. /\ DOMAIN futures = 1..Len(futures) /\ Len(futures) \in Nat /\ DOMAIN futures' = 1..n
      /\ \A f \in DOMAIN futures : futures'[f] = futures[f]
      /\ futures'[n] = Future(sending, pool, cb, owns)
  BY <1>0, SubmitFacts
<1>2. futures'[n].pool = pool /\ pool \in 1..pool
  BY <1>0, <1>1 DEF Future
<1>3. DOMAIN futures' = DOMAIN futures \cup {n}
  BY <1>1
<1> HIDE DEF n
<1>4. QED
  BY <1>1, <1>2, <1>3 DEF PoolInv

LEMMA PoolStep == TypeInv /\ PoolInv /\ [Next]_vars => PoolInv'
<1> SUFFICES ASSUME TypeInv, PoolInv, [Next]_vars PROVE PoolInv'
  OBVIOUS
<1>0. /\ acquired \in BOOLEAN /\ futures \in Seq(FutureType)
      /\ pool \in Nat \ {0} /\ broken \subseteq 1..pool
  BY DEF TypeInv, ModeTypes, FutureTypes, PoolTypes
<1> USE DEF workerVars, poolVars
<1>1. CASE ReceiveEvent \/ ReceiveSentinel \/ IdleFlush \/ AcquireSlot \/ AcquireAgain
           \/ SubmitRefused \/ ResubmitFails
           \/ StartShutdown \/ Join \/ DrainSlot \/ ShutPool \/ PoolJoined \/ UNCHANGED vars
  <2>1. UNCHANGED <<futures, pool, broken>>
    BY <1>1 DEF ReceiveEvent, ReceiveSentinel, IdleFlush, AcquireSlot, AcquireAgain, Acquire,
         SubmitRefused, ResubmitFails, StartShutdown, Join, DrainSlot, ShutPool, PoolJoined, vars
  <2>2. QED
    BY <2>1 DEF PoolInv
<1>2. CASE SubmitAccepted
  BY <1>0, <1>2, PoolSubmitted DEF SubmitAccepted
<1>3. CASE ResubmitAccepted
  BY <1>0, <1>3, PoolSubmitted DEF ResubmitAccepted
<1>4. CASE SubmitBroken
  <2>1. pool \in broken /\ pool' = pool + 1 /\ UNCHANGED <<futures, broken>>
    BY <1>4 DEF SubmitBroken
  <2>2. \A g \in 1..(pool' - 1) : g = pool \/ g \in 1..(pool - 1)
    BY <1>0, <2>1
  <2>3. 1..pool \subseteq 1..pool'
    BY <1>0, <2>1
  <2>4. QED
    BY <2>1, <2>2, <2>3 DEF PoolInv
<1>5. ASSUME NEW f \in DOMAIN futures,
             WriteNext(f) \/ FinishBatch(f) \/ BatchRaises(f) \/ BatchDone(f)
      PROVE  PoolInv'
  <2>1. /\ DOMAIN futures' = DOMAIN futures /\ UNCHANGED <<pool, broken>>
        /\ \A h \in DOMAIN futures : futures'[h].pool = futures[h].pool
    BY <1>0, <1>5, SubprocessKeeps
  <2>2. ASSUME NEW h \in DOMAIN futures, futures[h].pool \in broken
        PROVE  futures'[h].st \notin {"pending", "written"}
    <3>1. futures[h].st \notin {"pending", "written"}
      BY <2>2 DEF PoolInv
    <3>2. CASE WriteNext(f) \/ FinishBatch(f) \/ BatchRaises(f)
      <4>1. futures[f].st = "pending"
        BY <3>2 DEF WriteNext, FinishBatch, BatchRaises, Running, Pending
      <4>2. h # f /\ futures'[h] = futures[h]
        BY <1>0, <3>1, <3>2, <4>1, AdvanceFacts, AnswerFacts DEF WriteNext, FinishBatch, BatchRaises
      <4>3. QED
        BY <3>1, <4>2
    <3>3. CASE BatchDone(f)
      BY <1>0, <3>1, <3>3, BatchDoneFacts
    <3>4. QED
      BY <1>5, <3>2, <3>3
  <2>3. QED
    BY <2>1, <2>2 DEF PoolInv
<1>6. ASSUME NEW g \in 1..pool, Crash(g) PROVE PoolInv'
  <2>1. pool' = pool /\ broken' = broken \cup {g}
    BY <1>6 DEF Crash
  <2>2. /\ DOMAIN futures' = DOMAIN futures
        /\ \A h \in DOMAIN futures :
             /\ futures'[h].pool = futures[h].pool
             /\ futures'[h].st = IF h \in Unresolved(g) THEN "raised" ELSE futures[h].st
    BY <1>0, <1>6, CrashKeeps
  <2>3. ASSUME NEW h \in DOMAIN futures, futures[h].pool \in broken \cup {g}
        PROVE  futures'[h].st \notin {"pending", "written"}
    <3>1. CASE h \in Unresolved(g)
      BY <2>2, <3>1
    <3>2. CASE h \notin Unresolved(g) /\ futures[h].pool = g
      BY <2>2, <3>2 DEF Unresolved
    <3>3. CASE h \notin Unresolved(g) /\ futures[h].pool \in broken
      BY <2>2, <3>3 DEF PoolInv
    <3>4. QED
      BY <2>3, <3>1, <3>2, <3>3
  <2>4. QED
    BY <2>1, <2>2, <2>3 DEF PoolInv
<1>7. QED
  BY NextCases, <1>1, <1>2, <1>3, <1>4, <1>5, <1>6

CloseInv ==
  /\ cpc \notin {"idle", "join"} /\ ~late => wpc = "done"
  /\ cpc \in {"wait", "closed"} /\ ~late => pool \in shut
  /\ cpc = "closed" /\ ~late => Unresolved(pool) = {}

LEMMA CloseInit == Init => CloseInv
  BY DEF Init, CloseInv

(* Before close() has waited for its pool there is nothing to keep; after  *)
(* it, the worker is gone and only late answers arrive.                    *)
LEMMA CloseKept ==
  ASSUME TypeInv, CloseInv, UNCHANGED <<cpc, late, pool, shut>>,
         wpc' = wpc \/ wpc # "done", Unresolved(pool)' \subseteq Unresolved(pool) \/ wpc # "done"
  PROVE  CloseInv'
<1>1. /\ cpc \notin {"idle", "join"} /\ ~late => wpc' = "done" /\ wpc = "done"
  BY DEF CloseInv
<1>2. QED
  BY <1>1 DEF CloseInv

LEMMA CloseStep == TypeInv /\ CloseInv /\ [Next]_vars => CloseInv'
<1> SUFFICES ASSUME TypeInv, CloseInv, [Next]_vars PROVE CloseInv'
  OBVIOUS
<1>0. futures \in Seq(FutureType) /\ late \in BOOLEAN
  BY DEF TypeInv, FutureTypes, ModeTypes
<1> USE DEF workerVars, poolVars, closerVars
<1>1. CASE ReceiveEvent \/ ReceiveSentinel \/ IdleFlush \/ AcquireSlot \/ AcquireAgain
           \/ SubmitAccepted \/ SubmitBroken \/ SubmitRefused \/ ResubmitAccepted \/ ResubmitFails
  <2>1. wpc # "done" /\ UNCHANGED <<cpc, late, shut>>
    BY <1>1 DEF ReceiveEvent, ReceiveSentinel, IdleFlush, AcquireSlot, AcquireAgain, Acquire,
         SubmitAccepted, SubmitBroken, SubmitRefused, ResubmitAccepted, ResubmitFails
  <2>2. cpc \in {"idle", "join"} \/ late
    BY <2>1 DEF CloseInv
  <2>3. QED
    BY <2>1, <2>2 DEF CloseInv
<1>2. ASSUME NEW f \in DOMAIN futures,
             WriteNext(f) \/ FinishBatch(f) \/ BatchRaises(f) \/ BatchDone(f)
      PROVE  CloseInv'
  <2>1. UNCHANGED <<cpc, late, pool, shut, wpc>>
    BY <1>2 DEF WriteNext, FinishBatch, BatchRaises, BatchDone
  <2>2. /\ DOMAIN futures' = DOMAIN futures
        /\ \A h \in DOMAIN futures : futures'[h].pool = futures[h].pool
        /\ \A h \in DOMAIN futures \ {f} : futures'[h] = futures[h]
        /\ futures[f].st \in {"pending", "written", "raised"}
    <3>1. CASE WriteNext(f) \/ FinishBatch(f) \/ BatchRaises(f)
      BY <1>0, <3>1, SubprocessKeeps, AdvanceFacts, AnswerFacts
         DEF WriteNext, FinishBatch, BatchRaises, Running, Pending
    <3>2. CASE BatchDone(f)
      BY <1>0, <3>2, SubprocessKeeps, BatchDoneFacts DEF BatchDone
    <3>3. QED
      BY <1>2, <3>1, <3>2
  <2>3. Unresolved(pool)' \subseteq Unresolved(pool)
    BY <2>1, <2>2 DEF Unresolved
  <2>4. QED
    BY <2>1, <2>3, CloseKept
<1>3. ASSUME NEW g \in 1..pool, Crash(g) PROVE CloseInv'
  <2>1. UNCHANGED <<cpc, late, pool, shut, wpc>>
    BY <1>3 DEF Crash
  <2>2. Unresolved(pool)' \subseteq Unresolved(pool)
    <3>1. /\ DOMAIN futures' = DOMAIN futures
          /\ \A h \in DOMAIN futures :
               /\ futures'[h].pool = futures[h].pool
               /\ futures'[h].st \in {"ok", "failed"} <=> futures[h].st \in {"ok", "failed"}
      BY <1>0, <1>3, CrashKeeps
    <3>2. \A h \in DOMAIN futures : futures[h] \in FutureType
      BY <1>0
    <3>3. \A r \in FutureType :
            r.st \in {"pending", "written", "raised"} <=> r.st \notin {"ok", "failed"}
      BY DEF FutureType
    <3>4. QED
      BY <2>1, <3>1, <3>2, <3>3 DEF Unresolved
  <2>3. QED
    BY <2>1, <2>2, CloseKept
<1>4. CASE StartShutdown \/ DrainSlot \/ UNCHANGED vars
  <2>1. /\ UNCHANGED <<late, pool, shut, futures, wpc>>
        /\ cpc' = cpc \/ cpc' = "join"
    BY <1>4 DEF StartShutdown, DrainSlot, vars
  <2>2. Unresolved(pool)' = Unresolved(pool)
    BY <2>1 DEF Unresolved
  <2>3. QED
    BY <2>1, <2>2 DEF CloseInv
<1>5. CASE Join
  <2>1. cpc' = "drain" /\ late' = (wpc # "done") /\ wpc' = wpc
    BY <1>5 DEF Join
  <2>2. QED
    BY <2>1 DEF CloseInv
<1>6. CASE ShutPool
  <2>1. /\ cpc = "drain" /\ cpc' = "wait" /\ shut' = shut \cup {pool}
        /\ UNCHANGED <<late, pool, wpc>>
    BY <1>6 DEF ShutPool
  <2>2. QED
    BY <2>1 DEF CloseInv
<1>7. CASE PoolJoined
  <2>1. /\ cpc = "wait" /\ cpc' = "closed" /\ \A g \in shut : Unresolved(g) = {}
        /\ UNCHANGED <<late, pool, wpc, shut, futures>>
    BY <1>7 DEF PoolJoined
  <2>2. Unresolved(pool)' = Unresolved(pool)
    BY <2>1 DEF Unresolved
  <2>3. QED
    BY <2>1, <2>2 DEF CloseInv
<1>8. QED
  BY NextCases, <1>1, <1>2, <1>3, <1>4, <1>5, <1>6, <1>7

LEMMA CloseInvariant == Spec => [](Covered /\ PoolInv /\ CloseInv)
  BY CoveredInit, CoveredStep, PoolInit, PoolStep, CloseInit, CloseStep,
     TypeInvariant, NumberInvariant, PTL DEF Spec

LEMMA CloseFinishes ==
  TypeInv /\ NumberInv /\ DiskMatches /\ Covered /\ PoolInv /\ CloseInv => CleanCloseFinishes
<1> SUFFICES ASSUME TypeInv, NumberInv, DiskMatches, Covered, PoolInv, CloseInv,
                    cpc = "closed", ~late
             PROVE  /\ processed = received
                    /\ \A f \in DOMAIN futures : futures[f].st \notin {"pending", "written"}
                    /\ (errors = 0 /\ Answered /\ FailedBatches = {}) =>
                         \A e \in 1..received : disk[e] = 1
  BY DEF CleanCloseFinishes
<1>0. /\ futures \in Seq(FutureType) /\ processed \in Nat /\ received \in 0..MaxEvents
      /\ pool \in Nat \ {0} /\ MaxEvents \in Nat
  BY PooledAssumption DEF TypeInv, FutureTypes, BufferTypes, PoolTypes
<1>1. wpc = "done" /\ Unresolved(pool) = {}
  BY DEF CloseInv
<1>2. processed = received
  <2>1. sending = <<>> /\ batch = <<>> /\ Len(<<>>) = 0
    BY <1>1 DEF NumberInv, Numbered
  <2>2. QED
    BY <1>0, <2>1 DEF NumberInv, Numbered
<1>3. ASSUME NEW f \in DOMAIN futures PROVE futures[f].st \notin {"pending", "written"}
  <2>1. futures[f].pool = pool \/ futures[f].pool \in 1..(pool - 1)
    BY <1>0 DEF PoolInv
  <2>2. QED
    BY <1>1, <2>1 DEF PoolInv, Unresolved
<1>4. ASSUME errors = 0, Answered, FailedBatches = {}, NEW e \in 1..received PROVE disk[e] = 1
  <2>1. PICK f \in DOMAIN futures : \E i \in DOMAIN futures[f].events : futures[f].events[i] = e
    BY <1>2, <1>4 DEF Covered
  <2>2. PICK i \in DOMAIN futures[f].events : futures[f].events[i] = e
    BY <2>1
  <2>3. futures[f].st = "ok"
    BY <1>4 DEF Answered, FailedBatches
  <2>4. futures[f].pos = Len(futures[f].events)
    BY <2>3 DEF Covered
  <2>5. DOMAIN futures[f].events = 1..Len(futures[f].events)
    <3>1. \A r \in FutureType : r.events \in Seq(Nat)
      BY DEF FutureType
    <3>2. futures[f].events \in Seq(Nat)
      BY <1>0, <3>1
    <3>3. QED
      BY <3>2
  <2>6. Written(e)
    BY <2>2, <2>4, <2>5 DEF Written
  <2>7. e \in 1..MaxEvents
    BY <1>0, <1>4
  <2>8. QED
    BY <2>6, <2>7 DEF DiskMatches
<1>5. QED
  BY <1>2, <1>3, <1>4

(* A close() whose worker had stopped in time leaves no write under way in *)
(* any pool it ever made, and nothing is missing from disk except what a   *)
(* failed or refused batch took with it (worker.py, _shutdown;             *)
(* pool_writer.py, close): older pools were broken before they were        *)
(* replaced, and the last one was waited for.                              *)
THEOREM CloseIsClean == Spec => []CleanCloseFinishes
  BY CloseFinishes, CloseInvariant, TypeInvariant, NumberInvariant, DiskInvariant, PTL
=============================================================================
