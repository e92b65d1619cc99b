----------------------- MODULE PipelineShutdownProofs -----------------------
(***************************************************************************)
(* What a shutdown of module Pipeline guarantees: a clean one leaves       *)
(* nothing behind, and only a join that timed out closes the backend under *)
(* the worker.                                                             *)
(***************************************************************************)
EXTENDS PipelineOrderProofs

-----------------------------------------------------------------------------
(* Who may close the backend.  A caller past the join either saw the       *)
(* worker end or is marked late; a late caller that has returned stays so. *)

LateReturn == \E c \in Closers : cpc[c] = "returned" /\ outcome[c] = "late"

CloseInv ==
  /\ \A c \in Closers : cpc[c] \in {"flush", "close"} /\ outcome[c] # "late" => wpc = "done"
  /\ ~open => wpc = "done" \/ LateReturn
  /\ processed # Len(written) => LateReturn

(* A step of the worker or of a producer that keeps the log and the count. *)
LEMMA CloseKept ==
  ASSUME CloseInv, wpc = "done" => wpc' = "done",
         UNCHANGED <<cpc, outcome, open, processed, written>>
  PROVE  CloseInv'
<1>1. LateReturn' <=> LateReturn
  BY DEF LateReturn
<1> QED
  BY <1>1 DEF CloseInv

LEMMA CloseStep == TypeOK /\ CloseInv /\ [Next]_vars => CloseInv'
<1> SUFFICES ASSUME TypeOK, CloseInv, [Next]_vars PROVE CloseInv'
  OBVIOUS
<1>0. /\ processed \in Nat /\ written \in Seq(Nat) /\ inhand \in Nat
      /\ cpc \in [Closers -> {"idle", "claim", "sentinel", "join", "flush", "close", "returned"}]
      /\ outcome \in [Closers -> {"none", "noop", "clean", "late", "failed"}]
  BY DEF TypeOK
<1> USE DEF queueVars, workerVars, closerVars, storageVars
<1>1. ASSUME NEW p \in Producers, EnterPut(p) \/ EvictOldest(p) \/ PutItem(p) \/ PublishDepth(p)
      PROVE  CloseInv'
  BY <1>1, CloseKept DEF EnterPut, EvictOldest, PutItem, PublishDepth
<1>2. CASE GetEvent
  BY <1>2, CloseKept DEF GetEvent
<1>3. CASE IdleFlush
  BY <1>3, CloseKept DEF IdleFlush, FlushStorage
<1>4. CASE WriteReturns
  <2>1. UNCHANGED <<cpc, outcome, open>> /\ wpc = "write" /\ wpc' = "get" /\ processed' = processed + 1
    BY <1>4 DEF WriteReturns
  <2>2. LateReturn' <=> LateReturn
    BY <2>1 DEF LateReturn
  <2>3. CASE open
    <3>1. Len(written') = Len(written) + 1 /\ Len(written) \in Nat
      BY <1>0, <1>4, <2>3, AppendFacts DEF WriteReturns
    <3> QED
      BY <1>0, <2>1, <2>2, <2>3, <3>1 DEF CloseInv
  <2>4. CASE ~open
    BY <2>1, <2>2, <2>4 DEF CloseInv
  <2> QED
    BY <2>3, <2>4
<1>5. CASE WriteRaises
  BY <1>5, CloseKept DEF WriteRaises
<1>6. CASE CooldownEnds
  BY <1>6, CloseKept DEF CooldownEnds
<1>7. CASE FinalFlush
  BY <1>7, CloseKept DEF FinalFlush, FlushStorage
<1>8. ASSUME NEW c \in Closers,
             \/ CheckRunning(c) \/ ClearRunning(c) \/ PutSentinel(c) \/ SentinelTimeout(c)
             \/ WorkerJoined(c) \/ JoinTimeout(c) \/ ShutdownFlush(c) \/ ShutdownRaises(c)
      PROVE  CloseInv'
  <2>1. UNCHANGED <<wpc, open, processed, written>>
    BY <1>8 DEF CheckRunning, ClearRunning, PutSentinel, SentinelTimeout, WorkerJoined,
                JoinTimeout, ShutdownFlush, ShutdownRaises
  <2>2. /\ cpc[c] # "returned"
        /\ \A d \in Closers : d # c => cpc'[d] = cpc[d] /\ outcome'[d] = outcome[d]
    BY <1>0, <1>8 DEF CheckRunning, ClearRunning, PutSentinel, SentinelTimeout, WorkerJoined,
                JoinTimeout, ShutdownFlush, ShutdownRaises, Goto, Ends
  <2>3. LateReturn => LateReturn'
    BY <2>2 DEF LateReturn
  <2>4. cpc'[c] \in {"flush", "close"} /\ outcome'[c] # "late" => wpc' = "done"
    <3>1. CASE CheckRunning(c) \/ ClearRunning(c) \/ PutSentinel(c) \/ SentinelTimeout(c)
               \/ ShutdownRaises(c)
      BY <1>0, <3>1 DEF CheckRunning, ClearRunning, PutSentinel, SentinelTimeout,
                        ShutdownRaises, Goto, Ends
    <3>2. CASE WorkerJoined(c)
      BY <3>2 DEF WorkerJoined
    <3>3. CASE JoinTimeout(c)
      BY <1>0, <3>3 DEF JoinTimeout, Goto, Ends
    <3>4. CASE ShutdownFlush(c)
      BY <1>0, <2>1, <3>4 DEF ShutdownFlush, Goto, CloseInv
    <3> QED
      BY <1>8, <3>1, <3>2, <3>3, <3>4
  <2> QED
    BY <2>1, <2>2, <2>3, <2>4 DEF CloseInv
<1>9. ASSUME NEW c \in Closers, ShutdownClose(c) PROVE CloseInv'
  <2>1. /\ UNCHANGED <<wpc, processed, written>>
        /\ cpc[c] = "close" /\ cpc'[c] = "returned"
        /\ outcome'[c] = (IF outcome[c] = "late" THEN "late" ELSE "clean")
        /\ \A d \in Closers : d # c => cpc'[d] = cpc[d] /\ outcome'[d] = outcome[d]
    BY <1>0, <1>9 DEF ShutdownClose, Goto, Ends
  <2>2. LateReturn => LateReturn'
    BY <2>1 DEF LateReturn
  <2>3. wpc = "done" \/ LateReturn'
    BY <2>1 DEF CloseInv, LateReturn
  <2> QED
    BY <2>1, <2>2, <2>3 DEF CloseInv
<1>10. CASE UNCHANGED vars
  BY <1>10, CloseKept DEF vars
<1> QED
  BY NextCases, <1>1, <1>2, <1>3, <1>4, <1>5, <1>6, <1>7, <1>8, <1>9, <1>10

LEMMA CloseInit == Init => CloseInv
  BY DEF Init, CloseInv

LEMMA CloseCorrect == Spec => []CloseInv
<1>1. Spec => []TypeOK
  BY TypeCorrect
<1> QED
  BY <1>1, CloseInit, CloseStep, PTL DEF Spec

(* The backend is closed under a live worker, or takes events it throws    *)
(* away, only after a join of shutdown timed out.                          *)
THEOREM CloseTheorem == Spec => []ClosedUnderWorkerOnlyIfLate
<1>1. CloseInv => ClosedUnderWorkerOnlyIfLate
  BY DEF CloseInv, LateReturn, ClosedUnderWorkerOnlyIfLate
<1> QED
  BY <1>1, CloseCorrect, PTL
-----------------------------------------------------------------------------
(* What waits behind a sentinel.                                           *)

(* Every event behind a sentinel of s is newer than b. *)
Barred(s, b) ==
  \A i, j \in 1..Len(s) : i < j /\ s[i] = Sentinel /\ s[j] # Sentinel => b < s[j]

NoSentinel(s) == \A i \in 1..Len(s) : s[i] # Sentinel

Stopped == wpc \in {"final", "done"}

DrainInv ==
  /\ Barred(q, barrier) /\ barrier <= enqueued
  /\ sentinels = 0 => NoSentinel(q) /\ ~Stopped
  /\ Stopped => \A e \in Events(q) : barrier < e

LEMMA BarredTail ==
  ASSUME NEW s \in Seq(Nat), NEW b \in Nat, s # <<>>, Barred(s, b)
  PROVE  /\ Barred(Tail(s), b)
         /\ NoSentinel(s) => NoSentinel(Tail(s)) /\ Head(s) # Sentinel
         /\ Head(s) = Sentinel => \A e \in Events(Tail(s)) : b < e
<1> DEFINE t == Tail(s)
<1>1. /\ t \in Seq(Nat) /\ Len(s) \in Nat \ {0} /\ Len(t) = Len(s) - 1
      /\ Head(s) = s[1]
      /\ \A i \in 1..Len(t) : t[i] = s[i + 1]
  BY TailFacts
<1> HIDE DEF t
<1>2. 1 \in 1..Len(s) /\ \A i \in 1..Len(t) : i + 1 \in 1..Len(s) /\ 1 < i + 1
  BY <1>1
<1>3. Barred(t, b)
  <2> SUFFICES ASSUME NEW i \in 1..Len(t), NEW j \in 1..Len(t), i < j,
                      t[i] = Sentinel, t[j] # Sentinel
               PROVE  b < t[j]
    BY DEF Barred
  <2>1. i + 1 < j + 1
    BY <1>1
  <2> QED
    BY <1>1, <1>2, <2>1 DEF Barred
<1>4. NoSentinel(s) => NoSentinel(t) /\ Head(s) # Sentinel
  BY <1>1, <1>2 DEF NoSentinel
<1>5. ASSUME Head(s) = Sentinel, NEW e \in Events(t) PROVE b < e
  <2>1. PICK i \in 1..Len(t) : e = t[i] /\ e # Sentinel
    BY <1>1, EventsFacts DEF Sentinel
  <2> QED
    BY <1>1, <1>2, <1>5, <2>1 DEF Barred
<1> QED
  BY <1>3, <1>4, <1>5 DEF t

LEMMA BarredAppend ==
  ASSUME NEW s \in Seq(Nat), NEW b \in Nat, NEW e \in Nat, Barred(s, b),
         e = Sentinel \/ b < e
  PROVE  Barred(Append(s, e), b)
<1> DEFINE t == Append(s, e)
<1>1. /\ t \in Seq(Nat) /\ Len(s) \in Nat /\ Len(t) = Len(s) + 1
      /\ \A i \in 1..Len(s) : t[i] = s[i]
      /\ t[Len(s) + 1] = e
  BY AppendFacts
<1> HIDE DEF t
<1> SUFFICES ASSUME NEW i \in 1..Len(t), NEW j \in 1..Len(t), i < j,
                    t[i] = Sentinel, t[j] # Sentinel
             PROVE  b < t[j]
  BY DEF Barred, t
<1>2. Len(s) \in Nat /\ Len(t) = Len(s) + 1
  BY <1>1
<1>3. i \in 1..Len(s) /\ (j \in 1..Len(s) \/ j = Len(s) + 1)
  BY <1>2
<1>4. CASE j \in 1..Len(s)
  BY <1>1, <1>3, <1>4 DEF Barred
<1>5. CASE j = Len(s) + 1
  BY <1>1, <1>5
<1> QED
  BY <1>3, <1>4, <1>5

LEMMA NoSentinelFacts ==
  ASSUME NEW s \in Seq(Nat), NoSentinel(s), NEW b \in Nat
  PROVE  /\ Barred(s, b)
         /\ \A e \in Nat \ {Sentinel} : NoSentinel(Append(s, e))
<1>1. Barred(s, b)
  BY DEF Barred, NoSentinel
<1>2. ASSUME NEW e \in Nat \ {Sentinel} PROVE NoSentinel(Append(s, e))
  <2>1. /\ Len(s) \in Nat /\ Len(Append(s, e)) = Len(s) + 1
        /\ \A i \in 1..Len(s) : Append(s, e)[i] = s[i]
        /\ Append(s, e)[Len(s) + 1] = e
    BY AppendFacts
  <2>2. \A i \in 1..(Len(s) + 1) : i \in 1..Len(s) \/ i = Len(s) + 1
    BY <2>1
  <2> QED
    BY <2>1, <2>2 DEF NoSentinel
<1> QED
  BY <1>1, <1>2

LEMMA DrainStep == TypeOK /\ DrainInv /\ [Next]_vars => DrainInv'
<1> SUFFICES ASSUME TypeOK, DrainInv, [Next]_vars PROVE DrainInv'
  OBVIOUS
<1>0. /\ q \in Seq(Nat) /\ enqueued \in Nat /\ sentinels \in Nat /\ barrier \in Nat
      /\ Barred(q, barrier) /\ barrier <= enqueued
  BY DEF TypeOK, DrainInv
<1> USE DEF queueVars, workerVars, closerVars, storageVars
<1>1. ASSUME UNCHANGED <<enqueued, barrier, sentinels>>, Stopped' <=> Stopped,
             q' = q \/ (q # <<>> /\ q' = Tail(q))
      PROVE  DrainInv'
  <2>1. Barred(q', barrier) /\ (NoSentinel(q) => NoSentinel(q')) /\ Events(q') \subseteq Events(q)
    BY <1>0, <1>1, BarredTail, EventsTail
  <2> QED
    BY <1>1, <2>1 DEF DrainInv
<1>2. ASSUME NEW p \in Producers, EvictOldest(p) PROVE DrainInv'
  <2>1. UNCHANGED <<enqueued, barrier, sentinels, wpc>> /\ (q' = q \/ (q # <<>> /\ q' = Tail(q)))
    BY <1>2 DEF EvictOldest
  <2> QED
    BY <1>1, <2>1 DEF Stopped
<1>3. ASSUME NEW p \in Producers, PutItem(p) PROVE DrainInv'
  <2>1. UNCHANGED <<barrier, sentinels, wpc>>
    BY <1>3 DEF PutItem
  <2>2. CASE UNCHANGED <<q, enqueued>>
    BY <1>1, <2>1, <2>2 DEF Stopped
  <2>3. CASE q' = Append(q, enqueued + 1) /\ enqueued' = enqueued + 1
    <3>1. /\ q' = Append(q, enqueued') /\ enqueued' \in Nat \ {Sentinel}
          /\ barrier < enqueued'
      BY <1>0, <2>3 DEF Sentinel
    <3>2. /\ Barred(q', barrier)
          /\ NoSentinel(q) => NoSentinel(q')
          /\ Events(q') \subseteq Events(q) \cup {enqueued'}
      <4>1. Barred(Append(q, enqueued'), barrier)
        BY <1>0, <3>1, BarredAppend
      <4>2. NoSentinel(q) => NoSentinel(Append(q, enqueued'))
        BY <1>0, <3>1, NoSentinelFacts
      <4>3. Events(Append(q, enqueued')) \subseteq Events(q) \cup {enqueued'}
        BY <1>0, <3>1, EventsAppend
      <4> QED
        BY <3>1, <4>1, <4>2, <4>3
    <3>3. Stopped' <=> Stopped
      BY <2>1 DEF Stopped
    <3>4. barrier' <= enqueued'
      BY <1>0, <2>1, <3>1
    <3> QED
      BY <2>1, <3>1, <3>2, <3>3, <3>4 DEF DrainInv
  <2> QED
    BY <1>3, <2>2, <2>3 DEF PutItem
<1>4. CASE GetEvent
  <2>1. /\ UNCHANGED <<enqueued, barrier, sentinels>> /\ wpc = "get"
        /\ q # <<>> /\ q' = Tail(q)
    BY <1>4 DEF GetEvent
  <2>2. CASE Head(q) # Sentinel /\ wpc' = "write"
    BY <1>1, <2>1, <2>2 DEF Stopped
  <2>3. CASE Head(q) = Sentinel
    BY <1>0, <2>1, <2>3, BarredTail DEF DrainInv
  <2> QED
    BY <1>4, <2>2, <2>3 DEF GetEvent
<1>5. CASE IdleFlush \/ WriteReturns \/ WriteRaises \/ CooldownEnds \/ FinalFlush
  <2>1. UNCHANGED <<q, enqueued, barrier, sentinels>>
    BY <1>5 DEF IdleFlush, WriteReturns, WriteRaises, CooldownEnds, FinalFlush
  <2>2. Stopped' <=> Stopped
    BY <1>5 DEF IdleFlush, WriteReturns, WriteRaises, CooldownEnds, FinalFlush, Stopped
  <2> QED
    BY <1>1, <2>1, <2>2
<1>6. ASSUME NEW c \in Closers, PutSentinel(c) PROVE DrainInv'
  <2>1. /\ UNCHANGED <<enqueued, wpc>> /\ q' = Append(q, Sentinel) /\ sentinels' # 0
        /\ Stopped' <=> Stopped
    BY <1>0, <1>6 DEF PutSentinel, Stopped
  <2>2. Events(q') = Events(q)
    <3>1. Sentinel \in Nat /\ {Sentinel} \ {Sentinel} = {}
      BY DEF Sentinel
    <3>2. Events(Append(q, Sentinel)) = Events(q) \cup ({Sentinel} \ {Sentinel})
      BY <1>0, <3>1, EventsAppend
    <3> QED
      BY <2>1, <3>1, <3>2
  <2>3. barrier' \in Nat /\ barrier' <= enqueued /\ Barred(q, barrier')
    BY <1>0, <1>6, NoSentinelFacts DEF PutSentinel, DrainInv
  <2>4. Barred(q', barrier')
    BY <1>0, <2>1, <2>3, BarredAppend DEF Sentinel
  <2>5. ASSUME Stopped PROVE \A e \in Events(q) : barrier' < e
    BY <1>6, <2>5 DEF PutSentinel, DrainInv
  <2> QED
    BY <2>1, <2>2, <2>3, <2>4, <2>5 DEF DrainInv
<1>7. ASSUME NEW p \in Producers, EnterPut(p) \/ PublishDepth(p)
      PROVE  UNCHANGED <<q, enqueued, barrier, sentinels, wpc>>
  BY <1>7 DEF EnterPut, PublishDepth
<1>8. ASSUME NEW c \in Closers,
             \/ CheckRunning(c) \/ ClearRunning(c) \/ SentinelTimeout(c) \/ WorkerJoined(c)
             \/ JoinTimeout(c) \/ ShutdownFlush(c) \/ ShutdownClose(c) \/ ShutdownRaises(c)
      PROVE  UNCHANGED <<q, enqueued, barrier, sentinels, wpc>>
  BY <1>8 DEF CheckRunning, ClearRunning, SentinelTimeout, WorkerJoined, JoinTimeout,
              ShutdownFlush, ShutdownClose, ShutdownRaises
<1>9. CASE UNCHANGED <<q, enqueued, barrier, sentinels, wpc>>
  BY <1>1, <1>9 DEF Stopped
<1>10. CASE UNCHANGED vars
  BY <1>9, <1>10 DEF vars
<1> QED
  BY NextCases, <1>2, <1>3, <1>4, <1>5, <1>6, <1>7, <1>8, <1>9, <1>10

LEMMA DrainInit == Init => DrainInv
  BY DEF Init, DrainInv, Barred, NoSentinel, Stopped

CleanInv ==
  /\ ~open => flushed = Len(written)
  /\ \A c \in Closers : outcome[c] = "clean" => ~open /\ wpc = "done"

LEMMA CleanStep ==
  TypeOK /\ CloseInv /\ CleanInv /\ [Next]_vars => CleanInv'
<1> SUFFICES ASSUME TypeOK, CloseInv, CleanInv, [Next]_vars PROVE CleanInv'
  OBVIOUS
<1>0. /\ cpc \in [Closers -> {"idle", "claim", "sentinel", "join", "flush", "close", "returned"}]
      /\ outcome \in [Closers -> {"none", "noop", "clean", "late", "failed"}]
  BY DEF TypeOK
<1> USE DEF queueVars, workerVars, closerVars, storageVars
<1>1. ASSUME UNCHANGED <<outcome, open>>, wpc = "done" => wpc' = "done",
             flushed' = flushed \/ open, written' = written \/ open
      PROVE  CleanInv'
  BY <1>1 DEF CleanInv
<1>2. ASSUME NEW p \in Producers, EnterPut(p) \/ EvictOldest(p) \/ PutItem(p) \/ PublishDepth(p)
      PROVE  CleanInv'
  BY <1>1, <1>2 DEF EnterPut, EvictOldest, PutItem, PublishDepth
<1>3. CASE IdleFlush
  BY <1>1, <1>3 DEF IdleFlush, FlushStorage
<1>4. CASE FinalFlush
  BY <1>1, <1>4 DEF FinalFlush, FlushStorage
<1>5. CASE WriteReturns
  BY <1>1, <1>5 DEF WriteReturns
<1>6. CASE GetEvent \/ WriteRaises \/ CooldownEnds
  BY <1>1, <1>6 DEF GetEvent, WriteRaises, CooldownEnds
<1>7. ASSUME NEW c \in Closers, ShutdownFlush(c) PROVE CleanInv'
  BY <1>1, <1>7 DEF ShutdownFlush
<1>8. ASSUME NEW c \in Closers, ShutdownClose(c) PROVE CleanInv'
  <2>1. /\ UNCHANGED <<wpc, written>> /\ open' = FALSE
        /\ flushed' = (IF open THEN Len(written) ELSE flushed)
        /\ cpc[c] = "close"
        /\ outcome'[c] = (IF outcome[c] = "late" THEN "late" ELSE "clean")
        /\ \A d \in Closers : d # c => outcome'[d] = outcome[d]
    BY <1>0, <1>8 DEF ShutdownClose, Goto, Ends
  <2>2. outcome'[c] = "clean" => wpc = "done"
    BY <2>1 DEF CloseInv
  <2> QED
    BY <2>1, <2>2 DEF CleanInv
<1>9. ASSUME NEW c \in Closers, ClearRunning(c) \/ PutSentinel(c) \/ WorkerJoined(c)
      PROVE  CleanInv'
  BY <1>1, <1>9 DEF ClearRunning, PutSentinel, WorkerJoined
<1>10. ASSUME NEW c \in Closers,
              CheckRunning(c) \/ SentinelTimeout(c) \/ JoinTimeout(c) \/ ShutdownRaises(c)
       PROVE  CleanInv'
  <2>1. /\ UNCHANGED <<wpc, open, written, flushed>>
        /\ outcome'[c] # "clean" \/ outcome'[c] = outcome[c]
        /\ \A d \in Closers : d # c => outcome'[d] = outcome[d]
    BY <1>0, <1>10 DEF CheckRunning, SentinelTimeout, JoinTimeout, ShutdownRaises, Ends
  <2> QED
    BY <2>1 DEF CleanInv
<1>11. CASE UNCHANGED vars
  BY <1>1, <1>11 DEF vars
<1> QED
  BY NextCases, <1>2, <1>3, <1>4, <1>5, <1>6, <1>7, <1>8, <1>9, <1>10, <1>11

LEMMA CleanInit == Init => CleanInv
  BY DEF Init, CleanInv

(* A shutdown that returned without a timeout or an error left nothing     *)
(* behind that was accepted before its sentinel.                           *)
THEOREM DrainTheorem == Spec => []CleanShutdownDrains
<1>1. Spec => [](TypeOK /\ OrderInv) /\ []CloseInv
  BY OrderCorrect, CloseCorrect
<1>2. Spec => []DrainInv
  BY <1>1, DrainInit, DrainStep, PTL DEF Spec
<1>3. Spec => []CleanInv
  BY <1>1, CleanInit, CleanStep, PTL DEF Spec
<1>4. OrderInv /\ DrainInv /\ CleanInv => CleanShutdownDrains
  BY DEF OrderInv, InHandInv, DrainInv, CleanInv, Stopped, CleanShutdownDrains, Sentinel
<1> QED
  BY <1>1, <1>2, <1>3, <1>4, PTL
=============================================================================
