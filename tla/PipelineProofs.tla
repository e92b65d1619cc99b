--------------------------- MODULE PipelineProofs ---------------------------
(***************************************************************************)
(* Theorems about module Pipeline, for any set of producers and shutdown   *)
(* callers, any queue size, breaker threshold and number of calls.         *)
(***************************************************************************)
EXTENDS Pipeline, FiniteSetTheorems, TLAPS

(* One action at a time: what [Next]_vars stands for in the proofs below.  *)
LEMMA NextCases ==
  ASSUME [Next]_vars
  PROVE  \/ \E p \in Producers :
              EnterPut(p) \/ EvictOldest(p) \/ PutItem(p) \/ PublishDepth(p)
         \/ GetEvent \/ IdleFlush \/ WriteReturns \/ WriteRaises
         \/ CooldownEnds \/ FinalFlush
         \/ \E c \in Closers :
              \/ CheckRunning(c) \/ ClearRunning(c) \/ PutSentinel(c)
              \/ SentinelTimeout(c) \/ WorkerJoined(c) \/ JoinTimeout(c)
              \/ ShutdownFlush(c) \/ ShutdownClose(c) \/ ShutdownRaises(c)
         \/ UNCHANGED vars
  BY DEF Next, ProducerStep, WorkerStep, ShutdownStep
-----------------------------------------------------------------------------
(* What get_nowait leaves in the queue. *)
LEMMA TailFacts ==
  ASSUME NEW s \in Seq(Nat), s # <<>>
  PROVE  /\ Head(s) \in Nat /\ Head(s) = s[1] /\ Len(s) \in Nat \ {0}
         /\ Tail(s) \in Seq(Nat) /\ Len(Tail(s)) = Len(s) - 1
         /\ \A i \in 1..Len(Tail(s)) : Tail(s)[i] = s[i + 1]
  OBVIOUS

(* What an accepted put leaves in it, and a write in the backend. *)
LEMMA AppendFacts ==
  ASSUME NEW s \in Seq(Nat), NEW e \in Nat
  PROVE  /\ Append(s, e) \in Seq(Nat) /\ Len(Append(s, e)) = Len(s) + 1 /\ Len(s) \in Nat
         /\ \A i \in 1..Len(s) : Append(s, e)[i] = s[i]
         /\ Append(s, e)[Len(s) + 1] = e
  OBVIOUS
-----------------------------------------------------------------------------
(* Type correctness.  The breaker's counter stays within its threshold     *)
(* because only the cooldown may see it there.                             *)

BreakerInv == wpc # "cooldown" => consec < Threshold

TypeInv == TypeOK /\ BreakerInv

LEMMA TypeInit == Init => TypeInv
  BY PipelineAssumption DEF Init, TypeInv, TypeOK, BreakerInv

LEMMA TypeStep == TypeInv /\ [Next]_vars => TypeInv'
<1> SUFFICES ASSUME TypeInv, [Next]_vars PROVE TypeInv'
  OBVIOUS
<1> USE PipelineAssumption
        DEF TypeInv, TypeOK, BreakerInv, queueVars, workerVars, closerVars, storageVars
<1>1. ASSUME NEW p \in Producers, EnterPut(p) PROVE TypeInv'
  BY <1>1 DEF EnterPut
<1>2. ASSUME NEW p \in Producers, EvictOldest(p) PROVE TypeInv'
  <2>1. /\ q' \in Seq(Nat) /\ Len(q') <= MaxSize
        /\ dropped' \in Nat /\ depth' \in 0..MaxSize
    <3>1. CASE q # <<>> /\ q' = Tail(q) /\ dropped' = dropped + 1 /\ depth' = Len(q')
      <4>1. q' \in Seq(Nat) /\ Len(q') \in Nat /\ Len(q') <= Len(q)
        BY <3>1, TailFacts
      <4> QED
        BY <3>1, <4>1
    <3>2. CASE q = <<>> /\ UNCHANGED <<q, dropped, depth>>
      BY <3>2
    <3> QED
      BY <1>2, <3>1, <3>2 DEF EvictOldest
  <2>2. ppc' \in [Producers -> {"idle", "evict", "put", "publish"}]
    BY <1>2 DEF EvictOldest
  <2> QED
    BY <1>2, <2>1, <2>2 DEF EvictOldest
<1>3. ASSUME NEW p \in Producers, PutItem(p) PROVE TypeInv'
  <2>1. /\ q' \in Seq(Nat) /\ Len(q') <= MaxSize
        /\ enqueued' \in Nat /\ lock' \in Producers \cup {Nobody}
    <3>1. CASE ~IsFull /\ q' = Append(q, enqueued + 1) /\ enqueued' = enqueued + 1 /\ lock' = lock
      <4>1. q' \in Seq(Nat) /\ Len(q') = Len(q) + 1
        BY <3>1, AppendFacts
      <4> QED
        BY <3>1, <4>1 DEF IsFull
    <3>2. CASE lock' = Nobody /\ UNCHANGED <<q, enqueued>>
      BY <3>2
    <3> QED
      BY <1>3, <3>1, <3>2 DEF PutItem
  <2>2. ppc' \in [Producers -> {"idle", "evict", "put", "publish"}]
    BY <1>3 DEF PutItem
  <2> QED
    BY <1>3, <2>1, <2>2 DEF PutItem
<1>4. ASSUME NEW p \in Producers, PublishDepth(p) PROVE TypeInv'
  BY <1>4 DEF PublishDepth
<1>5. CASE GetEvent
  BY <1>5 DEF GetEvent
<1>6. CASE IdleFlush
  BY <1>6 DEF IdleFlush, FlushStorage
<1>7. CASE WriteReturns
  BY <1>7 DEF WriteReturns
<1>8. CASE WriteRaises
  BY <1>8 DEF WriteRaises
<1>9. CASE CooldownEnds
  BY <1>9 DEF CooldownEnds
<1>10. CASE FinalFlush
  BY <1>10 DEF FinalFlush, FlushStorage
<1>11. ASSUME NEW c \in Closers, CheckRunning(c) PROVE TypeInv'
  BY <1>11 DEF CheckRunning, Goto, Ends
<1>12. ASSUME NEW c \in Closers, ClearRunning(c) PROVE TypeInv'
  BY <1>12 DEF ClearRunning, Goto
<1>13. ASSUME NEW c \in Closers, PutSentinel(c) PROVE TypeInv'
  BY <1>13 DEF PutSentinel, Goto, IsFull, Sentinel
<1>14. ASSUME NEW c \in Closers, SentinelTimeout(c) PROVE TypeInv'
  BY <1>14 DEF SentinelTimeout, Goto, Ends
<1>15. ASSUME NEW c \in Closers, WorkerJoined(c) PROVE TypeInv'
  BY <1>15 DEF WorkerJoined, Goto
<1>16. ASSUME NEW c \in Closers, JoinTimeout(c) PROVE TypeInv'
  BY <1>16 DEF JoinTimeout, Goto, Ends
<1>17. ASSUME NEW c \in Closers, ShutdownFlush(c) PROVE TypeInv'
  BY <1>17 DEF ShutdownFlush, Goto
<1>18. ASSUME NEW c \in Closers, ShutdownClose(c) PROVE TypeInv'
  <2>1. flushed' \in Nat
    BY <1>18 DEF ShutdownClose
  <2>2. /\ cpc' \in [Closers -> {"idle", "claim", "sentinel", "join", "flush", "close", "returned"}]
        /\ outcome' \in [Closers -> {"none", "noop", "clean", "late", "failed"}]
    BY <1>18 DEF ShutdownClose, Goto, Ends
  <2> QED
    BY <1>18, <2>1, <2>2 DEF ShutdownClose
<1>19. ASSUME NEW c \in Closers, ShutdownRaises(c) PROVE TypeInv'
  BY <1>19 DEF ShutdownRaises, Goto, Ends
<1>20. CASE UNCHANGED vars
  BY <1>20 DEF vars
<1> QED
  BY NextCases, <1>1, <1>2, <1>3, <1>4, <1>5, <1>6, <1>7, <1>8, <1>9, <1>10, <1>11,
     <1>12, <1>13, <1>14, <1>15, <1>16, <1>17, <1>18, <1>19, <1>20

(* Every variable keeps its type; in particular the queue never outgrows   *)
(* maxsize and the gauge and the breaker's counter stay within bounds.     *)
THEOREM TypeCorrect == Spec => []TypeOK
<1>1. Spec => []TypeInv
  BY TypeInit, TypeStep, PTL DEF Spec
<1>2. TypeInv => TypeOK
  BY DEF TypeInv
<1> QED
  BY <1>1, <1>2, PTL
-----------------------------------------------------------------------------
(* The counters of get_stats.  With the types the equation is inductive.   *)

LEMMA StatsStep == TypeOK /\ StatsAddUp /\ [Next]_vars => StatsAddUp'
<1> SUFFICES ASSUME TypeOK, StatsAddUp, [Next]_vars PROVE StatsAddUp'
  OBVIOUS
<1>0. /\ q \in Seq(Nat) /\ Len(q) \in Nat /\ enqueued \in Nat /\ dropped \in Nat
      /\ processed \in Nat /\ errors \in Nat /\ sentinels \in Nat
  BY DEF TypeOK
<1> USE DEF StatsAddUp, queueVars, workerVars, closerVars, storageVars
<1>1. ASSUME NEW p \in Producers, EvictOldest(p) PROVE StatsAddUp'
  <2>1. UNCHANGED <<enqueued, sentinels, processed, errors, wpc>>
    BY <1>1 DEF EvictOldest
  <2>2. dropped' + Len(q') = dropped + Len(q) /\ dropped' \in Nat /\ Len(q') \in Nat
    BY <1>1, <1>0, TailFacts DEF EvictOldest
  <2> QED
    BY <1>0, <2>1, <2>2
<1>2. ASSUME NEW p \in Producers, PutItem(p) PROVE StatsAddUp'
  <2>1. UNCHANGED <<dropped, sentinels, processed, errors, wpc>>
    BY <1>2 DEF PutItem
  <2>2. CASE q' = Append(q, enqueued + 1) /\ enqueued' = enqueued + 1
    <3>1. Len(q) \in Nat /\ Len(q') = Len(q) + 1
      BY <1>0, <2>2, AppendFacts
    <3> QED
      BY <1>0, <2>1, <2>2, <3>1
  <2>3. CASE UNCHANGED <<q, enqueued>>
    BY <2>1, <2>3
  <2> QED
    BY <1>2, <2>2, <2>3 DEF PutItem
<1>3. CASE GetEvent
  <2>1. Len(q) \in Nat /\ Len(q') = Len(q) - 1
    BY <1>3, <1>0, TailFacts DEF GetEvent
  <2>2. /\ UNCHANGED <<enqueued, sentinels, dropped, processed, errors>>
        /\ wpc = "get" /\ wpc' \in {"write", "final"}
    BY <1>3 DEF GetEvent
  <2> QED
    BY <1>0, <2>1, <2>2
<1>4. CASE WriteReturns \/ WriteRaises
  <2>1. /\ UNCHANGED <<q, enqueued, sentinels, dropped>> /\ wpc = "write"
        /\ wpc' = "get" \/ wpc' = "cooldown"
        /\ \/ processed' = processed + 1 /\ errors' = errors
           \/ processed' = processed /\ errors' = errors + 1
    BY <1>0, <1>4 DEF WriteReturns, WriteRaises
  <2> QED
    BY <1>0, <2>1
<1>5. CASE IdleFlush \/ CooldownEnds \/ FinalFlush
  <2>1. /\ UNCHANGED <<q, enqueued, sentinels, dropped, processed, errors>>
        /\ \/ wpc' = wpc
           \/ wpc = "cooldown" /\ wpc' = "get"
           \/ wpc = "final" /\ wpc' = "done"
    BY <1>5 DEF IdleFlush, CooldownEnds, FinalFlush
  <2> QED
    BY <1>0, <2>1
<1>6. ASSUME NEW c \in Closers, PutSentinel(c) PROVE StatsAddUp'
  <2>1. Len(q) \in Nat /\ Len(q') = Len(q) + 1
    BY <1>6, <1>0, AppendFacts DEF PutSentinel, Sentinel
  <2>2. /\ UNCHANGED <<enqueued, dropped, processed, errors, wpc>>
        /\ sentinels' = sentinels + 1
    BY <1>6 DEF PutSentinel
  <2> QED
    BY <1>0, <2>1, <2>2
<1>7. ASSUME NEW p \in Producers, EnterPut(p) \/ PublishDepth(p) PROVE StatsAddUp'
  BY <1>7 DEF EnterPut, PublishDepth
<1>8. ASSUME NEW c \in Closers,
             \/ CheckRunning(c) \/ ClearRunning(c) \/ SentinelTimeout(c) \/ WorkerJoined(c)
             \/ JoinTimeout(c) \/ ShutdownFlush(c) \/ ShutdownClose(c) \/ ShutdownRaises(c)
      PROVE  StatsAddUp'
  BY <1>8 DEF CheckRunning, ClearRunning, SentinelTimeout, WorkerJoined, JoinTimeout,
              ShutdownFlush, ShutdownClose, ShutdownRaises
<1>9. CASE UNCHANGED vars
  BY <1>9 DEF vars
<1> QED
  BY NextCases, <1>1, <1>2, <1>3, <1>4, <1>5, <1>6, <1>7, <1>8, <1>9

(* No event is lost or counted twice between put_nowait, get_nowait, the   *)
(* worker and the sentinels, whatever the interleaving.                    *)
THEOREM StatsCorrect == Spec => []StatsAddUp
<1>1. Init => StatsAddUp
  BY DEF Init, StatsAddUp
<1>2. Spec => []TypeOK
  BY TypeCorrect
<1> QED
  BY <1>1, <1>2, StatsStep, PTL DEF Spec
-----------------------------------------------------------------------------
(* The gauge.  Whoever is past the check in put_nowait holds _lock, and    *)
(* until it has put its event the gauge covers what waits in the queue:    *)
(* the worker only takes, and a sentinel is no event.                      *)

Places(s) == {i \in DOMAIN s : s[i] # Sentinel}

LockInv == \A p \in Producers : ppc[p] # "idle" => lock = p

GaugeInv == (\A p \in Producers : ppc[p] # "publish") => Cardinality(Places(q)) <= depth

LEMMA PlacesFacts ==
  ASSUME NEW s \in Seq(Nat)
  PROVE  /\ Cardinality(Places(s)) \in Nat /\ Cardinality(Places(s)) <= Len(s)
         /\ s # <<>> => Cardinality(Places(Tail(s))) <= Cardinality(Places(s))
         /\ Places(Append(s, Sentinel)) = Places(s)
<1>1. ASSUME NEW t \in Seq(Nat)
      PROVE  /\ IsFiniteSet(Places(t)) /\ Cardinality(Places(t)) \in Nat
             /\ Cardinality(Places(t)) <= Len(t)
  <2>1. Len(t) \in Nat /\ Places(t) \subseteq 1..Len(t)
    BY DEF Places
  <2>2. IsFiniteSet(1..Len(t)) /\ Cardinality(1..Len(t)) = Len(t)
    <3>1. \A n \in Nat : /\ IsFiniteSet(1..n)
                         /\ Cardinality(1..n) = IF 1 > n THEN 0 ELSE n - 1 + 1
      BY FS_Interval
    <3>2. \A n \in Nat : Cardinality(1..n) = n
      BY <3>1
    <3>3. QED
      BY <2>1, <3>1, <3>2
  <2>3. QED
    BY <2>1, <2>2, FS_Subset, FS_CardinalityType
<1>2. ASSUME s # <<>> PROVE Cardinality(Places(Tail(s))) <= Cardinality(Places(s))
  <2> DEFINE shift == [i \in Places(Tail(s)) |-> i + 1]
  <2>1. /\ Tail(s) \in Seq(Nat) /\ Len(Tail(s)) = Len(s) - 1 /\ Len(s) \in Nat
        /\ \A i \in 1..Len(Tail(s)) : Tail(s)[i] = s[i + 1]
    BY <1>2, TailFacts
  <2>2. \A i \in Places(Tail(s)) : i \in Nat /\ i + 1 \in Places(s)
    BY <2>1 DEF Places
  <2>3. shift \in Injection(Places(Tail(s)), Places(s))
    BY <2>2 DEF Injection, IsInjective
  <2>4. QED
    BY <1>1, <2>3, FS_Injection
<1>3. Places(Append(s, Sentinel)) = Places(s)
  BY DEF Places, Sentinel
<1>4. QED
  BY <1>1, <1>2, <1>3

LEMMA LockStep == TypeOK /\ LockInv /\ [Next]_vars => LockInv'
<1> SUFFICES ASSUME TypeOK, LockInv, [Next]_vars PROVE LockInv'
  OBVIOUS
<1>0. ppc \in [Producers -> {"idle", "evict", "put", "publish"}]
  BY DEF TypeOK
<1>1. ASSUME NEW p \in Producers,
             EnterPut(p) \/ EvictOldest(p) \/ PutItem(p) \/ PublishDepth(p)
      PROVE  LockInv'
  <2>1. /\ \A o \in Producers \ {p} : ppc'[o] = ppc[o]
        /\ lock' = p \/ (lock' = lock /\ ppc[p] # "idle") \/ (ppc'[p] = "idle" /\ ppc[p] # "idle")
    BY <1>0, <1>1 DEF EnterPut, EvictOldest, PutItem, PublishDepth
  <2>2. \A o \in Producers \ {p} : ppc[o] = "idle"
    BY <1>1, PipelineAssumption DEF LockInv, EnterPut, EvictOldest, PutItem, PublishDepth
  <2>3. QED
    BY <2>1, <2>2 DEF LockInv
<1>2. CASE \/ GetEvent \/ IdleFlush \/ WriteReturns \/ WriteRaises \/ CooldownEnds \/ FinalFlush
           \/ \E c \in Closers :
                \/ CheckRunning(c) \/ ClearRunning(c) \/ PutSentinel(c)
                \/ SentinelTimeout(c) \/ WorkerJoined(c) \/ JoinTimeout(c)
                \/ ShutdownFlush(c) \/ ShutdownClose(c) \/ ShutdownRaises(c)
           \/ UNCHANGED vars
  <2>1. UNCHANGED <<lock, ppc>>
    BY <1>2 DEF GetEvent, IdleFlush, WriteReturns, WriteRaises, CooldownEnds, FinalFlush,
         CheckRunning, ClearRunning, PutSentinel, SentinelTimeout, WorkerJoined, JoinTimeout,
         ShutdownFlush, ShutdownClose, ShutdownRaises, vars, queueVars
  <2>2. QED
    BY <2>1 DEF LockInv
<1>3. QED
  BY NextCases, <1>1, <1>2

LEMMA GaugeStep == TypeOK /\ LockInv /\ GaugeInv /\ [Next]_vars => GaugeInv'
<1> SUFFICES ASSUME TypeOK, LockInv, GaugeInv, [Next]_vars PROVE GaugeInv'
  OBVIOUS
<1>0. /\ q \in Seq(Nat) /\ depth \in Nat /\ Cardinality(Places(q)) \in Nat
      /\ ppc \in [Producers -> {"idle", "evict", "put", "publish"}]
  BY PlacesFacts, PipelineAssumption DEF TypeOK
<1>1. ASSUME NEW p \in Producers, EnterPut(p) PROVE GaugeInv'
  <2>1. UNCHANGED <<q, depth>> /\ \A o \in Producers : ppc[o] = "publish" => ppc'[o] = "publish"
    BY <1>0, <1>1, PipelineAssumption DEF EnterPut
  <2>2. QED
    BY <2>1 DEF GaugeInv
<1>2. ASSUME NEW p \in Producers, EvictOldest(p) PROVE GaugeInv'
  <2>1. \A o \in Producers : ppc[o] # "publish"
    BY <1>2, PipelineAssumption DEF LockInv, EvictOldest
  <2>2. CASE q # <<>> /\ q' = Tail(q) /\ depth' = Len(q')
    <3>1. q' \in Seq(Nat)
      BY <1>0, <2>2, TailFacts
    <3>2. Cardinality(Places(q')) <= Len(q')
      BY <3>1, PlacesFacts
    <3>3. QED
      BY <2>2, <3>2 DEF GaugeInv
  <2>3. CASE UNCHANGED <<q, depth>>
    BY <2>1, <2>3 DEF GaugeInv
  <2>4. QED
    BY <1>2, <2>2, <2>3 DEF EvictOldest
<1>3. ASSUME NEW p \in Producers, PutItem(p) PROVE GaugeInv'
  <2>1. CASE ppc'[p] = "publish"
    BY <2>1 DEF GaugeInv
  <2>2. CASE UNCHANGED <<q, depth>> /\ ppc' = [ppc EXCEPT ![p] = "idle"]
    <3>1. \A o \in Producers : ppc[o] # "publish"
      BY <1>3, PipelineAssumption DEF LockInv, PutItem
    <3>2. QED
      BY <2>2, <3>1 DEF GaugeInv
  <2>3. QED
    BY <1>0, <1>3, <2>1, <2>2 DEF PutItem
<1>4. ASSUME NEW p \in Producers, PublishDepth(p) PROVE GaugeInv'
  <2>1. q' = q /\ depth' = Len(q)
    BY <1>4 DEF PublishDepth
  <2>2. QED
    BY <1>0, <2>1, PlacesFacts DEF GaugeInv
<1>5. CASE GetEvent
  <2>1. q # <<>> /\ q' = Tail(q) /\ UNCHANGED <<depth, ppc>>
    BY <1>5 DEF GetEvent
  <2>2. /\ Cardinality(Places(q')) <= Cardinality(Places(q))
        /\ Cardinality(Places(q')) \in Nat
    BY <1>0, <2>1, TailFacts, PlacesFacts
  <2>3. QED
    BY <1>0, <2>1, <2>2 DEF GaugeInv
<1>6. ASSUME NEW c \in Closers, PutSentinel(c) PROVE GaugeInv'
  <2>1. q' = Append(q, Sentinel) /\ UNCHANGED <<depth, ppc>>
    BY <1>6 DEF PutSentinel
  <2>2. Places(q') = Places(q)
    BY <1>0, <2>1, PlacesFacts
  <2>3. QED
    BY <2>1, <2>2 DEF GaugeInv
<1>7. CASE \/ IdleFlush \/ WriteReturns \/ WriteRaises \/ CooldownEnds \/ FinalFlush
           \/ \E c \in Closers :
                \/ CheckRunning(c) \/ ClearRunning(c)
                \/ SentinelTimeout(c) \/ WorkerJoined(c) \/ JoinTimeout(c)
                \/ ShutdownFlush(c) \/ ShutdownClose(c) \/ ShutdownRaises(c)
           \/ UNCHANGED vars
  <2>1. UNCHANGED <<q, depth, ppc>>
    BY <1>7 DEF IdleFlush, WriteReturns, WriteRaises, CooldownEnds, FinalFlush,
         CheckRunning, ClearRunning, SentinelTimeout, WorkerJoined, JoinTimeout,
         ShutdownFlush, ShutdownClose, ShutdownRaises, vars, queueVars
  <2>2. QED
    BY <2>1 DEF GaugeInv
<1>8. QED
  BY NextCases, <1>1, <1>2, <1>3, <1>4, <1>5, <1>6, <1>7

(* Between two put_nowait calls the queue-depth gauge is at least the       *)
(* number of events that wait in the queue, although the worker takes from  *)
(* it and sentinels enter it without _lock (core/queue.py).                 *)
THEOREM GaugeCovers == Spec => []GaugeCoversQueue
<1>1. Init => LockInv /\ GaugeInv
  <2> SUFFICES ASSUME Init PROVE LockInv /\ GaugeInv
    OBVIOUS
  <2>1. Places(q) = {} /\ depth = 0
    BY DEF Init, Places
  <2>2. Cardinality(Places(q)) <= depth
    BY <2>1, FS_EmptySet
  <2>3. QED
    BY <2>2 DEF Init, LockInv, GaugeInv
<1>2. LockInv /\ GaugeInv => GaugeCoversQueue
  <2> SUFFICES ASSUME LockInv, GaugeInv, lock = Nobody
               PROVE  Cardinality({i \in DOMAIN q : q[i] # Sentinel}) <= depth
    BY DEF GaugeCoversQueue
  <2>1. \A p \in Producers : ppc[p] # "publish"
    BY PipelineAssumption DEF LockInv
  <2>2. QED
    BY <2>1 DEF GaugeInv, Places
<1>3. QED
  BY <1>1, <1>2, LockStep, GaugeStep, TypeCorrect, PTL DEF Spec
=============================================================================
