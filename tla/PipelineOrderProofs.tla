------------------------ MODULE PipelineOrderProofs ------------------------
(***************************************************************************)
(* Order of delivery: module Pipeline writes events in the order they were *)
(* accepted and implements the drop-oldest channel of module EventChannel, *)
(* for any producers, shutdown callers, queue size and threshold.          *)
(***************************************************************************)
EXTENDS PipelineProofs

-----------------------------------------------------------------------------
(* Sequences of events and sentinels, and the events in them.              *)

Sorted(s) ==
  \A i, j \in 1..Len(s) :
     i < j /\ s[i] # Sentinel /\ s[j] # Sentinel => s[i] < s[j]

LEMMA EventsFacts ==
  ASSUME NEW s \in Seq(Nat)
  PROVE  /\ Events(s) \subseteq Nat \ {0}
         /\ \A i \in 1..Len(s) : s[i] # Sentinel => s[i] \in Events(s)
         /\ \A e \in Events(s) : \E i \in 1..Len(s) : e = s[i]
  BY DEF Events, Sentinel

LEMMA EventsAppend ==
  ASSUME NEW s \in Seq(Nat), NEW e \in Nat
  PROVE  Events(Append(s, e)) = Events(s) \cup ({e} \ {Sentinel})
<1> DEFINE t == Append(s, e)
<1>1. /\ t \in Seq(Nat) /\ Len(s) \in Nat /\ Len(t) = Len(s) + 1
      /\ \A i \in 1..Len(s) : t[i] = s[i]
      /\ t[Len(s) + 1] = e
  BY AppendFacts
<1> HIDE DEF t
<1>2. DOMAIN s = 1..Len(s) /\ DOMAIN t = 1..Len(t)
  BY <1>1
<1>3. \A x \in Events(t) : x \in Events(s) \/ x = e
  BY <1>1, <1>2 DEF Events
<1>4. \A x \in Events(s) : x \in Events(t)
  BY <1>1, <1>2 DEF Events
<1>5. e # Sentinel => e \in Events(t)
  BY <1>1, <1>2 DEF Events
<1>6. Sentinel \notin Events(s) /\ Sentinel \notin Events(t)
  BY DEF Events
<1> QED
  BY <1>3, <1>4, <1>5, <1>6 DEF t

LEMMA EventsTail ==
  ASSUME NEW s \in Seq(Nat), s # <<>>
  PROVE  Events(s) = Events(Tail(s)) \cup ({Head(s)} \ {Sentinel})
<1> DEFINE t == Tail(s)
<1>1. /\ t \in Seq(Nat) /\ Len(s) \in Nat \ {0} /\ Len(t) = Len(s) - 1
      /\ Head(s) = s[1]
      /\ \A i \in 1..Len(t) : t[i] = s[i + 1]
  BY TailFacts
<1> HIDE DEF t
<1>2. DOMAIN s = 1..Len(s) /\ DOMAIN t = 1..Len(t)
  BY <1>1
<1>3. \A x \in Events(s) : x \in Events(t) \/ x = Head(s)
  <2> SUFFICES ASSUME NEW i \in 1..Len(s), s[i] # Sentinel, i # 1
               PROVE  s[i] \in Events(t)
    BY <1>1, <1>2 DEF Events
  <2>1. i - 1 \in 1..Len(t) /\ t[i - 1] = s[i]
    BY <1>1
  <2> QED
    BY <1>2, <2>1 DEF Events
<1>4. \A x \in Events(t) : x \in Events(s)
  <2> SUFFICES ASSUME NEW i \in 1..Len(t), t[i] # Sentinel
               PROVE  t[i] \in Events(s)
    BY <1>2 DEF Events
  <2>1. i + 1 \in 1..Len(s) /\ t[i] = s[i + 1]
    BY <1>1
  <2> QED
    BY <1>2, <2>1 DEF Events
<1>5. Head(s) # Sentinel => Head(s) \in Events(s)
  <2>1. 1 \in 1..Len(s)
    BY <1>1
  <2> QED
    BY <1>1, <2>1, EventsFacts
<1>6. Sentinel \notin Events(s) /\ Sentinel \notin Events(t)
  BY DEF Events
<1> QED
  BY <1>3, <1>4, <1>5, <1>6 DEF t

LEMMA SortedTail ==
  ASSUME NEW s \in Seq(Nat), s # <<>>, Sorted(s)
  PROVE  /\ Sorted(Tail(s))
         /\ Head(s) # Sentinel => \A e \in Events(Tail(s)) : Head(s) < e
<1> DEFINE t == Tail(s)
<1>1. /\ t \in Seq(Nat) /\ Len(s) \in Nat \ {0} /\ Len(t) = Len(s) - 1
      /\ Head(s) = s[1]
      /\ \A i \in 1..Len(t) : t[i] = s[i + 1]
  BY TailFacts
<1> HIDE DEF t
<1>2. \A i \in 1..Len(t) : i + 1 \in 1..Len(s) /\ 1 < i + 1 /\ 1 \in 1..Len(s)
  BY <1>1
<1>3. Sorted(t)
  <2> SUFFICES ASSUME NEW i \in 1..Len(t), NEW j \in 1..Len(t), i < j,
                      t[i] # Sentinel, t[j] # Sentinel
               PROVE  t[i] < t[j]
    BY DEF Sorted
  <2>1. i + 1 < j + 1
    BY <1>1
  <2> QED
    BY <1>1, <1>2, <2>1 DEF Sorted
<1>4. ASSUME Head(s) # Sentinel, NEW e \in Events(t) PROVE Head(s) < e
  <2>1. PICK i \in 1..Len(t) : e = t[i] /\ e # Sentinel
    BY <1>1, EventsFacts DEF Sentinel
  <2> QED
    BY <1>1, <1>2, <1>4, <2>1 DEF Sorted
<1> QED
  BY <1>3, <1>4 DEF t

LEMMA SortedAppend ==
  ASSUME NEW s \in Seq(Nat), NEW e \in Nat, Sorted(s),
         e # Sentinel => \A x \in Events(s) : x < e
  PROVE  Sorted(Append(s, e))
<1> DEFINE t == Append(s, e)
<1>1. /\ t \in Seq(Nat) /\ Len(s) \in Nat /\ Len(t) = Len(s) + 1
      /\ \A i \in 1..Len(s) : t[i] = s[i]
      /\ t[Len(s) + 1] = e
  BY AppendFacts
<1> HIDE DEF t
<1> SUFFICES ASSUME NEW i \in 1..Len(t), NEW j \in 1..Len(t), i < j,
                    t[i] # Sentinel, t[j] # Sentinel
             PROVE  t[i] < t[j]
  BY DEF Sorted, t
<1>2. i \in 1..Len(s) /\ t[i] = s[i]
  BY <1>1
<1>3. CASE j \in 1..Len(s)
  BY <1>1, <1>2, <1>3 DEF Sorted
<1>4. CASE j = Len(s) + 1
  <2>1. t[j] = e /\ e # Sentinel
    BY <1>1, <1>4
  <2>2. s[i] \in Events(s)
    BY <1>2, EventsFacts
  <2> QED
    BY <1>2, <2>1, <2>2
<1>5. j \in 1..Len(s) \/ j = Len(s) + 1
  <2>1. Len(s) \in Nat /\ Len(t) = Len(s) + 1
    BY <1>1
  <2> QED
    BY <2>1
<1> QED
  BY <1>3, <1>4, <1>5

(* What DropOldest and Take call the oldest is the head of a sorted queue. *)
LEMMA HeadIsOldest ==
  ASSUME NEW s \in Seq(Nat), s # <<>>, Sorted(s), Head(s) # Sentinel
  PROVE  /\ Channel!Oldest(Events(s)) = Head(s)
         /\ Events(Tail(s)) = Events(s) \ {Head(s)}
<1>1. Events(s) = Events(Tail(s)) \cup {Head(s)}
  <2>1. {Head(s)} \ {Sentinel} = {Head(s)}
    OBVIOUS
  <2> QED
    BY <2>1, EventsTail
<1>2. Head(s) \in Nat /\ Events(Tail(s)) \subseteq Nat
  BY TailFacts, EventsFacts
<1>3. \A e \in Events(Tail(s)) : Head(s) < e
  BY SortedTail
<1>4. \A e \in Events(s) : Head(s) <= e
  BY <1>1, <1>2, <1>3
<1>5. \A x \in Events(s) : (\A e \in Events(s) : x <= e) => x = Head(s)
  <2> SUFFICES ASSUME NEW x \in Events(s), \A e \in Events(s) : x <= e
               PROVE  x = Head(s)
    OBVIOUS
  <2>1. x <= Head(s) /\ Head(s) <= x /\ x \in Nat
    BY <1>1, <1>2, <1>4
  <2> QED
    BY <1>2, <2>1
<1>6. Channel!Oldest(Events(s)) = Head(s)
  BY <1>1, <1>4, <1>5 DEF Channel!Oldest
<1> QED
  BY <1>1, <1>2, <1>3, <1>6
-----------------------------------------------------------------------------
(* The order invariant: the queue is sorted, the event in hand is older    *)
(* than those in the queue, and whatever was written is older than both.   *)

Undelivered == Events(q) \cup ({inhand} \ {Sentinel})

QueueOrder ==
  /\ Sorted(q)
  /\ \A e \in Events(q) : inhand < e
  /\ \A e \in Undelivered : e <= enqueued

WriterOrder ==
  \A k \in 1..Len(written) :
     written[k] <= enqueued /\ \A e \in Undelivered : written[k] < e

InHandInv == wpc = "write" <=> inhand # Sentinel

OrderInv == QueueOrder /\ WriterOrder /\ InHandInv /\ WrittenInOrder

LEMMA OrderInit == Init => OrderInv
<1> SUFFICES ASSUME Init PROVE OrderInv
  OBVIOUS
<1>1. q = <<>> /\ written = <<>> /\ inhand = 0 /\ wpc = "get"
  BY DEF Init
<1>2. Events(q) = {} /\ Undelivered = {}
  BY <1>1 DEF Events, Undelivered, Sentinel
<1> QED
  BY <1>1, <1>2 DEF OrderInv, QueueOrder, WriterOrder, InHandInv, WrittenInOrder, Sorted, Sentinel

(* A step that only takes events or sentinels out of the way keeps order.  *)
LEMMA OrderKept ==
  ASSUME OrderInv, Sorted(q'), Events(q') \subseteq Events(q), InHandInv',
         inhand' = inhand \/ inhand' = Sentinel,
         \A e \in Events(q') : inhand' < e,
         UNCHANGED <<enqueued, written>>
  PROVE  OrderInv'
<1>1. Undelivered' \subseteq Undelivered
  BY DEF Undelivered
<1> QED
  BY <1>1 DEF OrderInv, QueueOrder, WriterOrder, WrittenInOrder

LEMMA OrderStep == TypeOK /\ OrderInv /\ [Next]_vars => OrderInv'
<1> SUFFICES ASSUME TypeOK, OrderInv, [Next]_vars PROVE OrderInv'
  OBVIOUS
<1>0. /\ q \in Seq(Nat) /\ inhand \in Nat /\ enqueued \in Nat /\ written \in Seq(Nat)
      /\ Events(q) \subseteq Nat \ {0} /\ Sorted(q)
      /\ wpc = "write" <=> inhand # Sentinel
      /\ \A e \in Events(q) : inhand < e /\ e <= enqueued
  BY EventsFacts DEF TypeOK, OrderInv, QueueOrder, InHandInv, Undelivered
<1>1. ASSUME NEW p \in Producers, EvictOldest(p) PROVE OrderInv'
  <2>1. UNCHANGED <<enqueued, written, inhand, wpc>>
    BY <1>1 DEF EvictOldest, workerVars, storageVars
  <2>2. q' = q \/ (q # <<>> /\ q' = Tail(q))
    BY <1>1 DEF EvictOldest
  <2>3. Sorted(q') /\ Events(q') \subseteq Events(q)
    BY <1>0, <2>2, SortedTail, EventsTail
  <2> QED
    BY <1>0, <2>1, <2>3, OrderKept DEF InHandInv
<1>2. ASSUME NEW p \in Producers, PutItem(p) PROVE OrderInv'
  <2>1. UNCHANGED <<written, inhand, wpc>>
    BY <1>2 DEF PutItem, workerVars, storageVars
  <2>2. CASE UNCHANGED <<q, enqueued>>
    BY <1>0, <2>1, <2>2, OrderKept DEF InHandInv
  <2>3. CASE q' = Append(q, enqueued + 1) /\ enqueued' = enqueued + 1
    <3>1. /\ q' = Append(q, enqueued') /\ enqueued' \in Nat /\ enqueued' # Sentinel
          /\ enqueued < enqueued'
      BY <1>0, <2>3 DEF Sentinel
    <3>2. Sorted(q') /\ Events(q') = Events(q) \cup {enqueued'}
      <4>1. \A e \in Events(q) : e < enqueued'
        BY <1>0, <3>1
      <4>2. {enqueued'} \ {Sentinel} = {enqueued'}
        BY <3>1
      <4> QED
        BY <1>0, <3>1, <4>1, <4>2, SortedAppend, EventsAppend
    <3>3. inhand <= enqueued
      <4>1. inhand # Sentinel => inhand \in Undelivered
        BY DEF Undelivered
      <4> QED
        BY <1>0, <4>1 DEF OrderInv, QueueOrder, Sentinel
    <3>4. QueueOrder'
      <4>1. \A e \in Events(q') : inhand' < e /\ e <= enqueued'
        BY <1>0, <2>1, <3>1, <3>2, <3>3
      <4>2. inhand' <= enqueued'
        BY <1>0, <2>1, <3>1, <3>3
      <4> QED
        BY <3>2, <4>1, <4>2 DEF QueueOrder, Undelivered
    <3>5. WriterOrder'
      <4>1. Undelivered' = Undelivered \cup {enqueued'}
        <5>1. inhand' = inhand
          BY <2>1
        <5> QED
          BY <3>1, <3>2, <5>1 DEF Undelivered
      <4>2. \A k \in 1..Len(written) : written[k] \in Nat
        BY <1>0
      <4> QED
        BY <1>0, <2>1, <3>1, <4>1, <4>2 DEF OrderInv, WriterOrder
    <3> QED
      BY <2>1, <3>4, <3>5 DEF OrderInv, InHandInv, WrittenInOrder
  <2> QED
    BY <1>2, <2>2, <2>3 DEF PutItem
<1>3. CASE GetEvent
  <2>1. /\ UNCHANGED <<enqueued, written>> /\ wpc = "get" /\ inhand = Sentinel
        /\ q # <<>> /\ q' = Tail(q)
    BY <1>0, <1>3 DEF GetEvent, storageVars
  <2>2. Sorted(q') /\ Events(q') \subseteq Events(q)
    BY <1>0, <2>1, SortedTail, EventsTail
  <2>3. CASE Head(q) = Sentinel /\ wpc' = "final" /\ inhand' = inhand
    BY <1>0, <2>1, <2>2, <2>3, OrderKept DEF InHandInv
  <2>4. CASE Head(q) # Sentinel /\ wpc' = "write" /\ inhand' = Head(q)
    <3>1. Undelivered' = Undelivered
      <4>1. Events(q) = Events(q') \cup ({Head(q)} \ {Sentinel})
        BY <1>0, <2>1, EventsTail
      <4> QED
        BY <2>1, <2>4, <4>1 DEF Undelivered
    <3>2. \A e \in Events(q') : inhand' < e
      BY <1>0, <2>1, <2>4, SortedTail
    <3> QED
      BY <2>1, <2>2, <2>4, <3>1, <3>2
      DEF OrderInv, QueueOrder, WriterOrder, InHandInv, WrittenInOrder
  <2> QED
    BY <1>3, <2>3, <2>4 DEF GetEvent
<1>4. CASE WriteReturns /\ open
  <2>1. /\ UNCHANGED <<q, enqueued>> /\ wpc' = "get" /\ inhand' = Sentinel
        /\ written' = Append(written, inhand) /\ inhand # Sentinel
    BY <1>0, <1>4 DEF WriteReturns, queueVars, Sentinel
  <2>2. /\ Len(written') = Len(written) + 1 /\ Len(written) \in Nat
        /\ \A k \in 1..Len(written) : written'[k] = written[k]
        /\ written'[Len(written) + 1] = inhand
    BY <1>0, <2>1, AppendFacts
  <2>3. inhand \in Undelivered /\ inhand <= enqueued
    BY <2>1 DEF Undelivered, OrderInv, QueueOrder
  <2>4. Undelivered' = Events(q)
    BY <2>1 DEF Undelivered
  <2>5. Events(q) \subseteq Undelivered
    BY DEF Undelivered
  <2>6. \A k \in 1..Len(written') : k \in 1..Len(written) \/ k = Len(written) + 1
    BY <2>2
  <2>7. QueueOrder'
    BY <1>0, <2>1, <2>4 DEF QueueOrder, Sentinel
  <2>8. WriterOrder'
    BY <1>0, <2>1, <2>2, <2>3, <2>4, <2>5, <2>6 DEF OrderInv, WriterOrder
  <2>9. WrittenInOrder'
    <3> SUFFICES ASSUME NEW i \in 1..Len(written'), NEW j \in 1..Len(written'), i < j
                 PROVE  written'[i] < written'[j]
      BY DEF WrittenInOrder
    <3>1. i \in 1..Len(written) /\ (j \in 1..Len(written) \/ j = Len(written) + 1)
      BY <2>2, <2>6
    <3>2. written[i] < inhand
      BY <2>3, <3>1 DEF OrderInv, WriterOrder
    <3> QED
      BY <2>2, <3>1, <3>2 DEF OrderInv, WrittenInOrder
  <2> QED
    BY <2>1, <2>7, <2>8, <2>9 DEF OrderInv, InHandInv
<1>5. CASE (WriteReturns /\ ~open) \/ WriteRaises
  <2>1. /\ UNCHANGED <<q, enqueued, written>> /\ wpc' \in {"get", "cooldown"}
        /\ inhand' = Sentinel
    BY <1>5 DEF WriteReturns, WriteRaises, queueVars, storageVars, Sentinel
  <2>2. \A e \in Events(q) : Sentinel < e
    BY <1>0 DEF Sentinel
  <2> QED
    BY <1>0, <2>1, <2>2, OrderKept DEF InHandInv
<1>6. CASE IdleFlush \/ CooldownEnds \/ FinalFlush
  <2>1. /\ UNCHANGED <<q, enqueued, written, inhand>>
        /\ (wpc' = wpc \/ (wpc # "write" /\ wpc' # "write"))
    <3>1. CASE IdleFlush
      BY <3>1 DEF IdleFlush, FlushStorage, queueVars, workerVars
    <3>2. CASE CooldownEnds
      BY <3>2 DEF CooldownEnds, queueVars, storageVars
    <3>3. CASE FinalFlush
      BY <3>3 DEF FinalFlush, FlushStorage, queueVars
    <3> QED
      BY <1>6, <3>1, <3>2, <3>3
  <2> QED
    BY <1>0, <2>1, OrderKept DEF InHandInv
<1>7. ASSUME NEW c \in Closers, PutSentinel(c) PROVE OrderInv'
  <2>1. UNCHANGED <<enqueued, written, inhand, wpc>> /\ q' = Append(q, Sentinel)
    BY <1>7 DEF PutSentinel, workerVars, storageVars
  <2>2. Sorted(q') /\ Events(q') = Events(q)
    <3>1. Sentinel \in Nat /\ {Sentinel} \ {Sentinel} = {}
      BY DEF Sentinel
    <3>2. Sorted(Append(q, Sentinel))
      BY <1>0, <3>1, SortedAppend
    <3>3. Events(Append(q, Sentinel)) = Events(q)
      BY <1>0, <3>1, EventsAppend
    <3> QED
      BY <2>1, <3>2, <3>3
  <2> QED
    BY <1>0, <2>1, <2>2, OrderKept DEF InHandInv
<1>8. CASE UNCHANGED <<q, enqueued, written, inhand, wpc>>
  BY <1>0, <1>8, OrderKept DEF InHandInv
<1>9. ASSUME NEW p \in Producers, EnterPut(p) \/ PublishDepth(p)
      PROVE  UNCHANGED <<q, enqueued, written, inhand, wpc>>
  BY <1>9 DEF EnterPut, PublishDepth, workerVars, storageVars
<1>10. ASSUME NEW c \in Closers,
              \/ CheckRunning(c) \/ ClearRunning(c) \/ SentinelTimeout(c) \/ WorkerJoined(c)
              \/ JoinTimeout(c) \/ ShutdownFlush(c) \/ ShutdownClose(c) \/ ShutdownRaises(c)
       PROVE  UNCHANGED <<q, enqueued, written, inhand, wpc>>
  BY <1>10 DEF CheckRunning, ClearRunning, SentinelTimeout, WorkerJoined, JoinTimeout,
               ShutdownFlush, ShutdownClose, ShutdownRaises, queueVars, workerVars, storageVars
<1>11. CASE UNCHANGED vars
  BY <1>8, <1>11 DEF vars, queueVars, workerVars, storageVars
<1> QED
  BY NextCases, <1>1, <1>2, <1>3, <1>4, <1>5, <1>6, <1>7, <1>8, <1>9, <1>10, <1>11

LEMMA OrderCorrect == Spec => [](TypeOK /\ OrderInv)
<1>1. Spec => []TypeOK
  BY TypeCorrect
<1> QED
  BY <1>1, OrderInit, OrderStep, PTL DEF Spec

(* The backend is given events in the order put_nowait accepted them, and  *)
(* none twice, whatever is evicted, fails or shuts down in between.        *)
THEOREM OrderTheorem == Spec => []WrittenInOrder
<1>1. OrderInv => WrittenInOrder
  BY DEF OrderInv
<1> QED
  BY <1>1, OrderCorrect, PTL
-----------------------------------------------------------------------------
(* The refinement: each step of the pipeline is a step of the channel or   *)
(* leaves it alone.                                                        *)

LEMMA ChannelInit == Init => Channel!Init
<1> SUFFICES ASSUME Init PROVE Channel!Init
  OBVIOUS
<1>1. q = <<>> /\ written = <<>> /\ inhand = 0 /\ enqueued = 0
  BY DEF Init
<1>2. Events(q) = {}
  BY <1>1 DEF Events
<1> QED
  BY <1>1, <1>2 DEF Channel!Init

LEMMA ChannelStep ==
  TypeOK /\ OrderInv /\ [Next]_vars => [Channel!Next]_(Channel!channelVars)
<1> SUFFICES ASSUME TypeOK, OrderInv, [Next]_vars
             PROVE  Channel!Next \/ UNCHANGED Channel!channelVars
  OBVIOUS
<1> USE DEF Channel!channelVars, Channel!Next
<1>0. /\ q \in Seq(Nat) /\ inhand \in Nat /\ enqueued \in Nat /\ Sorted(q)
      /\ wpc = "write" <=> inhand # Sentinel
  BY DEF TypeOK, OrderInv, QueueOrder, InHandInv
<1>1. ASSUME q # <<>>, q' = Tail(q)
      PROVE  /\ Head(q) = Sentinel => Events(q') = Events(q)
             /\ Head(q) # Sentinel => /\ Events(q) # {}
                                      /\ Channel!Oldest(Events(q)) = Head(q)
                                      /\ Events(q') = Events(q) \ {Head(q)}
  <2>1. Events(q) = Events(q') \cup ({Head(q)} \ {Sentinel})
    BY <1>0, <1>1, EventsTail
  <2>2. CASE Head(q) = Sentinel
    BY <2>1, <2>2
  <2>3. CASE Head(q) # Sentinel
    <3>1. Head(q) \in Events(q)
      BY <2>1, <2>3
    <3> QED
      BY <1>0, <1>1, <2>3, <3>1, HeadIsOldest
  <2> QED
    BY <2>2, <2>3
<1>2. ASSUME NEW p \in Producers, EvictOldest(p) PROVE Channel!Next \/ UNCHANGED Channel!channelVars
  <2>1. UNCHANGED <<enqueued, written, inhand>>
    BY <1>2 DEF EvictOldest, workerVars, storageVars
  <2>2. CASE q' = q
    BY <2>1, <2>2
  <2>3. CASE q # <<>> /\ q' = Tail(q)
    BY <1>1, <2>1, <2>3 DEF Channel!DropOldest
  <2> QED
    BY <1>2, <2>2, <2>3 DEF EvictOldest
<1>3. ASSUME NEW p \in Producers, PutItem(p) PROVE Channel!Next \/ UNCHANGED Channel!channelVars
  <2>1. UNCHANGED <<written, inhand>>
    BY <1>3 DEF PutItem, workerVars, storageVars
  <2>2. CASE UNCHANGED <<q, enqueued>>
    BY <2>1, <2>2
  <2>3. CASE q' = Append(q, enqueued + 1) /\ enqueued' = enqueued + 1
    <3>1. q' = Append(q, enqueued') /\ enqueued' \in Nat /\ enqueued' # Sentinel
      BY <1>0, <2>3 DEF Sentinel
    <3>2. {enqueued'} \ {Sentinel} = {enqueued + 1}
      BY <2>3, <3>1
    <3>3. Events(q') = Events(q) \cup {enqueued + 1}
      BY <1>0, <3>1, <3>2, EventsAppend
    <3> QED
      BY <2>1, <2>3, <3>3 DEF Channel!Accept
  <2> QED
    BY <1>3, <2>2, <2>3 DEF PutItem
<1>4. CASE GetEvent
  <2>1. /\ UNCHANGED <<enqueued, written>> /\ inhand = Sentinel
        /\ q # <<>> /\ q' = Tail(q)
    BY <1>0, <1>4 DEF GetEvent, storageVars
  <2>2. CASE Head(q) = Sentinel /\ inhand' = inhand
    BY <1>1, <2>1, <2>2
  <2>3. CASE Head(q) # Sentinel /\ inhand' = Head(q)
    BY <1>1, <2>1, <2>3 DEF Channel!Take, Sentinel
  <2> QED
    BY <1>4, <2>2, <2>3 DEF GetEvent
<1>5. CASE WriteReturns \/ WriteRaises
  <2>1. UNCHANGED <<q, enqueued>> /\ inhand # 0 /\ inhand' = 0
    BY <1>0, <1>5 DEF WriteReturns, WriteRaises, queueVars, Sentinel
  <2>2. written' = Append(written, inhand) \/ written' = written
    BY <1>5 DEF WriteReturns, WriteRaises, storageVars
  <2> QED
    BY <2>1, <2>2 DEF Channel!Deliver, Channel!LoseCurrent
<1>6. ASSUME NEW c \in Closers, PutSentinel(c) PROVE UNCHANGED Channel!channelVars
  <2>1. UNCHANGED <<enqueued, written, inhand>> /\ q' = Append(q, Sentinel)
    BY <1>6 DEF PutSentinel, workerVars, storageVars
  <2>2. Sentinel \in Nat
    BY DEF Sentinel
  <2>3. Events(q') = Events(q) \cup ({Sentinel} \ {Sentinel})
    BY <1>0, <2>1, <2>2, EventsAppend
  <2>4. Events(q') = Events(q)
    BY <2>3
  <2> QED
    BY <2>1, <2>4
<1>7. CASE UNCHANGED <<q, enqueued, written, inhand>>
  BY <1>7
<1>8. CASE IdleFlush
  <2>1. UNCHANGED <<q, enqueued, inhand>>
    BY <1>8 DEF IdleFlush, queueVars, workerVars
  <2>2. UNCHANGED written
    BY <1>8 DEF IdleFlush, FlushStorage
  <2> QED
    BY <2>1, <2>2
<1>9. CASE CooldownEnds
  BY <1>9 DEF CooldownEnds, queueVars, storageVars
<1>10. CASE FinalFlush
  BY <1>10 DEF FinalFlush, FlushStorage, queueVars
<1>11. ASSUME NEW p \in Producers, EnterPut(p) \/ PublishDepth(p)
       PROVE  UNCHANGED <<q, enqueued, written, inhand>>
  BY <1>11 DEF EnterPut, PublishDepth, workerVars, storageVars
<1>12. ASSUME NEW c \in Closers,
              \/ CheckRunning(c) \/ ClearRunning(c) \/ SentinelTimeout(c) \/ WorkerJoined(c)
              \/ JoinTimeout(c) \/ ShutdownFlush(c) \/ ShutdownClose(c) \/ ShutdownRaises(c)
       PROVE  UNCHANGED <<q, enqueued, written, inhand>>
  BY <1>12 DEF CheckRunning, ClearRunning, SentinelTimeout, WorkerJoined, JoinTimeout,
               ShutdownFlush, ShutdownClose, ShutdownRaises, queueVars, workerVars, storageVars
<1>13. CASE UNCHANGED vars
  BY <1>13 DEF vars, queueVars, workerVars, storageVars
<1> QED
  BY NextCases, <1>2, <1>3, <1>4, <1>5, <1>6, <1>7, <1>8, <1>9, <1>10, <1>11, <1>12, <1>13

(* Whatever the threads, failures and shutdowns do, the pipeline behaves   *)
(* as an ordered at-most-once channel that gives up its oldest event.      *)
THEOREM Refinement == Spec => ImplementsChannel
<1>1. Spec => [](TypeOK /\ OrderInv)
  BY OrderCorrect
<1> QED
  BY <1>1, ChannelInit, ChannelStep, PTL DEF Spec, ImplementsChannel, Channel!Spec
=============================================================================
