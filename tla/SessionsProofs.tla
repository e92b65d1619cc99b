---------------------------- MODULE SessionsProofs ----------------------------
(***************************************************************************)
(* For any tasks, thresholds and number of calls: the deduplication lets   *)
(* one source report a type in a span (OneSourcePerSpan) and never holds    *)
(* back a report that the other source has not made, or failed to          *)
(* (SkippedHasTwin), the tool sequence of a session   *)
(* is all its tool calls (SequenceSeesAll), and with one source the cost   *)
(* alert is neither missed nor repeated in a task (AlertWhenOver).          *)
(*                                                                         *)
(* The first part: tasks that hold the same span hold the same registry    *)
(* (SpanHasRegistry), because a span is generated in one context and only   *)
(* ever copied together with the registry.  So whoever can still emit in a  *)
(* span sees every entry made for it (Recorded).                            *)
(*                                                                         *)
(* The second part: a session's trace and its list of tool calls are made  *)
(* together and copied together, so tasks that are in one session hold one  *)
(* list and the other way round (OneListPerSession).  A call is then        *)
(* appended to both sides of the equation at once, and at the same position *)
(* because the two sides have equally many elements.                        *)
(*                                                                         *)
(* The third part: with one source the registry holds nothing back, so a   *)
(* session at the threshold has its flag set exactly when its alert has     *)
(* gone out (Told, Once); a new session resets both by taking a new trace.  *)
(***************************************************************************)
EXTENDS Sessions, FiniteSetTheorems, TLAPS

ContextType ==
  [trace : Nat, span : Nat, reg : Nat, tools : Nat, cost : Nat, depth : Nat,
   alerted : [Sources -> BOOLEAN], turn : BOOLEAN]

RecordsOK ==
  /\ ids \in Nat
  /\ ctx \in [Tasks -> ContextType]
  /\ \A t \in Tasks : ctx[t].span \in 0 .. ids

SpanHasRegistry ==
  /\ \A t \in Tasks : ctx[t].span # 0 => ctx[t].reg # 0
  /\ \A t, u \in Tasks : ctx[t].span = ctx[u].span /\ ctx[t].span # 0 => ctx[t].reg = ctx[u].reg

(* The events that have been registered, those that failed afterwards too. *)
Reported == emitted \cup failed

(* Entries and events are of spans that have been generated. *)
SpansGenerated ==
  /\ \A e \in registry : e.span \in 1 .. ids
  /\ \A e \in Reported : e.span \in 1 .. ids

(* An event's entry is in the registry of every task that holds its span.  *)
Recorded ==
  \A e \in Reported : \A t \in Tasks :
    ctx[t].span = e.span => [reg |-> ctx[t].reg, type |-> e.type, span |-> e.span,
                             source |-> e.source] \in registry

(* An entry is one source's, and that of an event. *)
EntriesOK ==
  \A e \in registry :
    /\ [type |-> e.type, span |-> e.span, source |-> e.source] \in Reported
    /\ \A f \in registry : e.reg = f.reg /\ e.type = f.type /\ e.span = f.span =>
                              e.source = f.source

(* OneSourcePerSpan, of the failed events as well. *)
OneReporterPerSpan ==
  \A a, b \in Reported : a.type = b.type /\ a.span = b.span => a.source = b.source

DedupInv ==
  /\ RecordsOK /\ SpanHasRegistry /\ SpansGenerated /\ Recorded /\ EntriesOK
  /\ OneReporterPerSpan /\ SkippedHasTwin

-----------------------------------------------------------------------------
(* What a call may leave as span and registry of a context k: those it     *)
(* had, or a new span with any registry.                                    *)
Proper(k, c) ==
  /\ c.span # 0 /\ c.reg # 0
  /\ (c.span = k.span /\ c.reg = k.reg) \/ c.span = Fresh

(* Changing one field of a context. *)
LEMMA FieldUpdates ==
  ASSUME NEW k \in ContextType
  PROVE  /\ \A n \in Nat :
              /\ [k EXCEPT !.trace = n] \in ContextType
              /\ [k EXCEPT !.span = n] \in ContextType
              /\ [k EXCEPT !.reg = n] \in ContextType
              /\ [k EXCEPT !.tools = n] \in ContextType
              /\ [k EXCEPT !.cost = n] \in ContextType
              /\ [k EXCEPT !.depth = n] \in ContextType
         /\ \A b \in BOOLEAN : [k EXCEPT !.turn = b] \in ContextType
         /\ \A source \in Sources, b \in BOOLEAN :
              [k EXCEPT !.alerted[source] = b] \in ContextType
<1>1. \A n \in Nat : [k EXCEPT !.trace = n] \in ContextType
  BY DEF ContextType
<1>2. \A n \in Nat : [k EXCEPT !.span = n] \in ContextType
  BY DEF ContextType
<1>3. \A n \in Nat : [k EXCEPT !.reg = n] \in ContextType
  BY DEF ContextType
<1>4. \A n \in Nat : [k EXCEPT !.tools = n] \in ContextType
  BY DEF ContextType
<1>5. \A n \in Nat : [k EXCEPT !.cost = n] \in ContextType
  BY DEF ContextType
<1>6. \A n \in Nat : [k EXCEPT !.depth = n] \in ContextType
  BY DEF ContextType
<1>7. \A b \in BOOLEAN : [k EXCEPT !.turn = b] \in ContextType
  BY DEF ContextType
<1>8. ASSUME NEW source \in Sources, NEW b \in BOOLEAN
      PROVE  [k EXCEPT !.alerted[source] = b] \in ContextType
  <2> DEFINE f == [k.alerted EXCEPT ![source] = b]
  <2>1. f \in [Sources -> BOOLEAN]
    BY DEF ContextType
  <2>2. [k EXCEPT !.alerted[source] = b] = [k EXCEPT !.alerted = f]
    BY DEF ContextType
  <2> HIDE DEF f
  <2> QED
    BY <2>1, <2>2 DEF ContextType
<1> QED
  BY <1>1, <1>2, <1>3, <1>4, <1>5, <1>6, <1>7, <1>8

(* Filling in what is not set generates nothing that is in use. *)
LEMMA FilledProper ==
  ASSUME ids \in Nat, NEW k \in ContextType, k.span # 0 => k.reg # 0
  PROVE  Filled(k) \in ContextType /\ Proper(k, Filled(k))
<1> DEFINE tr == IF k.trace = 0 THEN ids + 1 ELSE k.trace
           sp == IF k.span = 0 THEN ids + 1 ELSE k.span
           rg == IF k.reg = 0 THEN ids + 1 ELSE k.reg
<1>1. tr \in Nat /\ sp \in Nat /\ rg \in Nat
  BY DEF ContextType
<1>2. Filled(k) = [[[k EXCEPT !.trace = tr] EXCEPT !.span = sp] EXCEPT !.reg = rg]
  BY DEF Filled, Fresh, Unset, ContextType
<1>3. [k EXCEPT !.trace = tr] \in ContextType
  BY <1>1 DEF ContextType
<1>4. Filled(k) \in ContextType
  BY <1>1, <1>2, <1>3 DEF ContextType
<1>5. Proper(k, Filled(k))
  BY DEF Filled, ContextType, Proper, Fresh, Unset
<1> QED
  BY <1>4, <1>5

(* With a new span, no old one is left to be mistaken for it. *)
LEMMA NewSpanProper ==
  ASSUME ids \in Nat, NEW k \in ContextType, k.span = Fresh, NEW j
  PROVE  Filled(k) \in ContextType /\ Proper(j, Filled(k))
<1>1. Filled(k).span = Fresh
  BY DEF Filled, ContextType, Fresh, Unset
<1> DEFINE tr == IF k.trace = 0 THEN ids + 1 ELSE k.trace
           rg == IF k.reg = 0 THEN ids + 1 ELSE k.reg
<1>2. tr \in Nat /\ rg \in Nat
  BY DEF ContextType
<1>3. Filled(k) = [[k EXCEPT !.trace = tr] EXCEPT !.reg = rg]
  BY DEF Filled, Fresh, Unset, ContextType
<1>4. [k EXCEPT !.trace = tr] \in ContextType
  BY <1>2 DEF ContextType
<1>5. Filled(k) \in ContextType
  BY <1>2, <1>3, <1>4 DEF ContextType
<1>6. Filled(k).reg # 0
  BY DEF Filled, ContextType, Fresh, Unset
<1> QED
  BY <1>1, <1>5, <1>6 DEF Proper, Fresh

(* A new session has its own span and registry. *)
LEMMA NewSessionProper ==
  ASSUME ids \in Nat, NEW k \in ContextType, NEW source \in Sources
  PROVE  NewSession(k, source) \in ContextType /\ Proper(k, NewSession(k, source))
<1> DEFINE a1 == [k EXCEPT !.trace = ids + 1]
           a2 == [a1 EXCEPT !.span = ids + 1]
           a3 == [a2 EXCEPT !.reg = ids + 1]
           a4 == [a3 EXCEPT !.tools = ids + 1]
           a5 == [a4 EXCEPT !.cost = 0]
           a6 == [a5 EXCEPT !.depth = 0]
<1>1. NewSession(k, source) = [a6 EXCEPT !.alerted[source] = FALSE]
  BY DEF NewSession, Fresh, ContextType
<1> HIDE DEF a1, a2, a3, a4, a5, a6
<1>2. a6 \in ContextType
  <2>1. ids + 1 \in Nat
    OBVIOUS
  <2>2. a1 \in ContextType
    BY <2>1, FieldUpdates DEF a1
  <2>3. a2 \in ContextType
    BY <2>1, <2>2, FieldUpdates DEF a2
  <2>4. a3 \in ContextType
    BY <2>1, <2>3, FieldUpdates DEF a3
  <2>5. a4 \in ContextType
    BY <2>1, <2>4, FieldUpdates DEF a4
  <2>6. a5 \in ContextType
    BY <2>5, FieldUpdates DEF a5
  <2> QED
    BY <2>6, FieldUpdates DEF a6
<1>4. NewSession(k, source) \in ContextType
  BY <1>1, <1>2, FieldUpdates
<1>5. NewSession(k, source).span = Fresh /\ NewSession(k, source).reg = Fresh
  BY DEF NewSession, Fresh, ContextType
<1> QED
  BY <1>4, <1>5 DEF Proper, Fresh
-----------------------------------------------------------------------------
(* Changes of a context that leave its span and registry alone. *)
Same(k, d) == d \in ContextType /\ d.span = k.span /\ d.reg = k.reg

(* Cost, depth, turn and flags are such changes. *)
LEMMA SameUpdates ==
  ASSUME NEW k \in ContextType
  PROVE  /\ Same(k, Spend(k)) /\ Same(k, Deeper(k)) /\ Same(k, Shallower(k))
         /\ Same(k, [k EXCEPT !.depth = 0])
         /\ \A b \in BOOLEAN : Same(k, [k EXCEPT !.turn = b])
         /\ \A b \in BOOLEAN, source \in Sources : Same(k, [k EXCEPT !.alerted[source] = b])
<1>1. k.cost + 1 \in Nat /\ k.depth + 1 \in Nat
  BY DEF ContextType
<1>2. Same(k, Spend(k))
  BY <1>1, FieldUpdates DEF Same, Spend, ContextType
<1>3. Same(k, Deeper(k))
  BY <1>1, FieldUpdates DEF Same, Deeper, ContextType
<1>4. Same(k, Shallower(k))
  <2> DEFINE n == IF k.depth = 0 THEN 0 ELSE k.depth - 1
  <2>1. n \in Nat
    BY DEF ContextType
  <2>2. Shallower(k) = [k EXCEPT !.depth = n]
    BY DEF Shallower, ContextType
  <2> HIDE DEF n
  <2>3. Shallower(k) \in ContextType
    BY <2>1, <2>2, FieldUpdates
  <2> QED
    BY <2>2, <2>3 DEF Same, ContextType
<1>5. Same(k, [k EXCEPT !.depth = 0])
  BY FieldUpdates DEF Same, ContextType
<1>6. \A b \in BOOLEAN : Same(k, [k EXCEPT !.turn = b])
  BY FieldUpdates DEF Same, ContextType
<1>7. \A b \in BOOLEAN, source \in Sources : Same(k, [k EXCEPT !.alerted[source] = b])
  BY FieldUpdates DEF Same, ContextType
<1> QED
  BY <1>2, <1>3, <1>4, <1>5, <1>6, <1>7

(* And so is making a list of tool calls. *)
LEMMA ListedSame ==
  ASSUME ids \in Nat, NEW k \in ContextType
  PROVE  Same(k, Listed(k))
<1> DEFINE n == IF k.tools = 0 THEN ids + 1 ELSE k.tools
<1>1. n \in Nat
  BY DEF ContextType
<1>2. Listed(k) = [k EXCEPT !.tools = n]
  BY DEF Listed, Fresh, Unset, ContextType
<1> HIDE DEF n
<1>3. Listed(k) \in ContextType
  BY <1>1, <1>2, FieldUpdates
<1> QED
  BY <1>2, <1>3 DEF Same, ContextType

(* A new span, and what comes with it at the start of an agent or a tool.  *)
LEMMA NewSpanKinds ==
  ASSUME ids \in Nat, NEW k \in ContextType
  PROVE  /\ NewSpan(k) \in ContextType /\ NewSpan(k).span = Fresh
         /\ Deeper(NewSpan(k)) \in ContextType /\ Deeper(NewSpan(k)).span = Fresh
<1>1. NewSpan(k) \in ContextType
  <2> DEFINE n == ids + 1
  <2>1. n \in Nat
    OBVIOUS
  <2>2. NewSpan(k) = [k EXCEPT !.span = n]
    BY DEF NewSpan, Fresh
  <2> HIDE DEF n
  <2> QED
    BY <2>1, <2>2, FieldUpdates
<1>2. NewSpan(k).span = Fresh
  BY DEF NewSpan, ContextType
<1> HIDE DEF NewSpan
<1>3. Same(NewSpan(k), Deeper(NewSpan(k)))
  BY <1>1, SameUpdates
<1> QED
  BY <1>1, <1>2, <1>3 DEF Same
-----------------------------------------------------------------------------
(* A call that leaves a proper context and sends its events through the    *)
(* registry keeps the invariant: the case of every action but Fork.         *)
LEMMA CallKeeps ==
  ASSUME DedupInv,
         NEW t \in Tasks, NEW c \in ContextType, NEW d \in ContextType,
         NEW types, NEW source \in Sources,
         Proper(ctx[t], c), d.span = c.span, d.reg = c.reg,
         Called(t, c, source), Emit(c, types, source),
         ctx' = [ctx EXCEPT ![t] = d]
  PROVE  DedupInv'
<1> USE DEF DedupInv, RecordsOK
<1> DEFINE passing == {y \in types : Allowed(c, y, source)}
<1>1. /\ ids' \in Nat /\ ids <= ids' /\ c.span \in 1 .. ids'
      /\ c.span = Fresh => ids' = ids + 1
  BY DEF Called, Fresh, Proper, ContextType
<1>2. /\ \A u \in Tasks : ctx'[u] = IF u = t THEN d ELSE ctx[u]
      /\ ctx' \in [Tasks -> ContextType]
  OBVIOUS
<1>3. c.span \in 1 .. ids => c.span = ctx[t].span /\ c.reg = ctx[t].reg
  BY DEF Proper, Fresh
<1>4. /\ registry' = registry \cup {Entry(c, y, source) : y \in passing}
      /\ Reported' = Reported \cup {Emission(c, y, source) : y \in passing}
      /\ skipped' = skipped \cup {Emission(c, y, source) : y \in types \ passing}
  <2>1. PICK lost \in SUBSET types : Report(c, types, source, lost)
    BY DEF Emit
  <2>2. /\ lost \subseteq passing
        /\ registry' = registry \cup {Entry(c, y, source) : y \in passing}
        /\ emitted'  = emitted \cup {Emission(c, y, source) : y \in passing \ lost}
        /\ failed'   = failed \cup {Emission(c, y, source) : y \in lost}
        /\ skipped'  = skipped \cup {Emission(c, y, source) : y \in types \ passing}
    BY <2>1 DEF Report
  <2> HIDE DEF passing
  <2>3. {Emission(c, y, source) : y \in passing} =
          {Emission(c, y, source) : y \in passing \ lost} \cup
          {Emission(c, y, source) : y \in lost}
    BY <2>2
  <2> QED
    BY <2>2, <2>3 DEF Reported
<1>5. RecordsOK'
  BY <1>1, <1>2
<1>6. SpanHasRegistry'
  <2>1. \A u \in Tasks : u # t /\ ctx[u].span = c.span => ctx[u].reg = c.reg
    BY <1>1, <1>3 DEF SpanHasRegistry
  <2> QED
    BY <1>2, <2>1 DEF SpanHasRegistry, Proper
<1>7. SpansGenerated'
  BY <1>1, <1>4 DEF SpansGenerated, Entry, Emission
<1>8. Recorded'
  <2> SUFFICES ASSUME NEW e \in Reported', NEW u \in Tasks, ctx'[u].span = e.span
               PROVE  [reg |-> ctx'[u].reg, type |-> e.type, span |-> e.span,
                       source |-> e.source] \in registry'
    BY DEF Recorded
  <2>1. CASE e \in Reported
    <3>1. ctx[u].span = e.span /\ ctx[u].reg = ctx'[u].reg
      BY <1>2, <1>3, <2>1 DEF SpansGenerated
    <3> QED
      BY <1>4, <2>1, <3>1 DEF Recorded
  <2>2. CASE e \in {Emission(c, y, source) : y \in passing}
    <3>1. PICK y \in passing : e = Emission(c, y, source)
      BY <2>2
    <3>2. ctx'[u].reg = c.reg
      BY <1>2, <1>6, <3>1 DEF SpanHasRegistry, Emission, Proper
    <3> QED
      BY <1>4, <3>1, <3>2 DEF Emission, Entry
  <2> QED
    BY <1>4, <2>1, <2>2
<1>9. \A y \in passing : \A r \in registry :
        r.reg = c.reg /\ r.type = y /\ r.span = c.span => r.source = source
  BY DEF Allowed, Owners
<1>10. EntriesOK'
  <2> DEFINE new == {Entry(c, y, source) : y \in passing}
  <2>1. registry' = registry \cup new
    BY <1>4
  <2>2. ASSUME NEW e \in new
        PROVE  e.reg = c.reg /\ e.type \in passing /\ e.span = c.span /\ e.source = source
    BY DEF Entry
  <2>3. ASSUME NEW e \in registry'
        PROVE  [type |-> e.type, span |-> e.span, source |-> e.source] \in Reported'
    <3>1. CASE e \in registry
      BY <1>4, <3>1 DEF EntriesOK
    <3>2. CASE e \in new
      <4>1. [type |-> e.type, span |-> e.span, source |-> e.source] = Emission(c, e.type, source)
        BY <2>2, <3>2 DEF Emission
      <4> QED
        BY <1>4, <2>2, <3>2, <4>1
    <3> QED
      BY <2>1, <2>3, <3>1, <3>2
  <2>4. ASSUME NEW e \in registry', NEW f \in registry',
               e.reg = f.reg, e.type = f.type, e.span = f.span
        PROVE  e.source = f.source
    <3> HIDE DEF new, passing
    <3>1. CASE e \in registry /\ f \in registry
      BY <2>4, <3>1 DEF EntriesOK
    <3>2. CASE e \in new /\ f \in new
      BY <2>2, <3>2
    <3>3. CASE e \in new /\ f \in registry
      BY <1>9, <2>2, <2>4, <3>3
    <3>4. CASE e \in registry /\ f \in new
      BY <1>9, <2>2, <2>4, <3>4
    <3> QED
      BY <2>1, <3>1, <3>2, <3>3, <3>4
  <2> QED
    BY <2>3, <2>4 DEF EntriesOK
<1>11. OneReporterPerSpan'
  <2>1. \A y \in passing : \A a \in Reported : a.type = y /\ a.span = c.span => a.source = source
    <3> SUFFICES ASSUME NEW y \in passing, NEW a \in Reported, a.type = y, a.span = c.span
                 PROVE  a.source = source
      OBVIOUS
    <3>1. [reg |-> c.reg, type |-> a.type, span |-> a.span, source |-> a.source] \in registry
      BY <1>3 DEF SpansGenerated, Recorded
    <3> QED
      BY <1>9, <3>1
  <2> QED
    BY <1>4, <2>1 DEF OneReporterPerSpan, Emission
<1>12. SkippedHasTwin'
  <2>1. ASSUME NEW y \in types \ passing
        PROVE  \E b \in Reported : b.type = y /\ b.span = c.span /\ b.source # source
    <3>1. PICK r \in registry : /\ r.reg = c.reg /\ r.type = y /\ r.span = c.span
                                /\ r.source # source
      BY <2>1 DEF Allowed, Owners
    <3> QED
      BY <3>1 DEF EntriesOK
  <2> QED
    BY <1>4, <2>1 DEF SkippedHasTwin, Reported, Emission
<1> QED
  BY <1>5, <1>6, <1>7, <1>8, <1>10, <1>11, <1>12
-----------------------------------------------------------------------------
(* The contexts that calls leave, from that of a task. *)
LEMMA CallContexts ==
  ASSUME DedupInv, NEW t \in Tasks
  PROVE  /\ ids \in Nat /\ ctx[t] \in ContextType
         /\ \A source \in Sources :
              LET c == NewSession(ctx[t], source) IN c \in ContextType /\ Proper(ctx[t], c)
         /\ LET c == Filled(ctx[t]) IN c \in ContextType /\ Proper(ctx[t], c)
         /\ LET c == Filled(Shallower(ctx[t])) IN c \in ContextType /\ Proper(ctx[t], c)
         /\ LET c == Filled(Deeper(NewSpan(ctx[t]))) IN c \in ContextType /\ Proper(ctx[t], c)
         /\ LET c == Listed(Filled(NewSpan(ctx[t]))) IN c \in ContextType /\ Proper(ctx[t], c)
<1> DEFINE k == ctx[t]
<1>1. ids \in Nat /\ k \in ContextType /\ (k.span # 0 => k.reg # 0)
  BY DEF DedupInv, RecordsOK, SpanHasRegistry
<1> HIDE DEF k
<1>2. \A source \in Sources :
        NewSession(k, source) \in ContextType /\ Proper(k, NewSession(k, source))
  BY <1>1, NewSessionProper
<1>3. Filled(k) \in ContextType /\ Proper(k, Filled(k))
  BY <1>1, FilledProper
<1>4. Filled(Shallower(k)) \in ContextType /\ Proper(k, Filled(Shallower(k)))
  <2>1. Same(k, Shallower(k))
    BY <1>1, SameUpdates
  <2>2. Shallower(k) \in ContextType /\ (Shallower(k).span # 0 => Shallower(k).reg # 0)
    BY <1>1, <2>1 DEF Same
  <2>3. Filled(Shallower(k)) \in ContextType /\ Proper(Shallower(k), Filled(Shallower(k)))
    BY <1>1, <2>2, FilledProper
  <2> QED
    BY <2>1, <2>3 DEF Same, Proper
<1>5. Filled(Deeper(NewSpan(k))) \in ContextType /\ Proper(k, Filled(Deeper(NewSpan(k))))
  BY <1>1, NewSpanKinds, NewSpanProper
<1>6. Listed(Filled(NewSpan(k))) \in ContextType /\ Proper(k, Listed(Filled(NewSpan(k))))
  <2>1. Filled(NewSpan(k)) \in ContextType /\ Proper(k, Filled(NewSpan(k)))
    BY <1>1, NewSpanKinds, NewSpanProper
  <2>2. Same(Filled(NewSpan(k)), Listed(Filled(NewSpan(k))))
    BY <1>1, <2>1, ListedSame
  <2> QED
    BY <2>1, <2>2 DEF Same, Proper
<1> QED
  BY <1>1, <1>2, <1>3, <1>4, <1>5, <1>6 DEF k

(* A proper context stays proper under such changes. *)
LEMMA SameProper ==
  ASSUME NEW k, NEW c, NEW d, Proper(k, c), Same(c, d)
  PROVE  d \in ContextType /\ Proper(k, d)
BY DEF Proper, Same

(* Such changes compose. *)
LEMMA SameTwice ==
  ASSUME NEW c, NEW d, NEW e, Same(c, d), Same(d, e)
  PROVE  Same(c, e)
BY DEF Same

(* CallKeeps, for a call that leaves context d after its events went out   *)
(* from context c.                                                          *)
LEMMA StepKeeps ==
  ASSUME DedupInv, NEW t \in Tasks, NEW c \in ContextType, NEW d, NEW types,
         NEW source \in Sources, Proper(ctx[t], c), Same(c, d),
         Called(t, c, source), Emit(c, types, source), ctx' = [ctx EXCEPT ![t] = d]
  PROVE  DedupInv'
BY CallKeeps DEF Same

(* A call all of whose events fail sends its events. *)
LEMMA FailedEmits ==
  ASSUME NEW c, NEW types, NEW source, Report(c, types, source, types)
  PROVE  Emit(c, types, source)
BY DEF Emit

(* Every call of the logging API keeps the invariant. *)
LEMMA LogKeeps ==
  ASSUME DedupInv, NEW t \in Tasks, LogStep(t)
  PROVE  DedupInv'
<1> DEFINE k == ctx[t]
<1>0. "log" \in Sources
  BY DEF Sources
<1>1. CASE LogSessionStart(t)
  <2> DEFINE c == NewSession(k, "log")
  <2>1. /\ Called(t, c, "log") /\ Emit(c, {"session_start"}, "log")
        /\ ctx' = [ctx EXCEPT ![t] = c]
    BY <1>1 DEF LogSessionStart, Log, Leaves
  <2>2. c \in ContextType /\ Proper(k, c) /\ Same(c, c)
    BY <1>0, CallContexts DEF Same
  <2> QED
    BY <1>0, <2>1, <2>2, StepKeeps
<1>2. CASE LogAgentStart(t)
  <2> DEFINE c == Filled(Deeper(NewSpan(k)))
  <2>1. /\ Called(t, c, "log") /\ Emit(c, {"agent_start"}, "log")
        /\ ctx' = [ctx EXCEPT ![t] = c]
    BY <1>2 DEF LogAgentStart, Log, Leaves
  <2>2. c \in ContextType /\ Proper(k, c) /\ Same(c, c)
    BY CallContexts DEF Same
  <2> QED
    BY <1>0, <2>1, <2>2, StepKeeps
<1>3. CASE LogAgentEnd(t)
  <2> DEFINE c == Filled(Shallower(k))
  <2>1. /\ Called(t, c, "log") /\ Emit(c, {"agent_end"}, "log")
        /\ ctx' = [ctx EXCEPT ![t] = c]
    BY <1>3 DEF LogAgentEnd, Log, Leaves
  <2>2. c \in ContextType /\ Proper(k, c) /\ Same(c, c)
    BY CallContexts DEF Same
  <2> QED
    BY <1>0, <2>1, <2>2, StepKeeps
<1>4. CASE LogModelResponse(t)
  <2> DEFINE c == Filled(k)
             spent == Spend(c)
             told == [spent EXCEPT !.alerted["log"] = TRUE]
  <2>1. /\ Called(t, c, "log") /\ Emit(c, {"model_response"}, "log")
        /\ \E d \in {c, spent, told} : ctx' = [ctx EXCEPT ![t] = d]
    BY <1>4 DEF LogModelResponse, Log, Leaves
  <2>2. c \in ContextType /\ Proper(k, c) /\ Same(c, c)
    BY CallContexts DEF Same
  <2>3. Same(c, spent) /\ Same(c, told)
    <3>1. Same(c, spent) /\ spent \in ContextType
      BY <2>2, SameUpdates DEF Same
    <3>2. Same(spent, told)
      BY <1>0, <3>1, SameUpdates
    <3> QED
      BY <3>1, <3>2, SameTwice
  <2> QED
    BY <1>0, <2>1, <2>2, <2>3, StepKeeps
<1>5. CASE LogToolStart(t)
  <2> DEFINE c == Listed(Filled(NewSpan(k)))
  <2>1. /\ Called(t, c, "log") /\ Emit(c, {"tool_start"}, "log")
        /\ ctx' = [ctx EXCEPT ![t] = c]
    BY <1>5 DEF LogToolStart, Log, RecordTool
  <2>2. c \in ContextType /\ Proper(k, c) /\ Same(c, c)
    BY CallContexts DEF Same
  <2> QED
    BY <1>0, <2>1, <2>2, StepKeeps
<1>6. ASSUME NEW type \in LogTypes, LogEvent(t, type)
      PROVE  DedupInv'
  <2> DEFINE c == Filled(k)
  <2>1. /\ Called(t, c, "log") /\ Emit(c, {type}, "log")
        /\ ctx' = [ctx EXCEPT ![t] = c]
    BY <1>6 DEF LogEvent, Log, Leaves
  <2>2. c \in ContextType /\ Proper(k, c) /\ Same(c, c)
    BY CallContexts DEF Same
  <2> QED
    BY <1>0, <2>1, <2>2, StepKeeps
<1>7. CASE LogModelResponseFails(t)
  <2> DEFINE c == Filled(k)
  <2>1. /\ Called(t, c, "log") /\ Emit(c, {"model_response"}, "log")
        /\ ctx' = [ctx EXCEPT ![t] = c]
    BY <1>7, FailedEmits DEF LogModelResponseFails, Leaves
  <2>2. c \in ContextType /\ Proper(k, c) /\ Same(c, c)
    BY CallContexts DEF Same
  <2> QED
    BY <1>0, <2>1, <2>2, StepKeeps
<1> QED
  BY <1>1, <1>2, <1>3, <1>4, <1>5, <1>6, <1>7 DEF LogStep

(* Every callback of the plugin keeps the invariant. *)
LEMMA AdkKeeps ==
  ASSUME DedupInv, NEW t \in Tasks, AdkStep(t)
  PROVE  DedupInv'
<1> DEFINE k == ctx[t]
           f == Filled(k)
<1>0. /\ "adapter" \in Sources
      /\ f \in ContextType /\ Proper(k, f) /\ Same(f, f)
  BY CallContexts DEF Sources, Same
<1>1. CASE BeforeRun(t)
  <2> DEFINE b == NewSession(k, "adapter")
             c == [b EXCEPT !.turn = FALSE]
  <2>1. /\ Called(t, c, "adapter") /\ Emit(c, {"session_start"}, "adapter")
        /\ ctx' = [ctx EXCEPT ![t] = c]
    BY <1>1 DEF BeforeRun, Callback, Leaves
  <2>2. b \in ContextType /\ Proper(k, b) /\ Same(b, c)
    BY <1>0, CallContexts, SameUpdates
  <2>3. c \in ContextType /\ Proper(k, c) /\ Same(c, c)
    BY <2>2, SameProper DEF Same
  <2> QED
    BY <1>0, <2>1, <2>3, StepKeeps
<1>2. CASE AfterRun(t)
  <2> DEFINE c == [f EXCEPT !.depth = 0]
  <2>1. /\ Called(t, c, "adapter") /\ Emit(c, {"session_end"}, "adapter")
        /\ ctx' = [ctx EXCEPT ![t] = c]
    BY <1>2 DEF AfterRun, Callback, Leaves
  <2>2. Same(f, c)
    BY <1>0, SameUpdates
  <2>3. c \in ContextType /\ Proper(k, c) /\ Same(c, c)
    BY <1>0, <2>2, SameProper DEF Same
  <2> QED
    BY <1>0, <2>1, <2>3, StepKeeps
<1>3. CASE BeforeAgent(t)
  <2> DEFINE c == Filled(Deeper(NewSpan(k)))
  <2>1. /\ Called(t, c, "adapter") /\ \E types : Emit(c, types, "adapter")
        /\ ctx' = [ctx EXCEPT ![t] = c]
    BY <1>3 DEF BeforeAgent, Callback, Leaves
  <2>2. c \in ContextType /\ Proper(k, c) /\ Same(c, c)
    BY CallContexts DEF Same
  <2> QED
    BY <1>0, <2>1, <2>2, StepKeeps
<1>4. CASE AfterAgent(t)
  <2> DEFINE c == Filled(Shallower(k))
  <2>1. /\ Called(t, c, "adapter") /\ Emit(c, {"agent_end"}, "adapter")
        /\ ctx' = [ctx EXCEPT ![t] = c]
    BY <1>4 DEF AfterAgent, Callback, Leaves
  <2>2. c \in ContextType /\ Proper(k, c) /\ Same(c, c)
    BY CallContexts DEF Same
  <2> QED
    BY <1>0, <2>1, <2>2, StepKeeps
<1>5. CASE BeforeModel(t)
  <2> DEFINE c == [f EXCEPT !.turn = TRUE]
  <2>1. /\ Called(t, c, "adapter") /\ Emit(c, {"model_request"}, "adapter")
        /\ ctx' = [ctx EXCEPT ![t] = c]
    BY <1>5 DEF BeforeModel, Callback, Leaves
  <2>2. Same(f, c)
    BY <1>0, SameUpdates
  <2>3. c \in ContextType /\ Proper(k, c) /\ Same(c, c)
    BY <1>0, <2>2, SameProper DEF Same
  <2> QED
    BY <1>0, <2>1, <2>3, StepKeeps
<1>6. CASE AfterModel(t)
  <2> DEFINE c == Spend(f)
             alert == Crosses(c, "adapter")
             flag == c.alerted["adapter"] \/ alert
             quiet == [c EXCEPT !.turn = FALSE]
             left == [quiet EXCEPT !.alerted["adapter"] = flag]
  <2>1. /\ Called(t, c, "adapter") /\ \E types : Emit(c, types, "adapter")
        /\ ctx' = [ctx EXCEPT ![t] = [c EXCEPT !.turn = FALSE, !.alerted["adapter"] = @ \/ alert]]
    BY <1>6 DEF AfterModel, Callback, Leaves
  <2>2. Same(f, c)
    BY <1>0, SameUpdates
  <2>3. c \in ContextType /\ Proper(k, c)
    BY <1>0, <2>2, SameProper
  <2>4. [c EXCEPT !.turn = FALSE, !.alerted["adapter"] = @ \/ alert] = left
    BY <2>3 DEF ContextType
  <2>5. Same(c, quiet)
    BY <2>3, SameUpdates
  <2>6. flag \in BOOLEAN /\ quiet \in ContextType
    BY <2>5 DEF Same
  <2> HIDE DEF flag, quiet
  <2>7. Same(quiet, left)
    BY <1>0, <2>6, SameUpdates
  <2> HIDE DEF alert, left
  <2>8. Same(c, left)
    BY <2>5, <2>7, SameTwice
  <2> QED
    BY <1>0, <2>1, <2>3, <2>4, <2>8, StepKeeps
<1>7. CASE AfterModelNoUsage(t) \/ ModelError(t)
  <2> DEFINE left == [f EXCEPT !.turn = FALSE]
  <2>1. /\ Called(t, f, "adapter") /\ \E types : Emit(f, types, "adapter")
        /\ ctx' = [ctx EXCEPT ![t] = left]
    BY <1>7 DEF AfterModelNoUsage, ModelError, Callback, Leaves
  <2>2. Same(f, left)
    BY <1>0, SameUpdates
  <2> QED
    BY <1>0, <2>1, <2>2, StepKeeps
<1>8. CASE BeforeTool(t)
  <2> DEFINE c == Listed(Filled(NewSpan(k)))
  <2>1. /\ Called(t, c, "adapter") /\ Emit(c, {"tool_start"}, "adapter")
        /\ ctx' = [ctx EXCEPT ![t] = c]
    BY <1>8 DEF BeforeTool, Callback, RecordTool
  <2>2. c \in ContextType /\ Proper(k, c) /\ Same(c, c)
    BY CallContexts DEF Same
  <2> QED
    BY <1>0, <2>1, <2>2, StepKeeps
<1>9. ASSUME NEW type, AfterTool(t, type) \/ Notice(t, type)
      PROVE  DedupInv'
  <2>1. /\ Called(t, f, "adapter") /\ Emit(f, {type}, "adapter")
        /\ ctx' = [ctx EXCEPT ![t] = f]
    BY <1>9 DEF AfterTool, Notice, Callback, Leaves
  <2> QED
    BY <1>0, <2>1, StepKeeps
<1> QED
  BY <1>1, <1>2, <1>3, <1>4, <1>5, <1>6, <1>7, <1>8, <1>9 DEF AdkStep

(* A new task has the span and the registry of the task that creates it.   *)
LEMMA ForkKeeps ==
  ASSUME DedupInv, NEW p \in Tasks, NEW t \in Tasks, Fork(p, t)
  PROVE  DedupInv'
<1> USE DEF DedupInv, RecordsOK
<1>1. /\ \A u \in Tasks : ctx'[u] = IF u = t THEN ctx[p] ELSE ctx[u]
      /\ ctx' \in [Tasks -> ContextType]
  BY DEF Fork, CreateTask
<1>2. UNCHANGED <<ids, registry, emitted, failed, skipped>>
  BY DEF Fork, CreateTask, pastVars
<1>3. RecordsOK' /\ SpanHasRegistry'
  BY <1>1, <1>2 DEF SpanHasRegistry
<1>4. SpansGenerated'
  BY <1>2 DEF SpansGenerated, Reported
<1>5. Recorded'
  BY <1>1, <1>2 DEF Recorded, Reported
<1>6. EntriesOK' /\ OneReporterPerSpan' /\ SkippedHasTwin'
  BY <1>2 DEF EntriesOK, OneReporterPerSpan, SkippedHasTwin, Reported
<1> QED
  BY <1>3, <1>4, <1>5, <1>6
-----------------------------------------------------------------------------
(* The invariant holds outside everything and in the first agent. *)
LEMMA DedupInit ==
  ASSUME Init
  PROVE  DedupInv
<1>1. NewContext \in ContextType /\ NewContext.span = 0 /\ NewContext.reg = 0
  BY DEF NewContext, ContextType, Unset
<1>2. CASE Idle
  BY <1>1, <1>2 DEF Idle, ContextInit, DedupInv, RecordsOK, SpanHasRegistry, SpansGenerated,
                    Recorded, EntriesOK, OneReporterPerSpan, SkippedHasTwin, Reported
<1>3. CASE InAgent
  <2> DEFINE m == [NewContext EXCEPT !.trace = 1, !.span = 2, !.reg = 1, !.tools = 1, !.depth = 1]
             start == [type |-> "session_start", span |-> 1, source |-> "adapter"]
             agent == [type |-> "agent_start", span |-> 2, source |-> "adapter"]
             entry1 == [reg |-> 1, type |-> "session_start", span |-> 1, source |-> "adapter"]
             entry2 == [reg |-> 1, type |-> "agent_start", span |-> 2, source |-> "adapter"]
  <2>1. m \in ContextType /\ m.span = 2 /\ m.reg = 1
    BY DEF NewContext, ContextType, Unset
  <2>2. ids = 2 /\ ctx = [t \in Tasks |-> IF t # Main THEN NewContext ELSE m]
    BY <1>3 DEF InAgent
  <2>3. Reported = {start, agent} /\ skipped = {} /\ registry = {entry1, entry2}
    BY <1>3 DEF InAgent, Reported
  <2> HIDE DEF m
  <2>4. RecordsOK /\ SpanHasRegistry
    BY <1>1, <2>1, <2>2 DEF RecordsOK, SpanHasRegistry
  <2>5. SpansGenerated /\ OneReporterPerSpan /\ SkippedHasTwin
    BY <2>2, <2>3 DEF SpansGenerated, OneReporterPerSpan, SkippedHasTwin
  <2>6. Recorded
    BY <1>1, <2>1, <2>2, <2>3 DEF Recorded
  <2>7. EntriesOK
    BY <2>3 DEF EntriesOK
  <2> QED
    BY <2>4, <2>5, <2>6, <2>7 DEF DedupInv
<1> QED
  BY <1>2, <1>3 DEF Init

(* Every step keeps it. *)
LEMMA DedupStep ==
  ASSUME DedupInv, [Next]_sessionVars
  PROVE  DedupInv'
<1>1. CASE Next
  <2>1. ASSUME NEW t \in Tasks, LogCall(t)
        PROVE  DedupInv'
    BY <2>1, LogKeeps DEF LogCall
  <2>2. ASSUME NEW t \in Tasks, AdkStep(t)
        PROVE  DedupInv'
    BY <2>2, AdkKeeps
  <2>3. ASSUME NEW p \in Tasks, NEW t \in Tasks, Fork(p, t)
        PROVE  DedupInv'
    BY <2>3, ForkKeeps
  <2> QED
    BY <1>1, <2>1, <2>2, <2>3 DEF Next
<1>2. CASE UNCHANGED sessionVars
  BY <1>2 DEF sessionVars, contextVars, pastVars, DedupInv, RecordsOK, SpanHasRegistry,
              SpansGenerated, Recorded, EntriesOK, OneReporterPerSpan, SkippedHasTwin, Reported
<1> QED
  BY <1>1, <1>2

(* So it always holds. *)
LEMMA DedupAlways == Spec => []DedupInv
<1>1. Init => DedupInv
  BY DedupInit
<1>2. DedupInv /\ [Next]_sessionVars => DedupInv'
  BY DedupStep
<1> QED
  BY <1>1, <1>2, PTL DEF Spec

(* In one span the events of a type come from one source (core/dedup.py).  *)
THEOREM OneSource == Spec => []OneSourcePerSpan
<1>1. DedupInv => OneSourcePerSpan
  BY DEF DedupInv, OneReporterPerSpan, OneSourcePerSpan, Reported
<1> QED
  BY <1>1, DedupAlways, PTL

(* What the registry held back, the other source had reported in the same  *)
(* span, or had registered and then failed to (core/dedup.py,               *)
(* register_emission; log.py and the plugin's emit register first).  With   *)
(* nothing failing, no only report is lost.                                 *)
THEOREM NothingOnlyHeldBack == Spec => []SkippedHasTwin
<1>1. DedupInv => SkippedHasTwin
  BY DEF DedupInv
<1> QED
  BY <1>1, DedupAlways, PTL

-----------------------------------------------------------------------------
(* The tool sequence of a session. *)
Calls(list)     == {e \in lists : e.list = list}
CallsIn(trace)  == {e \in toolCalls : e.trace = trace}
Pairs(S)        == {<<e.n, e.by>> : e \in S}

KeysOK ==
  /\ live \subseteq Tasks
  /\ \A t \in Tasks : ctx[t].trace \in 0 .. ids /\ ctx[t].tools \in 0 .. ids
  /\ started \subseteq 1 .. ids
  /\ lists \subseteq [list : 1 .. ids, n : Nat, by : Tasks] /\ IsFiniteSet(lists)
  /\ toolCalls \subseteq [trace : 1 .. ids, n : Nat, by : Tasks] /\ IsFiniteSet(toolCalls)

OneListPerSession ==
  /\ \A t \in Tasks : ctx[t].trace \in started => ctx[t].tools # 0
  /\ \A t \in Tasks : ctx[t].tools # 0 => ctx[t].trace # 0
  /\ \A t, u \in Tasks : ctx[t].trace = ctx[u].trace /\ ctx[t].trace \in started =>
                           ctx[t].tools = ctx[u].tools
  /\ \A t, u \in Tasks : ctx[t].tools = ctx[u].tools /\ ctx[t].tools # 0 =>
                           ctx[t].trace = ctx[u].trace

Paired ==
  \A t \in Tasks : ctx[t].trace \in started =>
    Pairs(Calls(ctx[t].tools)) = Pairs(CallsIn(ctx[t].trace))

SequenceInv == KeysOK /\ OneListPerSession /\ Paired

-----------------------------------------------------------------------------
(* What a call in task t does to trace and list when it leaves context d.  *)
Opens(d) ==
  /\ d.trace = Fresh /\ d.tools = Fresh
  /\ started' = started \cup {Fresh} /\ UNCHANGED <<lists, toolCalls>>

Traced(k, d) == d.trace = IF k.trace = 0 THEN Fresh ELSE k.trace

Keeps(k, d) ==
  /\ Traced(k, d) /\ d.tools = k.tools
  /\ UNCHANGED <<started, lists, toolCalls>>

Records(t, k, d) ==
  /\ Traced(k, d) /\ d.tools = IF k.tools = 0 THEN Fresh ELSE k.tools
  /\ UNCHANGED started /\ RecordTool(t, d)

KeyStep(t, d) ==
  /\ UNCHANGED live /\ ctx' = [ctx EXCEPT ![t] = d]
  /\ ids' \in {ids, ids + 1} /\ (Fresh \in {d.trace, d.tools} => ids' = ids + 1)
  /\ Opens(d) \/ Keeps(ctx[t], d) \/ Records(t, ctx[t], d)

-----------------------------------------------------------------------------
(* The same sequence has the same length. *)
LEMMA SameLength ==
  ASSUME KeysOK, NEW l \in Nat, NEW r \in Nat,
         Pairs(Calls(l)) = Pairs(CallsIn(r))
  PROVE  Cardinality(Calls(l)) = Cardinality(CallsIn(r))
<1> DEFINE f == [e \in Calls(l) |-> [trace |-> r, n |-> e.n, by |-> e.by]]
<1>1. IsFiniteSet(Calls(l))
  BY FS_Subset DEF KeysOK, Calls
<1>2. ASSUME NEW e \in Calls(l)
      PROVE  f[e] \in CallsIn(r)
  <2>0. <<e.n, e.by>> \in Pairs(CallsIn(r))
    BY DEF Pairs
  <2>1. PICK c \in CallsIn(r) : <<e.n, e.by>> = <<c.n, c.by>>
    BY <2>0 DEF Pairs
  <2>2. c = [trace |-> r, n |-> e.n, by |-> e.by]
    BY <2>1 DEF CallsIn, KeysOK
  <2> QED
    BY <2>2
<1>3. ASSUME NEW c \in CallsIn(r)
      PROVE  \E e \in Calls(l) : f[e] = c
  <2>0. <<c.n, c.by>> \in Pairs(Calls(l))
    BY DEF Pairs
  <2>1. PICK e \in Calls(l) : <<e.n, e.by>> = <<c.n, c.by>>
    BY <2>0 DEF Pairs
  <2>2. c = [trace |-> r, n |-> e.n, by |-> e.by]
    BY <2>1 DEF CallsIn, KeysOK
  <2> QED
    BY <2>2
<1>4. ASSUME NEW e \in Calls(l), NEW g \in Calls(l), f[e] = f[g]
      PROVE  e = g
  <2>1. e.n = g.n /\ e.by = g.by /\ e.list = l /\ g.list = l
    BY <1>4 DEF Calls
  <2> QED
    BY <2>1 DEF Calls, KeysOK
<1>5. f \in Bijection(Calls(l), CallsIn(r))
  BY <1>2, <1>3, <1>4 DEF Bijection, Injection, Surjection, IsInjective
<1> QED
  BY <1>1, <1>5, FS_Bijection DEF ExistsBijection

(* Identifiers stay generated, and a list stays with its session. *)
LEMMA KeysKept ==
  ASSUME RecordsOK, KeysOK, OneListPerSession, NEW t \in Tasks, NEW d, KeyStep(t, d)
  PROVE  KeysOK' /\ OneListPerSession'
<1> DEFINE k == ctx[t]
<1>1. /\ ids \in Nat /\ ids' \in Nat /\ ids <= ids'
      /\ k.trace \in 0 .. ids /\ k.tools \in 0 .. ids
      /\ d.trace \in 1 .. ids' /\ d.tools \in 0 .. ids'
      /\ d.trace = k.trace \/ d.trace = ids + 1
      /\ d.tools = k.tools \/ d.tools = ids + 1
      /\ k.trace # 0 => d.trace = k.trace \/ (d.trace = ids + 1 /\ d.tools = ids + 1)
      /\ k.tools # 0 => d.tools = k.tools \/ (d.trace = ids + 1 /\ d.tools = ids + 1)
      /\ started' = started \/ (started' = started \cup {ids + 1} /\ d.tools = ids + 1)
      /\ k.trace = 0 => d.trace = ids + 1
      /\ (k.tools = 0 /\ started' # started) => d.tools = ids + 1
  BY DEF RecordsOK, KeysOK, KeyStep, Opens, Keeps, Records, Traced, Fresh
<1>2. \A u \in Tasks : ctx'[u] = IF u = t THEN d ELSE ctx[u]
  BY DEF KeyStep, RecordsOK
<1>3. KeysOK'
  <2>0. live' \subseteq Tasks
    BY DEF KeysOK, KeyStep
  <2>1. \A u \in Tasks : ctx'[u].trace \in 0 .. ids' /\ ctx'[u].tools \in 0 .. ids'
    BY <1>1, <1>2 DEF KeysOK
  <2>2. started' \subseteq 1 .. ids'
    <3>1. \A x \in started : x \in 1 .. ids
      BY DEF KeysOK
    <3>2. CASE started' = started
      BY <1>1, <3>1, <3>2
    <3>3. CASE started' = started \cup {ids + 1} /\ d.tools = ids + 1
      <4>1. ids + 1 \in 1 .. ids'
        BY <1>1, <3>3
      <4> QED
        BY <1>1, <3>1, <3>3, <4>1
    <3> QED
      BY <1>1, <3>2, <3>3
  <2>3. CASE UNCHANGED <<lists, toolCalls>>
    BY <1>1, <2>0, <2>1, <2>2, <2>3 DEF KeysOK
  <2>4. CASE Records(t, k, d)
    <3> DEFINE e == [list |-> d.tools, n |-> Position(d), by |-> t]
               c == [trace |-> d.trace, n |-> 1 + Cardinality({x \in toolCalls : x.trace = d.trace}),
                     by |-> t]
    <3>1. lists' = lists \cup {e} /\ toolCalls' = toolCalls \cup {c}
      BY <2>4 DEF Records, RecordTool
    <3>2. d.tools \in 1 .. ids'
      BY <1>1, <2>4 DEF Records, Fresh
    <3>3. Position(d) \in Nat
      <4>1. IsFiniteSet({x \in lists : x.list = d.tools})
        BY FS_Subset DEF KeysOK
      <4> QED
        BY <4>1, FS_CardinalityType DEF Position
    <3>4. 1 + Cardinality({x \in toolCalls : x.trace = d.trace}) \in Nat
      <4>1. IsFiniteSet({x \in toolCalls : x.trace = d.trace})
        BY FS_Subset DEF KeysOK
      <4> QED
        BY <4>1, FS_CardinalityType
    <3>5. e \in [list : 1 .. ids', n : Nat, by : Tasks]
      BY <3>2, <3>3
    <3>6. c \in [trace : 1 .. ids', n : Nat, by : Tasks]
      BY <1>1, <3>4
    <3> HIDE DEF e, c
    <3>7. IsFiniteSet(lists') /\ IsFiniteSet(toolCalls')
      BY <3>1, FS_AddElement DEF KeysOK
    <3>8. lists' \subseteq [list : 1 .. ids', n : Nat, by : Tasks]
      BY <1>1, <3>1, <3>5 DEF KeysOK
    <3>9. toolCalls' \subseteq [trace : 1 .. ids', n : Nat, by : Tasks]
      BY <1>1, <3>1, <3>6 DEF KeysOK
    <3> QED
      BY <2>0, <2>1, <2>2, <3>7, <3>8, <3>9 DEF KeysOK
  <2> QED
    BY <2>3, <2>4 DEF KeyStep, Opens, Keeps
<1>4. ASSUME NEW u \in Tasks, ctx'[u].trace \in started'
      PROVE  ctx'[u].tools # 0
  BY <1>1, <1>2, <1>4 DEF KeysOK, OneListPerSession
<1>5. ASSUME NEW u \in Tasks, ctx'[u].tools # 0
      PROVE  ctx'[u].trace # 0
  BY <1>1, <1>2, <1>5 DEF OneListPerSession
<1>6. ASSUME NEW u \in Tasks, u # t, d.trace = ctx[u].trace, d.trace \in started'
      PROVE  d.tools = ctx[u].tools
  BY <1>1, <1>6 DEF KeysOK, OneListPerSession
<1>7. ASSUME NEW u \in Tasks, u # t, d.tools = ctx[u].tools, d.tools # 0
      PROVE  d.trace = ctx[u].trace
  BY <1>1, <1>7 DEF KeysOK, OneListPerSession
<1>8. ASSUME NEW u \in Tasks, u # t, ctx[u].trace \in started'
      PROVE  ctx[u].trace \in started
  BY <1>1 , <1>8 DEF KeysOK
<1>9. OneListPerSession'
  BY <1>2, <1>4, <1>5, <1>6, <1>7, <1>8 DEF OneListPerSession
<1> QED
  BY <1>3, <1>9

(* A call is appended to both sides at the same position, or to neither.   *)
LEMMA PairedKept ==
  ASSUME RecordsOK, SequenceInv, NEW t \in Tasks, NEW d, KeyStep(t, d)
  PROVE  Paired'
<1> DEFINE k == ctx[t]
           NewCalls(l) == {e \in lists' : e.list = l}
           NewCallsIn(r) == {e \in toolCalls' : e.trace = r}
<1>1. KeysOK /\ OneListPerSession /\ Paired /\ OneListPerSession' /\ ids \in Nat
  BY KeysKept DEF SequenceInv, RecordsOK
<1>2. \A u \in Tasks : ctx'[u] = IF u = t THEN d ELSE ctx[u]
  BY DEF KeyStep, RecordsOK
<1>3. Fresh \notin started
  BY <1>1 DEF KeysOK, Fresh
<1>4. ASSUME NEW u \in Tasks, ctx'[u].trace \in started'
      PROVE  Pairs(NewCalls(ctx'[u].tools)) = Pairs(NewCallsIn(ctx'[u].trace))
  <2>1. CASE Opens(d)
    <3>1. lists' = lists /\ toolCalls' = toolCalls
      BY <2>1 DEF Opens
    <3>2. CASE u = t
      <4>1. NewCalls(Fresh) = {} /\ NewCallsIn(Fresh) = {}
        BY <1>1, <3>1 DEF KeysOK, Fresh
      <4> QED
        BY <1>2, <2>1, <3>2, <4>1 DEF Opens
    <3>3. CASE u # t
      <4>1. ctx'[u] = ctx[u] /\ ctx[u].trace # Fresh
        BY <1>1, <1>2, <3>3 DEF KeysOK, Fresh
      <4>2. ctx[u].trace \in started
        BY <1>4, <2>1, <4>1 DEF Opens
      <4> QED
        BY <1>1, <3>1, <4>1, <4>2 DEF Paired, Calls, CallsIn
    <3> QED
      BY <3>2, <3>3
  <2>2. CASE Keeps(k, d)
    <3>1. lists' = lists /\ toolCalls' = toolCalls /\ started' = started
      BY <2>2 DEF Keeps
    <3>2. ctx'[u].trace = ctx[u].trace /\ ctx'[u].tools = ctx[u].tools
      BY <1>2, <1>3, <1>4, <2>2, <3>1 DEF Keeps, Traced
    <3> QED
      BY <1>1, <1>4, <3>1, <3>2 DEF Paired, Calls, CallsIn
  <2>3. CASE Records(t, k, d)
    <3> DEFINE e == [list |-> d.tools, n |-> Position(d), by |-> t]
               c == [trace |-> d.trace, n |-> 1 + Cardinality({x \in toolCalls : x.trace = d.trace}),
                     by |-> t]
    <3>1. lists' = lists \cup {e} /\ toolCalls' = toolCalls \cup {c} /\ started' = started
      BY <2>3 DEF Records, RecordTool
    <3>2. CASE ctx'[u].trace = d.trace
      <4>1. d.trace = k.trace /\ k.trace \in started
        BY <1>3, <1>4, <2>3, <3>1, <3>2 DEF Records, Traced
      <4>2. d.tools = k.tools
        BY <1>1, <2>3, <4>1 DEF Records, OneListPerSession
      <4>3. ctx'[u].tools = d.tools
        BY <1>1, <1>2, <1>4, <3>2 DEF OneListPerSession
      <4>4. Pairs(Calls(d.tools)) = Pairs(CallsIn(d.trace))
        BY <1>1, <4>1, <4>2 DEF Paired
      <4>5. Position(d) = 1 + Cardinality({x \in toolCalls : x.trace = d.trace})
        <5>1. d.tools \in Nat /\ d.trace \in Nat
          BY <1>1, <4>1, <4>2 DEF KeysOK
        <5>2. Cardinality(Calls(d.tools)) = Cardinality(CallsIn(d.trace))
          BY <1>1, <4>4, <5>1, SameLength
        <5> QED
          BY <5>2 DEF Position, Calls, CallsIn
      <4>6. NewCalls(d.tools) = Calls(d.tools) \cup {e}
        BY <3>1 DEF Calls
      <4>7. NewCallsIn(d.trace) = CallsIn(d.trace) \cup {c}
        BY <3>1 DEF CallsIn
      <4>8. e.n = c.n /\ e.by = c.by
        BY <4>5
      <4> HIDE DEF e, c, NewCalls, NewCallsIn
      <4>9. Pairs(NewCalls(d.tools)) = Pairs(Calls(d.tools)) \cup {<<e.n, e.by>>}
        BY <4>6 DEF Pairs
      <4>10. Pairs(NewCallsIn(d.trace)) = Pairs(CallsIn(d.trace)) \cup {<<c.n, c.by>>}
        BY <4>7 DEF Pairs
      <4> QED
        BY <3>2, <4>3, <4>4, <4>8, <4>9, <4>10
    <3>3. CASE ctx'[u].trace # d.trace
      <4>1. u # t /\ ctx'[u] = ctx[u] /\ ctx[u].trace \in started
        BY <1>2, <1>4, <3>1, <3>3
      <4>2. ctx[u].tools # d.tools
        BY <1>1, <1>2, <1>4, <3>3, <4>1 DEF OneListPerSession
      <4>3. NewCalls(ctx[u].tools) = Calls(ctx[u].tools)
        BY <3>1, <4>2 DEF Calls
      <4>4. NewCallsIn(ctx[u].trace) = CallsIn(ctx[u].trace)
        BY <3>1, <3>3, <4>1 DEF CallsIn
      <4> QED
        BY <1>1, <4>1, <4>3, <4>4 DEF Paired
    <3> QED
      BY <3>2, <3>3
  <2> QED
    BY <2>1, <2>2, <2>3 DEF KeyStep
<1> QED
  BY <1>4 DEF Paired, Calls, CallsIn
-----------------------------------------------------------------------------
(* Trace and list of the contexts that calls leave. *)
LEMMA ContextKeys ==
  ASSUME ids \in Nat, NEW k \in ContextType
  PROVE  /\ \A source \in Sources : LET c == NewSession(k, source) IN c.trace = Fresh /\ c.tools = Fresh
         /\ LET c == Filled(k) IN Traced(k, c) /\ c.tools = k.tools
         /\ LET c == Filled(Shallower(k)) IN Traced(k, c) /\ c.tools = k.tools
         /\ LET c == Filled(Deeper(NewSpan(k))) IN Traced(k, c) /\ c.tools = k.tools
         /\ LET c == Listed(Filled(NewSpan(k))) IN
              Traced(k, c) /\ c.tools = IF k.tools = 0 THEN Fresh ELSE k.tools
<1>1. \A source \in Sources : NewSession(k, source).trace = Fresh /\ NewSession(k, source).tools = Fresh
  BY DEF NewSession, ContextType
<1>2. Traced(k, Filled(k)) /\ Filled(k).tools = k.tools
  BY DEF Filled, Traced, Unset, ContextType
<1>3. Traced(k, Filled(Shallower(k))) /\ Filled(Shallower(k)).tools = k.tools
  BY DEF Filled, Shallower, Traced, Unset, ContextType
<1>4. Traced(k, Filled(Deeper(NewSpan(k)))) /\ Filled(Deeper(NewSpan(k))).tools = k.tools
  BY DEF Filled, Deeper, NewSpan, Traced, Unset, ContextType
<1>5. /\ Traced(k, Listed(Filled(NewSpan(k))))
      /\ Listed(Filled(NewSpan(k))).tools = IF k.tools = 0 THEN Fresh ELSE k.tools
  BY DEF Listed, Filled, NewSpan, Traced, Unset, ContextType
<1> QED
  BY <1>1, <1>2, <1>3, <1>4, <1>5

(* A call whose events go out from context c, and which leaves d with the  *)
(* same trace and list.                                                     *)
LEMMA CallIsKeyStep ==
  ASSUME ids \in Nat, NEW t \in Tasks, NEW c, NEW d, NEW source,
         Called(t, c, source), d.trace = c.trace, d.tools = c.tools,
         ctx' = [ctx EXCEPT ![t] = d],
         Opens(d) \/ Keeps(ctx[t], d) \/ Records(t, ctx[t], d)
  PROVE  KeyStep(t, d)
BY DEF KeyStep, Called, Fresh

(* Every call of the logging API is such a step. *)
LEMMA LogIsKeyStep ==
  ASSUME DedupInv, NEW t \in Tasks, LogStep(t)
  PROVE  \E d : KeyStep(t, d)
<1> DEFINE k == ctx[t]
<1>0. ids \in Nat /\ k \in ContextType /\ "log" \in Sources
  BY CallContexts DEF Sources
<1>1. CASE LogSessionStart(t)
  <2> DEFINE c == NewSession(k, "log")
  <2>1. Called(t, c, "log") /\ ctx' = [ctx EXCEPT ![t] = c] /\ Opens(c)
    BY <1>0, <1>1, ContextKeys DEF LogSessionStart, Log, Leaves, Opens
  <2> QED
    BY <1>0, <2>1, CallIsKeyStep
<1>2. CASE LogAgentStart(t)
  <2> DEFINE c == Filled(Deeper(NewSpan(k)))
  <2>1. Called(t, c, "log") /\ ctx' = [ctx EXCEPT ![t] = c] /\ Keeps(k, c)
    BY <1>0, <1>2, ContextKeys DEF LogAgentStart, Log, Emit, Leaves, Keeps
  <2> QED
    BY <1>0, <2>1, CallIsKeyStep
<1>3. CASE LogAgentEnd(t)
  <2> DEFINE c == Filled(Shallower(k))
  <2>1. Called(t, c, "log") /\ ctx' = [ctx EXCEPT ![t] = c] /\ Keeps(k, c)
    BY <1>0, <1>3, ContextKeys DEF LogAgentEnd, Log, Leaves, Keeps
  <2> QED
    BY <1>0, <2>1, CallIsKeyStep
<1>4. CASE LogModelResponse(t)
  <2> DEFINE c == Filled(k)
             spent == Spend(c)
             told == [spent EXCEPT !.alerted["log"] = TRUE]
  <2>1. /\ Called(t, c, "log") /\ UNCHANGED <<started, lists, toolCalls>>
        /\ \E d \in {c, spent, told} : ctx' = [ctx EXCEPT ![t] = d]
    BY <1>4 DEF LogModelResponse, Log, Leaves
  <2>2. c \in ContextType /\ Traced(k, c) /\ c.tools = k.tools
    BY <1>0, CallContexts, ContextKeys
  <2> HIDE DEF c
  <2>3. \A d \in {c, spent, told} : d.trace = c.trace /\ d.tools = c.tools
    BY <2>2 DEF Spend, ContextType
  <2>4. \A d \in {c, spent, told} : Keeps(k, d)
    BY <2>1, <2>2, <2>3 DEF Keeps, Traced
  <2> HIDE DEF spent, told
  <2> QED
    BY <1>0, <2>1, <2>3, <2>4, CallIsKeyStep
<1>5. CASE LogToolStart(t)
  <2> DEFINE c == Listed(Filled(NewSpan(k)))
  <2>1. Called(t, c, "log") /\ ctx' = [ctx EXCEPT ![t] = c] /\ Records(t, k, c)
    BY <1>0, <1>5, ContextKeys DEF LogToolStart, Log, RecordTool, Records
  <2> QED
    BY <1>0, <2>1, CallIsKeyStep
<1>6. ASSUME NEW type \in LogTypes, LogEvent(t, type)
      PROVE  \E d : KeyStep(t, d)
  <2> DEFINE c == Filled(k)
  <2>1. Called(t, c, "log") /\ ctx' = [ctx EXCEPT ![t] = c] /\ Keeps(k, c)
    BY <1>0, <1>6, ContextKeys DEF LogEvent, Log, Leaves, Keeps
  <2> QED
    BY <1>0, <2>1, CallIsKeyStep
<1>7. CASE LogModelResponseFails(t)
  <2> DEFINE c == Filled(k)
  <2>1. Called(t, c, "log") /\ ctx' = [ctx EXCEPT ![t] = c] /\ Keeps(k, c)
    BY <1>0, <1>7, ContextKeys DEF LogModelResponseFails, Leaves, Keeps
  <2> QED
    BY <1>0, <2>1, CallIsKeyStep
<1> QED
  BY <1>1, <1>2, <1>3, <1>4, <1>5, <1>6, <1>7 DEF LogStep

(* And every callback of the plugin. *)
LEMMA AdkIsKeyStep ==
  ASSUME DedupInv, NEW t \in Tasks, AdkStep(t)
  PROVE  \E d : KeyStep(t, d)
<1> DEFINE k == ctx[t]
           f == Filled(k)
<1>0. /\ ids \in Nat /\ k \in ContextType /\ "adapter" \in Sources
      /\ f \in ContextType /\ Traced(k, f) /\ f.tools = k.tools
  BY CallContexts, ContextKeys DEF Sources
<1>1. CASE BeforeRun(t)
  <2> DEFINE b == NewSession(k, "adapter")
             c == [b EXCEPT !.turn = FALSE]
  <2>1. /\ Called(t, c, "adapter") /\ ctx' = [ctx EXCEPT ![t] = c]
        /\ started' = started \cup {c.trace} /\ UNCHANGED <<lists, toolCalls>>
    BY <1>1 DEF BeforeRun, Callback, Leaves
  <2>2. c.trace = Fresh /\ c.tools = Fresh
    BY <1>0 DEF NewSession, ContextType
  <2>3. Opens(c)
    BY <2>1, <2>2 DEF Opens
  <2> QED
    BY <1>0, <2>1, <2>3, CallIsKeyStep
<1>2. CASE AfterRun(t) \/ BeforeModel(t)
  <2>1. PICK c \in {[f EXCEPT !.depth = 0], [f EXCEPT !.turn = TRUE]} :
          /\ Called(t, c, "adapter") /\ ctx' = [ctx EXCEPT ![t] = c]
          /\ UNCHANGED <<started, lists, toolCalls>>
    BY <1>2 DEF AfterRun, BeforeModel, Callback, Leaves
  <2>2. c.trace = f.trace /\ c.tools = f.tools
    BY <1>0 DEF ContextType
  <2>3. Keeps(k, c)
    BY <1>0, <2>1, <2>2 DEF Keeps, Traced
  <2> QED
    BY <1>0, <2>1, <2>3, CallIsKeyStep
<1>3. CASE BeforeAgent(t)
  <2> DEFINE c == Filled(Deeper(NewSpan(k)))
  <2>1. Called(t, c, "adapter") /\ ctx' = [ctx EXCEPT ![t] = c] /\ Keeps(k, c)
    BY <1>0, <1>3, ContextKeys DEF BeforeAgent, Callback, Leaves, Keeps
  <2> QED
    BY <1>0, <2>1, CallIsKeyStep
<1>4. CASE AfterAgent(t)
  <2> DEFINE c == Filled(Shallower(k))
  <2>1. Called(t, c, "adapter") /\ ctx' = [ctx EXCEPT ![t] = c] /\ Keeps(k, c)
    BY <1>0, <1>4, ContextKeys DEF AfterAgent, Callback, Leaves, Keeps
  <2> QED
    BY <1>0, <2>1, CallIsKeyStep
<1>5. CASE AfterModel(t)
  <2> DEFINE c == Spend(f)
             left == [c EXCEPT !.turn = FALSE, !.alerted["adapter"] = @ \/ Crosses(c, "adapter")]
  <2>1. /\ Called(t, c, "adapter") /\ ctx' = [ctx EXCEPT ![t] = left]
        /\ UNCHANGED <<started, lists, toolCalls>>
    BY <1>5 DEF AfterModel, Callback, Leaves
  <2>2. c.trace = f.trace /\ c.tools = f.tools /\ left.trace = f.trace /\ left.tools = f.tools
    BY <1>0 DEF Spend, ContextType
  <2>3. Keeps(k, left)
    BY <1>0, <2>1, <2>2 DEF Keeps, Traced
  <2> QED
    BY <1>0, <2>1, <2>2, <2>3, CallIsKeyStep
<1>6. CASE AfterModelNoUsage(t) \/ ModelError(t)
  <2> DEFINE left == [f EXCEPT !.turn = FALSE]
  <2>1. /\ Called(t, f, "adapter") /\ ctx' = [ctx EXCEPT ![t] = left]
        /\ UNCHANGED <<started, lists, toolCalls>>
    BY <1>6 DEF AfterModelNoUsage, ModelError, Callback, Leaves
  <2>2. left.trace = f.trace /\ left.tools = f.tools
    BY <1>0 DEF ContextType
  <2>3. Keeps(k, left)
    BY <1>0, <2>1, <2>2 DEF Keeps, Traced
  <2> QED
    BY <1>0, <2>1, <2>2, <2>3, CallIsKeyStep
<1>7. CASE BeforeTool(t)
  <2> DEFINE c == Listed(Filled(NewSpan(k)))
  <2>1. Called(t, c, "adapter") /\ ctx' = [ctx EXCEPT ![t] = c] /\ Records(t, k, c)
    BY <1>0, <1>7, ContextKeys DEF BeforeTool, Callback, RecordTool, Records
  <2> QED
    BY <1>0, <2>1, CallIsKeyStep
<1>8. ASSUME NEW type, AfterTool(t, type) \/ Notice(t, type)
      PROVE  \E d : KeyStep(t, d)
  <2>1. Called(t, f, "adapter") /\ ctx' = [ctx EXCEPT ![t] = f] /\ Keeps(k, f)
    BY <1>0, <1>8 DEF AfterTool, Notice, Callback, Leaves, Keeps
  <2> QED
    BY <1>0, <2>1, CallIsKeyStep
<1> QED
  BY <1>1, <1>2, <1>3, <1>4, <1>5, <1>6, <1>7, <1>8 DEF AdkStep

(* A new task is in the session of the task that creates it, with its list. *)
LEMMA ForkKeepsSequence ==
  ASSUME RecordsOK, SequenceInv, NEW p \in Tasks, NEW t \in Tasks, Fork(p, t)
  PROVE  SequenceInv'
<1>1. /\ \A u \in Tasks : ctx'[u] = IF u = t THEN ctx[p] ELSE ctx[u]
      /\ UNCHANGED <<ids, lists, toolCalls, started>> /\ live' \subseteq live \cup {t}
  BY DEF Fork, CreateTask, pastVars, RecordsOK
<1>2. KeysOK'
  BY <1>1 DEF SequenceInv, KeysOK
<1>3. OneListPerSession'
  BY <1>1 DEF SequenceInv, OneListPerSession
<1>4. Paired'
  BY <1>1 DEF SequenceInv, Paired, Calls, CallsIn
<1> QED
  BY <1>2, <1>3, <1>4 DEF SequenceInv

(* The invariant holds outside everything and in the first agent. *)
LEMMA SequenceInit ==
  ASSUME Init
  PROVE  SequenceInv
<1>1. Main \in Tasks
  BY ContextAssumption
<1>2. NewContext.trace = 0 /\ NewContext.tools = 0
  BY DEF NewContext, Unset
<1>3. IsFiniteSet({})
  BY FS_EmptySet
<1>4. CASE Idle
  BY <1>1, <1>2, <1>3, <1>4
     DEF Idle, ContextInit, SequenceInv, KeysOK, OneListPerSession, Paired
<1>5. CASE InAgent
  <2> DEFINE m == [NewContext EXCEPT !.trace = 1, !.span = 2, !.reg = 1, !.tools = 1, !.depth = 1]
  <2>1. m.trace = 1 /\ m.tools = 1
    BY DEF NewContext
  <2>2. /\ ids = 2 /\ ctx = [t \in Tasks |-> IF t # Main THEN NewContext ELSE m]
        /\ live = {Main} /\ lists = {} /\ toolCalls = {} /\ started = {1}
    BY <1>5 DEF InAgent
  <2> HIDE DEF m
  <2>3. KeysOK
    BY <1>1, <1>2, <1>3, <2>1, <2>2 DEF KeysOK
  <2>4. OneListPerSession
    BY <1>2, <2>1, <2>2 DEF OneListPerSession
  <2>5. Paired
    BY <1>2, <2>1, <2>2 DEF Paired, Calls, CallsIn
  <2> QED
    BY <2>3, <2>4, <2>5 DEF SequenceInv
<1> QED
  BY <1>4, <1>5 DEF Init

(* Every step keeps it. *)
LEMMA SequenceStep ==
  ASSUME DedupInv, SequenceInv, [Next]_sessionVars
  PROVE  SequenceInv'
<1>0. RecordsOK
  BY DEF DedupInv
<1>1. ASSUME NEW t \in Tasks, \E d : KeyStep(t, d)
      PROVE  SequenceInv'
  BY <1>0, <1>1, KeysKept, PairedKept DEF SequenceInv
<1>2. CASE Next
  <2>1. ASSUME NEW t \in Tasks, LogCall(t)
        PROVE  SequenceInv'
    BY <1>1, <2>1, LogIsKeyStep DEF LogCall
  <2>2. ASSUME NEW t \in Tasks, AdkStep(t)
        PROVE  SequenceInv'
    BY <1>1, <2>2, AdkIsKeyStep
  <2>3. ASSUME NEW p \in Tasks, NEW t \in Tasks, Fork(p, t)
        PROVE  SequenceInv'
    BY <1>0, <2>3, ForkKeepsSequence
  <2> QED
    BY <1>2, <2>1, <2>2, <2>3 DEF Next
<1>3. CASE UNCHANGED sessionVars
  BY <1>3 DEF sessionVars, contextVars, pastVars, SequenceInv, KeysOK, OneListPerSession,
              Paired, Calls, CallsIn
<1> QED
  BY <1>2, <1>3

(* The tool sequence of a session is all its tool calls in order, those of *)
(* child tasks and of both sources (core/sequences.py, record_tool_call).   *)
THEOREM SequenceTheorem == Spec => []SequenceSeesAll
<1>1. Init => SequenceInv
  BY SequenceInit
<1>2. DedupInv /\ SequenceInv /\ [Next]_sessionVars => SequenceInv'
  BY SequenceStep
<1>3. SequenceInv => SequenceSeesAll
  BY DEF SequenceInv, KeysOK, Paired, Pairs, Calls, CallsIn, SequenceSeesAll
<1> QED
  BY <1>1, <1>2, <1>3, DedupAlways, PTL DEF Spec
-----------------------------------------------------------------------------
(* Types and the cost alert.                                               *)

(* Nothing exceeds what has been generated and the calls made. *)
ContextsInRange ==
  \A t \in Tasks :
    /\ ctx[t].trace <= ids /\ ctx[t].span <= ids /\ ctx[t].reg <= ids /\ ctx[t].tools <= ids
    /\ ctx[t].cost <= calls /\ ctx[t].depth <= calls + 1
EntriesInRange ==
  /\ registry \subseteq [reg : 0 .. ids, type : Types, span : 0 .. ids, source : users]
  /\ emitted \subseteq [type : Types, span : 0 .. ids, source : users]
  /\ failed \subseteq [type : Types, span : 0 .. ids, source : users]
  /\ skipped \subseteq [type : Types, span : 0 .. ids, source : users]
CallsInRange ==
  /\ Cardinality(lists) <= calls /\ Cardinality(toolCalls) <= calls
  /\ \A e \in lists \cup toolCalls : e.n \in 1 .. calls
OpenTypes == open \in [Tasks -> Seq({"run", "agent", "model", "tool"})]
AlertTypes == alerts \in Seq(Nat) /\ \A i \in DOMAIN alerts : alerts[i] \in 1 .. ids

RangeInv ==
  /\ Main \in live /\ live \subseteq Tasks /\ users \subseteq Sources
  /\ calls \in 0 .. MaxCalls /\ ids \in 0 .. (calls + 2)
  /\ ContextsInRange /\ EntriesInRange /\ CallsInRange /\ OpenTypes /\ AlertTypes

(* With one source, a session at the threshold is flagged and a flagged    *)
(* one has its alert; in one task, an alert comes with the flag.            *)
Traces == {alerts[i] : i \in DOMAIN alerts}
Told(s) ==
  \A t \in Tasks :
    /\ ctx[t].cost >= Threshold => ctx[t].alerted[s]
    /\ ctx[t].alerted[s] => ctx[t].trace \in Traces
Once(s) ==
  live = {Main} =>
    /\ \A i, j \in DOMAIN alerts : alerts[i] = alerts[j] => i = j
    /\ ~ctx[Main].alerted[s] => ctx[Main].trace \notin Traces
AlertInv == \A s \in Sources : users \subseteq {s} => Told(s) /\ Once(s)

-----------------------------------------------------------------------------
(* What a call does to them: its events go out from context c, and it      *)
(* leaves context d.                                                        *)
Alike(c, d) == d.trace = c.trace /\ d.span = c.span /\ d.reg = c.reg /\ d.tools = c.tools
Follows(k, c) ==
  /\ c.trace \in {k.trace, Fresh} /\ c.span \in {k.span, Fresh}
  /\ c.reg \in {k.reg, Fresh} /\ c.tools \in {k.tools, Fresh}
  /\ c.depth <= k.depth + 1

Resets(d, source) ==
  /\ d.trace = Fresh /\ d.cost = 0 /\ ~d.alerted[source] /\ alerts' = alerts
Quiet(k, d) ==
  /\ Traced(k, d) /\ d.cost = k.cost /\ d.alerted = k.alerted /\ alerts' = alerts
Spends(k, d, source) ==
  /\ Traced(k, d) /\ d.cost = k.cost + 1
  /\ d.alerted[source] <=> k.alerted[source] \/ d.cost >= Threshold
  /\ alerts' = IF ~k.alerted[source] /\ d.cost >= Threshold THEN Append(alerts, d.trace)
               ELSE alerts
Mixes(k, d, source) ==
  /\ \E e \in registry : e.source # source
  /\ Traced(k, d) /\ d.cost \in {k.cost, k.cost + 1}
  /\ alerts' \in {alerts, Append(alerts, d.trace)}

Shape(t, source, types, c, d) ==
  /\ Called(t, c, source) /\ types \subseteq Types /\ Emit(c, types, source)
  /\ ctx' = [ctx EXCEPT ![t] = d] /\ d \in ContextType /\ Alike(c, d) /\ Follows(ctx[t], d)
  /\ UNCHANGED <<lists, toolCalls>> \/ RecordTool(t, d)
  /\ \/ Resets(d, source) \/ Quiet(ctx[t], d)
     \/ Spends(ctx[t], d, source) \/ Mixes(ctx[t], d, source)

Shaped(t) == \E source \in Sources : \E types, c, d : Shape(t, source, types, c, d)

LEMMA ContextFollows ==
  ASSUME RecordsOK, NEW k \in ContextType
  PROVE  /\ \A source \in Sources : LET c == NewSession(k, source) IN
              Follows(k, c) /\ c.trace = Fresh /\ c.cost = 0 /\ ~c.alerted[source]
         /\ LET c == Filled(k) IN Follows(k, c) /\ c.cost = k.cost /\ c.alerted = k.alerted
                                  /\ c.depth = k.depth
         /\ LET c == Filled(Shallower(k)) IN Follows(k, c) /\ c.cost = k.cost /\ c.alerted = k.alerted
         /\ LET c == Filled(Deeper(NewSpan(k))) IN
              Follows(k, c) /\ c.cost = k.cost /\ c.alerted = k.alerted
         /\ LET c == Listed(Filled(NewSpan(k))) IN
              Follows(k, c) /\ c.cost = k.cost /\ c.alerted = k.alerted
<1> USE DEF Follows
<1>1. ASSUME NEW source \in Sources
      PROVE  LET c == NewSession(k, source) IN
              Follows(k, c) /\ c.trace = Fresh /\ c.cost = 0 /\ ~c.alerted[source]
  BY DEF NewSession, ContextType
<1>2. LET c == Filled(k) IN Follows(k, c) /\ c.cost = k.cost /\ c.alerted = k.alerted
                            /\ c.depth = k.depth
  BY DEF Filled, Unset, ContextType
<1>3. LET c == Filled(Shallower(k)) IN Follows(k, c) /\ c.cost = k.cost /\ c.alerted = k.alerted
  BY DEF Filled, Shallower, Unset, ContextType
<1>4. LET c == Filled(Deeper(NewSpan(k))) IN
        Follows(k, c) /\ c.cost = k.cost /\ c.alerted = k.alerted
  BY DEF Filled, Deeper, NewSpan, Unset, ContextType
<1>5. LET c == Listed(Filled(NewSpan(k))) IN
        Follows(k, c) /\ c.cost = k.cost /\ c.alerted = k.alerted
  BY DEF Listed, Filled, NewSpan, Unset, ContextType
<1> QED
  BY <1>1, <1>2, <1>3, <1>4, <1>5

(* The registry holds a source's event back only for another source's. *)
LEMMA HeldBack ==
  ASSUME NEW c, NEW type, NEW source, ~Allowed(c, type, source)
  PROVE  \E e \in registry : e.source # source
BY DEF Allowed, Owners

(* A call whose events go out from the context it leaves, and which spends *)
(* nothing.                                                                 *)
LEMMA QuietShape ==
  ASSUME NEW t \in Tasks, NEW source \in Sources, NEW types \in SUBSET Types, NEW c \in ContextType,
         Called(t, c, source), Emit(c, types, source), Follows(ctx[t], c),
         Traced(ctx[t], c), c.cost = ctx[t].cost, c.alerted = ctx[t].alerted, alerts' = alerts,
         Leaves(t, c) \/ RecordTool(t, c)
  PROVE  Shaped(t)
<1>1. ctx' = [ctx EXCEPT ![t] = c] /\ (UNCHANGED <<lists, toolCalls>> \/ RecordTool(t, c))
  BY DEF Leaves, RecordTool
<1>2. Alike(c, c) /\ Quiet(ctx[t], c)
  BY DEF Alike, Quiet
<1> QED
  BY <1>1, <1>2 DEF Shaped, Shape

LEMMA LogIsShaped ==
  ASSUME DedupInv, NEW t \in Tasks, LogStep(t)
  PROVE  Shaped(t)
<1> DEFINE k == ctx[t]
<1>0. ids \in Nat /\ k \in ContextType /\ "log" \in Sources /\ RecordsOK
  BY CallContexts DEF Sources, DedupInv
<1>1. CASE LogSessionStart(t)
  <2> DEFINE c == NewSession(k, "log")
  <2>1. /\ Called(t, c, "log") /\ Emit(c, {"session_start"}, "log") /\ alerts' = alerts
        /\ ctx' = [ctx EXCEPT ![t] = c] /\ UNCHANGED <<lists, toolCalls>>
    BY <1>1 DEF LogSessionStart, Log, Leaves, NoAlert
  <2>2. c \in ContextType /\ Follows(k, c) /\ c.trace = Fresh /\ c.cost = 0 /\ ~c.alerted["log"]
    BY <1>0, CallContexts, ContextFollows
  <2>3. {"session_start"} \subseteq Types
    BY DEF Types
  <2> HIDE DEF c
  <2>4. Shape(t, "log", {"session_start"}, c, c)
    BY <2>1, <2>2, <2>3 DEF Shape, Resets, Alike
  <2> QED
    BY <1>0, <2>4 DEF Shaped
<1>2. CASE LogAgentStart(t)
  <2> DEFINE c == Filled(Deeper(NewSpan(k)))
  <2>1. /\ Called(t, c, "log") /\ Emit(c, {"agent_start"}, "log") /\ alerts' = alerts
        /\ Leaves(t, c)
    BY <1>2 DEF LogAgentStart, Log, NoAlert
  <2>2. /\ c \in ContextType /\ Follows(k, c) /\ Traced(k, c)
        /\ c.cost = k.cost /\ c.alerted = k.alerted
    BY <1>0, CallContexts, ContextFollows, ContextKeys
  <2>3. {"agent_start"} \subseteq Types
    BY DEF Types
  <2> HIDE DEF c
  <2> QED
    BY <1>0, <2>1, <2>2, <2>3, QuietShape
<1>3. CASE LogAgentEnd(t)
  <2> DEFINE c == Filled(Shallower(k))
  <2>1. /\ Called(t, c, "log") /\ Emit(c, {"agent_end"}, "log") /\ alerts' = alerts
        /\ Leaves(t, c)
    BY <1>3 DEF LogAgentEnd, Log, NoAlert
  <2>2. /\ c \in ContextType /\ Follows(k, c) /\ Traced(k, c)
        /\ c.cost = k.cost /\ c.alerted = k.alerted
    BY <1>0, CallContexts, ContextFollows, ContextKeys
  <2>3. {"agent_end"} \subseteq Types
    BY DEF Types
  <2> HIDE DEF c
  <2> QED
    BY <1>0, <2>1, <2>2, <2>3, QuietShape
<1>4. CASE LogModelResponse(t)
  <2> DEFINE c == Filled(k)
             spent == Spend(c)
             alert == Crosses(spent, "log")
             told == [spent EXCEPT !.alerted["log"] = TRUE]
             allowed == Allowed(c, "model_response", "log")
  <2>1. /\ Called(t, c, "log") /\ Emit(c, {"model_response"}, "log")
        /\ UNCHANGED <<lists, toolCalls>>
        /\ \/ ~allowed /\ ctx' = [ctx EXCEPT ![t] = c] /\ alerts' = alerts
           \/ alert /\ ctx' = [ctx EXCEPT ![t] = told] /\ alerts' = Append(alerts, c.trace)
           \/ ~alert /\ ctx' = [ctx EXCEPT ![t] = spent] /\ alerts' = alerts
    BY <1>4 DEF LogModelResponse, Log, Leaves, NoAlert, Alert
  <2>2. /\ c \in ContextType /\ Follows(k, c) /\ Traced(k, c)
        /\ c.cost = k.cost /\ c.alerted = k.alerted
    BY <1>0, CallContexts, ContextFollows, ContextKeys
  <2>3. {"model_response"} \subseteq Types
    BY DEF Types
  <2>4. ~allowed => \E e \in registry : e.source # "log"
    BY HeldBack
  <2>5. spent \in ContextType /\ told \in ContextType
    BY <1>0, <2>2, SameUpdates DEF Same
  <2> HIDE DEF c
  <2>6. Follows(k, spent) /\ Traced(k, spent) /\ Alike(c, spent) /\ spent.cost = k.cost + 1
        /\ spent.alerted = k.alerted
    BY <2>2 DEF Spend, ContextType, Follows, Traced, Alike
  <2>7. alert <=> ~k.alerted["log"] /\ spent.cost >= Threshold
    BY <2>6 DEF Crosses
  <2> HIDE DEF spent
  <2>8. Follows(k, told) /\ Traced(k, told) /\ Alike(c, told) /\ told.cost = k.cost + 1
        /\ told.alerted["log"] = TRUE
    BY <1>0, <2>5, <2>6 DEF ContextType, Follows, Traced, Alike
  <2> HIDE DEF told, alert, allowed
  <2>9. CASE ~allowed /\ ctx' = [ctx EXCEPT ![t] = c] /\ alerts' = alerts
    <3>1. Mixes(k, c, "log") /\ Alike(c, c)
      BY <2>2, <2>4, <2>9 DEF Mixes, Alike
    <3>2. Shape(t, "log", {"model_response"}, c, c)
      BY <2>1, <2>2, <2>3, <2>9, <3>1 DEF Shape
    <3> QED
      BY <1>0, <3>2 DEF Shaped
  <2>10. CASE alert /\ ctx' = [ctx EXCEPT ![t] = told] /\ alerts' = Append(alerts, c.trace)
    <3>1. told.cost >= Threshold /\ told.trace = c.trace /\ ~k.alerted["log"]
      BY <2>6, <2>7, <2>8, <2>10 DEF Alike
    <3>2. Spends(k, told, "log")
      BY <2>8, <2>10, <3>1 DEF Spends
    <3>3. Shape(t, "log", {"model_response"}, c, told)
      BY <2>1, <2>3, <2>5, <2>8, <2>10, <3>2 DEF Shape
    <3> QED
      BY <1>0, <3>3 DEF Shaped
  <2>11. CASE ~alert /\ ctx' = [ctx EXCEPT ![t] = spent] /\ alerts' = alerts
    <3>1. Spends(k, spent, "log")
      BY <2>6, <2>7, <2>11 DEF Spends
    <3>2. Shape(t, "log", {"model_response"}, c, spent)
      BY <2>1, <2>3, <2>5, <2>6, <2>11, <3>1 DEF Shape
    <3> QED
      BY <1>0, <3>2 DEF Shaped
  <2> QED
    BY <2>1, <2>9, <2>10, <2>11
<1>5. CASE LogToolStart(t)
  <2> DEFINE c == Listed(Filled(NewSpan(k)))
  <2>1. /\ Called(t, c, "log") /\ Emit(c, {"tool_start"}, "log") /\ alerts' = alerts
        /\ RecordTool(t, c)
    BY <1>5 DEF LogToolStart, Log, NoAlert
  <2>2. /\ c \in ContextType /\ Follows(k, c) /\ Traced(k, c)
        /\ c.cost = k.cost /\ c.alerted = k.alerted
    BY <1>0, CallContexts, ContextFollows, ContextKeys
  <2>3. {"tool_start"} \subseteq Types
    BY DEF Types
  <2> HIDE DEF c
  <2> QED
    BY <1>0, <2>1, <2>2, <2>3, QuietShape
<1>6. ASSUME NEW type \in LogTypes, LogEvent(t, type)
      PROVE  Shaped(t)
  <2> DEFINE c == Filled(k)
  <2>1. /\ Called(t, c, "log") /\ Emit(c, {type}, "log") /\ alerts' = alerts
        /\ Leaves(t, c)
    BY <1>6 DEF LogEvent, Log, NoAlert
  <2>2. /\ c \in ContextType /\ Follows(k, c) /\ Traced(k, c)
        /\ c.cost = k.cost /\ c.alerted = k.alerted
    BY <1>0, CallContexts, ContextFollows, ContextKeys
  <2>3. {type} \subseteq Types
    BY DEF Types
  <2> HIDE DEF c
  <2> QED
    BY <1>0, <2>1, <2>2, <2>3, QuietShape
<1>7. CASE LogModelResponseFails(t)
  <2> DEFINE c == Filled(k)
  <2>1. /\ Called(t, c, "log") /\ Emit(c, {"model_response"}, "log") /\ alerts' = alerts
        /\ Leaves(t, c)
    BY <1>7, FailedEmits DEF LogModelResponseFails, NoAlert
  <2>2. /\ c \in ContextType /\ Follows(k, c) /\ Traced(k, c)
        /\ c.cost = k.cost /\ c.alerted = k.alerted
    BY <1>0, CallContexts, ContextFollows, ContextKeys
  <2>3. {"model_response"} \subseteq Types
    BY DEF Types
  <2> HIDE DEF c
  <2> QED
    BY <1>0, <2>1, <2>2, <2>3, QuietShape
<1> QED
  BY <1>1, <1>2, <1>3, <1>4, <1>5, <1>6, <1>7 DEF LogStep

LEMMA AdkIsShaped ==
  ASSUME DedupInv, NEW t \in Tasks, AdkStep(t)
  PROVE  Shaped(t)
<1> DEFINE k == ctx[t]
           f == Filled(k)
<1>0. ids \in Nat /\ k \in ContextType /\ "adapter" \in Sources /\ RecordsOK
  BY CallContexts DEF Sources, DedupInv
<1>a. /\ f \in ContextType /\ Follows(k, f) /\ Traced(k, f)
      /\ f.cost = k.cost /\ f.alerted = k.alerted /\ f.depth = k.depth
  BY <1>0, CallContexts, ContextFollows, ContextKeys
<1>b. ASSUME NEW c \in {[f EXCEPT !.depth = 0], [f EXCEPT !.turn = TRUE], [f EXCEPT !.turn = FALSE]}
      PROVE  /\ c \in ContextType /\ Alike(f, c) /\ Follows(k, c) /\ Traced(k, c)
             /\ c.cost = k.cost /\ c.alerted = k.alerted
  <2>1. c \in ContextType
    BY <1>a, SameUpdates DEF Same
  <2>2. Alike(f, c) /\ c.cost = f.cost /\ c.alerted = f.alerted /\ c.depth \in {0, f.depth}
    BY <1>a DEF Alike, ContextType
  <2>3. k.depth \in Nat
    BY <1>0 DEF ContextType
  <2> QED
    BY <1>a, <2>1, <2>2, <2>3 DEF Follows, Traced, Alike
<1>1. CASE BeforeRun(t)
  <2> DEFINE b == NewSession(k, "adapter")
             c == [b EXCEPT !.turn = FALSE]
  <2>1. /\ Called(t, c, "adapter") /\ Emit(c, {"session_start"}, "adapter")
        /\ ctx' = [ctx EXCEPT ![t] = c] /\ UNCHANGED <<lists, toolCalls>> /\ alerts' = alerts
    BY <1>1 DEF BeforeRun, Callback, Leaves, NoAlert
  <2>2. b \in ContextType /\ Follows(k, b) /\ b.trace = Fresh /\ b.cost = 0 /\ ~b.alerted["adapter"]
    BY <1>0, CallContexts, ContextFollows
  <2> HIDE DEF b
  <2>3. c \in ContextType
    BY <2>2, SameUpdates DEF Same
  <2>4. Follows(k, c) /\ c.trace = Fresh /\ c.cost = 0 /\ ~c.alerted["adapter"]
    BY <2>2 DEF Follows, ContextType
  <2>5. {"session_start"} \subseteq Types
    BY DEF Types
  <2> HIDE DEF c
  <2>6. Shape(t, "adapter", {"session_start"}, c, c)
    BY <2>1, <2>3, <2>4, <2>5 DEF Shape, Resets, Alike
  <2> QED
    BY <1>0, <2>6 DEF Shaped
<1>2. CASE AfterRun(t) \/ BeforeModel(t)
  <2>1. PICK c \in {[f EXCEPT !.depth = 0], [f EXCEPT !.turn = TRUE]},
              types \in {{"session_end"}, {"model_request"}} :
          /\ Called(t, c, "adapter") /\ Emit(c, types, "adapter") /\ alerts' = alerts
          /\ Leaves(t, c)
    BY <1>2 DEF AfterRun, BeforeModel, Callback, NoAlert
  <2>2. types \subseteq Types
    <3>1. "session_end" \in Types /\ "model_request" \in Types
      BY DEF Types
    <3> QED
      BY <3>1
  <2> HIDE DEF k, f
  <2> QED
    BY <1>0, <1>b, <2>1, <2>2, QuietShape DEF k
<1>3. CASE BeforeAgent(t)
  <2> DEFINE c == Filled(Deeper(NewSpan(k)))
  <2>1. PICK types \in SUBSET {"agent_start", "depth_exceeded"} :
        /\ Called(t, c, "adapter") /\ Emit(c, types, "adapter") /\ alerts' = alerts
        /\ Leaves(t, c)
    BY <1>3 DEF BeforeAgent, Callback, NoAlert
  <2>2. /\ c \in ContextType /\ Follows(k, c) /\ Traced(k, c)
        /\ c.cost = k.cost /\ c.alerted = k.alerted
    BY <1>0, CallContexts, ContextFollows, ContextKeys
  <2>3. types \subseteq Types
    BY DEF Types
  <2> HIDE DEF c
  <2> QED
    BY <1>0, <2>1, <2>2, <2>3, QuietShape
<1>4. CASE AfterAgent(t)
  <2> DEFINE c == Filled(Shallower(k))
  <2>1. /\ Called(t, c, "adapter") /\ Emit(c, {"agent_end"}, "adapter") /\ alerts' = alerts
        /\ Leaves(t, c)
    BY <1>4 DEF AfterAgent, Callback, NoAlert
  <2>2. /\ c \in ContextType /\ Follows(k, c) /\ Traced(k, c)
        /\ c.cost = k.cost /\ c.alerted = k.alerted
    BY <1>0, CallContexts, ContextFollows, ContextKeys
  <2>3. {"agent_end"} \subseteq Types
    BY DEF Types
  <2> HIDE DEF c
  <2> QED
    BY <1>0, <2>1, <2>2, <2>3, QuietShape
<1>5. CASE AfterModel(t)
  <2> DEFINE c == Spend(f)
             alert == Crosses(c, "adapter")
             flag == c.alerted["adapter"] \/ alert
             quiet == [c EXCEPT !.turn = FALSE]
             left == [quiet EXCEPT !.alerted["adapter"] = flag]
             types == {"model_response"} \cup (IF alert THEN {"cost_threshold_exceeded"} ELSE {})
                        \cup Duration(c)
             allowed == Allowed(c, "cost_threshold_exceeded", "adapter")
  <2>1. /\ Called(t, c, "adapter") /\ Emit(c, types, "adapter") /\ UNCHANGED <<lists, toolCalls>>
        /\ ctx' = [ctx EXCEPT ![t] = [c EXCEPT !.turn = FALSE, !.alerted["adapter"] = @ \/ alert]]
        /\ alerts' = IF alert /\ allowed THEN Append(alerts, c.trace) ELSE alerts
    BY <1>5 DEF AfterModel, Callback, Leaves, NoAlert, Alert
  <2>2. c \in ContextType
    BY <1>a, SameUpdates DEF Same
  <2>3. /\ Follows(k, c) /\ Traced(k, c) /\ c.cost = k.cost + 1 /\ c.alerted = k.alerted
    BY <1>a DEF Spend, ContextType, Follows, Traced
  <2>4. types \subseteq Types
    BY DEF Types, Duration
  <2>5. ~allowed => \E e \in registry : e.source # "adapter"
    BY HeldBack
  <2> HIDE DEF c, allowed
  <2>6. [c EXCEPT !.turn = FALSE, !.alerted["adapter"] = @ \/ alert] = left
    BY <2>2 DEF ContextType
  <2>7. alert <=> ~k.alerted["adapter"] /\ c.cost >= Threshold
    BY <2>3 DEF Crosses
  <2>8. flag \in BOOLEAN /\ (flag <=> k.alerted["adapter"] \/ c.cost >= Threshold)
    BY <2>3, <2>7
  <2>9. quiet \in ContextType
    BY <2>2, SameUpdates DEF Same
  <2>10. Alike(c, quiet) /\ quiet.cost = c.cost /\ quiet.depth = c.depth /\ quiet.alerted = c.alerted
    BY <2>2 DEF Alike, ContextType
  <2> HIDE DEF flag, quiet, alert
  <2>11. left \in ContextType
    BY <1>0, <2>8, <2>9, SameUpdates DEF Same
  <2>12. Alike(quiet, left) /\ left.cost = quiet.cost /\ left.depth = quiet.depth
         /\ left.alerted["adapter"] = flag
    BY <1>0, <2>9 DEF Alike, ContextType
  <2> HIDE DEF left, types
  <2>13. Alike(c, left) /\ Follows(k, left) /\ Traced(k, left) /\ left.cost = k.cost + 1
    BY <2>3, <2>10, <2>12 DEF Alike, Follows, Traced
  <2>14. left.alerted["adapter"] <=> k.alerted["adapter"] \/ left.cost >= Threshold
    BY <2>3, <2>8, <2>12, <2>13
  <2>15. Spends(k, left, "adapter") \/ Mixes(k, left, "adapter")
    <3>1. CASE allowed
      <4>1. alerts' = IF alert THEN Append(alerts, left.trace) ELSE alerts
        BY <2>1, <2>13, <3>1 DEF Alike
      <4> QED
        BY <2>3, <2>7, <2>13, <2>14, <4>1 DEF Spends
    <3>2. CASE ~allowed
      BY <2>1, <2>5, <2>13, <3>2 DEF Mixes
    <3> QED
      BY <3>1, <3>2
  <2>16. Shape(t, "adapter", types, c, left)
    BY <2>1, <2>4, <2>6, <2>11, <2>13, <2>15 DEF Shape
  <2> QED
    BY <1>0, <2>16 DEF Shaped
<1>6. CASE AfterModelNoUsage(t) \/ ModelError(t)
  <2> DEFINE left == [f EXCEPT !.turn = FALSE]
  <2>1. PICK types \in {{"model_response"} \cup Duration(f), {"model_error"} \cup Duration(f)} :
          /\ Called(t, f, "adapter") /\ Emit(f, types, "adapter") /\ alerts' = alerts
          /\ ctx' = [ctx EXCEPT ![t] = left] /\ UNCHANGED <<lists, toolCalls>>
    BY <1>6 DEF AfterModelNoUsage, ModelError, Callback, NoAlert, Leaves
  <2>2. types \subseteq Types
    BY DEF Types, Duration
  <2>3. /\ left \in ContextType /\ Alike(f, left) /\ Follows(k, left) /\ Traced(k, left)
        /\ left.cost = k.cost /\ left.alerted = k.alerted
    BY <1>b
  <2> HIDE DEF left, f
  <2>4. Shape(t, "adapter", types, f, left)
    BY <2>1, <2>2, <2>3 DEF Shape, Quiet
  <2> QED
    BY <1>0, <2>4 DEF Shaped
<1>7. CASE BeforeTool(t)
  <2> DEFINE c == Listed(Filled(NewSpan(k)))
  <2>1. /\ Called(t, c, "adapter") /\ Emit(c, {"tool_start"}, "adapter") /\ alerts' = alerts
        /\ RecordTool(t, c)
    BY <1>7 DEF BeforeTool, Callback, NoAlert
  <2>2. /\ c \in ContextType /\ Follows(k, c) /\ Traced(k, c)
        /\ c.cost = k.cost /\ c.alerted = k.alerted
    BY <1>0, CallContexts, ContextFollows, ContextKeys
  <2>3. {"tool_start"} \subseteq Types
    BY DEF Types
  <2> HIDE DEF c
  <2> QED
    BY <1>0, <2>1, <2>2, <2>3, QuietShape
<1>8. ASSUME NEW type, AfterTool(t, type) \/ Notice(t, type)
      PROVE  Shaped(t)
  <2>1. /\ Called(t, f, "adapter") /\ Emit(f, {type}, "adapter") /\ alerts' = alerts
        /\ Leaves(t, f)
    BY <1>8 DEF AfterTool, Notice, Callback, NoAlert
  <2>2. {type} \subseteq Types
    BY <1>8 DEF AfterTool, Notice, Types
  <2> HIDE DEF f
  <2> QED
    BY <1>0, <1>a, <2>1, <2>2, QuietShape
<1> QED
  BY <1>1, <1>2, <1>3, <1>4, <1>5, <1>6, <1>7, <1>8 DEF AdkStep
-----------------------------------------------------------------------------
(* Both are kept.                                                          *)

LEMMA TraceOfNewAlert ==
  ASSUME AlertTypes, NEW a \in Nat, alerts' = Append(alerts, a)
  PROVE  /\ Traces' = Traces \cup {a} /\ alerts' \in Seq(Nat)
         /\ DOMAIN alerts' = DOMAIN alerts \cup {Len(alerts) + 1} /\ Len(alerts) \in Nat
         /\ \A i \in DOMAIN alerts : alerts'[i] = alerts[i] /\ i # Len(alerts) + 1
         /\ alerts'[Len(alerts) + 1] = a
<1>1. /\ alerts \in Seq(Nat) /\ Len(alerts) \in Nat /\ DOMAIN alerts = 1 .. Len(alerts)
  BY DEF AlertTypes
<1>2. /\ alerts' \in Seq(Nat) /\ Len(alerts') = Len(alerts) + 1 /\ DOMAIN alerts' = 1 .. Len(alerts')
      /\ \A i \in 1 .. Len(alerts) : alerts'[i] = alerts[i]
      /\ alerts'[Len(alerts) + 1] = a
  BY <1>1
<1>3. DOMAIN alerts' = DOMAIN alerts \cup {Len(alerts) + 1}
  BY <1>1, <1>2
<1> QED
  BY <1>1, <1>2, <1>3 DEF Traces

LEMMA AlertStep ==
  ASSUME AlertInv, RangeInv, RecordsOK, NEW t \in Tasks, Shaped(t)
  PROVE  AlertInv'
<1> DEFINE k == ctx[t]
<1>0. PICK source \in Sources : \E types, c, d : Shape(t, source, types, c, d)
  BY DEF Shaped
<1>1. PICK types, c, d : Shape(t, source, types, c, d)
  BY <1>0
<1>2. SUFFICES ASSUME NEW s \in Sources, users' \subseteq {s}  PROVE Told(s)' /\ Once(s)'
  BY DEF AlertInv
<1>3. source = s /\ users \subseteq {s} /\ t \in live /\ live' = live
  BY <1>1, <1>2 DEF Shape, Called
<1>4. Told(s) /\ Once(s)
  BY <1>3 DEF AlertInv
<1>5. \A e \in registry : e.source = source
  BY <1>3 DEF RangeInv, EntriesInRange
<1>6. /\ \A u \in Tasks : ctx'[u] = IF u = t THEN d ELSE ctx[u]
      /\ d \in ContextType /\ k \in ContextType /\ ids \in Nat /\ Threshold \in Nat \ {0}
  BY <1>1, ContextAssumption DEF Shape, RecordsOK
<1>7. live = {Main} => t = Main
  BY <1>3
<1>8. \A a \in Traces : a \in 1 .. ids
  BY DEF RangeInv, AlertTypes, Traces
<1>9. Fresh \notin Traces /\ 0 \notin Traces
  BY <1>6, <1>8 DEF Fresh
<1>10. k.cost \in Nat /\ d.cost \in Nat /\ k.alerted[s] \in BOOLEAN /\ d.alerted[s] \in BOOLEAN
       /\ k.trace \in Nat /\ d.trace \in Nat
  BY <1>6 DEF ContextType
<1>11. /\ k.cost >= Threshold => k.alerted[s]
       /\ k.alerted[s] => k.trace \in Traces
       /\ live = {Main} => /\ \A i, j \in DOMAIN alerts : alerts[i] = alerts[j] => i = j
                           /\ ~k.alerted[s] => k.trace \notin Traces
  BY <1>4, <1>7 DEF Told, Once
<1>12. Traced(k, d) => (k.alerted[s] => d.trace = k.trace)
                       /\ (live = {Main} /\ ~k.alerted[s] => d.trace \notin Traces)
  BY <1>9, <1>11 DEF Traced
<1> HIDE DEF k
<1>13. ASSUME alerts' = alerts, d.cost >= Threshold => d.alerted[s],
              d.alerted[s] => d.trace \in Traces,
              live = {Main} /\ ~d.alerted[s] => d.trace \notin Traces
       PROVE  Told(s)' /\ Once(s)'
  <2>1. Traces' = Traces
    BY <1>13 DEF Traces
  <2>2. Told(s)'
    BY <1>4, <1>6, <1>13, <2>1 DEF Told
  <2>3. Once(s)'
    BY <1>3, <1>6, <1>7, <1>11, <1>13, <2>1 DEF Once
  <2> QED
    BY <2>2, <2>3
<1>14. CASE Resets(d, source)
  <2>1. alerts' = alerts /\ ~d.alerted[s] /\ d.cost = 0 /\ d.trace = Fresh
    BY <1>3, <1>14 DEF Resets
  <2> QED
    BY <1>6, <1>9, <1>13, <2>1
<1>15. CASE Quiet(k, d)
  <2>1. alerts' = alerts /\ d.alerted[s] = k.alerted[s] /\ d.cost = k.cost /\ Traced(k, d)
    BY <1>15 DEF Quiet
  <2> QED
    BY <1>11, <1>12, <1>13, <2>1
<1>16. CASE Spends(k, d, source)
  <2>1. /\ Traced(k, d) /\ d.cost = k.cost + 1
        /\ d.alerted[s] <=> k.alerted[s] \/ d.cost >= Threshold
        /\ alerts' = IF ~k.alerted[s] /\ d.cost >= Threshold THEN Append(alerts, d.trace)
                     ELSE alerts
    BY <1>3, <1>16 DEF Spends
  <2>2. CASE k.alerted[s] \/ ~(d.cost >= Threshold)
    <3>1. alerts' = alerts /\ (d.alerted[s] => k.alerted[s]) /\ (~d.alerted[s] => ~k.alerted[s])
      BY <2>1, <2>2
    <3>2. d.cost >= Threshold => d.alerted[s]
      BY <2>1
    <3> QED
      BY <1>11, <1>12, <1>13, <2>1, <3>1, <3>2
  <2>3. CASE ~k.alerted[s] /\ d.cost >= Threshold
    <3>1. alerts' = Append(alerts, d.trace) /\ d.alerted[s]
      BY <2>1, <2>3
    <3>2. /\ Traces' = Traces \cup {d.trace}
          /\ DOMAIN alerts' = DOMAIN alerts \cup {Len(alerts) + 1}
          /\ \A i \in DOMAIN alerts : alerts'[i] = alerts[i] /\ i # Len(alerts) + 1
          /\ alerts'[Len(alerts) + 1] = d.trace
      <4> DEFINE a == d.trace
      <4>1. a \in Nat /\ alerts' = Append(alerts, a) /\ AlertTypes
        BY <1>10, <3>1 DEF RangeInv
      <4> HIDE DEF a
      <4>2. /\ Traces' = Traces \cup {a}
            /\ DOMAIN alerts' = DOMAIN alerts \cup {Len(alerts) + 1}
            /\ \A i \in DOMAIN alerts : alerts'[i] = alerts[i] /\ i # Len(alerts) + 1
            /\ alerts'[Len(alerts) + 1] = a
        BY <4>1, TraceOfNewAlert
      <4> QED
        BY <4>2 DEF a
    <3>3. Told(s)'
      BY <1>4, <1>6, <3>1, <3>2 DEF Told
    <3>4. live = {Main} => \A i \in DOMAIN alerts : alerts[i] # d.trace
      BY <1>12, <2>1, <2>3 DEF Traces
    <3>5. ASSUME live = {Main}
          PROVE  \A i, j \in DOMAIN alerts' : alerts'[i] = alerts'[j] => i = j
      BY <1>11, <3>2, <3>4, <3>5
    <3>6. Once(s)'
      BY <1>3, <1>6, <1>7, <3>1, <3>5 DEF Once
    <3> QED
      BY <3>3, <3>6
  <2> QED
    BY <1>10, <2>2, <2>3
<1>17. ~Mixes(k, d, source)
  BY <1>5 DEF Mixes
<1> QED
  BY <1>1, <1>14, <1>15, <1>16, <1>17 DEF Shape, k

LEMMA AlertForks ==
  ASSUME AlertInv, RangeInv, RecordsOK, NEW p \in Tasks, NEW t \in Tasks, Fork(p, t)
  PROVE  AlertInv'
<1>1. /\ \A u \in Tasks : ctx'[u] = IF u = t THEN ctx[p] ELSE ctx[u]
      /\ UNCHANGED <<alerts, users>> /\ t \notin live /\ live' = live \cup {t}
  BY DEF Fork, CreateTask, pastVars, RecordsOK
<1>2. live' # {Main} /\ Traces' = Traces
  BY <1>1 DEF RangeInv, Traces
<1>3. ASSUME NEW s \in Sources, users' \subseteq {s}  PROVE Told(s)' /\ Once(s)'
  <2>1. Told(s)
    BY <1>1, <1>3 DEF AlertInv
  <2>2. Told(s)'
    BY <1>1, <1>2, <2>1 DEF Told
  <2> QED
    BY <1>2, <2>2 DEF Once
<1> QED
  BY <1>3 DEF AlertInv
(* A set that gains at most an element. *)
LEMMA OneMore ==
  ASSUME NEW S, NEW e, IsFiniteSet(S)
  PROVE  /\ IsFiniteSet(S \cup {e}) /\ Cardinality(S \cup {e}) <= Cardinality(S) + 1
         /\ \A T \in SUBSET S : Cardinality(T) \in Nat /\ Cardinality(T) <= Cardinality(S)
<1>1. IsFiniteSet(S \cup {e}) /\ Cardinality(S \cup {e}) <= Cardinality(S) + 1
  <2>1. Cardinality(S) \in Nat
    BY FS_CardinalityType
  <2>2. /\ IsFiniteSet(S \cup {e})
        /\ Cardinality(S \cup {e}) = IF e \in S THEN Cardinality(S) ELSE Cardinality(S) + 1
    BY FS_AddElement
  <2> QED
    BY <2>1, <2>2
<1>2. ASSUME NEW T \in SUBSET S  PROVE Cardinality(T) \in Nat /\ Cardinality(T) <= Cardinality(S)
  BY FS_Subset, FS_CardinalityType
<1> QED
  BY <1>1, <1>2

LEMMA CallsStay ==
  ASSUME RangeInv, KeysOK, NEW t \in Tasks, NEW d,
         calls' = calls + 1, UNCHANGED <<lists, toolCalls>> \/ RecordTool(t, d)
  PROVE  CallsInRange'
<1>1. /\ calls \in Nat /\ IsFiniteSet(lists) /\ IsFiniteSet(toolCalls)
      /\ Cardinality(lists) \in Nat /\ Cardinality(toolCalls) \in Nat
      /\ Cardinality(lists) <= calls /\ Cardinality(toolCalls) <= calls
      /\ \A e \in lists \cup toolCalls : e.n \in 1 .. calls
  BY FS_CardinalityType DEF RangeInv, CallsInRange, KeysOK
<1>2. CASE UNCHANGED <<lists, toolCalls>>
  BY <1>1, <1>2 DEF CallsInRange
<1>3. CASE RecordTool(t, d)
  <2> DEFINE n == Position(d)
             m == 1 + Cardinality({x \in toolCalls : x.trace = d.trace})
             e == [list |-> d.tools, n |-> n, by |-> t]
             f == [trace |-> d.trace, n |-> m, by |-> t]
  <2>1. lists' = lists \cup {e} /\ toolCalls' = toolCalls \cup {f}
    BY <1>3 DEF RecordTool
  <2>2. e.n = n /\ f.n = m
    OBVIOUS
  <2>3. ASSUME NEW S, NEW T \in SUBSET S, IsFiniteSet(S), Cardinality(S) \in Nat,
               Cardinality(S) <= calls
        PROVE  1 + Cardinality(T) \in 1 .. (calls + 1)
    <3>1. Cardinality(T) \in Nat /\ Cardinality(T) <= Cardinality(S)
      BY <2>3, OneMore
    <3> QED
      BY <1>1, <2>3, <3>1
  <2>4. n \in 1 .. (calls + 1)
    <3> DEFINE T == {x \in lists : x.list = d.tools}
    <3>1. T \in SUBSET lists /\ n = 1 + Cardinality(T)
      BY DEF Position
    <3> HIDE DEF T, n
    <3> QED
      BY <1>1, <2>3, <3>1
  <2>5. m \in 1 .. (calls + 1)
    <3> DEFINE T == {x \in toolCalls : x.trace = d.trace}
    <3>1. T \in SUBSET toolCalls /\ m = 1 + Cardinality(T)
      OBVIOUS
    <3> HIDE DEF T, m
    <3> QED
      BY <1>1, <2>3, <3>1
  <2> HIDE DEF n, m, e, f
  <2>6. Cardinality(lists') <= Cardinality(lists) + 1 /\ Cardinality(toolCalls') <= Cardinality(toolCalls) + 1
        /\ Cardinality(lists') \in Nat /\ Cardinality(toolCalls') \in Nat
    BY <1>1, <2>1, OneMore, FS_CardinalityType
  <2>7. \A x \in lists' \cup toolCalls' : x.n \in 1 .. calls'
    BY <1>1, <2>1, <2>2, <2>4, <2>5
  <2> QED
    BY <1>1, <2>6, <2>7 DEF CallsInRange
<1> QED
  BY <1>2, <1>3

LEMMA RangeShaped ==
  ASSUME RangeInv, RecordsOK, KeysOK, NEW t \in Tasks, Shaped(t), OpenTypes'
  PROVE  RangeInv'
<1> DEFINE k == ctx[t]
<1>0. PICK source \in Sources : \E types, c, d : Shape(t, source, types, c, d)
  BY DEF Shaped
<1>1. PICK types, c, d : Shape(t, source, types, c, d)
  BY <1>0
<1>2. /\ t \in live /\ live' = live /\ calls < MaxCalls /\ calls' = calls + 1
      /\ users' = users \cup {source}
      /\ ids' = IF Fresh \in {c.trace, c.span, c.reg, c.tools} THEN Fresh ELSE ids
      /\ Alike(c, d) /\ Follows(k, d) /\ d \in ContextType /\ k \in ContextType
      /\ types \subseteq Types /\ Emit(c, types, source)
      /\ \A u \in Tasks : ctx'[u] = IF u = t THEN d ELSE ctx[u]
  BY <1>1 DEF Shape, Called, RecordsOK
<1>3. calls \in Nat /\ MaxCalls \in Nat /\ ids \in 0 .. (calls + 2)
  BY ContextAssumption DEF RangeInv
<1>4. calls' \in 0 .. MaxCalls /\ ids' \in 0 .. (calls' + 2) /\ ids <= ids' /\ ids' \in Nat
  BY <1>2, <1>3 DEF RangeInv, Fresh
<1>5. /\ k.trace <= ids /\ k.span <= ids /\ k.reg <= ids /\ k.tools <= ids
      /\ k.cost <= calls /\ k.depth <= calls + 1
  BY DEF RangeInv, ContextsInRange
<1>6. d.cost \in 0 .. (k.cost + 1)
  BY <1>1, <1>2 DEF Shape, Resets, Quiet, Spends, Mixes, ContextType
<1>7. /\ d.trace \in 0 .. ids' /\ d.span \in 0 .. ids' /\ d.reg \in 0 .. ids' /\ d.tools \in 0 .. ids'
      /\ d.cost <= calls' /\ d.depth <= calls' + 1
  <2>1. d.trace \in {k.trace, ids + 1} /\ d.span \in {k.span, ids + 1}
        /\ d.reg \in {k.reg, ids + 1} /\ d.tools \in {k.tools, ids + 1} /\ d.depth <= k.depth + 1
    BY <1>2 DEF Follows, Fresh
  <2>2. (ids + 1) \in {d.trace, d.span, d.reg, d.tools} => ids' = ids + 1
    BY <1>2 DEF Alike, Fresh
  <2> HIDE DEF k
  <2>3. /\ d.trace \in Nat /\ d.span \in Nat /\ d.reg \in Nat /\ d.tools \in Nat
        /\ d.cost \in Nat /\ d.depth \in Nat /\ k.cost \in Nat /\ k.depth \in Nat
    BY <1>2 DEF ContextType
  <2>4. d.trace \in 0 .. ids' /\ d.span \in 0 .. ids'
    BY <1>3, <1>4, <1>5, <2>1, <2>2, <2>3
  <2>5. d.reg \in 0 .. ids' /\ d.tools \in 0 .. ids'
    BY <1>3, <1>4, <1>5, <2>1, <2>2, <2>3
  <2>6. d.cost <= calls' /\ d.depth <= calls' + 1
    BY <1>2, <1>3, <1>5, <1>6, <2>1, <2>3
  <2> QED
    BY <2>4, <2>5, <2>6
<1>8. ContextsInRange'
  <2>1. SUFFICES ASSUME NEW u \in Tasks
                 PROVE /\ ctx'[u].trace <= ids' /\ ctx'[u].span <= ids' /\ ctx'[u].reg <= ids'
                       /\ ctx'[u].tools <= ids' /\ ctx'[u].cost <= calls' /\ ctx'[u].depth <= calls' + 1
    BY DEF ContextsInRange
  <2>2. CASE u = t
    BY <1>2, <1>4, <1>7, <2>2
  <2>3. CASE u # t
    <3>1. ctx'[u] = ctx[u] /\ ctx[u] \in ContextType
      BY <1>2, <2>3 DEF RecordsOK
    <3>2. /\ ctx[u].trace <= ids /\ ctx[u].span <= ids /\ ctx[u].reg <= ids /\ ctx[u].tools <= ids
          /\ ctx[u].cost <= calls /\ ctx[u].depth <= calls + 1
      BY DEF RangeInv, ContextsInRange
    <3> QED
      BY <1>2, <1>3, <1>4, <3>1, <3>2 DEF ContextType
  <2> QED
    BY <2>2, <2>3
<1>9. EntriesInRange'
  <2>1. c.span \in 0 .. ids' /\ c.reg \in 0 .. ids'
    BY <1>2, <1>7 DEF Alike
  <2>2. 0 .. ids \subseteq 0 .. ids' /\ users \subseteq users' /\ source \in users'
    BY <1>2, <1>3, <1>4
  <2> DEFINE passing == {y \in types : Allowed(c, y, source)}
  <2>0. PICK lost \in SUBSET types : Report(c, types, source, lost)
    BY <1>2 DEF Emit
  <2>3. /\ registry' = registry \cup {Entry(c, y, source) : y \in passing}
        /\ emitted'  = emitted \cup {Emission(c, y, source) : y \in passing \ lost}
        /\ failed'   = failed \cup {Emission(c, y, source) : y \in lost}
        /\ skipped'  = skipped \cup {Emission(c, y, source) : y \in types \ passing}
    BY <2>0 DEF Report
  <2>4. passing \subseteq Types /\ types \subseteq Types /\ lost \subseteq Types
    BY <1>2
  <2> HIDE DEF passing
  <2>5. registry' \subseteq [reg : 0 .. ids', type : Types, span : 0 .. ids', source : users']
    BY <2>1, <2>2, <2>3, <2>4 DEF RangeInv, EntriesInRange, Entry
  <2>6. emitted' \subseteq [type : Types, span : 0 .. ids', source : users']
    BY <2>1, <2>2, <2>3, <2>4 DEF RangeInv, EntriesInRange, Emission
  <2>7. skipped' \subseteq [type : Types, span : 0 .. ids', source : users']
    BY <2>1, <2>2, <2>3, <2>4 DEF RangeInv, EntriesInRange, Emission
  <2>8. failed' \subseteq [type : Types, span : 0 .. ids', source : users']
    BY <2>1, <2>2, <2>3, <2>4 DEF RangeInv, EntriesInRange, Emission
  <2> QED
    BY <2>5, <2>6, <2>7, <2>8 DEF EntriesInRange
<1>10. CallsInRange'
  BY <1>1, <1>2, CallsStay DEF Shape
<1>11. AlertTypes'
  <2>1. CASE alerts' = alerts
    BY <1>3, <1>4, <2>1 DEF RangeInv, AlertTypes
  <2>2. CASE alerts' = Append(alerts, d.trace) /\ Traced(k, d)
    <3> DEFINE a == d.trace
    <3>1. a \in 1 .. ids'
      <4>1. a \in Nat /\ a <= ids' /\ ids' \in Nat
        <5>1. a \in Nat
          BY <1>2 DEF ContextType
        <5> QED
          BY <1>4, <1>7, <5>1
      <4>2. a = IF k.trace = 0 THEN ids + 1 ELSE k.trace
        BY <2>2 DEF Traced, Fresh
      <4>3. a # 0
        BY <1>3, <4>2
      <4> HIDE DEF a
      <4> QED
        BY <4>1, <4>3
    <3>2. alerts' = Append(alerts, a) /\ AlertTypes /\ a \in Nat
      BY <1>4, <2>2, <3>1 DEF RangeInv
    <3> HIDE DEF a
    <3>3. /\ alerts' \in Seq(Nat) /\ alerts'[Len(alerts) + 1] = a
          /\ DOMAIN alerts' = DOMAIN alerts \cup {Len(alerts) + 1}
          /\ \A i \in DOMAIN alerts : alerts'[i] = alerts[i]
      BY <3>2, TraceOfNewAlert
    <3>4. \A i \in DOMAIN alerts : alerts'[i] \in 1 .. ids'
      BY <1>3, <1>4, <3>2, <3>3 DEF AlertTypes
    <3> QED
      BY <3>1, <3>3, <3>4 DEF AlertTypes
  <2> QED
    BY <1>1, <2>1, <2>2 DEF Shape, Resets, Quiet, Spends, Mixes
<1> QED
  BY <1>2, <1>4, <1>8, <1>9, <1>10, <1>11 DEF RangeInv

LEMMA OpenStep ==
  ASSUME OpenTypes, [Next]_sessionVars
  PROVE  OpenTypes'
<1> DEFINE Kinds == {"run", "agent", "model", "tool"}
<1>1. ASSUME NEW t \in Tasks, NEW kind \in Kinds, Begin(t, kind)  PROVE OpenTypes'
  <2>1. open[t] \in Seq(Kinds)
    BY DEF OpenTypes
  <2>2. Append(open[t], kind) \in Seq(Kinds)
    BY <2>1
  <2> QED
    BY <1>1, <2>2 DEF Begin, OpenTypes
<1>2. ASSUME NEW t \in Tasks, NEW kind, End(t, kind)  PROVE OpenTypes'
  <2> DEFINE s == open[t]
  <2>1. s \in Seq(Kinds) /\ Len(s) > 1 /\ open' = [open EXCEPT ![t] = SubSeq(s, 1, Len(s) - 1)]
    BY <1>2 DEF OpenTypes, End, Own
  <2> HIDE DEF s
  <2>2. SubSeq(s, 1, Len(s) - 1) \in Seq(Kinds)
    BY <2>1
  <2> QED
    BY <2>1, <2>2 DEF OpenTypes
<1>3. <<>> \in Seq(Kinds) /\ <<"agent">> \in Seq(Kinds)
  OBVIOUS
<1>4. ASSUME NEW t \in Tasks, AdkStep(t)  PROVE OpenTypes'
  <2>1. CASE BeforeRun(t) \/ BeforeAgent(t) \/ BeforeModel(t) \/ BeforeTool(t)
    BY <1>1, <2>1 DEF BeforeRun, BeforeAgent, BeforeModel, BeforeTool
  <2>2. CASE AfterAgent(t) \/ AfterModel(t) \/ AfterModelNoUsage(t) \/ ModelError(t)
    BY <1>2, <2>2 DEF AfterAgent, AfterModel, AfterModelNoUsage, ModelError
  <2>3. ASSUME NEW type, AfterTool(t, type) \/ Notice(t, type)  PROVE OpenTypes'
    BY <1>2, <2>3 DEF AfterTool, Notice, OpenTypes
  <2>4. CASE AfterRun(t)
    BY <1>3, <2>4 DEF AfterRun, OpenTypes
  <2> QED
    BY <1>4, <2>1, <2>2, <2>3, <2>4 DEF AdkStep
<1>5. ASSUME NEW t \in Tasks, LogCall(t)  PROVE OpenTypes'
  BY <1>5 DEF LogCall, OpenTypes
<1>6. ASSUME NEW p \in Tasks, NEW t \in Tasks, Fork(p, t)  PROVE OpenTypes'
  <2>1. PICK s \in {<<"agent">>, <<>>} : open' = [open EXCEPT ![t] = s]
    BY <1>6 DEF Fork
  <2>2. s \in Seq(Kinds)
    BY <1>3, <2>1
  <2> QED
    BY <2>1, <2>2 DEF OpenTypes
<1> QED
  BY <1>4, <1>5, <1>6 DEF Next, OpenTypes, sessionVars

LEMMA RangeForks ==
  ASSUME RangeInv, RecordsOK, KeysOK, NEW p \in Tasks, NEW t \in Tasks, Fork(p, t), OpenTypes'
  PROVE  RangeInv'
<1>1. /\ \A u \in Tasks : ctx'[u] = IF u = t THEN ctx[p] ELSE ctx[u]
      /\ UNCHANGED <<ids, registry, lists, emitted, failed, skipped, toolCalls, alerts, users>>
      /\ live' = live \cup {t} /\ calls < MaxCalls /\ calls' = calls + 1
  BY DEF Fork, CreateTask, pastVars, RecordsOK
<1>2. calls \in Nat /\ MaxCalls \in Nat /\ ids \in 0 .. (calls + 2)
  BY ContextAssumption DEF RangeInv
<1>3. calls' \in 0 .. MaxCalls /\ ids' \in 0 .. (calls' + 2)
  BY <1>1, <1>2
<1>4. ContextsInRange'
  <2>1. \A u \in Tasks : ctx[u].cost \in Nat /\ ctx[u].depth \in Nat
    BY DEF RecordsOK, ContextType
  <2>2. \A u \in Tasks : ctx'[u].cost <= calls' /\ ctx'[u].depth <= calls' + 1
    BY <1>1, <1>2, <2>1 DEF RangeInv, ContextsInRange
  <2> QED
    BY <1>1, <2>2 DEF RangeInv, ContextsInRange
<1>5. EntriesInRange' /\ AlertTypes'
  BY <1>1 DEF RangeInv, EntriesInRange, AlertTypes
<1>6. CallsInRange'
  <2>1. Cardinality(lists) <= calls' /\ Cardinality(toolCalls) <= calls'
    <3>1. Cardinality(lists) <= calls /\ Cardinality(toolCalls) <= calls /\ calls <= calls'
      BY <1>1, <1>2 DEF RangeInv, CallsInRange
    <3>2. Cardinality(lists) \in Nat /\ Cardinality(toolCalls) \in Nat
      BY FS_CardinalityType DEF KeysOK
    <3> QED
      BY <1>1, <1>2, <3>1, <3>2
  <2>2. \A e \in lists \cup toolCalls : e.n \in 1 .. calls'
    BY <1>1, <1>2 DEF RangeInv, CallsInRange
  <2> QED
    BY <1>1, <2>1, <2>2 DEF CallsInRange
<1> QED
  BY <1>1, <1>3, <1>4, <1>5, <1>6 DEF RangeInv

LEMMA RangeAndAlertInit ==
  ASSUME Init
  PROVE  RangeInv /\ AlertInv
<1>1. Main \in Tasks /\ MaxCalls \in Nat /\ Threshold \in Nat \ {0} /\ Cardinality({}) = 0
  BY ContextAssumption, FS_EmptySet
<1>2. /\ NewContext.trace = 0 /\ NewContext.span = 0 /\ NewContext.reg = 0 /\ NewContext.tools = 0
      /\ NewContext.cost = 0 /\ NewContext.depth = 0
      /\ \A s \in Sources : ~NewContext.alerted[s]
  BY DEF NewContext, Unset
<1>3. alerts = <<>> /\ calls = 0 /\ lists = {} /\ toolCalls = {} /\ skipped = {} /\ failed = {}
      /\ live = {Main}
  BY DEF Init, Idle, ContextInit, InAgent
<1>4. AlertTypes /\ Traces = {} /\ CallsInRange
  BY <1>1, <1>3 DEF AlertTypes, Traces, CallsInRange
<1>5. OpenTypes
  <2> DEFINE Kinds == {"run", "agent", "model", "tool"}
  <2>1. <<>> \in Seq(Kinds) /\ <<"run", "agent">> \in Seq(Kinds)
    OBVIOUS
  <2>2. open = [t \in Tasks |-> <<>>]
        \/ open = [t \in Tasks |-> IF t = Main THEN <<"run", "agent">> ELSE <<>>]
    BY DEF Init, Idle, InAgent
  <2> HIDE DEF Kinds
  <2>3. open \in [Tasks -> Seq(Kinds)]
    BY <2>1, <2>2
  <2> QED
    BY <2>3 DEF OpenTypes, Kinds
<1>6. ASSUME NEW m, m.trace <= ids, m.span <= ids, m.reg <= ids, m.tools <= ids, m.cost = 0,
             m.depth <= 1, \A s \in Sources : ~m.alerted[s], ids \in {0, 2},
             ctx = [t \in Tasks |-> IF t # Main THEN NewContext ELSE m]
      PROVE  ContextsInRange /\ AlertInv
  <2>1. ContextsInRange
    BY <1>2, <1>3, <1>6 DEF ContextsInRange
  <2>2. \A t \in Tasks : ctx[t].cost = 0 /\ \A s \in Sources : ~ctx[t].alerted[s]
    BY <1>2, <1>6
  <2>3. \A s \in Sources : Told(s) /\ Once(s)
    BY <1>1, <1>3, <1>4, <2>2 DEF Told, Once
  <2> QED
    BY <2>1, <2>3 DEF AlertInv
<1>7. CASE Idle
  <2>1. /\ ids = 0 /\ ctx = [t \in Tasks |-> IF t # Main THEN NewContext ELSE NewContext]
        /\ registry = {} /\ emitted = {} /\ users = {}
    BY <1>7 DEF Idle, ContextInit
  <2>2. EntriesInRange
    BY <1>3, <2>1 DEF EntriesInRange
  <2> QED
    BY <1>1, <1>2, <1>3, <1>4, <1>5, <1>6, <2>1, <2>2 DEF RangeInv
<1>8. CASE InAgent
  <2> DEFINE m == [NewContext EXCEPT !.trace = 1, !.span = 2, !.reg = 1, !.tools = 1, !.depth = 1]
             start == [type |-> "session_start", span |-> 1, source |-> "adapter"]
             agent == [type |-> "agent_start", span |-> 2, source |-> "adapter"]
             entry1 == [reg |-> 1, type |-> "session_start", span |-> 1, source |-> "adapter"]
             entry2 == [reg |-> 1, type |-> "agent_start", span |-> 2, source |-> "adapter"]
  <2>1. /\ m.trace = 1 /\ m.span = 2 /\ m.reg = 1 /\ m.tools = 1 /\ m.cost = 0 /\ m.depth = 1
        /\ m.alerted = NewContext.alerted
    BY DEF NewContext
  <2>2. ids = 2 /\ ctx = [t \in Tasks |-> IF t # Main THEN NewContext ELSE m] /\ users = {"adapter"}
    BY <1>8 DEF InAgent
  <2>3. emitted = {start, agent} /\ registry = {entry1, entry2}
    BY <1>8 DEF InAgent
  <2> HIDE DEF m
  <2>4. \A s \in Sources : ~m.alerted[s]
    BY <1>2, <2>1
  <2>5. ContextsInRange /\ AlertInv
    BY <1>6, <2>1, <2>2, <2>4
  <2>6. EntriesInRange
    <3>1. "session_start" \in Types /\ "agent_start" \in Types
      BY DEF Types
    <3> QED
      BY <1>3, <2>2, <2>3, <3>1 DEF EntriesInRange
  <2>7. users \subseteq Sources
    BY <2>2 DEF Sources
  <2> QED
    BY <1>1, <1>3, <1>4, <1>5, <2>2, <2>5, <2>6, <2>7 DEF RangeInv
<1> QED
  BY <1>7, <1>8 DEF Init

LEMMA RangeAndAlertStep ==
  ASSUME RangeInv, AlertInv, DedupInv, KeysOK, [Next]_sessionVars
  PROVE  RangeInv' /\ AlertInv'
<1>0. RecordsOK /\ OpenTypes'
  BY OpenStep DEF DedupInv, RangeInv
<1>1. ASSUME NEW t \in Tasks, LogCall(t) \/ AdkStep(t)  PROVE RangeInv' /\ AlertInv'
  BY <1>0, <1>1, LogIsShaped, AdkIsShaped, RangeShaped, AlertStep DEF LogCall
<1>2. ASSUME NEW p \in Tasks, NEW t \in Tasks, Fork(p, t)  PROVE RangeInv' /\ AlertInv'
  BY <1>0, <1>2, RangeForks, AlertForks
<1>3. CASE UNCHANGED sessionVars
  BY <1>3 DEF sessionVars, contextVars, pastVars, RangeInv, ContextsInRange, EntriesInRange,
              CallsInRange, OpenTypes, AlertTypes, AlertInv, Told, Once, Traces
<1> QED
  BY <1>1, <1>2, <1>3 DEF Next

LEMMA RangeAndAlertAlways == Spec => [](DedupInv /\ SequenceInv /\ RangeInv /\ AlertInv)
<1>1. Init => SequenceInv /\ RangeInv /\ AlertInv
  BY SequenceInit, RangeAndAlertInit
<1>2. DedupInv /\ SequenceInv /\ RangeInv /\ AlertInv /\ [Next]_sessionVars
        => SequenceInv' /\ RangeInv' /\ AlertInv'
  BY SequenceStep, RangeAndAlertStep DEF SequenceInv
<1> QED
  BY <1>1, <1>2, DedupAlways, PTL DEF Spec

(* Every variable has its type, and no more is generated than calls made. *)
THEOREM TypeCorrect == Spec => []TypeOK
<1>1. ASSUME RecordsOK, KeysOK, RangeInv  PROVE TypeOK
  <2>1. /\ MaxCalls \in Nat /\ calls \in 0 .. MaxCalls /\ ids \in 0 .. (calls + 2)
        /\ Main \in live /\ live \subseteq Tasks /\ users \subseteq Sources
    BY <1>1, ContextAssumption DEF RangeInv
  <2>2. ids \in Ids /\ 0 .. ids \subseteq Ids /\ 1 .. ids \subseteq Ids /\ 1 .. calls \subseteq 1 .. MaxCalls
    BY <2>1 DEF Ids
  <2>3. ctx \in [Tasks -> Contexts]
    <3>1. SUFFICES ASSUME NEW t \in Tasks  PROVE ctx[t] \in Contexts
      BY <1>1 DEF RecordsOK
    <3>2. /\ ctx[t] \in ContextType
          /\ ctx[t].trace <= ids /\ ctx[t].span <= ids /\ ctx[t].reg <= ids /\ ctx[t].tools <= ids
          /\ ctx[t].cost <= calls /\ ctx[t].depth <= calls + 1
      BY <1>1 DEF RecordsOK, RangeInv, ContextsInRange
    <3>3. /\ ctx[t].trace \in Ids /\ ctx[t].span \in Ids /\ ctx[t].reg \in Ids /\ ctx[t].tools \in Ids
          /\ ctx[t].cost \in 0 .. MaxCalls /\ ctx[t].depth \in 0 .. (MaxCalls + 1)
      BY <2>1, <3>2 DEF ContextType, Ids
    <3> QED
      BY <3>2, <3>3 DEF ContextType, Contexts
  <2>4. /\ registry \subseteq [reg : Ids, type : Types, span : Ids, source : Sources]
        /\ emitted \subseteq [type : Types, span : Ids, source : Sources]
        /\ failed \subseteq [type : Types, span : Ids, source : Sources]
        /\ skipped \subseteq [type : Types, span : Ids, source : Sources]
    BY <1>1, <2>1, <2>2 DEF RangeInv, EntriesInRange
  <2>5. /\ lists \subseteq [list : Ids, n : 1 .. MaxCalls, by : Tasks]
        /\ toolCalls \subseteq [trace : Ids, n : 1 .. MaxCalls, by : Tasks]
    BY <1>1, <2>2 DEF RangeInv, CallsInRange, KeysOK
  <2>6. started \subseteq Ids
    BY <1>1, <2>2 DEF KeysOK
  <2>7. alerts \in Seq(Ids)
    <3>1. alerts \in Seq(Nat) /\ \A i \in DOMAIN alerts : alerts[i] \in Ids
      BY <1>1, <2>2 DEF RangeInv, AlertTypes
    <3> HIDE DEF Ids
    <3> QED
      BY <3>1
  <2>8. open \in [Tasks -> Seq({"run", "agent", "model", "tool"})]
    BY <1>1 DEF RangeInv, OpenTypes
  <2> QED
    BY <2>1, <2>2, <2>3, <2>4, <2>5, <2>6, <2>7, <2>8 DEF TypeOK
<1> QED
  BY <1>1, RangeAndAlertAlways, PTL DEF DedupInv, SequenceInv

(* With one source, a session at or over the threshold has had its alert   *)
(* raised, and in one task exactly once (core/detection.py, log.py).        *)
THEOREM AlertTheorem == Spec => []AlertWhenOver
<1>1. ASSUME AlertInv, RangeInv  PROVE AlertWhenOver
  <2> SUFFICES ASSUME Cardinality(users) = 1
               PROVE  /\ \A t \in live : ctx[t].cost >= Threshold =>
                                \E i \in DOMAIN alerts : alerts[i] = ctx[t].trace
                      /\ live = {Main} =>
                           \A i, j \in DOMAIN alerts : alerts[i] = alerts[j] => i = j
    BY DEF AlertWhenOver
  <2>1. users \subseteq {"log", "adapter"}
    BY <1>1 DEF RangeInv, Sources
  <2>2. IsFiniteSet(users)
    <3>1. IsFiniteSet({"log"} \cup {"adapter"})
      BY FS_Singleton, FS_AddElement
    <3>2. users \subseteq {"log"} \cup {"adapter"}
      BY <2>1
    <3> QED
      BY <3>1, <3>2, FS_Subset
  <2>3. PICK s : users = {s}
    BY <2>2, FS_Singleton
  <2>4. s \in Sources
    BY <2>1, <2>3 DEF Sources
  <2>5. Told(s) /\ Once(s)
    BY <1>1, <2>3, <2>4 DEF AlertInv
  <2> QED
    BY <1>1, <2>5 DEF Told, Once, Traces, RangeInv
<1> QED
  BY <1>1, RangeAndAlertAlways, PTL
=============================================================================
