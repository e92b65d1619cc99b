---------------------------- MODULE EventChannel ----------------------------
(***************************************************************************)
(* What the in-memory pipeline promises, without its locks, threads,       *)
(* circuit breaker and shutdown: an ordered, at-most-once channel that     *)
(* gives up its oldest waiting event when it has to give one up.           *)
(*                                                                         *)
(* Events are named by their acceptance number: the n-th put_nowait() that *)
(* returned True carries event n.                                          *)
(***************************************************************************)
EXTENDS Naturals, Sequences

VARIABLES
  accepted,   \* number of events accepted so far
  waiting,    \* accepted events that no one has taken or given up
  current,    \* the event being written, 0 when there is none
  delivered   \* events the storage backend took, in order

channelVars == <<accepted, waiting, current, delivered>>

Oldest(S) == CHOOSE e \in S : \A other \in S : e <= other

Init ==
  /\ accepted = 0
  /\ waiting = {}
  /\ current = 0
  /\ delivered = <<>>

(* A producer's event is admitted behind every event admitted before it. *)
Accept ==
  /\ accepted' = accepted + 1
  /\ waiting' = waiting \cup {accepted + 1}
  /\ UNCHANGED <<current, delivered>>

(* Only the oldest waiting event may be given up for room. *)
DropOldest ==
  /\ waiting # {}
  /\ waiting' = waiting \ {Oldest(waiting)}
  /\ UNCHANGED <<accepted, current, delivered>>

(* The writer takes events oldest first, one at a time. *)
Take ==
  /\ current = 0
  /\ waiting # {}
  /\ current' = Oldest(waiting)
  /\ waiting' = waiting \ {current'}
  /\ UNCHANGED <<accepted, delivered>>

Deliver ==
  /\ current # 0
  /\ delivered' = Append(delivered, current)
  /\ current' = 0
  /\ UNCHANGED <<accepted, waiting>>

(* A write that fails loses its event: it is never retried. *)
LoseCurrent ==
  /\ current # 0
  /\ current' = 0
  /\ UNCHANGED <<accepted, waiting, delivered>>

Next == Accept \/ DropOldest \/ Take \/ Deliver \/ LoseCurrent

Spec == Init /\ [][Next]_channelVars
=============================================================================
