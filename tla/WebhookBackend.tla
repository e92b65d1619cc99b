---------------------------- MODULE WebhookBackend ---------------------------
(***************************************************************************)
(* WebhookBackend (backends/webhook.py): events are buffered under a lock, *)
(* a full buffer is taken under the same lock and POSTed outside it, and a *)
(* failed POST is counted and dropped.                                     *)
(***************************************************************************)
EXTENDS StorageProtocol, Naturals, Sequences

CONSTANT BatchSize   \* batch_size, at least 1

ASSUME WebhookAssumption == BatchSize \in Nat \ {0}

VARIABLES
  buffer,    \* _buffer
  batch,     \* the batch a thread has taken to send
  hook,      \* where a thread is in a method of the backend
  received,  \* events the endpoint has received, in order
  failed     \* events counted in events_failed

hookVars == <<buffer, batch, hook, received, failed>>

WebhookInit ==
  /\ buffer = <<>> /\ batch = [t \in Threads |-> <<>>]
  /\ hook = [t \in Threads |-> "out"]
  /\ received = <<>> /\ failed = {}

HookGoto(t, to) == hook' = [hook EXCEPT ![t] = to]

HookEnter(t, m) ==
  /\ HookGoto(t, IF m = "write" THEN "append" ELSE "take")
  /\ UNCHANGED <<buffer, batch, received, failed>>

(* write(): the lock is held while the event is appended and, when the     *)
(* buffer is full, taken.                                                   *)
AppendEvent(t, e) ==
  /\ hook[t] = "append"
  /\ LET filled == Append(buffer, e) IN
       IF Len(filled) >= BatchSize
         THEN /\ batch' = [batch EXCEPT ![t] = filled]
              /\ buffer' = <<>>
              /\ HookGoto(t, "send")
         ELSE /\ buffer' = filled
              /\ HookGoto(t, "returned")
              /\ UNCHANGED batch
  /\ UNCHANGED <<received, failed>>

(* Mutant: what is sent stays in the buffer. *)
TakeRest_Kept(t) ==
  /\ hook[t] = "take"
  /\ batch' = [batch EXCEPT ![t] = buffer]
  /\ HookGoto(t, IF buffer = <<>> THEN "returned" ELSE "send")
  /\ UNCHANGED <<buffer, received, failed>>

(* flush(), and close(), which only calls it. *)
TakeRest(t) ==
  /\ hook[t] = "take"
  /\ batch' = [batch EXCEPT ![t] = buffer]
  /\ buffer' = <<>>
  /\ HookGoto(t, IF buffer = <<>> THEN "returned" ELSE "send")
  /\ UNCHANGED <<received, failed>>

Post(t) ==
  /\ hook[t] = "send"
  /\ received' = received \o batch[t]
  /\ batch' = [batch EXCEPT ![t] = <<>>]
  /\ HookGoto(t, "returned")
  /\ UNCHANGED <<buffer, failed>>

(* Mutant: a failed batch goes back into the buffer, behind newer events. *)
PostFails_PutBack(t) ==
  /\ hook[t] = "send"
  /\ buffer' = buffer \o batch[t]
  /\ batch' = [batch EXCEPT ![t] = <<>>]
  /\ HookGoto(t, "returned")
  /\ received' \in {received, received \o batch[t]}
  /\ UNCHANGED failed

(* An HTTP error, a refused connection, or an answer that came too late:   *)
(* the endpoint may have received the batch all the same.                   *)
PostFails(t) ==
  /\ hook[t] = "send"
  /\ failed' = failed \cup {batch[t][i] : i \in DOMAIN batch[t]}
  /\ batch' = [batch EXCEPT ![t] = <<>>]
  /\ HookGoto(t, "returned")
  /\ received' \in {received, received \o batch[t]}
  /\ UNCHANGED buffer

WebhookRestart ==
  /\ buffer' = <<>> /\ batch' = [t \in Threads |-> <<>>]
  /\ hook' = [t \in Threads |-> "out"]
  /\ UNCHANGED <<received, failed>>
=============================================================================
