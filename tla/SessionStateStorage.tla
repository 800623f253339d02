-------------------------- MODULE SessionStateStorage --------------------------
(***************************************************************************)
(* The session_state replicated state machine: what one committed          *)
(* SessionStateRequest does to the stored sessions and to the reference    *)
(* counts of their payloads (broker/src/session/session_state_storage.rs,  *)
(* applied by broker/src/raft/session_state/store.rs).                     *)
(*                                                                         *)
(* One action per request.  A request for a session that does not exist,   *)
(* and a request the storage refuses (a transmit registration under an     *)
(* identifier in use, a conditional delete whose condition fails), change  *)
(* nothing: they are stuttering steps.  A (tenant, client) pair is one     *)
(* element of Clients.                                                     *)
(***************************************************************************)
EXTENDS Integers, Sequences, FiniteSets, Inflight

CONSTANTS Clients, Keys, PacketIds, Topics, SubscriptionOptions,
          Times,        \* possible values of disconnected_at
          Intervals,    \* possible session expiry intervals, in seconds
          NeverExpires, \* u32::MAX, the interval that never expires
          NoSubscription,
          MaxPending,   \* bound on the offline queue of one session
          MaxRefs       \* bound on the reference count of one key

\* An absent Option<u64>.
None == -1

ASSUME StorageAssumption ==
  /\ NoKey \notin Keys
  /\ NoSubscription \notin SubscriptionOptions
  /\ PacketIds \subseteq Nat \ {0}
  /\ Times \subseteq Nat
  /\ Intervals \subseteq Nat
  /\ NeverExpires \in Nat
  /\ MaxPending \in Nat
  /\ MaxRefs \in Nat

VARIABLES
  sessions,                 \* the sessions that exist
  pending_messages,         \* offline queue of payload keys, per session
  inflight,                 \* handshake table, per session
  subscriptions,
  disconnected_at,
  session_expiry_interval,
  expires_at,
  ref_counts,               \* references per key; 0 is "no entry"
  payload_gc,               \* keys handed to schedule_payload_gc so far
  orphaned                  \* history: references dropped by overwriting a session

payloadVars == <<ref_counts, payload_gc, orphaned>>
connectionVars == <<disconnected_at, session_expiry_interval, expires_at>>
storageVars == <<sessions, pending_messages, inflight, subscriptions,
                 connectionVars, payloadVars>>

EmptyInflight == [id \in PacketIds |-> NoItem]
NoSubscriptions == [t \in Topics |-> NoSubscription]

-------------------------------------------------------------------------------
(* References to payloads *)

\* The places of session c that hold key k.
SessionReferences(c, k) ==
  {<<c, "pending", i>> : i \in {j \in DOMAIN pending_messages[c] : pending_messages[c][j] = k}}
  \cup {<<c, "inflight", id>> : id \in {j \in PacketIds : inflight[c][j].packet_key = k}}

References(k) == UNION {SessionReferences(c, k) : c \in sessions}

\* The finished handshakes of session c that hold key k.
FinishedReferences(c, k) ==
  {<<c, "inflight", id>> :
     id \in {j \in PacketIds : /\ inflight[c][j].state = "Finish"
                               /\ inflight[c][j].packet_key = k}}

inc_ref(k) == [ref_counts EXCEPT ![k] = @ + 1]

\* One dec_ref per dropped reference: a count stops at zero.
dec_refs(counts, dropped) ==
  [k \in Keys |-> IF dropped[k] >= counts[k] THEN 0 ELSE counts[k] - dropped[k]]

One(key) == [k \in Keys |-> IF k = key THEN 1 ELSE 0]

\* Mutant: every dropped key is scheduled, not only one that reached zero.
DropReferences_Eager(counts, dropped) ==
  /\ ref_counts' = dec_refs(counts, dropped)
  /\ payload_gc' = payload_gc \cup {k \in Keys : dropped[k] > 0}
  /\ UNCHANGED orphaned

\* dec_ref returns a key when its count reaches zero; apply schedules it.
DropReferences(counts, dropped) ==
  /\ ref_counts' = dec_refs(counts, dropped)
  /\ payload_gc' = payload_gc \cup
       {k \in Keys : counts[k] > 0 /\ dropped[k] >= counts[k]}
  /\ UNCHANGED orphaned

\* The publish handlers mint a fresh key for every registration, so a key
\* whose payload is already scheduled for deletion never comes back.
Registrable(k) == k \notin payload_gc /\ ref_counts[k] < MaxRefs

-------------------------------------------------------------------------------
(* Connection state *)

expiry_deadline(disconnected, interval) ==
  IF interval = NeverExpires THEN None ELSE disconnected + interval

-------------------------------------------------------------------------------
(* Requests *)

\* Overwrites an existing session without releasing the keys it held.
CreateSessionState(c, interval) ==
  /\ sessions' = sessions \cup {c}
  /\ pending_messages' = [pending_messages EXCEPT ![c] = <<>>]
  /\ inflight' = [inflight EXCEPT ![c] = EmptyInflight]
  /\ subscriptions' = [subscriptions EXCEPT ![c] = NoSubscriptions]
  /\ disconnected_at' = [disconnected_at EXCEPT ![c] = None]
  /\ session_expiry_interval' = [session_expiry_interval EXCEPT ![c] = interval]
  /\ expires_at' = [expires_at EXCEPT ![c] = None]
  /\ orphaned' = [k \in Keys |->
                    orphaned[k] + (IF c \in sessions
                                     THEN Cardinality(SessionReferences(c, k)) ELSE 0)]
  /\ UNCHANGED <<ref_counts, payload_gc>>

\* `expected` makes the delete conditional on disconnected_at being unchanged.
DeleteSessionState(c, expected) ==
  /\ c \in sessions
  /\ expected # None => disconnected_at[c] = expected
  /\ sessions' = sessions \ {c}
  /\ DropReferences(ref_counts, [k \in Keys |-> Cardinality(SessionReferences(c, k))])
  /\ pending_messages' = [pending_messages EXCEPT ![c] = <<>>]
  /\ inflight' = [inflight EXCEPT ![c] = EmptyInflight]
  /\ subscriptions' = [subscriptions EXCEPT ![c] = NoSubscriptions]
  /\ disconnected_at' = [disconnected_at EXCEPT ![c] = None]
  /\ session_expiry_interval' = [session_expiry_interval EXCEPT ![c] = None]
  /\ expires_at' = [expires_at EXCEPT ![c] = None]

\* Mutant: the key of the replaced item is not released.
InflightRegisterRxPacket_NoRelease(c, id, qos, key) ==
  /\ c \in sessions
  /\ Registrable(key)
  /\ inflight' = [inflight EXCEPT ![c] = register_with_rx_packet(@, id, qos, key)]
  /\ ref_counts' = inc_ref(key)
  /\ UNCHANGED <<sessions, pending_messages, subscriptions, connectionVars,
                 payload_gc, orphaned>>

\* The new reference is counted before the replaced one is dropped.
InflightRegisterRxPacket(c, id, qos, key) ==
  /\ c \in sessions
  /\ Registrable(key)
  /\ inflight' = [inflight EXCEPT ![c] = register_with_rx_packet(@, id, qos, key)]
  /\ IF packet_id_exists(inflight[c], id)
       THEN DropReferences(inc_ref(key), One(inflight[c][id].packet_key))
       ELSE ref_counts' = inc_ref(key) /\ UNCHANGED <<payload_gc, orphaned>>
  /\ UNCHANGED <<sessions, pending_messages, subscriptions, connectionVars>>

InflightRegisterTxPacket(c, id, qos, key, deferred) ==
  /\ c \in sessions
  /\ Registrable(key)
  /\ ~packet_id_exists(inflight[c], id)
  /\ inflight' = [inflight EXCEPT ![c] = register_with_tx_packet(@, id, qos, key, deferred)]
  /\ ref_counts' = inc_ref(key)
  /\ UNCHANGED <<sessions, pending_messages, subscriptions, connectionVars,
                 payload_gc, orphaned>>

InflightStartDelivery(c, id, key) ==
  /\ c \in sessions
  /\ inflight' = [inflight EXCEPT ![c] = mark_delivery_started(@, id, key)]
  /\ UNCHANGED <<sessions, pending_messages, subscriptions, connectionVars, payloadVars>>

InflightDiscardUnsent(c, id, key) ==
  /\ c \in sessions
  /\ CanDiscardUnsent(inflight[c], id, key)
  /\ inflight' = [inflight EXCEPT ![c] = discard_unsent(@, id, key)]
  /\ DropReferences(ref_counts, One(key))
  /\ UNCHANGED <<sessions, pending_messages, subscriptions, connectionVars>>

\* Reaching Finish drops nothing: the item keeps its key until it is cleaned.
InflightNextState(c, id) ==
  /\ c \in sessions
  /\ packet_id_exists(inflight[c], id)
  /\ inflight' = [inflight EXCEPT ![c] = next_state(@, id)]
  /\ UNCHANGED <<sessions, pending_messages, subscriptions, connectionVars, payloadVars>>

InflightCleanFinishItems(c) ==
  /\ c \in sessions
  /\ inflight' = [inflight EXCEPT ![c] = clean_finished_items(@)]
  /\ DropReferences(ref_counts, [k \in Keys |-> Cardinality(FinishedReferences(c, k))])
  /\ UNCHANGED <<sessions, pending_messages, subscriptions, connectionVars>>

AppendToPendingQueue(c, key) ==
  /\ c \in sessions
  /\ Registrable(key)
  /\ Len(pending_messages[c]) < MaxPending
  /\ pending_messages' = [pending_messages EXCEPT ![c] = Append(@, key)]
  /\ ref_counts' = inc_ref(key)
  /\ UNCHANGED <<sessions, inflight, subscriptions, connectionVars, payload_gc, orphaned>>

\* Mutant: the popped key is released, and the key dec_ref returns is ignored.
PopFromPendingQueue_KeyIgnored(c) ==
  LET queue == pending_messages[c] IN
  /\ c \in sessions
  /\ queue # <<>>
  /\ pending_messages' = [pending_messages EXCEPT ![c] = SubSeq(queue, 1, Len(queue) - 1)]
  /\ ref_counts' = dec_refs(ref_counts, One(queue[Len(queue)]))
  /\ UNCHANGED <<sessions, inflight, subscriptions, connectionVars, payload_gc, orphaned>>

\* Vec::pop takes the newest message.
PopFromPendingQueue(c) ==
  LET queue == pending_messages[c] IN
  /\ c \in sessions
  /\ queue # <<>>
  /\ pending_messages' = [pending_messages EXCEPT ![c] = SubSeq(queue, 1, Len(queue) - 1)]
  /\ DropReferences(ref_counts, One(queue[Len(queue)]))
  /\ UNCHANGED <<sessions, inflight, subscriptions, connectionVars>>

SubscribeTopic(c, topic, options) ==
  /\ c \in sessions
  /\ subscriptions' = [subscriptions EXCEPT ![c][topic] = options]
  /\ UNCHANGED <<sessions, pending_messages, inflight, connectionVars, payloadVars>>

UnsubscribeTopic(c, topic) ==
  /\ c \in sessions
  /\ subscriptions' = [subscriptions EXCEPT ![c][topic] = NoSubscription]
  /\ UNCHANGED <<sessions, pending_messages, inflight, connectionVars, payloadVars>>

UpdateSessionConnectionState(c, disconnected, interval_update) ==
  LET interval == IF interval_update # None THEN interval_update
                                            ELSE session_expiry_interval[c] IN
  /\ c \in sessions
  /\ session_expiry_interval' = [session_expiry_interval EXCEPT ![c] = interval]
  /\ disconnected_at' = [disconnected_at EXCEPT ![c] = disconnected]
  /\ expires_at' = [expires_at EXCEPT ![c] =
                      IF disconnected # None /\ interval # None
                        THEN expiry_deadline(disconnected, interval) ELSE None]
  /\ UNCHANGED <<sessions, pending_messages, inflight, subscriptions, payloadVars>>

-------------------------------------------------------------------------------
(* Specification *)

Init ==
  /\ sessions = {}
  /\ pending_messages = [c \in Clients |-> <<>>]
  /\ inflight = [c \in Clients |-> EmptyInflight]
  /\ subscriptions = [c \in Clients |-> NoSubscriptions]
  /\ disconnected_at = [c \in Clients |-> None]
  /\ session_expiry_interval = [c \in Clients |-> None]
  /\ expires_at = [c \in Clients |-> None]
  /\ ref_counts = [k \in Keys |-> 0]
  /\ payload_gc = {}
  /\ orphaned = [k \in Keys |-> 0]

\* The requests that end the life of the stored session of c.
SessionEnds(c) ==
  \/ \E interval \in Intervals \cup {None} : CreateSessionState(c, interval)
  \/ \E expected \in Times \cup {None} : DeleteSessionState(c, expected)

InflightStep(c) ==
  \/ \E id \in PacketIds, qos \in {1, 2}, key \in Keys :
       \/ InflightRegisterRxPacket(c, id, qos, key)
       \/ \E deferred \in BOOLEAN : InflightRegisterTxPacket(c, id, qos, key, deferred)
  \/ \E id \in PacketIds, key \in Keys :
       \/ InflightStartDelivery(c, id, key)
       \/ InflightDiscardUnsent(c, id, key)
  \/ \E id \in PacketIds : InflightNextState(c, id)
  \/ InflightCleanFinishItems(c)

PendingStep(c) ==
  \/ \E key \in Keys : AppendToPendingQueue(c, key)
  \/ PopFromPendingQueue(c)

SubscriptionStep(c) ==
  \E topic \in Topics :
    \/ \E options \in SubscriptionOptions : SubscribeTopic(c, topic, options)
    \/ UnsubscribeTopic(c, topic)

ConnectionStep(c) ==
  \E disconnected \in Times \cup {None}, update \in Intervals \cup {None} :
    UpdateSessionConnectionState(c, disconnected, update)

Next ==
  \E c \in Clients :
    \/ SessionEnds(c)
    \/ InflightStep(c)
    \/ PendingStep(c)
    \/ SubscriptionStep(c)
    \/ ConnectionStep(c)

Spec == Init /\ [][Next]_storageVars

-------------------------------------------------------------------------------
(* Properties *)

TypeOK ==
  /\ sessions \subseteq Clients
  /\ pending_messages \in [Clients -> Seq(Keys)]
  /\ inflight \in [Clients -> [PacketIds -> Items(Keys)]]
  /\ subscriptions \in [Clients -> [Topics -> SubscriptionOptions \cup {NoSubscription}]]
  /\ disconnected_at \in [Clients -> Times \cup {None}]
  /\ session_expiry_interval \in [Clients -> Intervals \cup {None}]
  /\ expires_at \in [Clients -> Nat \cup {None}]
  /\ ref_counts \in [Keys -> Nat]
  /\ payload_gc \subseteq Keys
  /\ orphaned \in [Keys -> Nat]

\* The reference count of a payload is the number of queue slots and inflight
\* items that hold its key, plus the references CreateSessionState abandoned by
\* overwriting a session: inc_ref and dec_ref balance over every request.
RefCountsExact ==
  \A k \in Keys : ref_counts[k] = Cardinality(References(k)) + orphaned[k]

\* A payload handed to the garbage collector is referenced by no session:
\* apply schedules a key only when its last reference goes, so purge never
\* deletes a payload that a session still has to deliver.
ScheduledPayloadUnreferenced ==
  \A k \in payload_gc : ref_counts[k] = 0 /\ References(k) = {}

\* A payload whose last reference goes is handed to the garbage collector in
\* the same request: no request loses a key that dec_ref returned.
LastReferenceSchedulesGc ==
  [][\A k \in Keys : ref_counts[k] > 0 /\ ref_counts'[k] = 0 => k \in payload_gc']_storageVars

\* A handshake that has begun and is not finished keeps its place in the table
\* unless the session itself ends: discard_unsent drops only what was never
\* sent, clean_finished_items only what is finished.
StartedHandshakeKept ==
  [][\A c \in sessions, id \in PacketIds :
       /\ inflight[c][id].state \in WaitingStates
       /\ inflight[c][id].delivery_started
       /\ inflight'[c][id] = NoItem
       => SessionEnds(c)]_storageVars

\* The stored deadline always agrees with the stored disconnect time and
\* interval, whatever order creates, connects, disconnects and interval updates
\* commit in, so scan_expired_sessions never works from a stale deadline.
DeadlineMatchesDisconnect ==
  \A c \in sessions :
    expires_at[c] =
      IF \/ disconnected_at[c] = None
         \/ session_expiry_interval[c] \in {None, NeverExpires}
        THEN None ELSE disconnected_at[c] + session_expiry_interval[c]
===============================================================================
