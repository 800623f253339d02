--------------------------- MODULE OutboundDelivery ---------------------------
(***************************************************************************)
(* One session actor and the PUBLISH packets it sends to its client        *)
(* (broker/src/session/session_actor.rs): Receive Maximum slots, the       *)
(* deferred queue, the handshake table in the actor and, for a persistent  *)
(* session, its replica in Raft, retransmission, and the replacement of    *)
(* the actor by another one that starts from the Raft state.               *)
(*                                                                         *)
(* A persistent session runs each delivery with ctx.wait: nothing else of  *)
(* this actor runs until it has ended, so a delivery is one step with one  *)
(* outcome per failing call.  A clean session spawns its deliveries: they  *)
(* interleave.  `busy` is the loop of drain_deferred_outbound_publishes,   *)
(* which keeps every handler out.  A failing Raft write may have been      *)
(* committed all the same.  A message is one delivery: its own payload key.*)
(***************************************************************************)
EXTENDS Integers, Sequences, FiniteSets, Inflight

CONSTANTS
  Msgs,          \* QoS 1 and QoS 2 messages routed to the session
  MaxId,         \* packet identifiers are 1..MaxId
  wanted,        \* the identifier each routed PUBLISH packet carries; 0 is none
  RxKey,         \* the payload key of the client's own PUBLISH packets
  qos,           \* the level of each message
  Expiring,      \* messages with an expiry interval
  Sessions       \* the sessions considered, each with its bounds

Ids == 1..MaxId
Keys == Msgs \cup {RxKey}

ASSUME DeliveryAssumption ==
  /\ MaxId \in Nat /\ wanted \in [Msgs -> 0..MaxId] /\ qos \in [Msgs -> {1, 2}]
  /\ Expiring \subseteq Msgs /\ NoKey \notin Keys /\ RxKey \notin Msgs
  /\ Sessions \subseteq [persistent : BOOLEAN, v5 : BOOLEAN, receive_maximum : Nat,
                         msgs : SUBSET Msgs, early : BOOLEAN, rx : SUBSET Ids,
                         errors : Nat, retries : Nat, stops : Nat]

VARIABLES
  session,              \* clean_session, protocol_version, receive_maximum; the messages
                        \* routed to it, whether some come before the actor has recovered its
                        \* table, the identifiers of its client's own QoS 1 packets, bounds on
                        \* failing Raft writes, timer firings, disconnects and crashes
  active, conn,         \* activity_state; the connection actor still takes packets
  local, raft,          \* inflight.inner in the actor, and in the replicated state
  offline, mailbox,     \* stored offline messages; those popped for the new actor
  recover,              \* AllInflightRetryImmediate is in the mailbox
  slots, deferred,      \* outbound_receive_slots_in_use, deferred_outbound_publishes
  busy,                 \* draining the deferred queue
  task,                 \* per message: the spawned delivery of a clean session
  cleanup, raft_cleanup, \* spawned cleanup tasks: local table, Raft table
  status, expired,      \* per message: what became of it; those that have expired
  toClient, toBroker,   \* packets the client has not answered; its answers
  sent, answered,       \* messages sent on this connection, in order; those ever answered
  resent, popped,       \* a packet was sent twice on a connection; messages once stored offline
  errors, retries, stops

tables == <<local, raft>>
queues == <<offline, mailbox, recover>>
actor == <<slots, deferred, busy, task, cleanup, raft_cleanup>>
message == <<status, expired>>
wire == <<toClient, toBroker, sent, answered, resent>>
bounds == <<errors, retries, stops>>
vars == <<session, active, conn, tables, queues, actor, message, wire, popped, bounds>>

Idle == [pc |-> "idle", id |-> 0, slot |-> FALSE]
EmptyTable == [id \in Ids |-> NoItem]
Sent == {sent[i] : i \in DOMAIN sent}

Init ==
  /\ session \in Sessions
  /\ active = TRUE /\ conn = TRUE
  /\ local = EmptyTable /\ raft = EmptyTable
  /\ offline = <<>> /\ mailbox = <<>> /\ recover = TRUE
  /\ slots = 0 /\ deferred = <<>> /\ busy = FALSE
  /\ task = [m \in Msgs |-> Idle] /\ cleanup = FALSE /\ raft_cleanup = FALSE
  /\ status = [m \in Msgs |-> "new"] /\ expired = {}
  /\ toClient = <<>> /\ toBroker = <<>> /\ sent = <<>> /\ answered = {}
  /\ resent = FALSE /\ popped = {}
  /\ errors = 0 /\ retries = 0 /\ stops = 0

-------------------------------------------------------------------------------
\* Packets.

publish(m, id) == [kind |-> IF qos[m] = 2 THEN "pubrec" ELSE "puback", id |-> id, msg |-> m]
pubrel(id) == [kind |-> "pubcomp", id |-> id, msg |-> RxKey]

\* Packets handed to the connection actor, in order; `again` if by the timer.
Write(packets, again) ==
  LET msgs == [i \in DOMAIN packets |-> packets[i].msg]
      first == SelectSeq(msgs, LAMBDA m : m \in Msgs \ Sent)
      known(p) == p.msg \in Sent \/ (p.kind = "pubcomp" /\ local[p.id].packet_key \in Sent)
  IN  /\ toClient' = IF conn THEN toClient \o packets ELSE toClient
      /\ sent' = IF conn THEN sent \o first ELSE sent
      /\ resent' = (resent \/ \E i \in DOMAIN packets : again \/ known(packets[i]))
      /\ UNCHANGED <<toBroker, answered>>

-------------------------------------------------------------------------------
\* Receive Maximum.

Limit == IF session.receive_maximum = 0 THEN 1 ELSE session.receive_maximum

uses_slot == session.v5 /\ active

can_reserve == slots < Limit

\* Mutant: a message takes no slot.
Reserved_Not == slots

Reserved == IF uses_slot THEN slots + 1 ELSE slots

\* Mutant: a slot is never given back.
Released_Never == slots

Released == IF slots > 0 THEN slots - 1 ELSE 0

-------------------------------------------------------------------------------
\* Raft writes: the table after the write, and what the caller is told.

Outcomes(table, written) ==
  {[table |-> written, ok |-> TRUE]} \cup
  IF errors < session.errors
    THEN {[table |-> written, ok |-> FALSE], [table |-> table, ok |-> FALSE]} ELSE {}

Counted(ok) == errors' = IF ok THEN errors ELSE errors + 1

\* The identifiers a delivery may end up with: the wanted one or, when that one
\* is taken in `table`, the lowest one free in the actor's own table.
Candidates(id, table) ==
  IF id = 0 THEN allocate_packet_id(local)
  ELSE IF packet_id_exists(table, id) THEN allocate_packet_id(local) ELSE {id}

-------------------------------------------------------------------------------
\* deliver_outbound_publish for a persistent session, within ctx.wait.

\* Expired, or stored for later: the delivery has ended, the slot is given back.
NotSent(m) ==
  /\ status' = [status EXCEPT ![m] = "accepted"]
  /\ busy' = (uses_slot /\ can_reserve)
  /\ UNCHANGED <<tables, wire, slots, deferred, errors>>

\* An error: the caller is told, the slot is given back.
Refused(m) ==
  /\ status' = [status EXCEPT ![m] = "failed"]
  /\ busy' = (uses_slot /\ can_reserve)
  /\ UNCHANGED <<wire, slots, deferred>>

\* Registered: in the local table too unless an item is there already, then
\* either sent or kept in the deferred queue.
Registered(m, id, defer) ==
  LET table == IF packet_id_exists(local, id) THEN local
               ELSE register_with_tx_packet(local, id, qos[m], m, FALSE)
  IN  IF defer
        THEN /\ local' = [table EXCEPT ![id].delivery_started = FALSE]
             /\ deferred' = Append(deferred, [msg |-> m, id |-> id, registered |-> TRUE])
             /\ status' = [status EXCEPT ![m] = "accepted"]
             /\ UNCHANGED <<slots, busy, wire>>
        ELSE /\ local' = table
             /\ Write(<<publish(m, id)>>, FALSE)
             /\ status' = [status EXCEPT ![m] = IF conn THEN "accepted" ELSE "failed"]
             /\ slots' = IF conn THEN Reserved ELSE slots
             /\ busy' = (uses_slot /\ ~conn)
             /\ UNCHANGED deferred

DeliverPersistent(m) ==
  LET defer == uses_slot /\ ~can_reserve IN
  IF Candidates(wanted[m], raft) = {}
    THEN Refused(m) /\ UNCHANGED <<tables, errors>>
    ELSE \E id \in Candidates(wanted[m], raft) :
           IF packet_id_exists(raft, id)
             THEN Refused(m) /\ UNCHANGED <<tables, errors>>
             ELSE \E out \in Outcomes(raft, register_with_tx_packet(raft, id, qos[m], m, defer)) :
                    /\ raft' = out.table
                    /\ Counted(out.ok)
                    /\ IF out.ok THEN Registered(m, id, defer)
                                 ELSE Refused(m) /\ UNCHANGED local

\* The session is inactive: the message is stored offline.
StoreOffline(m) ==
  \E out \in Outcomes(offline, Append(offline, m)) :
    /\ offline' = out.table
    /\ Counted(out.ok)
    /\ popped' = popped \cup {m}
    /\ status' = [status EXCEPT ![m] = IF out.ok THEN "accepted" ELSE "failed"]
    /\ UNCHANGED <<tables, wire, slots, deferred, busy>>

-------------------------------------------------------------------------------
\* start_outbound_publish_delivery, for each kind of session.

StartPersistent(m) ==
  /\ IF m \in expired THEN NotSent(m) /\ UNCHANGED <<offline, popped>>
     ELSE IF active THEN DeliverPersistent(m) /\ UNCHANGED <<offline, popped>>
     ELSE StoreOffline(m)
  /\ UNCHANGED task

\* Without a slot the message waits in memory, not registered; with one, or
\* without need of one, its delivery is spawned.
StartClean(m) ==
  /\ IF uses_slot /\ ~can_reserve
       THEN /\ deferred' = Append(deferred, [msg |-> m, id |-> wanted[m], registered |-> FALSE])
            /\ UNCHANGED <<task, slots>>
       ELSE /\ task' = [task EXCEPT ![m] = [pc |-> "put", id |-> wanted[m], slot |-> uses_slot]]
            /\ slots' = Reserved
            /\ UNCHANGED deferred
  /\ status' = [status EXCEPT ![m] = "accepted"]
  /\ UNCHANGED <<tables, wire, offline, popped, busy, errors>>

StartDelivery(m) ==
  IF session.persistent THEN StartPersistent(m) ELSE StartClean(m)

\* A message comes from the router (OutboundMessage or AcceptRoutedPublish).
Accept(m) ==
  /\ ~busy /\ status[m] = "new"
  /\ active \/ session.persistent
  /\ recover => session.early
  /\ StartDelivery(m)
  /\ UNCHANGED <<session, active, conn, mailbox, recover, cleanup, raft_cleanup, expired,
                 retries, stops>>

\* A message that was stored offline comes from the actor's own mailbox, after
\* the recovery of the table.
AcceptOffline(m) ==
  /\ ~busy /\ ~recover
  /\ mailbox # <<>> /\ m = Head(mailbox)
  /\ mailbox' = Tail(mailbox)
  /\ StartDelivery(m)
  /\ UNCHANGED <<session, active, conn, recover, cleanup, raft_cleanup, expired, retries, stops>>

\* The spawned delivery of a clean session has stored its payload: it takes the
\* wanted identifier or the lowest free one.
TaskRegisters(m) ==
  /\ ~busy /\ task[m].pc = "put"
  /\ IF m \in expired \/ Candidates(task[m].id, local) = {}
       THEN /\ slots' = IF task[m].slot THEN Released ELSE slots
            /\ busy' = task[m].slot
            /\ task' = [task EXCEPT ![m] = Idle]
            /\ status' = [status EXCEPT ![m] = IF m \in expired THEN @ ELSE "failed"]
            /\ UNCHANGED local
       ELSE /\ \E id \in Candidates(task[m].id, local) :
                 /\ local' = register_with_tx_packet(local, id, qos[m], m, FALSE)
                 /\ task' = [task EXCEPT ![m].pc = "send", ![m].id = id]
            /\ UNCHANGED <<slots, busy, status>>
  /\ UNCHANGED <<session, active, conn, raft, queues, deferred, cleanup, raft_cleanup, expired,
                 wire, popped, bounds>>

TaskSends(m) ==
  /\ ~busy /\ task[m].pc = "send"
  /\ Write(<<publish(m, task[m].id)>>, FALSE)
  /\ status' = [status EXCEPT ![m] = IF conn THEN @ ELSE "failed"]
  /\ slots' = IF task[m].slot /\ ~conn THEN Released ELSE slots
  /\ busy' = (task[m].slot /\ ~conn)
  /\ task' = [task EXCEPT ![m] = Idle]
  /\ UNCHANGED <<session, active, conn, tables, queues, deferred, cleanup, raft_cleanup, expired,
                 popped, bounds>>

-------------------------------------------------------------------------------
\* drain_deferred_outbound_publishes, one turn of its loop per step.

DrainEnds ==
  /\ busy
  /\ ~active \/ deferred = <<>> \/ (uses_slot /\ ~can_reserve)
  /\ busy' = FALSE
  /\ UNCHANGED <<session, active, conn, tables, queues, slots, deferred, task, cleanup,
                 raft_cleanup, message, wire, popped, bounds>>

Draining == busy /\ active /\ deferred # <<>> /\ (uses_slot => can_reserve)

\* A message that was never registered starts over.
DrainStarts ==
  /\ Draining /\ ~Head(deferred).registered
  /\ deferred' = Tail(deferred)
  /\ task' = [task EXCEPT ![Head(deferred).msg] =
                [pc |-> "put", id |-> Head(deferred).id, slot |-> uses_slot]]
  /\ slots' = Reserved
  /\ UNCHANGED <<session, active, conn, tables, queues, busy, cleanup, raft_cleanup, message,
                 wire, popped, bounds>>

\* prepare_registered_publish says no: the item is gone, or the message has
\* expired (and is discarded when it was never sent), or Raft no longer has it.
DrainSkips ==
  LET d == Head(deferred)
      item == local[d.id]
  IN  /\ Draining /\ d.registered
      /\ \/ /\ item = NoItem \/ (d.msg \in expired /\ item.delivery_started)
            /\ UNCHANGED <<tables, errors>>
         \/ /\ item # NoItem /\ d.msg \in expired /\ ~item.delivery_started
            /\ local' = discard_unsent(local, d.id, item.packet_key)
            /\ raft' = discard_unsent(raft, d.id, item.packet_key)
            /\ UNCHANGED errors
         \/ /\ item # NoItem /\ d.msg \notin expired /\ ~item.delivery_started
            /\ session.persistent /\ ~CanMarkStarted(raft, d.id, item.packet_key)
            /\ UNCHANGED <<tables, errors>>
      /\ deferred' = Tail(deferred)
      /\ UNCHANGED <<session, active, conn, queues, slots, busy, task, cleanup, raft_cleanup,
                     message, wire, popped, retries, stops>>

\* The first transmission of a deferred message, or its repetition on a new
\* connection: recorded in Raft first, then sent; a slot is used.
DrainSends ==
  LET d == Head(deferred)
      item == local[d.id]
  IN  /\ Draining /\ d.registered /\ conn
      /\ item # NoItem /\ d.msg \notin expired
      /\ IF item.delivery_started THEN UNCHANGED tables
         ELSE /\ session.persistent => CanMarkStarted(raft, d.id, item.packet_key)
              /\ raft' = mark_delivery_started(raft, d.id, item.packet_key)
              /\ local' = mark_delivery_started(local, d.id, item.packet_key)
      /\ slots' = Reserved
      /\ Write(<<publish(d.msg, d.id)>>, FALSE)
      /\ deferred' = Tail(deferred)
      /\ UNCHANGED <<session, active, conn, queues, busy, task, cleanup, raft_cleanup, message,
                     popped, bounds>>

\* The Raft write or the connection fails: back to the front, and the loop ends.
DrainFails ==
  LET d == Head(deferred)
      item == local[d.id]
  IN  /\ Draining /\ d.registered /\ item # NoItem
      /\ \/ /\ d.msg \notin expired /\ ~conn
            /\ item.delivery_started \/ (session.persistent => CanMarkStarted(raft, d.id, item.packet_key))
            /\ raft' = mark_delivery_started(raft, d.id, item.packet_key)
            /\ local' = mark_delivery_started(local, d.id, item.packet_key)
            /\ UNCHANGED errors
         \/ /\ session.persistent /\ ~item.delivery_started
            /\ \E out \in Outcomes(raft, IF d.msg \in expired
                                           THEN discard_unsent(raft, d.id, item.packet_key)
                                           ELSE mark_delivery_started(raft, d.id, item.packet_key)) :
                 ~out.ok /\ raft' = out.table
            /\ Counted(FALSE)
            /\ UNCHANGED local
      /\ busy' = FALSE
      /\ UNCHANGED <<session, active, conn, queues, slots, deferred, task, cleanup, raft_cleanup,
                     message, wire, popped, retries, stops>>

-------------------------------------------------------------------------------
\* The client's answers.

Answer(kind, id) ==
  /\ ~busy /\ toBroker # <<>>
  /\ Head(toBroker).kind = kind /\ Head(toBroker).id = id
  /\ toBroker' = Tail(toBroker)
  /\ UNCHANGED <<session, active, conn, queues, deferred, task, message, answered, popped,
                 retries, stops>>

\* Raft is told to advance the item, then to remove the finished ones; the
\* local table follows each write that was confirmed.
AdvanceAndClean(id) ==
  \E first \in Outcomes(raft, next_state(raft, id)) :
    IF ~first.ok
      THEN /\ raft' = first.table /\ UNCHANGED local /\ Counted(FALSE)
      ELSE LET advanced == next_state(local, id) IN
           \E second \in Outcomes(first.table, clean_finished_items(first.table)) :
             /\ raft' = second.table
             /\ local' = IF second.ok THEN clean_finished_items(advanced) ELSE advanced
             /\ Counted(second.ok)

\* Ignored unless the item waits for it.  The slot is given back once the item
\* has moved on; an error keeps it.
handle_puback(id) ==
  /\ Answer("puback", id)
  /\ IF local[id].state # "WaitPuback"
       THEN UNCHANGED <<tables, slots, busy, cleanup, errors>>
       ELSE /\ IF session.persistent
                 THEN AdvanceAndClean(id) /\ UNCHANGED cleanup
                 ELSE /\ local' = next_state(local, id) /\ cleanup' = TRUE
                      /\ UNCHANGED <<raft, errors>>
            /\ IF session.persistent => local' # local
                 THEN slots' = Released /\ busy' = TRUE
                 ELSE UNCHANGED <<slots, busy>>
  /\ UNCHANGED <<raft_cleanup, toClient, sent, resent>>

\* PUBREL goes out first; a closed connection leaves the item where it is.
handle_pubrec(id) ==
  /\ Answer("pubrec", id)
  /\ IF local[id].state # "WaitPubrec"
       THEN UNCHANGED <<tables, slots, busy, errors, toClient>>
       ELSE /\ toClient' = IF conn THEN Append(toClient, pubrel(id)) ELSE toClient
            /\ IF ~conn THEN UNCHANGED <<tables, errors>> /\ slots' = Released /\ busy' = TRUE
               ELSE IF ~session.persistent
                 THEN /\ local' = next_state(local, id) /\ UNCHANGED <<raft, errors>>
                      /\ slots' = Released /\ busy' = TRUE
                 ELSE \E out \in Outcomes(raft, next_state(raft, id)) :
                        /\ raft' = out.table /\ Counted(out.ok)
                        /\ IF out.ok
                             THEN local' = next_state(local, id) /\ slots' = Released /\ busy' = TRUE
                             ELSE UNCHANGED <<local, slots, busy>>
  /\ UNCHANGED <<cleanup, raft_cleanup, sent, resent>>

\* No check of the item's state.
handle_pubcomp(id) ==
  /\ Answer("pubcomp", id)
  /\ IF session.persistent
       THEN AdvanceAndClean(id) /\ UNCHANGED cleanup
       ELSE /\ local' = next_state(local, id) /\ cleanup' = TRUE /\ UNCHANGED <<raft, errors>>
  /\ UNCHANGED <<slots, busy, raft_cleanup, toClient, sent, resent>>

\* cleanup_local_finished_items, spawned.
CleanupLocal ==
  /\ cleanup
  /\ cleanup' = FALSE
  /\ local' = clean_finished_items(local)
  /\ UNCHANGED <<session, active, conn, raft, queues, slots, deferred, busy, task, raft_cleanup,
                 message, wire, popped, bounds>>

-------------------------------------------------------------------------------
\* A QoS 1 PUBLISH from the client shares the table.  Once it is acknowledged
\* its item is removed from the local table of a clean session, from the Raft
\* table of a persistent one.
RxPublish(id) ==
  /\ ~busy /\ active /\ conn
  /\ ~packet_id_exists(raft, id) \/ raft[id].packet_key # RxKey
  /\ ~packet_id_exists(local, id) \/ local[id].packet_key # RxKey
  /\ local' = register_with_rx_packet(local, id, 1, RxKey)
  /\ IF session.persistent
       THEN /\ raft' = register_with_rx_packet(raft, id, 1, RxKey)
            /\ raft_cleanup' = TRUE /\ UNCHANGED cleanup
       ELSE cleanup' = TRUE /\ UNCHANGED <<raft, raft_cleanup>>
  /\ UNCHANGED <<session, active, conn, queues, slots, deferred, busy, task, message, wire,
                 popped, bounds>>

CleanupRaft ==
  /\ raft_cleanup
  /\ raft_cleanup' = FALSE
  /\ raft' = clean_finished_items(raft)
  /\ UNCHANGED <<session, active, conn, local, queues, slots, deferred, busy, task, cleanup,
                 message, wire, popped, bounds>>

-------------------------------------------------------------------------------
\* Retransmission.

\* Mutant: unsent items are given up whether or not they have expired.
Unsent_All == {id \in Ids : local[id].state # "Absent" /\ ~local[id].delivery_started}

\* cleanup_expired_unsent: the identifiers given up, unless Raft refuses.
Unsent == {id \in Ids : local[id].state # "Absent" /\ ~local[id].delivery_started
                        /\ local[id].packet_key \in expired}

Without(table, gone) ==
  [id \in Ids |-> IF id \in gone /\ CanDiscardUnsent(table, id, local[id].packet_key)
                    THEN NoItem ELSE table[id]]

Resend(ids) ==
  LET packet(id) == IF local[id].state = "WaitPubcomp" THEN <<pubrel(id)>>
                    ELSE IF local[id].state \in {"WaitPubrec", "WaitPuback"}
                            /\ local[id].packet_key \notin expired
                      THEN <<publish(local[id].packet_key, id)>> ELSE <<>>
      upto[n \in 0..MaxId] ==
        IF n = 0 THEN <<>> ELSE upto[n - 1] \o (IF n \in ids THEN packet(n) ELSE <<>>)
  IN  upto[MaxId]

\* Expired items that were never sent leave both tables; a write that fails
\* leaves the local one alone.
CleanupExpired(gone) ==
  LET failed == Unsent \ gone IN
  /\ Cardinality(failed) <= session.errors - errors
  /\ session.persistent \/ failed = {}
  /\ local' = Without(local, gone)
  /\ \E hidden \in SUBSET failed :
       raft' = IF session.persistent THEN Without(raft, gone \cup hidden) ELSE raft
  /\ errors' = errors + Cardinality(failed)

\* The timer: timed-out items are sent again, except those still deferred.  Its
\* first message is queued behind the one that recovers the table.
InflightRetry ==
  /\ ~busy /\ ~recover /\ active /\ retries < session.retries
  /\ retries' = retries + 1
  /\ \E gone \in SUBSET Unsent, timed_out \in SUBSET Ids :
       LET waiting == {deferred[i].id : i \in {j \in DOMAIN deferred : deferred[j].registered}}
           packets == Resend((timed_out \ gone) \ waiting)
       IN  /\ CleanupExpired(gone)
           /\ Write(packets, TRUE)
           /\ deferred' = SelectSeq(deferred, LAMBDA d : d.id \notin gone)
  /\ busy' = TRUE
  /\ UNCHANGED <<session, active, conn, queues, slots, task, cleanup, raft_cleanup, message,
                 popped, stops>>

\* AllInflightRetryImmediate, once per actor: PUBREL packets go out at once, the
\* PUBLISH packets join the deferred queue in the order of their identifiers.
RecoverInflight ==
  /\ ~busy /\ recover
  /\ recover' = FALSE
  /\ \E gone \in SUBSET Unsent :
       LET packets == Resend(Ids \ gone)
           again == SelectSeq(packets, LAMBDA p : p.kind # "pubcomp")
       IN  /\ CleanupExpired(gone)
           /\ Write(SelectSeq(packets, LAMBDA p : p.kind = "pubcomp"), FALSE)
           /\ deferred' = deferred \o
                [i \in DOMAIN again |-> [msg |-> again[i].msg, id |-> again[i].id, registered |-> TRUE]]
  /\ busy' = TRUE
  /\ UNCHANGED <<session, active, conn, offline, mailbox, slots, task, cleanup, raft_cleanup,
                 message, popped, retries, stops>>

-------------------------------------------------------------------------------
\* The connection, the actor and time.

ConnectionLost ==
  /\ conn /\ stops < session.stops
  /\ conn' = FALSE /\ stops' = stops + 1
  /\ toClient' = <<>>
  /\ UNCHANGED <<session, active, tables, queues, actor, message, toBroker, sent, answered,
                 resent, popped, errors, retries>>

\* finish_connection_disconnect of a persistent session: messages are stored
\* offline from here on.
SetInactive ==
  /\ ~busy /\ ~conn /\ active /\ session.persistent
  /\ active' = FALSE
  /\ UNCHANGED <<session, conn, tables, queues, actor, message, wire, popped, bounds>>

\* A new actor on a new connection: the table comes from Raft, and the offline
\* messages are popped, newest first, into its mailbox.  A failing pop ends the
\* loop and may have removed its message.
NewActor ==
  /\ \E k \in 0..Len(offline) :
     \E lost \in 0..(IF k < Len(offline) THEN 1 ELSE 0) :
       LET kept == Len(offline) - k - lost
           taken == [i \in 1..k |-> offline[Len(offline) - i + 1]]
       IN  /\ errors' = errors + (IF k < Len(offline) THEN 1 ELSE 0) /\ errors' <= session.errors
           /\ offline' = SubSeq(offline, 1, kept)
           /\ mailbox' = SelectSeq(taken, LAMBDA m : m \notin expired)
  /\ local' = raft /\ recover' = TRUE
  /\ active' = TRUE /\ conn' = TRUE
  /\ slots' = 0 /\ deferred' = <<>> /\ busy' = FALSE
  /\ task' = [m \in Msgs |-> Idle] /\ cleanup' = FALSE
  /\ toClient' = <<>> /\ toBroker' = <<>> /\ sent' = <<>>
  /\ UNCHANGED <<session, raft, raft_cleanup, message, answered, resent, popped, retries>>

\* The client is back: the old actor handles what its mailbox holds, then stops.
Reconnect ==
  /\ session.persistent /\ ~conn
  /\ ~busy /\ ~recover /\ mailbox = <<>>
  /\ NewActor
  /\ UNCHANGED stops

\* The node crashes and the client connects again.
Crash ==
  /\ session.persistent /\ stops < session.stops
  /\ stops' = stops + 1
  /\ NewActor

Expire(m) ==
  /\ m \in Expiring \ expired
  /\ expired' = expired \cup {m}
  /\ UNCHANGED <<session, active, conn, tables, queues, actor, status, wire, popped, bounds>>

\* The client answers in the order of arrival.
ClientAnswers ==
  /\ conn /\ toClient # <<>>
  /\ toBroker' = Append(toBroker, Head(toClient))
  /\ toClient' = Tail(toClient)
  /\ answered' = answered \cup ({Head(toClient).msg} \cap Msgs)
  /\ UNCHANGED <<session, active, conn, tables, queues, actor, message, sent, resent, popped,
                 bounds>>

AcceptAny == \E m \in session.msgs : Accept(m)
AcceptOfflineAny == \E m \in Msgs : AcceptOffline(m)
TaskStep == \E m \in Msgs : TaskRegisters(m) \/ TaskSends(m)
Drain == DrainEnds \/ DrainStarts \/ DrainSkips \/ DrainSends \/ DrainFails
HandleAnswer == \E id \in Ids : handle_puback(id) \/ handle_pubrec(id) \/ handle_pubcomp(id)

Next ==
  \/ AcceptAny \/ AcceptOfflineAny \/ TaskStep \/ Drain \/ HandleAnswer
  \/ CleanupLocal \/ CleanupRaft \/ InflightRetry \/ RecoverInflight
  \/ ConnectionLost \/ SetInactive \/ Reconnect \/ Crash \/ ClientAnswers
  \/ \E id \in session.rx : RxPublish(id)
  \/ \E m \in session.msgs : Expire(m)

\* The actor runs, spawned tasks end, and a connected client answers.
Fairness ==
  /\ WF_vars(Drain) /\ WF_vars(TaskStep) /\ WF_vars(HandleAnswer) /\ WF_vars(ClientAnswers)
  /\ WF_vars(RecoverInflight) /\ WF_vars(AcceptOfflineAny)
  /\ WF_vars(CleanupLocal) /\ WF_vars(CleanupRaft)

Spec == Init /\ [][Next]_vars /\ Fairness

-------------------------------------------------------------------------------
\* Properties.

Packets == [kind : {"puback", "pubrec", "pubcomp"}, id : Ids, msg : Keys]

\* The shapes of the variables; slots in use stay within the limit of the session.
TypeOK ==
  /\ session \in Sessions /\ {active, conn, recover, busy, cleanup, raft_cleanup, resent} \subseteq BOOLEAN
  /\ local \in [Ids -> Items(Keys)] /\ raft \in [Ids -> Items(Keys)]
  /\ slots \in 0..Limit
  /\ \A i \in DOMAIN deferred :
       deferred[i] \in [msg : Msgs, id : 0..MaxId, registered : BOOLEAN]
  /\ task \in [Msgs -> [pc : {"idle", "put", "send"}, id : 0..MaxId, slot : BOOLEAN]]
  /\ status \in [Msgs -> {"new", "accepted", "failed"}]
  /\ \A i \in DOMAIN toClient : toClient[i] \in Packets
  /\ \A i \in DOMAIN toBroker : toBroker[i] \in Packets

\* A v5 client never holds more unanswered PUBLISH packets than its Receive
\* Maximum, over deferral, failures and replacement of the actor, until a packet
\* is repeated on the connection.
ReceiveMaximumRespected ==
  session.v5 /\ ~resent =>
    Cardinality({toClient[i].id : i \in {j \in DOMAIN toClient : toClient[j].kind # "pubcomp"}}) <= Limit

\* While no Raft write has failed, two different messages are never unanswered
\* under one identifier.
IdentifiersDistinct ==
  ~resent /\ errors = 0 => \A i, j \in DOMAIN toClient :
    toClient[i].msg \in Msgs /\ toClient[j].msg \in Msgs /\ toClient[i].id = toClient[j].id
      => toClient[i].msg = toClient[j].msg

\* A message a persistent session has accepted is in the replicated table or
\* among the offline messages until the client has answered it or it has
\* expired; the messages popped from the offline queue are excepted.
AcceptedKept ==
  session.persistent /\ ~resent =>
    \A m \in Msgs : status[m] = "accepted" =>
      \/ m \in answered \cup expired \cup popped
      \/ \E id \in Ids : raft[id].packet_key = m

\* Without a failure, and until a packet is repeated on the connection, a message
\* that a connected session has accepted reaches the client, or finds every
\* identifier taken.
AcceptedSent ==
  \A m \in Msgs :
    (status[m] = "accepted") ~>
      (m \in Sent \cup expired \/ status[m] = "failed" \/ errors > 0 \/ ~conn \/ stops > 0 \/ resent)
===============================================================================
