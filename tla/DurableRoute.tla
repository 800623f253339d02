----------------------------- MODULE DurableRoute -----------------------------
(***************************************************************************)
(* One QoS 1 or QoS 2 message on its way to a subscriber at another node   *)
(* (broker/src/router_actor.rs).  The source keeps a row in its outbox and *)
(* a copy of the packet until the destination has accepted the message;    *)
(* the destination keeps a row in its inbox until the session has taken    *)
(* it, and the completed row for a while longer to recognise duplicates.   *)
(*                                                                         *)
(* Both sides work from copies of the row: a task is started when the row  *)
(* is written, and a new one by every scan, whether or not an older task   *)
(* is still at work.  A task writes its own copy back.                     *)
(***************************************************************************)
EXTENDS Integers, FiniteSets

CONSTANTS
  Dispatchers,   \* bound: dispatch_outbox_item tasks alive at once
  Processors,    \* bound: process_inbox_item tasks alive at once
  MaxRetries,    \* max_retry_count
  Ttl,           \* message_ttl_seconds, or the shorter life of the packet itself
  PacketExpiries, \* which cases arise: the packet's own expiry bounds the route or not
  MaxTime,       \* bound: clock
  MaxCrashes     \* bound: process crashes

ASSUME RouteAssumption ==
  /\ IsFiniteSet(Dispatchers) /\ IsFiniteSet(Processors)
  /\ {MaxRetries, Ttl, MaxTime, MaxCrashes} \subseteq Nat
  /\ MaxRetries > 0 /\ Ttl > 0 /\ PacketExpiries \subseteq BOOLEAN

VARIABLES
  now,
  enqueued,
  packet_expires,        \* whether it is the packet's own expiry that bounds the route
  outbox, src_payload,   \* source: RouteOutboxItem, its packet in the payload store
  inbox, dst_payload,    \* destination: RouteInboxItem, its packet
  dispatch,              \* per dispatcher: where it is, its copy of the row
  handler,               \* per dispatcher: the RouteFromOtherNode handler of its call
  process,               \* per processor: where it is, its copy of the row
  delivered,             \* how often the session accepted the message; 2 is more than once
  dropped,               \* the message was given up (expired, or retries used up)
  cleaned,               \* the completed inbox row has been removed
  overlapped,            \* two tasks, or two calls, for the route were at work at once
  crashes

route == <<enqueued, packet_expires>>
source == <<outbox, src_payload, dispatch>>
destination == <<inbox, dst_payload, handler, process>>
ghosts == <<delivered, dropped, cleaned, overlapped>>
vars == <<now, route, source, destination, ghosts, crashes>>

Row(attempts, retry_at, status, completed_at) ==
  [attempts |-> attempts, retry_at |-> retry_at, status |-> status, completed_at |-> completed_at]

NoRow == Row(0, 0, "None", 0)
Pending(attempts, retry_at) == Row(attempts, retry_at, "Pending", 0)
Completed(row, at) == [row EXCEPT !.status = "Completed", !.completed_at = at]

\* A task: its stage, the copy of the row it was started with and the clock it
\* read.
Idle == [at |-> 0, pc |-> "idle", row |-> NoRow]
Started(row) == [at |-> 0, pc |-> "start", row |-> row]

\* route_expiry_at: the creation time, 0 here, plus the time to live.  A packet
\* never expires before its row, so a task that finds its row alive finds its
\* packet alive.
expiry_at == Ttl

GivenUp(row) == expiry_at <= now \/ row.attempts >= MaxRetries
Retried(task) == Pending(task.row.attempts + 1, task.at + 1)

Init ==
  /\ now = 0 /\ enqueued = FALSE /\ packet_expires = FALSE
  /\ outbox = NoRow /\ src_payload = FALSE
  /\ inbox = NoRow /\ dst_payload = FALSE
  /\ dispatch = [d \in Dispatchers |-> Idle]
  /\ handler = [d \in Dispatchers |-> "idle"]
  /\ process = [p \in Processors |-> Idle]
  /\ delivered = 0 /\ dropped = FALSE /\ cleaned = FALSE /\ overlapped = FALSE /\ crashes = 0

-------------------------------------------------------------------------------
\* The source.

\* enqueue_durable_remote_route: payload, row, and a task for it.
Enqueue ==
  /\ ~enqueued
  /\ enqueued' = TRUE
  /\ packet_expires' \in PacketExpiries
  /\ src_payload' = TRUE
  /\ outbox' = Pending(0, now)
  /\ \E d \in Dispatchers : dispatch' = [dispatch EXCEPT ![d] = Started(outbox')]
  /\ UNCHANGED <<now, destination, ghosts, crashes>>

\* process_route_outbox: a scan starts another task on the row it finds.
ScanOutbox(d) ==
  /\ dispatch[d] = Idle
  /\ outbox # NoRow
  /\ dispatch' = [dispatch EXCEPT ![d] = Started(outbox)]
  /\ overlapped' = (overlapped \/ \E e \in Dispatchers : dispatch[e] # Idle)
  /\ UNCHANGED <<now, route, outbox, src_payload, destination, delivered, dropped, cleaned, crashes>>

\* The message has expired or was tried often enough: the row goes first.
DispatchGivesUp(d) ==
  /\ dispatch[d].pc = "start" /\ GivenUp(dispatch[d].row)
  /\ dropped' = TRUE
  /\ outbox' = NoRow
  /\ dispatch' = [dispatch EXCEPT ![d].pc = "delete"]
  /\ UNCHANGED <<now, route, src_payload, destination, delivered, cleaned, overlapped, crashes>>

\* Not due yet, or the packet is gone: the task ends and the row stays.
DispatchEnds(d) ==
  /\ dispatch[d].pc = "start" /\ ~GivenUp(dispatch[d].row)
  /\ dispatch[d].row.retry_at > now \/ ~src_payload
  /\ dispatch' = [dispatch EXCEPT ![d] = Idle]
  /\ UNCHANGED <<now, route, outbox, src_payload, destination, ghosts, crashes>>

\* The destination is in no membership: one more attempt, packet or no packet.
NodeUnknown(d) ==
  /\ dispatch[d].pc = "start" /\ ~GivenUp(dispatch[d].row)
  /\ dispatch[d].row.retry_at <= now
  /\ outbox' = Pending(dispatch[d].row.attempts + 1, now + 1)
  /\ dispatch' = [dispatch EXCEPT ![d] = Idle]
  /\ UNCHANGED <<now, route, src_payload, destination, ghosts, crashes>>

DispatchReads(d) ==
  /\ dispatch[d].pc = "start" /\ ~GivenUp(dispatch[d].row)
  /\ dispatch[d].row.retry_at <= now /\ src_payload
  /\ dispatch' = [dispatch EXCEPT ![d].pc = "send", ![d].at = now]
  /\ UNCHANGED <<now, route, outbox, src_payload, destination, ghosts, crashes>>

\* route_to_other_node: the call reaches the destination.
Send(d) ==
  /\ dispatch[d].pc = "send" /\ handler[d] = "idle"
  /\ dispatch' = [dispatch EXCEPT ![d].pc = "wait"]
  /\ handler' = [handler EXCEPT ![d] = "arrived"]
  /\ overlapped' = (overlapped \/ \E e \in Dispatchers : handler[e] # "idle")
  /\ UNCHANGED <<now, route, outbox, src_payload, inbox, dst_payload, process, delivered, dropped, cleaned, crashes>>

\* The destination cannot be reached, or the call breaks off (the handler may
\* still run).  The row is written back with one more attempt.
SendFails(d) ==
  /\ dispatch[d].pc \in {"send", "wait"}
  /\ outbox' = Retried(dispatch[d])
  /\ dispatch' = [dispatch EXCEPT ![d] = Idle]
  /\ UNCHANGED <<now, route, src_payload, destination, ghosts, crashes>>

\* Mutant: the row is not kept until the answer is there.
Acked_Early(d) ==
  /\ dispatch[d].pc = "wait"
  /\ outbox' = NoRow
  /\ dispatch' = [dispatch EXCEPT ![d].pc = "delete"]
  /\ UNCHANGED <<now, route, src_payload, destination, ghosts, crashes>>

Acked(d) ==
  /\ dispatch[d].pc = "wait" /\ handler[d] = "replied"
  /\ outbox' = NoRow
  /\ dispatch' = [dispatch EXCEPT ![d].pc = "delete"]
  /\ handler' = [handler EXCEPT ![d] = "idle"]
  /\ UNCHANGED <<now, route, src_payload, inbox, dst_payload, process, ghosts, crashes>>

DeleteSourcePayload(d) ==
  /\ dispatch[d].pc = "delete"
  /\ src_payload' = FALSE
  /\ dispatch' = [dispatch EXCEPT ![d] = Idle]
  /\ UNCHANGED <<now, route, outbox, destination, ghosts, crashes>>

-------------------------------------------------------------------------------
\* The destination: accept_route_from_other_node.

\* An expired packet is dropped and the call answered.
HandlerDrops(d) ==
  /\ handler[d] = "arrived" /\ packet_expires /\ expiry_at <= now
  /\ dropped' = TRUE
  /\ handler' = [handler EXCEPT ![d] = "replied"]
  /\ UNCHANGED <<now, route, source, inbox, dst_payload, process, delivered, cleaned, overlapped, crashes>>

\* Mutant: a route that is already known is accepted again.
HandlerLooksUp_NoCheck(d) ==
  /\ handler[d] = "arrived"
  /\ handler' = [handler EXCEPT ![d] = "unknown"]
  /\ UNCHANGED <<now, route, source, inbox, dst_payload, process, ghosts, crashes>>

HandlerLooksUp(d) ==
  /\ handler[d] = "arrived" /\ ~(packet_expires /\ expiry_at <= now)
  /\ handler' = [handler EXCEPT ![d] = IF inbox # NoRow THEN "replied" ELSE "unknown"]
  /\ UNCHANGED <<now, route, source, inbox, dst_payload, process, ghosts, crashes>>

HandlerStoresPayload(d) ==
  /\ handler[d] = "unknown"
  /\ dst_payload' = TRUE
  /\ handler' = [handler EXCEPT ![d] = "stored"]
  /\ UNCHANGED <<now, route, source, inbox, process, ghosts, crashes>>

\* The row is written and a task started for it; the call is answered.
HandlerAccepts(d) ==
  /\ handler[d] = "stored"
  /\ inbox' = Pending(0, now)
  /\ \E p \in Processors :
       /\ process[p] = Idle
       /\ process' = [process EXCEPT ![p] = Started(inbox')]
  /\ handler' = [handler EXCEPT ![d] = "replied"]
  /\ overlapped' = (overlapped \/ \E q \in Processors : process[q] # Idle)
  /\ UNCHANGED <<now, route, source, dst_payload, delivered, dropped, cleaned, crashes>>

\* The answer finds nobody waiting.
ReplyLost(d) ==
  /\ handler[d] = "replied" /\ dispatch[d].pc # "wait"
  /\ handler' = [handler EXCEPT ![d] = "idle"]
  /\ UNCHANGED <<now, route, source, inbox, dst_payload, process, ghosts, crashes>>

-------------------------------------------------------------------------------
\* The destination: process_inbox_item.

\* process_route_inbox; a completed row is left alone.
ScanInbox(p) ==
  /\ process[p] = Idle
  /\ inbox.status = "Pending"
  /\ process' = [process EXCEPT ![p] = Started(inbox)]
  /\ overlapped' = (overlapped \/ \E q \in Processors : process[q] # Idle)
  /\ UNCHANGED <<now, route, source, inbox, dst_payload, handler, delivered, dropped, cleaned, crashes>>

\* Mutant: the row of a message that is given up stays pending.
ProcessGivesUp_Pending(p) ==
  /\ process[p].pc = "start" /\ GivenUp(process[p].row)
  /\ dropped' = TRUE
  /\ inbox' = process[p].row
  /\ process' = [process EXCEPT ![p].pc = "delete"]
  /\ UNCHANGED <<now, route, source, dst_payload, handler, delivered, cleaned, overlapped, crashes>>

ProcessGivesUp(p) ==
  /\ process[p].pc = "start" /\ GivenUp(process[p].row)
  /\ dropped' = TRUE
  /\ inbox' = Completed(process[p].row, now)
  /\ process' = [process EXCEPT ![p].pc = "delete"]
  /\ UNCHANGED <<now, route, source, dst_payload, handler, delivered, cleaned, overlapped, crashes>>

ProcessEnds(p) ==
  /\ process[p].pc = "start" /\ ~GivenUp(process[p].row)
  /\ process[p].row.retry_at > now \/ ~dst_payload
  /\ process' = [process EXCEPT ![p] = Idle]
  /\ UNCHANGED <<now, route, source, inbox, dst_payload, handler, ghosts, crashes>>

ProcessReads(p) ==
  /\ process[p].pc = "start" /\ ~GivenUp(process[p].row)
  /\ process[p].row.retry_at <= now /\ dst_payload
  /\ process' = [process EXCEPT ![p].pc = "deliver", ![p].at = now]
  /\ UNCHANGED <<now, route, source, inbox, dst_payload, handler, ghosts, crashes>>

\* The session at this node takes the message (AcceptRoutedPublish).
SessionAccepts(p) ==
  /\ process[p].pc = "deliver"
  /\ delivered' = IF delivered = 0 THEN 1 ELSE 2
  /\ process' = [process EXCEPT ![p].pc = "delivered"]
  /\ UNCHANGED <<now, route, source, inbox, dst_payload, handler, dropped, cleaned, overlapped, crashes>>

\* There is no such session here, or it refuses.
SessionRefuses(p) ==
  /\ process[p].pc = "deliver"
  /\ inbox' = Retried(process[p])
  /\ process' = [process EXCEPT ![p] = Idle]
  /\ UNCHANGED <<now, route, source, dst_payload, handler, ghosts, crashes>>

ProcessCompletes(p) ==
  /\ process[p].pc = "delivered"
  /\ inbox' = Completed(process[p].row, process[p].at)
  /\ process' = [process EXCEPT ![p].pc = "delete"]
  /\ UNCHANGED <<now, route, source, dst_payload, handler, ghosts, crashes>>

DeleteInboxPayload(p) ==
  /\ process[p].pc = "delete"
  /\ dst_payload' = FALSE
  /\ process' = [process EXCEPT ![p] = Idle]
  /\ UNCHANGED <<now, route, source, inbox, handler, ghosts, crashes>>

\* cleanup_completed_inbox_items.
Cleanup ==
  /\ inbox.status = "Completed" /\ now - inbox.completed_at >= Ttl
  /\ inbox' = NoRow
  /\ cleaned' = TRUE
  /\ UNCHANGED <<now, route, source, dst_payload, handler, process, delivered, dropped, overlapped, crashes>>

-------------------------------------------------------------------------------
Tick ==
  /\ now < MaxTime
  /\ now' = now + 1
  /\ UNCHANGED <<route, source, destination, ghosts, crashes>>

\* A process dies with its tasks; the stores survive.
CrashSource ==
  /\ crashes < MaxCrashes
  /\ crashes' = crashes + 1
  /\ dispatch' = [d \in Dispatchers |-> Idle]
  /\ UNCHANGED <<now, route, outbox, src_payload, destination, ghosts>>

CrashDestination ==
  /\ crashes < MaxCrashes
  /\ crashes' = crashes + 1
  /\ handler' = [d \in Dispatchers |-> "idle"]
  /\ process' = [p \in Processors |-> Idle]
  /\ UNCHANGED <<now, route, source, inbox, dst_payload, ghosts>>

Dispatch(d) ==
  \/ DispatchGivesUp(d) \/ DispatchEnds(d) \/ NodeUnknown(d)
  \/ DispatchReads(d) \/ Send(d)
  \/ Acked(d) \/ DeleteSourcePayload(d)

Handle(d) ==
  \/ HandlerDrops(d) \/ HandlerLooksUp(d)
  \/ HandlerStoresPayload(d) \/ HandlerAccepts(d) \/ ReplyLost(d)

Process(p) ==
  \/ ProcessGivesUp(p) \/ ProcessEnds(p) \/ ProcessReads(p)
  \/ SessionAccepts(p) \/ SessionRefuses(p)
  \/ ProcessCompletes(p) \/ DeleteInboxPayload(p)

Next ==
  \/ Enqueue \/ Tick \/ Cleanup \/ CrashSource \/ CrashDestination
  \/ \E d \in Dispatchers : ScanOutbox(d) \/ Dispatch(d) \/ SendFails(d) \/ Handle(d)
  \/ \E p \in Processors : ScanInbox(p) \/ Process(p)

\* Tasks and timers of both nodes keep running, and the clock goes on.  No call
\* is assumed to succeed: one that hangs is ended by the connection.
Fairness ==
  /\ WF_vars(Tick)
  /\ WF_vars(\E d \in Dispatchers : ScanOutbox(d))
  /\ WF_vars(\E p \in Processors : ScanInbox(p))
  /\ \A d \in Dispatchers : WF_vars(Dispatch(d) \/ SendFails(d)) /\ WF_vars(Handle(d))
  /\ \A p \in Processors : WF_vars(Process(p))

Spec == Init /\ [][Next]_vars

-------------------------------------------------------------------------------
Rows == [attempts : Nat, retry_at : Nat, status : {"None", "Pending", "Completed"},
         completed_at : Nat]
Tasks(pcs) == [at : Nat, pc : pcs, row : Rows]

TypeOK ==
  /\ now \in 0..MaxTime /\ packet_expires \in BOOLEAN /\ enqueued \in BOOLEAN
  /\ outbox \in Rows /\ outbox.attempts <= MaxRetries
  /\ inbox \in Rows /\ inbox.attempts <= MaxRetries
  /\ src_payload \in BOOLEAN /\ dst_payload \in BOOLEAN
  /\ dispatch \in [Dispatchers -> Tasks({"idle", "start", "send", "wait", "delete"})]
  /\ handler \in [Dispatchers -> {"idle", "arrived", "unknown", "stored", "replied"}]
  /\ process \in [Processors -> Tasks({"idle", "start", "deliver", "delivered", "delete"})]
  /\ delivered \in 0..2 /\ dropped \in BOOLEAN /\ cleaned \in BOOLEAN
  /\ overlapped \in BOOLEAN /\ crashes \in 0..MaxCrashes

\* A message that was neither delivered nor given up is always in one of the
\* two stores, row and packet together, whatever tasks overlap and whichever
\* process dies between two writes.
NothingLost ==
  enqueued /\ delivered = 0 /\ ~dropped =>
    (outbox # NoRow /\ src_payload) \/ (inbox.status = "Pending" /\ dst_payload)

\* The inbox remembers a route for as long as a copy of it can still arrive:
\* once the completed row is removed, nothing is delivered any more, unless
\* tasks overlapped.
NoDeliveryAfterCleanup ==
  [][cleaned /\ ~overlapped => ~\E p \in Processors : SessionAccepts(p)]_vars

\* A route is delivered to the session once, however often its call is repeated,
\* unless tasks overlapped or a process died (between the delivery and the
\* record of it).
DeliveredOnce == crashes = 0 /\ ~overlapped => delivered <= 1

\* Every route comes to an end on both sides: it is not retried for ever.
RouteSettles == enqueued ~> (outbox = NoRow /\ inbox.status # "Pending")
===============================================================================
