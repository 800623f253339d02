---------------------------- MODULE InboundPackets ----------------------------
(***************************************************************************)
(* The packets one client sends to its session actor                       *)
(* (broker/src/session/session_actor.rs): PUBLISH, PUBREL, SUBSCRIBE,      *)
(* UNSUBSCRIBE and PINGREQ, with the calls each handler makes to plugins,  *)
(* the payload store, the session state and topic Raft groups and the      *)
(* router.                                                                 *)
(*                                                                         *)
(* A PUBLISH is handled by a spawned future (`task`); the other handlers   *)
(* run inside ctx.wait (`waiting`), during which the actor polls neither   *)
(* its mailbox nor its spawned futures.  The session state is behind a     *)
(* fair lock: `lock` is the queue of its holder and those waiting for it,  *)
(* a PUBLISH by its index and the handler inside ctx.wait as 0.            *)
(*                                                                         *)
(* Every PUBLISH has the same topic; `self` says that the client itself is *)
(* subscribed to it.  A script may also hold a message that another client *)
(* published and the router sends to this session.  The connection stays   *)
(* up (see ConnectionLifecycle).                                           *)
(***************************************************************************)
EXTENDS Integers, Sequences, FiniteSets, Inflight

CONSTANTS Ids,       \* packet identifiers
          Filters,   \* topic filters
          RxKey,     \* the payload key of a received PUBLISH
          MaxPackets, \* how many packets a client sends
          Scripts    \* what a client may send, with bounds on failures

Kinds == {"publish", "pubrel", "subscribe", "unsubscribe", "pingreq", "message"}
PacketSet == [kind : Kinds, id : Ids, qos : 0..2, retain : {"no", "set", "clear"},
              filters : Seq(Filters), handling : {"always", "new", "never"}]

ASSUME InboundAssumption ==
  /\ NoKey # RxKey /\ MaxPackets \in Nat /\ \A s \in Scripts : Len(s.packets) <= MaxPackets
  /\ Scripts \subseteq [persistent : BOOLEAN, paced : BOOLEAN, self : BOOLEAN,
                        packets : Seq(PacketSet), errors : Nat, refusals : Nat]
  /\ \A s \in Scripts : \A i \in DOMAIN s.packets :  \* an empty list would change nothing
       s.packets[i].kind \in {"subscribe", "unsubscribe"} => s.packets[i].filters # <<>>

VARIABLES
  script,               \* the session and what its client sends
  next,                 \* the index of the next packet to send
  inbox,                \* the actor's mailbox: packet indexes, 0 for a message routed to it
  task,                 \* per packet: where the spawned future of a PUBLISH is
  waiting,              \* the future inside ctx.wait
  lock,
  local, raft,          \* inflight tables, in the actor and replicated
  subs, raft_subs,      \* subscriptions in the actor and replicated with the session
  topics,               \* filters the topic tree holds for this client
  retained,             \* the PUBLISH retained for the topic, 0 is none
  routed,               \* the PUBLISH packets the router has taken, in order
  written,              \* packets written to the client
  refused,              \* PUBLISH packets a plugin or their expiry stopped
  deliveries,           \* spawned deliveries of a clean session
  cleanup, raft_cleanup, \* spawned cleanup tasks
  errors, refusals

tables == <<local, raft>>
filters == <<subs, raft_subs, topics>>
spawned == <<deliveries, cleanup, raft_cleanup>>
vars == <<script, next, inbox, task, waiting, lock, tables, filters, retained, routed, written,
          refused, spawned, errors, refusals>>

Packets == DOMAIN script.packets
packet(i) == script.packets[i]
NotWaiting == [pkt |-> 0, pc |-> "idle", at |-> 0, existing |-> {}, granted |-> <<>>]

Init ==
  /\ script \in Scripts
  /\ next = 1 /\ inbox = <<>> /\ task = [i \in Packets |-> "idle"]
  /\ waiting = NotWaiting /\ lock = <<>>
  /\ local = [id \in Ids |-> NoItem] /\ raft = [id \in Ids |-> NoItem]
  /\ subs = {} /\ raft_subs = {} /\ topics = {}
  /\ retained = 0 /\ routed = <<>> /\ written = <<>> /\ refused = {}
  /\ deliveries = 0 /\ cleanup = FALSE /\ raft_cleanup = FALSE
  /\ errors = 0 /\ refusals = 0

-------------------------------------------------------------------------------

Answer(kind, i) == [kind |-> kind, pkt |-> i]
Answered(i) == \E k \in DOMAIN written : written[k].pkt = i /\ written[k].kind # "retained"

\* What the mailbox holds for entry i of the script.
Mail(i) == IF packet(i).kind = "message" THEN 0 ELSE i

Settled(i) == IF packet(i).kind = "publish" THEN task[i] = "done" ELSE Answered(Mail(i))

\* A call that may fail, and may have taken effect all the same.
Outcomes(before, after) ==
  {[value |-> after, ok |-> TRUE]} \cup
  IF errors < script.errors
    THEN {[value |-> after, ok |-> FALSE], [value |-> before, ok |-> FALSE]} ELSE {}

Counted(ok) == errors' = IF ok THEN errors ELSE errors + 1

\* The client, or the router: a paced client waits for the answer to its last packet.
Send ==
  /\ next \in Packets
  /\ script.paced => \A i \in 1..(next - 1) : Settled(i)
  /\ inbox' = Append(inbox, Mail(next))
  /\ next' = next + 1
  /\ UNCHANGED <<script, task, waiting, lock, tables, filters, retained, routed, written, refused,
                 spawned, errors, refusals>>

-------------------------------------------------------------------------------
\* The actor takes a message from its mailbox.

Idle == waiting.pc = "idle"

Take(i) ==
  /\ Idle /\ inbox # <<>> /\ i = Head(inbox)
  /\ inbox' = Tail(inbox)
  /\ UNCHANGED <<script, next, tables, filters, retained, routed, refused, cleanup, raft_cleanup,
                 errors, refusals>>

TakePacket(i, kind) == i \in Packets /\ packet(i).kind = kind /\ Take(i)

handle_publish(i) ==
  /\ TakePacket(i, "publish")
  /\ task' = [task EXCEPT ![i] = "authorize"]
  /\ UNCHANGED <<waiting, lock, written, deliveries>>

\* Mutant: PINGREQ only refreshes the keep-alive timer.
handle_pingreq_Silent(i) ==
  TakePacket(i, "pingreq") /\ UNCHANGED <<task, waiting, lock, written, deliveries>>

handle_pingreq(i) ==
  /\ TakePacket(i, "pingreq")
  /\ written' = Append(written, Answer("pingresp", i))
  /\ UNCHANGED <<task, waiting, lock, deliveries>>

\* Into ctx.wait, asking for the lock at once or not.
Wait(i, pc, locked) ==
  /\ waiting' = [pkt |-> i, pc |-> pc, at |-> 1, existing |-> {}, granted |-> <<>>]
  /\ lock' = IF locked THEN Append(lock, 0) ELSE lock
  /\ UNCHANGED <<task, written, deliveries>>

handle_subscribe(i) == TakePacket(i, "subscribe") /\ Wait(i, "read", TRUE)

handle_unsubscribe(i) == TakePacket(i, "unsubscribe") /\ Wait(i, "topic", FALSE)

handle_pubrel(i) == TakePacket(i, "pubrel") /\ Wait(i, "release", TRUE)

\* A message routed to this session: a persistent one delivers it inside
\* ctx.wait, a clean one spawns the delivery.
start_outbound_publish_delivery ==
  /\ Take(0)
  /\ IF script.persistent THEN Wait(0, "deliver", TRUE)
     ELSE deliveries' = deliveries + 1 /\ UNCHANGED <<task, waiting, lock, written>>

-------------------------------------------------------------------------------
\* do_handle_publish: the spawned future of PUBLISH i.  It runs only while
\* nothing is inside ctx.wait.

At(i, pc) == Idle /\ task[i] = pc

\* Mutant: a lock shared by the PUBLISH packets.
Holds_Shared(i) == i \in {lock[k] : k \in DOMAIN lock}

Holds(i) == lock # <<>> /\ Head(lock) = i

\* The future ends and lets go of the lock, if it had it: a QoS 1 or QoS 2 packet
\* is acknowledged if `ack`, and an acknowledged QoS 1 packet starts a cleanup.
Done(i, ack) ==
  /\ task' = [task EXCEPT ![i] = "done"]
  /\ lock' = IF lock # <<>> /\ Head(lock) = i THEN Tail(lock) ELSE lock
  /\ written' = IF ack /\ packet(i).qos > 0
                  THEN Append(written, Answer(IF packet(i).qos = 1 THEN "puback" ELSE "pubrec", i))
                  ELSE written
  /\ LET clean == ack /\ packet(i).qos = 1 IN
       /\ cleanup' = (cleanup \/ (clean /\ ~script.persistent))
       /\ raft_cleanup' = (raft_cleanup \/ (clean /\ script.persistent))
  /\ UNCHANGED <<script, next, inbox, waiting, filters, deliveries>>

\* Between two calls.
Goes(i, pc) ==
  /\ task' = [task EXCEPT ![i] = pc]
  /\ UNCHANGED <<script, next, inbox, waiting, filters, written, refused, spawned, refusals>>

\* The authorize hook; an error and a refusal are both acknowledged.
Authorize(i) ==
  /\ At(i, "authorize")
  /\ \/ Goes(i, "policy") /\ UNCHANGED <<lock, tables, retained, routed, errors>>
     \/ /\ refusals < script.refusals
        /\ refusals' = refusals + 1 /\ refused' = refused \cup {i}
        /\ Done(i, TRUE)
        /\ UNCHANGED <<tables, retained, routed, errors>>

\* The packet has expired: a retained tombstone is applied all the same.
Expired(i) ==
  /\ At(i, "policy") /\ refusals < script.refusals
  /\ refusals' = refusals + 1 /\ refused' = refused \cup {i}
  /\ \E out \in Outcomes(retained, IF packet(i).retain = "clear" THEN 0 ELSE retained) :
       /\ packet(i).retain # "clear" => out.ok
       /\ retained' = out.value /\ Counted(out.ok)
  /\ Done(i, TRUE)
  /\ UNCHANGED <<tables, routed>>

\* The message-publish hook fails or says no; otherwise the lock is asked for.
Policy(i) ==
  /\ At(i, "policy")
  /\ \/ /\ Goes(i, "put") /\ lock' = Append(lock, i)
        /\ UNCHANGED <<tables, retained, routed, errors>>
     \/ /\ refusals < script.refusals
        /\ refusals' = refusals + 1 /\ refused' = refused \cup {i}
        /\ Done(i, TRUE)
        /\ UNCHANGED <<tables, retained, routed, errors>>

AfterRegister(i) == IF packet(i).retain = "no" THEN "route" ELSE "retain"

\* Mutant: the packet is registered in the actor only.
AfterPut_Local(i) == AfterRegister(i)

AfterPut(i) == IF script.persistent THEN "register" ELSE AfterRegister(i)

\* The payload is stored and the packet registered in the actor.
Put(i) ==
  /\ At(i, "put") /\ Holds(i)
  /\ IF packet(i).qos = 0 THEN Goes(i, AfterRegister(i)) /\ UNCHANGED <<lock, local, errors>>
     ELSE \/ /\ Goes(i, AfterPut(i))
             /\ local' = register_with_rx_packet(local, packet(i).id, packet(i).qos, RxKey)
             /\ UNCHANGED <<lock, errors>>
          \/ /\ errors < script.errors /\ Counted(FALSE)
             /\ Done(i, FALSE) /\ UNCHANGED <<local, refused, refusals>>
  /\ UNCHANGED <<raft, retained, routed>>

\* The Raft write of a persistent session; its failure ends the future.
Register(i) ==
  /\ At(i, "register") /\ Holds(i)
  /\ \E out \in Outcomes(raft, register_with_rx_packet(raft, packet(i).id, packet(i).qos, RxKey)) :
       /\ raft' = out.value /\ Counted(out.ok)
       /\ IF out.ok THEN Goes(i, AfterRegister(i)) /\ UNCHANGED lock
                    ELSE Done(i, FALSE) /\ UNCHANGED <<refused, refusals>>
  /\ UNCHANGED <<local, retained, routed>>

\* An empty payload clears what is retained.
RetainedBy(i) == IF packet(i).retain = "set" THEN i ELSE 0

\* The retained message; an error is logged.
Retain(i) ==
  /\ At(i, "retain") /\ Holds(i)
  /\ \E out \in Outcomes(retained, RetainedBy(i)) :
       retained' = out.value /\ Counted(out.ok)
  /\ Goes(i, "route")
  /\ UNCHANGED <<lock, tables, routed>>

\* The router takes the packet, and its answer is on the way.
Route(i) ==
  /\ task[i] = "route" /\ Holds(i)
  /\ \/ /\ task' = [task EXCEPT ![i] = "reply"]
        /\ routed' = Append(routed, i)
        /\ inbox' = IF script.self THEN Append(inbox, 0) ELSE inbox
        /\ UNCHANGED errors
     \/ /\ errors < script.errors /\ Counted(FALSE)
        /\ task' = [task EXCEPT ![i] = "failed"]
        /\ UNCHANGED <<routed, inbox>>
  /\ UNCHANGED <<script, next, waiting, lock, tables, filters, retained, written, refused, spawned,
                 refusals>>

\* Mutant: the packet is acknowledged although routing failed.
Reply_Always(i) ==
  /\ Idle /\ task[i] \in {"reply", "failed"}
  /\ Done(i, TRUE)
  /\ UNCHANGED <<tables, retained, routed, refused, errors, refusals>>

\* The future is polled again: acknowledged, unless routing failed.
Reply(i) ==
  /\ Idle /\ task[i] \in {"reply", "failed"}
  /\ Done(i, task[i] = "reply")
  /\ UNCHANGED <<tables, retained, routed, refused, errors, refusals>>

-------------------------------------------------------------------------------
\* The futures inside ctx.wait.

now == packet(waiting.pkt).filters[waiting.at]
more == waiting.at < Len(packet(waiting.pkt).filters)

SendRetained ==
  \/ packet(waiting.pkt).handling = "always"
  \/ packet(waiting.pkt).handling = "new" /\ now \notin waiting.existing

Inside(pc) == waiting.pc = pc
Locked(pc) == Inside(pc) /\ Holds(0) /\ lock' = Tail(lock)

\* handle_subscribe reads which filters the session already has.
SubscribeReads ==
  /\ Locked("read")
  /\ waiting' = [waiting EXCEPT !.pc = "filters", !.existing = subs]
  /\ UNCHANGED <<script, next, inbox, task, tables, filters, retained, routed, written, refused,
                 spawned, errors, refusals>>

\* do_handle_subscribe, one filter: refused by a check or a plugin, entered in
\* the topic tree, or not.  A granted filter brings the retained message.
SubscribeFilter ==
  /\ Inside("filters")
  /\ \/ /\ refusals < script.refusals /\ refusals' = refusals + 1
        /\ UNCHANGED <<topics, errors, written>>
        /\ waiting' = [waiting EXCEPT !.at = @ + 1, !.pc = IF more THEN "filters" ELSE "suback"]
     \/ \E out \in Outcomes(topics, topics \cup {now}) :
          /\ topics' = out.value /\ Counted(out.ok)
          /\ waiting' = [waiting EXCEPT !.at = @ + 1, !.pc = IF more THEN "filters" ELSE "suback",
                                        !.granted = IF out.ok THEN Append(@, now) ELSE @]
          /\ written' = IF out.ok /\ retained # 0 /\ SendRetained THEN Append(written, Answer("retained", retained))
                        ELSE written
          /\ UNCHANGED refusals
  /\ UNCHANGED <<script, next, inbox, task, lock, tables, subs, raft_subs, retained, routed,
                 refused, spawned>>

\* A SUBSCRIBE with subscription identifiers is refused as a whole.
SubscribeRefused ==
  /\ Inside("filters") /\ waiting.at = 1
  /\ refusals < script.refusals /\ refusals' = refusals + 1
  /\ waiting' = [waiting EXCEPT !.pc = "suback"]
  /\ UNCHANGED <<script, next, inbox, task, lock, tables, filters, retained, routed, written,
                 refused, spawned, errors>>

\* What is left of a handler once its answer is written: `granted` filters to
\* record, the first of which is recorded next.
Recording(granted) ==
  IF granted = <<>> THEN waiting' = NotWaiting /\ UNCHANGED lock
  ELSE /\ waiting' = [waiting EXCEPT !.granted = granted,
                                     !.pc = IF script.persistent THEN "persist" ELSE "insert"]
       /\ lock' = IF script.persistent THEN lock ELSE Append(lock, 0)

\* SUBACK goes out before anything is recorded in the session state.
SubscribeAnswers ==
  /\ Inside("suback")
  /\ written' = Append(written, Answer("suback", waiting.pkt))
  /\ Recording(waiting.granted)
  /\ UNCHANGED <<script, next, inbox, task, tables, filters, retained, routed, refused, spawned,
                 errors, refusals>>

\* A persistent session: a filter Raft refuses is not kept by the actor either.
SubscribePersists ==
  /\ Inside("persist")
  /\ \E out \in Outcomes(raft_subs, raft_subs \cup {Head(waiting.granted)}) :
       /\ raft_subs' = out.value /\ Counted(out.ok)
       /\ IF out.ok THEN /\ waiting' = [waiting EXCEPT !.pc = "insert"] /\ lock' = Append(lock, 0)
                    ELSE Recording(Tail(waiting.granted))
  /\ UNCHANGED <<script, next, inbox, task, tables, subs, topics, retained, routed, written,
                 refused, spawned, refusals>>

SubscribeInserts ==
  /\ Inside("insert") /\ Holds(0)
  /\ subs' = subs \cup {Head(waiting.granted)}
  /\ LET rest == Tail(waiting.granted) IN
       /\ waiting' = IF rest = <<>> THEN NotWaiting
                     ELSE [waiting EXCEPT !.granted = rest,
                                          !.pc = IF script.persistent THEN "persist" ELSE "insert"]
       /\ lock' = IF rest = <<>> \/ script.persistent THEN Tail(lock) ELSE Append(Tail(lock), 0)
  /\ UNCHANGED <<script, next, inbox, task, tables, raft_subs, topics, retained, routed, written,
                 refused, spawned, errors, refusals>>

\* do_handle_unsubscribe: the topic tree first, whatever it answers.
UnsubscribeTopic ==
  /\ Inside("topic")
  /\ \E out \in Outcomes(topics, topics \ {now}) : topics' = out.value /\ Counted(out.ok)
  /\ waiting' = IF more THEN [waiting EXCEPT !.at = @ + 1]
                ELSE [waiting EXCEPT !.at = 1, !.pc = "remove"]
  /\ lock' = IF more THEN lock ELSE Append(lock, 0)
  /\ UNCHANGED <<script, next, inbox, task, tables, subs, raft_subs, retained, routed, written,
                 refused, spawned, refusals>>

\* Mutant: the actor keeps the filter.
UnsubscribeRemoves_Kept ==
  /\ Locked("remove")
  /\ waiting' = [waiting EXCEPT !.pc = "forget"]
  /\ UNCHANGED <<script, next, inbox, task, tables, filters, retained, routed, written, refused,
                 spawned, errors, refusals>>

\* handle_unsubscribe: each filter leaves the actor, then Raft, whose failure
\* is logged; UNSUBACK comes last.
UnsubscribeRemoves ==
  /\ Locked("remove")
  /\ subs' = subs \ {now}
  /\ waiting' = [waiting EXCEPT !.pc = "forget"]
  /\ UNCHANGED <<script, next, inbox, task, tables, raft_subs, topics, retained, routed, written,
                 refused, spawned, errors, refusals>>

UnsubscribeForgets ==
  /\ Inside("forget")
  /\ IF script.persistent
       THEN \E out \in Outcomes(raft_subs, raft_subs \ {now}) :
              raft_subs' = out.value /\ Counted(out.ok)
       ELSE UNCHANGED <<raft_subs, errors>>
  /\ IF more THEN /\ waiting' = [waiting EXCEPT !.at = @ + 1, !.pc = "remove"]
                  /\ lock' = Append(lock, 0) /\ UNCHANGED written
             ELSE /\ waiting' = NotWaiting /\ UNCHANGED lock
                  /\ written' = Append(written, Answer("unsuback", waiting.pkt))
  /\ UNCHANGED <<script, next, inbox, task, tables, subs, topics, retained, routed, refused,
                 spawned, refusals>>

\* handle_pubrel: PUBCOMP first, whatever the table holds, then the tables.
PubrelReleases ==
  LET id == packet(waiting.pkt).id
      advanced == next_state(local, id)
  IN  /\ Locked("release")
      /\ written' = Append(written, Answer("pubcomp", waiting.pkt))
      /\ waiting' = NotWaiting
      /\ IF ~script.persistent
           THEN local' = advanced /\ cleanup' = TRUE /\ UNCHANGED <<raft, errors>>
           ELSE /\ \E first \in Outcomes(raft, next_state(raft, id)) :
                     IF ~first.ok THEN raft' = first.value /\ Counted(FALSE) /\ UNCHANGED local
                     ELSE \E second \in Outcomes(first.value, clean_finished_items(first.value)) :
                            /\ raft' = second.value /\ Counted(second.ok)
                            /\ local' = clean_finished_items(advanced)
                /\ UNCHANGED cleanup
      /\ UNCHANGED <<script, next, inbox, task, filters, retained, routed, refused, deliveries,
                     raft_cleanup, refusals>>

\* deliver_outbound_publish of a persistent session (see OutboundDelivery).
Delivers ==
  /\ Locked("deliver")
  /\ waiting' = NotWaiting
  /\ written' = Append(written, Answer("publish", 0))
  /\ UNCHANGED <<script, next, inbox, task, tables, filters, retained, routed, refused, spawned,
                 errors, refusals>>

\* The same for a clean session, spawned: it takes the lock in its turn.
SpawnedDelivers ==
  /\ Idle /\ deliveries > 0 /\ lock = <<>>
  /\ deliveries' = deliveries - 1
  /\ written' = Append(written, Answer("publish", 0))
  /\ UNCHANGED <<script, next, inbox, task, waiting, lock, tables, filters, retained, routed,
                 refused, cleanup, raft_cleanup, errors, refusals>>

\* Cleanup tasks, outside the actor.
CleanupLocal ==
  /\ cleanup /\ lock = <<>>
  /\ cleanup' = FALSE
  /\ local' = clean_finished_items(local)
  /\ UNCHANGED <<script, next, inbox, task, waiting, lock, raft, filters, retained, routed, written,
                 refused, deliveries, raft_cleanup, errors, refusals>>

CleanupRaft ==
  /\ raft_cleanup
  /\ raft_cleanup' = FALSE
  /\ \E out \in Outcomes(raft, clean_finished_items(raft)) : raft' = out.value /\ Counted(out.ok)
  /\ UNCHANGED <<script, next, inbox, task, waiting, lock, local, filters, retained, routed,
                 written, refused, deliveries, cleanup, refusals>>

-------------------------------------------------------------------------------

Handle ==
  \/ start_outbound_publish_delivery
  \/ \E i \in Packets : \/ handle_publish(i) \/ handle_pingreq(i) \/ handle_subscribe(i)
                        \/ handle_unsubscribe(i) \/ handle_pubrel(i)

PublishStep ==
  \E i \in Packets : \/ Authorize(i) \/ Expired(i) \/ Policy(i) \/ Put(i) \/ Register(i)
                     \/ Retain(i) \/ Route(i) \/ Reply(i)

WaitStep ==
  \/ SubscribeReads \/ SubscribeRefused \/ SubscribeFilter \/ SubscribeAnswers
  \/ SubscribePersists \/ SubscribeInserts \/ UnsubscribeTopic \/ UnsubscribeRemoves \/ UnsubscribeForgets \/ PubrelReleases \/ Delivers

Spawned == SpawnedDelivers \/ CleanupLocal \/ CleanupRaft

Next == Send \/ Handle \/ PublishStep \/ WaitStep \/ Spawned

\* The actor is polled, every call is answered, and the client sends all it has.
Fairness ==
  /\ WF_vars(Send) /\ WF_vars(Handle) /\ WF_vars(WaitStep) /\ WF_vars(Spawned)
  /\ \A i \in 1..MaxPackets : WF_vars(i \in Packets /\
       (Authorize(i) \/ Policy(i) \/ Put(i) \/ Register(i) \/ Retain(i) \/ Route(i) \/ Reply(i)))

Spec == Init /\ [][Next]_vars /\ Fairness

-------------------------------------------------------------------------------
\* Properties.

Pcs == {"idle", "authorize", "policy", "put", "register", "retain", "route", "reply", "failed", "done"}

\* The shapes of the variables; whoever is in the queue of the lock asked for it once.
TypeOK ==
  /\ script \in Scripts /\ next \in 1..(Len(script.packets) + 1)
  /\ \A k \in DOMAIN inbox : inbox[k] \in {0} \cup Packets
  /\ task \in [Packets -> Pcs]
  /\ waiting.pkt \in {0} \cup Packets /\ waiting.existing \subseteq Filters
  /\ \A k \in DOMAIN lock :
       /\ lock[k] = 0 => ~Idle
       /\ lock[k] # 0 => task[lock[k]] \in Pcs \ {"idle", "authorize", "policy", "done"}
       /\ \A l \in DOMAIN lock : lock[k] = lock[l] => k = l
  /\ local \in [Ids -> Items({RxKey})] /\ raft \in [Ids -> Items({RxKey})]
  /\ subs \subseteq Filters /\ raft_subs \subseteq Filters /\ topics \subseteq Filters
  /\ retained \in {0} \cup Packets /\ refused \subseteq Packets
  /\ errors \in 0..script.errors /\ refusals \in 0..script.refusals

Wrote(kind, i) == \E k \in DOMAIN written : written[k] = Answer(kind, i)

\* A PUBLISH that no plugin stopped and that had not expired is acknowledged only
\* after the router has taken it.
AckedAfterRouted ==
  \A i \in Packets \ refused : Wrote("puback", i) \/ Wrote("pubrec", i) =>
    \E k \in DOMAIN routed : routed[k] = i

\* The client has been told that the identifier of packet i is free again, or has
\* used it for a QoS 1 packet, which the protocol forbids before.
Ended(i) ==
  \E j \in Packets :
    /\ packet(j).id = packet(i).id
    /\ \/ packet(j).kind = "pubrel" /\ Wrote("pubcomp", j)
       \/ packet(j).kind = "publish" /\ packet(j).qos = 1

\* From PUBREC to PUBCOMP a QoS 2 packet of a persistent session is held in the
\* replicated table, so that a new actor knows it.
ReceivedKept ==
  script.persistent => \A i \in Packets \ refused :
    Wrote("pubrec", i) => raft[packet(i).id].state = "WaitPubrel" \/ Ended(i)

LatestFlagged(k) ==
  /\ packet(routed[k]).retain # "no"
  /\ \A l \in DOMAIN routed : l > k => packet(routed[l]).retain = "no"

\* Unless a call failed or a plugin said no: between two PUBLISH packets the
\* retained message is the one of the last packet routed that had the flag.
RetainedLatest ==
  errors = 0 /\ refusals = 0 /\ (\A i \in Packets : task[i] # "route") =>
    \A k \in DOMAIN routed : LatestFlagged(k) => retained = RetainedBy(routed[k])

\* Unless a call failed: between two handlers the actor, the topic tree and,
\* for a persistent session, the replicated state hold the same filters.
SubscriptionsAgree ==
  Idle /\ errors = 0 => subs = topics /\ (script.persistent => raft_subs = subs)

\* Every packet the client has sent is dealt with: answered or, for a PUBLISH,
\* its future ends; a message routed to the session is written to the client.
PacketsHandled == \A i \in 1..MaxPackets : (i \in Packets /\ i < next) ~> (i \in Packets /\ Settled(i))
===============================================================================
