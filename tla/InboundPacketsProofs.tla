-------------------------- MODULE InboundPacketsProofs --------------------------
(***************************************************************************)
(* Acknowledgements, subscriptions, received QoS 2 packets and the retained *)
(* message of one session, for every sequence of packets, paced or not,    *)
(* and any number of failing calls and refusals.                           *)
(***************************************************************************)
EXTENDS InboundPackets, SequenceTheorems, TLAPS

Acks == {"puback", "pubrec"}
Others == {"pingresp", "suback", "unsuback", "pubcomp", "publish", "retained"}
Answers == [kind : Acks \cup Others, pkt : Int]
WaitPcs == {"idle", "read", "filters", "suback", "persist", "insert", "topic", "remove", "forget",
            "release", "deliver"}
Waits == [pkt : Int, pc : WaitPcs, at : Int, existing : SUBSET Filters, granted : Seq(Filters)]

Shapes ==
  /\ script \in Scripts /\ errors \in Nat /\ retained \in Int
  /\ written \in Seq(Answers) /\ routed \in Seq(Int)
  /\ task \in [Packets -> Pcs]
  /\ waiting \in Waits /\ subs \subseteq Filters

List == packet(waiting.pkt).filters

\* Where a handler inside ctx.wait is in its list of filters.
Position ==
  /\ waiting.pc \in {"read", "filters", "topic", "remove", "forget"} =>
       waiting.pkt \in Packets /\ waiting.at \in 1..Len(List)
  /\ waiting.pc \in {"persist", "insert"} => waiting.granted # <<>>
  /\ waiting.pc = "read" => waiting.granted = <<>>

All(f) == {f[k] : k \in DOMAIN f}
Before(f, n) == {f[k] : k \in 1..(n - 1)}
From(f, n) == {f[k] : k \in n..Len(f)}

\* How far the three places have moved apart inside a handler, as long as no call failed.
Apart ==
  LET same == script.persistent => raft_subs = subs
  IN  /\ waiting.pc \in {"idle", "read", "release", "deliver"} => topics = subs /\ same
      /\ waiting.pc \in {"filters", "suback", "persist"} => topics = subs \cup All(waiting.granted) /\ same
      /\ waiting.pc = "insert" =>
           /\ topics = subs \cup All(waiting.granted)
           /\ script.persistent => raft_subs = subs \cup {Head(waiting.granted)}
      /\ waiting.pc = "topic" => topics = subs \ Before(List, waiting.at) /\ same
      /\ waiting.pc = "remove" => topics = subs \ From(List, waiting.at) /\ same
      /\ waiting.pc = "forget" =>
           /\ topics = subs \ From(List, waiting.at + 1)
           /\ script.persistent => raft_subs \ {now} = subs

\* A future that waits for the router's answer has been routed.
Replies == \A i \in Packets : task[i] = "reply" => \E k \in DOMAIN routed : routed[k] = i

IInv ==
  /\ Shapes /\ Position /\ (errors = 0 => Apart)
  /\ Replies /\ AckedAfterRouted

-------------------------------------------------------------------------------
\* Facts about the operators.

\* A packet of the script has the shape of a packet.
LEMMA PacketFacts ==
  ASSUME Shapes, NEW i \in Packets
  PROVE  /\ i \in Int /\ packet(i) \in PacketSet
         /\ packet(i).filters \in Seq(Filters) /\ packet(i).qos \in 0..2
         /\ packet(i).kind \in {"subscribe", "unsubscribe"} => packet(i).filters # <<>>
<1>1. script \in Scripts /\ script.packets \in Seq(PacketSet)
  BY InboundAssumption, Zenon DEF Shapes
<1>2. i \in Int /\ packet(i) \in PacketSet
  BY <1>1 DEF Packets, packet
<1>3. packet(i).filters \in Seq(Filters) /\ packet(i).qos \in 0..2
  BY <1>2, Zenon DEF PacketSet
<1>4. packet(i).kind \in {"subscribe", "unsubscribe"} => packet(i).filters # <<>>
  BY <1>1, InboundAssumption, Zenon DEF Packets, packet
<1> QED BY <1>2, <1>3, <1>4, Zenon

\* A call that succeeds took effect; one that fails may have.
LEMMA OutcomeFacts ==
  ASSUME NEW before, NEW after, NEW out \in Outcomes(before, after)
  PROVE  /\ out.ok \in BOOLEAN /\ out.value \in {before, after}
         /\ out.ok => out.value = after
<1>1. \/ out = [value |-> after, ok |-> TRUE]
      \/ out = [value |-> after, ok |-> FALSE]
      \/ out = [value |-> before, ok |-> FALSE]
  BY Zenon DEF Outcomes
<1>2. \/ out.value = after /\ out.ok = TRUE
      \/ out.value = after /\ out.ok = FALSE
      \/ out.value = before /\ out.ok = FALSE
  BY <1>1
<1>3. out.ok \in BOOLEAN
  BY <1>2, Zenon
<1>4. out.value \in {before, after}
  BY <1>2, Zenon
<1>5. ASSUME out.ok PROVE out.value = after
  BY <1>2, <1>5, Zenon
<1> QED BY <1>3, <1>4, <1>5, Zenon

\* As long as no error is counted every call succeeded.
LEMMA CountFacts ==
  ASSUME errors \in Nat, NEW ok \in BOOLEAN, Counted(ok)
  PROVE  errors' \in Nat /\ (errors' = 0 => errors = 0 /\ ok)
BY DEF Counted

\* Writing an answer adds that one to what was written.
LEMMA WriteFacts ==
  ASSUME Shapes, NEW a \in Answers, written' = Append(written, a)
  PROVE  /\ written' \in Seq(Answers)
         /\ \A kind, i : Wrote(kind, i)' <=> Wrote(kind, i) \/ a = Answer(kind, i)
<1> DEFINE n == Len(written)
<1>1. written \in Seq(Answers) /\ n \in Nat /\ DOMAIN written = 1..n
  BY DEF Shapes
<1>2. /\ written' \in Seq(Answers) /\ Len(written') = n + 1 /\ written'[n + 1] = a
      /\ \A k \in 1..n : written'[k] = written[k]
  BY <1>1, AppendProperties
<1>3. DOMAIN written' = 1..(n + 1)
  BY <1>2
<1> HIDE DEF n
<1>4. ASSUME NEW b
      PROVE  (\E k \in DOMAIN written' : written'[k] = b) <=> (\E k \in DOMAIN written : written[k] = b) \/ a = b
  <2>1. ASSUME NEW k \in DOMAIN written', written'[k] = b
        PROVE  (\E l \in DOMAIN written : written[l] = b) \/ a = b
    <3>1. CASE k = n + 1  BY <1>2, <2>1, <3>1, Zenon
    <3>2. CASE k \in 1..n  BY <1>1, <1>2, <2>1, <3>2, Zenon
    <3> QED BY <1>1, <1>3, <3>1, <3>2
  <2>2. ASSUME NEW k \in DOMAIN written, written[k] = b
        PROVE  \E l \in DOMAIN written' : written'[l] = b
    <3>1. k \in DOMAIN written' /\ written'[k] = b
      BY <1>1, <1>2, <1>3, <2>2
    <3> QED BY <3>1, Zenon
  <2>3. ASSUME a = b PROVE \E l \in DOMAIN written' : written'[l] = b
    <3>1. n + 1 \in DOMAIN written' /\ written'[n + 1] = b
      BY <1>1, <1>2, <1>3, <2>3
    <3> QED BY <3>1, Zenon
  <2> QED BY <2>1, <2>2, <2>3, Zenon
<1>5. ASSUME NEW kind, NEW i PROVE Wrote(kind, i)' <=> Wrote(kind, i) \/ a = Answer(kind, i)
  BY <1>4, Zenon DEF Wrote
<1> QED BY <1>2, <1>5, Zenon

\* Routing a message adds that one to what was routed.
LEMMA RouteFacts ==
  ASSUME Shapes, NEW j \in Int, routed' = Append(routed, j)
  PROVE  /\ routed' \in Seq(Int)
         /\ \E k \in DOMAIN routed' : routed'[k] = j
         /\ \A i : (\E k \in DOMAIN routed : routed[k] = i) => \E k \in DOMAIN routed' : routed'[k] = i
<1> DEFINE n == Len(routed)
<1>1. routed \in Seq(Int) /\ n \in Nat /\ DOMAIN routed = 1..n
  BY DEF Shapes
<1>2. /\ routed' \in Seq(Int) /\ Len(routed') = n + 1 /\ routed'[n + 1] = j
      /\ \A k \in 1..n : routed'[k] = routed[k]
  BY <1>1, AppendProperties
<1>3. DOMAIN routed' = 1..(n + 1)
  BY <1>2
<1> HIDE DEF n
<1>4. n + 1 \in DOMAIN routed'
  BY <1>1, <1>3
<1>5. ASSUME NEW k \in DOMAIN routed PROVE k \in DOMAIN routed' /\ routed'[k] = routed[k]
  BY <1>1, <1>2, <1>3
<1> QED BY <1>2, <1>4, <1>5, Zenon

-------------------------------------------------------------------------------
\* All that the acknowledgements need to know of a step.

\* No acknowledgement is written and no future starts to wait for the router's answer.
Calm ==
  /\ script' = script /\ refused \subseteq refused' /\ routed' = routed
  /\ written' = written \/ \E a \in Answers : a.kind \in Others /\ written' = Append(written, a)
  /\ task' \in [Packets -> Pcs] /\ \A i \in Packets : task'[i] = "reply" => task[i] = "reply"

\* PUBLISH i is acknowledged.
Acked(i) ==
  /\ script' = script /\ routed' = routed
  /\ \E kind \in Acks : /\ written' = Append(written, Answer(kind, i))
                        /\ kind = "pubrec" => packet(i).qos = 2
  /\ task' = [task EXCEPT ![i] = "done"]
  /\ \/ refused' = refused \cup {i}
     \/ refused' = refused /\ task[i] = "reply"

\* PUBLISH i is taken by the router.
Taken(i) ==
  /\ script' = script /\ refused' = refused /\ written' = written
  /\ routed' = Append(routed, i) /\ task' = [task EXCEPT ![i] = "reply"]

\* Taking the next packet acknowledges nothing.
LEMMA TakeCalm ==
  ASSUME Shapes, Handle
  PROVE  Calm
<1>1. ASSUME NEW i, Take(i) PROVE UNCHANGED <<script, refused, routed>>
  BY <1>1, Zenon DEF Take
<1>2. CASE start_outbound_publish_delivery
  BY <1>1, <1>2, Zenon DEF start_outbound_publish_delivery, Wait, Calm, Shapes
<1>3. ASSUME NEW i \in Packets,
             handle_subscribe(i) \/ handle_unsubscribe(i) \/ handle_pubrel(i)
      PROVE  Calm
  BY <1>1, <1>3, Zenon DEF handle_subscribe, handle_unsubscribe, handle_pubrel, TakePacket, Wait, Calm, Shapes
<1>4. ASSUME NEW i \in Packets, handle_pingreq(i) PROVE Calm
  <2>1. Answer("pingresp", i) \in Answers /\ Answer("pingresp", i).kind \in Others
    BY PacketFacts, Zenon DEF Answer, Answers, Others
  <2> QED BY <1>1, <1>4, <2>1, Zenon DEF handle_pingreq, TakePacket, Calm, Shapes
<1>5. ASSUME NEW i \in Packets, handle_publish(i) PROVE Calm
  BY <1>1, <1>5, Zenon DEF handle_publish, TakePacket, Calm, Shapes, Pcs
<1> QED BY <1>2, <1>3, <1>4, <1>5, Zenon DEF Handle

\* The steps that the reader waits for acknowledge no publish.
LEMMA WaitCalm ==
  ASSUME Shapes, Position, WaitStep
  PROVE  Calm
<1> DEFINE Written == \/ written' = written
                      \/ \E a \in Answers : a.kind \in Others /\ written' = Append(written, a)
<1>0. ASSUME UNCHANGED <<script, task, routed, refused>>, Written PROVE Calm
  BY <1>0, Zenon DEF Calm, Shapes
<1>a. ASSUME NEW kind \in Others, NEW i \in Int, written' = Append(written, Answer(kind, i)) PROVE Written
  <2>1. Answer(kind, i) \in Answers /\ Answer(kind, i).kind \in Others
    BY <1>a, Zenon DEF Answer, Answers
  <2> QED BY <1>a, <2>1, Zenon
<1>b. waiting.pkt \in Int /\ retained \in Int
  BY Zenon DEF Shapes, Waits
<1> HIDE DEF Written
<1>1. CASE SubscribeReads \/ SubscribeRefused \/ SubscribePersists \/ SubscribeInserts \/ UnsubscribeTopic
           \/ UnsubscribeRemoves
  <2>1. UNCHANGED <<script, task, routed, refused, written>>
    BY <1>1, Zenon DEF SubscribeReads, SubscribeRefused, SubscribePersists, SubscribeInserts, UnsubscribeTopic,
                UnsubscribeRemoves, filters, tables, spawned
  <2> QED BY <1>0, <2>1, Zenon DEF Written
<1>2. CASE SubscribeFilter
  <2>1. UNCHANGED <<script, task, routed, refused>>
    BY <1>2, Zenon DEF SubscribeFilter
  <2>2. written' = written \/ written' = Append(written, Answer("retained", retained))
    BY <1>2, Zenon DEF SubscribeFilter
  <2> QED BY <1>0, <1>a, <1>b, <2>1, <2>2, Zenon DEF Written, Others
<1>3. CASE SubscribeAnswers
  <2>1. UNCHANGED <<script, task, routed, refused>> /\ written' = Append(written, Answer("suback", waiting.pkt))
    BY <1>3, Zenon DEF SubscribeAnswers
  <2> QED BY <1>0, <1>a, <1>b, <2>1, Zenon DEF Others
<1>4. CASE UnsubscribeForgets
  <2>1. /\ UNCHANGED <<script, task, routed, refused>>
        /\ written' = written \/ written' = Append(written, Answer("unsuback", waiting.pkt))
    BY <1>4, Zenon DEF UnsubscribeForgets
  <2> QED BY <1>0, <1>a, <1>b, <2>1, Zenon DEF Written, Others
<1>5. CASE PubrelReleases
  <2>1. UNCHANGED <<script, task, routed, refused>> /\ written' = Append(written, Answer("pubcomp", waiting.pkt))
    BY <1>5, Zenon DEF PubrelReleases
  <2> QED BY <1>0, <1>a, <1>b, <2>1, Zenon DEF Others
<1>6. CASE Delivers
  <2>1. UNCHANGED <<script, task, routed, refused>> /\ written' = Append(written, Answer("publish", 0))
    BY <1>6, Zenon DEF Delivers
  <2> QED BY <1>0, <1>a, <2>1 DEF Others
<1> QED BY <1>1, <1>2, <1>3, <1>4, <1>5, <1>6, Zenon DEF WaitStep

\* Sending, delivering and stuttering acknowledge nothing.
LEMMA SpawnedCalm ==
  ASSUME Shapes, Send \/ Spawned \/ UNCHANGED vars
  PROVE  Calm
<1>1. CASE Send \/ CleanupLocal \/ CleanupRaft \/ UNCHANGED vars
  BY <1>1, Zenon DEF Send, CleanupLocal, CleanupRaft, vars, Calm, Shapes
<1>2. CASE SpawnedDelivers
  <2>1. Answer("publish", 0) \in Answers /\ Answer("publish", 0).kind \in Others
    BY DEF Answer, Answers, Others
  <2> QED BY <1>2, <2>1, Zenon DEF SpawnedDelivers, Calm, Shapes
<1> QED BY <1>1, <1>2, Zenon DEF Spawned

\* A future that ends without an acknowledgement, or with one.
LEMMA DoneMoves ==
  ASSUME Shapes, NEW i \in Packets, NEW ack, Done(i, ack), routed' = routed,
         refused' = refused \/ refused' = refused \cup {i},
         ack => refused' = refused \cup {i} \/ task[i] = "reply"
  PROVE  Calm \/ Acked(i)
<1>1. script' = script /\ task' = [task EXCEPT ![i] = "done"]
  BY Zenon DEF Done
<1>2. CASE ack /\ packet(i).qos > 0
  <2>1. packet(i).qos \in {1, 2}
    BY <1>2, PacketFacts
  <2>2. \E kind \in Acks : /\ written' = Append(written, Answer(kind, i))
                           /\ kind = "pubrec" => packet(i).qos = 2
    BY <1>2, <2>1, Zenon DEF Done, Acks
  <2> QED BY <1>1, <1>2, <2>2, Zenon DEF Acked
<1>3. CASE ~(ack /\ packet(i).qos > 0)
  <2>1. written' = written
    BY <1>3, Zenon DEF Done
  <2> QED BY <1>1, <2>1, Zenon DEF Calm, Shapes, Pcs
<1> QED BY <1>2, <1>3, Zenon

\* A task that goes on acknowledges nothing before it is at its reply.
LEMMA GoesCalm ==
  ASSUME Shapes, NEW i \in Packets, NEW pc \in Pcs \ {"reply"}, Goes(i, pc), routed' = routed
  PROVE  Calm
BY Zenon DEF Goes, Calm, Shapes

\* A step of a publish task is calm, writes its acknowledgement, or routes its message.
LEMMA PublishMoves ==
  ASSUME Shapes, NEW i \in Packets,
         \/ Authorize(i) \/ Expired(i) \/ Policy(i) \/ Put(i) \/ Register(i) \/ Retain(i) \/ Route(i) \/ Reply(i)
  PROVE  Calm \/ Acked(i) \/ Taken(i)
<1>0. AfterRegister(i) \in Pcs \ {"reply"} /\ AfterPut(i) \in Pcs \ {"reply"}
  BY Zenon DEF AfterRegister, AfterPut, Pcs
<1>1. CASE Authorize(i)
  BY <1>1, GoesCalm, DoneMoves, Zenon DEF Authorize, Pcs
<1>2. CASE Expired(i)
  BY <1>2, DoneMoves, Zenon DEF Expired
<1>3. CASE Policy(i)
  BY <1>3, GoesCalm, DoneMoves, Zenon DEF Policy, Pcs
<1>4. CASE Put(i)
  BY <1>0, <1>4, GoesCalm, DoneMoves, Zenon DEF Put
<1>5. CASE Register(i)
  BY <1>0, <1>5, GoesCalm, DoneMoves, Zenon DEF Register
<1>6. CASE Retain(i)
  BY <1>6, GoesCalm, Zenon DEF Retain, Pcs
<1>7. CASE Route(i)
  <2>1. CASE routed' = routed /\ task' = [task EXCEPT ![i] = "failed"]
    BY <1>7, <2>1, Zenon DEF Route, Calm, Shapes, Pcs
  <2>2. CASE routed' = Append(routed, i) /\ task' = [task EXCEPT ![i] = "reply"]
    BY <1>7, <2>2, Zenon DEF Route, Taken
  <2> QED BY <1>7, <2>1, <2>2, Zenon DEF Route
<1>8. CASE Reply(i)
  BY <1>8, DoneMoves, Zenon DEF Reply
<1> QED BY <1>1, <1>2, <1>3, <1>4, <1>5, <1>6, <1>7, <1>8, Zenon

\* Every step is calm, acknowledges one publish or routes it.
LEMMA AckMoves ==
  ASSUME Shapes, Position, [Next]_vars
  PROVE  Calm \/ \E i \in Packets : Acked(i) \/ Taken(i)
BY TakeCalm, WaitCalm, SpawnedCalm, PublishMoves, Zenon DEF Next, PublishStep

-------------------------------------------------------------------------------
\* All that the subscriptions need to know of a step outside ctx.wait.

Elsewhere == UNCHANGED <<script, waiting, subs, raft_subs, topics>>
Fails == errors' \in Nat /\ (errors' = 0 => errors = 0)

\* Into ctx.wait.
Enters ==
  /\ UNCHANGED <<script, subs, raft_subs, topics, errors, retained>> /\ waiting.pc = "idle"
  /\ \/ \E i \in Packets, pc \in {"read", "topic", "release"} :
          /\ waiting' = [pkt |-> i, pc |-> pc, at |-> 1, existing |-> {}, granted |-> <<>>]
          /\ pc # "release" => packet(i).kind \in {"subscribe", "unsubscribe"}
     \/ waiting' = [pkt |-> 0, pc |-> "deliver", at |-> 1, existing |-> {}, granted |-> <<>>]

\* Taking a packet begins a subscribe or an unsubscribe, or concerns neither.
LEMMA HandleMoves ==
  ASSUME Shapes, Handle
  PROVE  retained' = retained /\ (Enters \/ (Elsewhere /\ errors' = errors))
<1>1. ASSUME NEW i, Take(i)
      PROVE  UNCHANGED <<script, subs, raft_subs, topics, errors, retained>> /\ waiting.pc = "idle"
  BY <1>1, Zenon DEF Take, filters, Idle
<1>2. CASE start_outbound_publish_delivery
  BY <1>1, <1>2, Zenon DEF start_outbound_publish_delivery, Wait, Enters, Elsewhere
<1>3. ASSUME NEW i \in Packets, handle_publish(i) \/ handle_pingreq(i)
      PROVE  retained' = retained /\ Elsewhere /\ errors' = errors
  BY <1>1, <1>3, Zenon DEF handle_publish, handle_pingreq, TakePacket, Elsewhere
<1>4. ASSUME NEW i \in Packets, handle_subscribe(i) \/ handle_unsubscribe(i) \/ handle_pubrel(i)
      PROVE  retained' = retained /\ Enters
  <2>1. retained' = retained
    BY <1>1, <1>4, Zenon DEF handle_subscribe, handle_unsubscribe, handle_pubrel, TakePacket
  <2> QED BY <1>1, <1>4, <2>1, Zenon DEF handle_subscribe, handle_unsubscribe, handle_pubrel, TakePacket, Wait, Enters
<1> QED BY <1>2, <1>3, <1>4, Zenon DEF Handle

\* Publish tasks leave the subscriptions alone.
LEMMA PublishElsewhere ==
  ASSUME Shapes, NEW i \in Packets,
         \/ Authorize(i) \/ Expired(i) \/ Policy(i) \/ Put(i) \/ Register(i) \/ Retain(i) \/ Route(i) \/ Reply(i)
  PROVE  Elsewhere /\ Fails /\ retained' \in Int
<1>0. errors \in Nat /\ retained \in Int /\ i \in Int
  BY PacketFacts, Zenon DEF Shapes
<1>1. Elsewhere
  <2>1. ASSUME NEW pc, Goes(i, pc) PROVE Elsewhere  BY <2>1, Zenon DEF Goes, filters, Elsewhere
  <2>2. ASSUME NEW ack, Done(i, ack) PROVE Elsewhere  BY <2>2, Zenon DEF Done, filters, Elsewhere
  <2>3. CASE Route(i)  BY <2>3, Zenon DEF Route, filters, Elsewhere
  <2> QED BY <2>1, <2>2, <2>3, Zenon DEF Authorize, Expired, Policy, Put, Register, Retain, Reply
<1>2. ASSUME errors' = errors \/ (\E ok \in BOOLEAN : Counted(ok)) PROVE Fails
  BY <1>0, <1>2, CountFacts, Zenon DEF Fails
<1>3. CASE Authorize(i) \/ Policy(i) \/ Reply(i)
  BY <1>0, <1>1, <1>2, <1>3, Zenon DEF Authorize, Policy, Reply
<1>4. CASE Put(i) \/ Route(i)
  BY <1>0, <1>1, <1>2, <1>4, Zenon DEF Put, Route
<1>5. CASE Expired(i)
  <2>1. PICK out \in Outcomes(retained, IF packet(i).retain = "clear" THEN 0 ELSE retained) :
               retained' = out.value /\ Counted(out.ok)
    BY <1>5, Zenon DEF Expired
  <2> QED BY <1>0, <1>1, <1>2, <2>1, OutcomeFacts
<1>6. CASE Register(i)
  <2>1. PICK out \in Outcomes(raft, register_with_rx_packet(raft, packet(i).id, packet(i).qos, RxKey)) :
               Counted(out.ok)
    BY <1>6, Zenon DEF Register
  <2>2. retained' = retained
    BY <1>6, Zenon DEF Register
  <2> QED BY <1>0, <1>1, <1>2, <2>1, <2>2, OutcomeFacts
<1>7. CASE Retain(i)
  <2>1. PICK out \in Outcomes(retained, RetainedBy(i)) : retained' = out.value /\ Counted(out.ok)
    BY <1>7, Zenon DEF Retain
  <2> QED BY <1>0, <1>1, <1>2, <2>1, OutcomeFacts DEF RetainedBy
<1> QED BY <1>3, <1>4, <1>5, <1>6, <1>7, Zenon

\* The other tasks leave the subscriptions alone.
LEMMA SpawnedElsewhere ==
  ASSUME Shapes, Send \/ Spawned \/ UNCHANGED vars
  PROVE  Elsewhere /\ Fails /\ retained' = retained
<1>1. CASE Send \/ SpawnedDelivers \/ CleanupLocal \/ UNCHANGED vars
  BY <1>1, Zenon DEF Send, SpawnedDelivers, CleanupLocal, vars, filters, Elsewhere, Fails, Shapes
<1>2. CASE CleanupRaft
  <2>1. PICK out \in Outcomes(raft, clean_finished_items(raft)) : Counted(out.ok)
    BY <1>2, Zenon DEF CleanupRaft
  <2>2. Fails
    BY <2>1, OutcomeFacts, CountFacts DEF Fails, Shapes
  <2> QED BY <1>2, <2>2, Zenon DEF CleanupRaft, filters, Elsewhere
<1> QED BY <1>1, <1>2, Zenon DEF Spawned

-------------------------------------------------------------------------------
\* Lists of filters.

\* The filters of a packet before a place and from it on.
LEMMA ListFacts ==
  ASSUME NEW f \in Seq(Filters), NEW n \in 1..Len(f)
  PROVE  /\ f[n] \in Filters
         /\ Before(f, n + 1) = Before(f, n) \cup {f[n]} /\ Before(f, 1) = {}
         /\ From(f, n) = From(f, n + 1) \cup {f[n]}
         /\ ~(n < Len(f)) => From(f, n + 1) = {} /\ Before(f, n + 1) = From(f, 1)
<1>1. Len(f) \in Nat /\ n \in Nat
  OBVIOUS
<1>2. 1..((n + 1) - 1) = (1..(n - 1)) \cup {n} /\ 1..(1 - 1) = {}
  BY <1>1
<1>3. n..Len(f) = ((n + 1)..Len(f)) \cup {n}
  BY <1>1
<1>4. ~(n < Len(f)) => (n + 1)..Len(f) = {} /\ 1..((n + 1) - 1) = 1..Len(f)
  BY <1>1
<1>5. f[n] \in Filters
  OBVIOUS
<1>6. Before(f, n + 1) = Before(f, n) \cup {f[n]} /\ Before(f, 1) = {}
  BY <1>2, Zenon DEF Before
<1>7. From(f, n) = From(f, n + 1) \cup {f[n]}
  BY <1>3, Zenon DEF From
<1>8. ~(n < Len(f)) => From(f, n + 1) = {} /\ Before(f, n + 1) = From(f, 1)
  BY <1>4, Zenon DEF From, Before
<1> QED BY <1>5, <1>6, <1>7, <1>8, Zenon

\* The filters in a list that grows or shrinks by one.
LEMMA AllFacts ==
  /\ All(<<>>) = {}
  /\ \A g \in Seq(Filters), x \in Filters : All(Append(g, x)) = All(g) \cup {x}
  /\ \A g \in Seq(Filters) : g # <<>> =>
       /\ Head(g) \in Filters /\ Tail(g) \in Seq(Filters)
       /\ All(g) = {Head(g)} \cup All(Tail(g))
<1>1. All(<<>>) = {}
  BY DEF All
<1>2. ASSUME NEW g \in Seq(Filters), NEW x \in Filters PROVE All(Append(g, x)) = All(g) \cup {x}
  <2>1. /\ DOMAIN g = 1..Len(g) /\ Len(g) \in Nat
        /\ DOMAIN Append(g, x) = 1..(Len(g) + 1) /\ Append(g, x)[Len(g) + 1] = x
        /\ \A k \in 1..Len(g) : Append(g, x)[k] = g[k]
    BY AppendProperties
  <2>2. 1..(Len(g) + 1) = (1..Len(g)) \cup {Len(g) + 1}
    BY <2>1
  <2> QED BY <2>1, <2>2 DEF All
<1>3. ASSUME NEW g \in Seq(Filters), g # <<>>
      PROVE  Head(g) \in Filters /\ Tail(g) \in Seq(Filters) /\ All(g) = {Head(g)} \cup All(Tail(g))
  <2> DEFINE n == Len(g)
  <2> DEFINE t == Tail(g)
  <2>1. /\ n \in Nat \ {0} /\ DOMAIN g = 1..n /\ Head(g) = g[1] /\ g[1] \in Filters
        /\ t \in Seq(Filters) /\ DOMAIN t = 1..(n - 1) /\ \A k \in 1..(n - 1) : t[k] = g[k + 1]
    BY <1>3, HeadTailProperties, EmptySeq
  <2> HIDE DEF n, t
  <2>2. ASSUME NEW k \in 1..n, k # 1 PROVE k - 1 \in 1..(n - 1) /\ t[k - 1] = g[k]
    BY <2>1, <2>2
  <2>3. ASSUME NEW k \in 1..(n - 1) PROVE k + 1 \in 1..n /\ t[k] = g[k + 1]
    BY <2>1
  <2>4. All(g) \subseteq {Head(g)} \cup All(t)
    <3>1. ASSUME NEW k \in 1..n PROVE g[k] = Head(g) \/ g[k] \in All(t)
      <4>1. CASE k = 1  BY <2>1, <4>1, Zenon
      <4>2. CASE k # 1
        <5>1. k - 1 \in DOMAIN t /\ t[k - 1] = g[k]
          BY <2>1, <2>2, <4>2, Zenon
        <5> QED BY <5>1, Zenon DEF All
      <4> QED BY <4>1, <4>2, Zenon
    <3> QED BY <2>1, <3>1, ZenonT(30) DEF All
  <2>5. {Head(g)} \cup All(t) \subseteq All(g)
    BY <2>1, <2>3, SMTT(30) DEF All
  <2>6. Head(g) \in Filters /\ t \in Seq(Filters) /\ All(g) = {Head(g)} \cup All(t)
    BY <2>1, <2>4, <2>5, Zenon
  <2> QED BY <2>6, Zenon DEF t
<1> QED BY <1>1, <1>2, <1>3, Zenon

-------------------------------------------------------------------------------
\* What a step inside ctx.wait must keep.
Kept == /\ waiting' \in Waits /\ subs' \subseteq Filters /\ Fails
        /\ Position' /\ (errors' = 0 => Apart')

\* Where the reader is in the filter list it works through.
LEMMA WaitFacts ==
  ASSUME Shapes, Position
  PROVE  /\ waiting \in Waits /\ waiting.granted \in Seq(Filters) /\ subs \subseteq Filters /\ errors \in Nat
         /\ waiting.pc \in {"read", "filters", "topic", "remove", "forget"} =>
              /\ List \in Seq(Filters) /\ waiting.at \in 1..Len(List)
              /\ now = List[waiting.at] /\ now \in Filters /\ (more <=> waiting.at < Len(List))
<1>1. waiting \in Waits /\ waiting.granted \in Seq(Filters) /\ subs \subseteq Filters /\ errors \in Nat
  BY Zenon DEF Shapes, Waits
<1>2. ASSUME waiting.pc \in {"read", "filters", "topic", "remove", "forget"}
      PROVE  List \in Seq(Filters) /\ waiting.at \in 1..Len(List)
  BY <1>2, PacketFacts, Zenon DEF Position, List
<1> QED BY <1>1, <1>2, ListFacts, Zenon DEF List, now, more

\* Every handler but the last is done: both sets agree again.
LEMMA EndKept ==
  ASSUME Shapes, waiting' = NotWaiting, script' = script, subs' \subseteq Filters, Fails,
         errors' = 0 => topics' = subs' /\ (script.persistent => raft_subs' = subs')
  PROVE  Kept
<1>1. NotWaiting \in Waits /\ NotWaiting.pc = "idle"
  BY DEF NotWaiting, Waits, WaitPcs
<1>2. Position'
  BY <1>1, Zenon DEF Position
<1>3. errors' = 0 => Apart'
  BY <1>1, Zenon DEF Apart
<1> QED BY <1>1, <1>2, <1>3, Zenon DEF Kept

\* SUBACK has been written, or a filter Raft refused is passed over.
LEMMA RecordingKept ==
  ASSUME Shapes, script' = script, subs' = subs, Fails,
         NEW rest \in Seq(Filters), Recording(rest), waiting \in Waits,
         errors' = 0 => topics' = subs \cup All(rest) /\ (script.persistent => raft_subs' = subs)
  PROVE  Kept
<1>1. CASE rest = <<>>
  <2>1. waiting' = NotWaiting
    BY <1>1, Zenon DEF Recording
  <2> QED BY <1>1, <2>1, EndKept, AllFacts, Zenon DEF Shapes
<1>2. CASE rest # <<>>
  <2>1. waiting' = [waiting EXCEPT !.granted = rest, !.pc = IF script.persistent THEN "persist" ELSE "insert"]
    BY <1>2, Zenon DEF Recording
  <2>2. /\ waiting' \in Waits /\ waiting'.granted = rest
        /\ waiting'.pc = IF script.persistent THEN "persist" ELSE "insert"
    BY <2>1, Zenon DEF Waits, WaitPcs
  <2>3. Position'
    BY <1>2, <2>2, Zenon DEF Position
  <2>4. errors' = 0 => Apart'
    BY <2>2, Zenon DEF Apart
  <2> QED BY <2>2, <2>3, <2>4, Zenon DEF Kept, Shapes
<1> QED BY <1>1, <1>2, Zenon

\* A subscribe keeps the two tables equal but for the filters it has not reached.
LEMMA SubscribeKept ==
  ASSUME Shapes, Position, errors = 0 => Apart,
         SubscribeReads \/ SubscribeRefused \/ SubscribeFilter \/ SubscribeAnswers \/ SubscribePersists
         \/ SubscribeInserts
  PROVE  Kept /\ script' = script /\ retained' = retained
<1>0. script' = script /\ retained' = retained
  BY Zenon DEF SubscribeReads, SubscribeRefused, SubscribeFilter, SubscribeAnswers, SubscribePersists, SubscribeInserts
<1>1. CASE SubscribeReads
  <2>1. /\ waiting.pc = "read" /\ waiting' = [waiting EXCEPT !.pc = "filters", !.existing = subs]
        /\ UNCHANGED <<subs, raft_subs, topics, errors>>
    BY <1>1, Zenon DEF SubscribeReads, Locked, Inside, filters
  <2>2. /\ waiting' \in Waits /\ waiting'.pc = "filters" /\ waiting'.pkt = waiting.pkt
        /\ waiting'.at = waiting.at /\ waiting'.granted = <<>>
    BY <2>1, WaitFacts, Zenon DEF Waits, WaitPcs, Position
  <2>3. Position'
    BY <1>0, <2>1, <2>2, Zenon DEF Position, List, Packets, packet
  <2>4. errors' = 0 => Apart'
    BY <1>0, <2>1, <2>2, AllFacts, Zenon DEF Apart
  <2> QED BY <1>0, <2>1, <2>2, <2>3, <2>4, WaitFacts, Zenon DEF Kept, Fails
<1>2. CASE SubscribeRefused
  <2>1. /\ waiting.pc = "filters" /\ waiting' = [waiting EXCEPT !.pc = "suback"]
        /\ UNCHANGED <<subs, raft_subs, topics, errors>>
    BY <1>2, Zenon DEF SubscribeRefused, Inside, filters
  <2>2. /\ waiting' \in Waits /\ waiting'.pc = "suback" /\ waiting'.granted = waiting.granted
    BY <2>1, WaitFacts, Zenon DEF Waits, WaitPcs
  <2>3. Position'
    BY <2>2, Zenon DEF Position
  <2>4. errors' = 0 => Apart'
    BY <1>0, <2>1, <2>2, Zenon DEF Apart
  <2> QED BY <1>0, <2>1, <2>2, <2>3, <2>4, WaitFacts, Zenon DEF Kept, Fails
<1>3. CASE SubscribeFilter
  <2>1. waiting.pc = "filters" /\ UNCHANGED <<subs, raft_subs>>
    BY <1>3, Zenon DEF SubscribeFilter, Inside
  <2>2. ASSUME NEW g \in Seq(Filters), Fails,
               waiting' = [waiting EXCEPT !.at = @ + 1, !.pc = IF more THEN "filters" ELSE "suback", !.granted = g],
               errors' = 0 => topics' = subs \cup All(g)
        PROVE  Kept
    <3>1. /\ waiting' \in Waits /\ waiting'.pkt = waiting.pkt /\ waiting'.at = waiting.at + 1
          /\ waiting'.granted = g /\ waiting'.pc = IF more THEN "filters" ELSE "suback"
      <4>1. waiting \in Waits /\ waiting.at + 1 \in Int
        BY WaitFacts DEF Waits
      <4>2. PICK pc \in {"filters", "suback"} : pc = IF more THEN "filters" ELSE "suback"
        BY Zenon
      <4>3. waiting' = [waiting EXCEPT !.at = waiting.at + 1, !.pc = pc, !.granted = g]
        BY <2>2, <4>2, Zenon
      <4> QED BY <4>1, <4>2, <4>3, Zenon DEF Waits, WaitPcs
    <3>2. more => waiting.at + 1 \in 1..Len(List) /\ waiting.pkt \in Packets
      BY <2>1, WaitFacts DEF Position
    <3>3. Position'
      BY <1>0, <3>1, <3>2, Zenon DEF Position, List, Packets, packet
    <3>4. errors' = 0 => Apart'
      BY <1>0, <2>1, <2>2, <3>1 DEF Apart, Fails
    <3> QED BY <2>1, <2>2, <3>1, <3>3, <3>4, WaitFacts, Zenon DEF Kept
  <2>3. CASE /\ UNCHANGED <<topics, errors>>
             /\ waiting' = [waiting EXCEPT !.at = @ + 1, !.pc = IF more THEN "filters" ELSE "suback"]
    <3>1. waiting' = [waiting EXCEPT !.at = @ + 1, !.pc = IF more THEN "filters" ELSE "suback",
                                     !.granted = waiting.granted]
      BY <2>3, WaitFacts, Zenon DEF Waits
    <3> QED BY <1>0, <2>1, <2>2, <2>3, <3>1, WaitFacts, Zenon DEF Apart, Fails
  <2>4. ASSUME NEW out \in Outcomes(topics, topics \cup {now}), topics' = out.value, Counted(out.ok),
               waiting' = [waiting EXCEPT !.at = @ + 1, !.pc = IF more THEN "filters" ELSE "suback",
                                          !.granted = IF out.ok THEN Append(@, now) ELSE @]
        PROVE  Kept
    <3>1. out.ok \in BOOLEAN /\ (out.ok => out.value = topics \cup {now})
      BY <2>4, OutcomeFacts, Zenon
    <3>2. errors' \in Nat /\ (errors' = 0 => errors = 0 /\ out.ok)
      BY <2>4, <3>1, CountFacts, WaitFacts, Zenon
    <3> DEFINE g == IF out.ok THEN Append(waiting.granted, now) ELSE waiting.granted
    <3>3. g \in Seq(Filters) /\ (out.ok => All(g) = All(waiting.granted) \cup {now})
      BY <2>1, <3>1, WaitFacts, AllFacts
    <3>4. waiting' = [waiting EXCEPT !.at = @ + 1, !.pc = IF more THEN "filters" ELSE "suback", !.granted = g]
      BY <2>4, Zenon
    <3> HIDE DEF g
    <3>5. errors' = 0 => topics' = subs \cup All(g)
      BY <2>1, <2>4, <3>1, <3>2, <3>3, Zenon DEF Apart
    <3> QED BY <2>2, <3>2, <3>3, <3>4, <3>5, Zenon DEF Fails
  <2> QED BY <1>0, <1>3, <2>3, <2>4, Zenon DEF SubscribeFilter
<1>4. CASE SubscribeAnswers
  <2>1. /\ waiting.pc = "suback" /\ Recording(waiting.granted)
        /\ UNCHANGED <<subs, raft_subs, topics, errors>>
    BY <1>4, Zenon DEF SubscribeAnswers, Inside, filters
  <2> QED BY <1>0, <2>1, RecordingKept, WaitFacts, Zenon DEF Apart, Fails
<1>5. CASE SubscribePersists
  <2>1. waiting.pc = "persist" /\ waiting.granted # <<>> /\ UNCHANGED <<subs, topics>>
    BY <1>5, Zenon DEF SubscribePersists, Inside, Position
  <2>2. PICK out \in Outcomes(raft_subs, raft_subs \cup {Head(waiting.granted)}) :
               /\ raft_subs' = out.value /\ Counted(out.ok)
               /\ IF out.ok THEN waiting' = [waiting EXCEPT !.pc = "insert"]
                            ELSE Recording(Tail(waiting.granted))
    BY <1>5, Zenon DEF SubscribePersists
  <2>3. out.ok \in BOOLEAN /\ (out.ok => out.value = raft_subs \cup {Head(waiting.granted)})
    BY OutcomeFacts, Zenon
  <2>4. errors' \in Nat /\ (errors' = 0 => errors = 0 /\ out.ok)
    BY <2>2, <2>3, CountFacts, WaitFacts, Zenon
  <2>5. CASE out.ok
    <3>1. /\ waiting' \in Waits /\ waiting'.pc = "insert" /\ waiting'.granted = waiting.granted
      BY <2>2, <2>5, WaitFacts, Zenon DEF Waits, WaitPcs
    <3>2. Position'
      BY <2>1, <3>1, Zenon DEF Position
    <3>3. errors' = 0 => Apart'
      BY <1>0, <2>1, <2>2, <2>3, <2>4, <2>5, <3>1, Zenon DEF Apart
    <3> QED BY <1>0, <2>1, <2>4, <3>1, <3>2, <3>3, WaitFacts, Zenon DEF Kept, Fails
  <2>6. CASE ~out.ok
    <3>1. Tail(waiting.granted) \in Seq(Filters) /\ errors' # 0
      BY <2>1, <2>4, <2>6, WaitFacts, AllFacts, Zenon
    <3> QED BY <1>0, <2>1, <2>2, <2>4, <2>6, <3>1, RecordingKept, WaitFacts, Zenon DEF Fails
  <2> QED BY <1>0, <2>5, <2>6, Zenon
<1>6. CASE SubscribeInserts
  <2> DEFINE rest == Tail(waiting.granted)
  <2>1. /\ waiting.pc = "insert" /\ waiting.granted # <<>> /\ UNCHANGED <<raft_subs, topics, errors>>
        /\ subs' = subs \cup {Head(waiting.granted)}
        /\ waiting' = IF rest = <<>> THEN NotWaiting
                      ELSE [waiting EXCEPT !.granted = rest, !.pc = IF script.persistent THEN "persist" ELSE "insert"]
    BY <1>6, Zenon DEF SubscribeInserts, Inside, Position
  <2>2. /\ rest \in Seq(Filters) /\ Head(waiting.granted) \in Filters
        /\ All(waiting.granted) = {Head(waiting.granted)} \cup All(rest)
    BY <2>1, WaitFacts, AllFacts, Zenon
  <2>3. Fails /\ subs' \subseteq Filters
    BY <2>1, <2>2, WaitFacts, Zenon DEF Fails
  <2>4. errors' = 0 => topics' = subs' \cup All(rest) /\ (script.persistent => raft_subs' = subs')
    BY <2>1, <2>2, Zenon DEF Apart
  <2> HIDE DEF rest
  <2>5. CASE rest = <<>>
    BY <1>0, <2>1, <2>3, <2>4, <2>5, EndKept, AllFacts, Zenon
  <2>6. CASE rest # <<>>
    <3>1. /\ waiting' \in Waits /\ waiting'.granted = rest
          /\ waiting'.pc = IF script.persistent THEN "persist" ELSE "insert"
      BY <2>1, <2>2, <2>6, WaitFacts, Zenon DEF Waits, WaitPcs
    <3>2. Position'
      BY <2>6, <3>1, Zenon DEF Position
    <3>3. errors' = 0 => Apart'
      BY <1>0, <2>4, <3>1, Zenon DEF Apart
    <3> QED BY <1>0, <2>3, <3>1, <3>2, <3>3, Zenon DEF Kept
  <2> QED BY <1>0, <2>5, <2>6, Zenon
<1> QED BY <1>1, <1>2, <1>3, <1>4, <1>5, <1>6, Zenon

\* So does an unsubscribe.
LEMMA UnsubscribeKept ==
  ASSUME Shapes, Position, errors = 0 => Apart,
         UnsubscribeTopic \/ UnsubscribeRemoves \/ UnsubscribeForgets
  PROVE  Kept /\ script' = script /\ retained' = retained
<1>0. script' = script /\ retained' = retained
  BY Zenon DEF UnsubscribeTopic, UnsubscribeRemoves, UnsubscribeForgets
<1> DEFINE n == waiting.at
<1>a. waiting \in Waits /\ n \in Int
  BY WaitFacts, Zenon DEF Waits
<1>b. ASSUME NEW at \in Int, NEW pc \in {"topic", "remove", "forget"},
             waiting.pc \in {"topic", "remove", "forget"}, at \in 1..Len(List),
             waiting' = [waiting EXCEPT !.at = at, !.pc = pc]
      PROVE  /\ waiting' \in Waits /\ waiting'.at = at /\ waiting'.pc = pc /\ List' = List
             /\ waiting'.pkt = waiting.pkt /\ Position'
  <2>1. waiting' \in Waits /\ waiting'.at = at /\ waiting'.pc = pc /\ waiting'.pkt = waiting.pkt
    BY <1>a, <1>b, Zenon DEF Waits, WaitPcs
  <2>2. List' = List /\ Packets' = Packets
    BY <1>0, <2>1, Zenon DEF List, packet, Packets
  <2>3. Position'
    BY <1>b, <2>1, <2>2 DEF Position
  <2> QED BY <2>1, <2>2, <2>3, Zenon
<1>1. CASE UnsubscribeTopic
  <2>1. waiting.pc = "topic" /\ UNCHANGED <<subs, raft_subs>>
    BY <1>1, Zenon DEF UnsubscribeTopic, Inside
  <2>2. PICK out \in Outcomes(topics, topics \ {now}) : topics' = out.value /\ Counted(out.ok)
    BY <1>1, Zenon DEF UnsubscribeTopic
  <2>3. Fails /\ (errors' = 0 => errors = 0 /\ topics' = topics \ {now})
    BY <2>2, OutcomeFacts, CountFacts, WaitFacts DEF Fails
  <2>4. List \in Seq(Filters) /\ n \in 1..Len(List) /\ now = List[n] /\ (more <=> n < Len(List))
    BY <2>1, WaitFacts, Zenon
  <2>5. errors' = 0 => topics' = subs \ Before(List, n + 1) /\ (script.persistent => raft_subs = subs)
    BY <2>1, <2>3, <2>4, ListFacts DEF Apart
  <2>6. CASE more
    <3>1. waiting' = [waiting EXCEPT !.at = n + 1, !.pc = "topic"]
      BY <1>1, <1>a, <2>1, <2>6, Zenon DEF UnsubscribeTopic, Waits
    <3>2. n + 1 \in Int /\ n + 1 \in 1..Len(List)
      BY <2>4, <2>6
    <3>3. waiting' \in Waits /\ waiting'.at = n + 1 /\ waiting'.pc = "topic" /\ List' = List /\ Position'
      BY <1>b, <2>1, <3>1, <3>2, Zenon
    <3>4. errors' = 0 => Apart'
      BY <1>0, <2>1, <2>5, <3>3, Zenon DEF Apart
    <3> QED BY <1>0, <2>1, <2>3, <3>3, <3>4, WaitFacts, Zenon DEF Kept
  <2>7. CASE ~more
    <3>1. waiting' = [waiting EXCEPT !.at = 1, !.pc = "remove"]
      BY <1>1, <2>7, Zenon DEF UnsubscribeTopic
    <3>2. 1 \in Int /\ 1 \in 1..Len(List)
      BY <2>4
    <3>3. waiting' \in Waits /\ waiting'.at = 1 /\ waiting'.pc = "remove" /\ List' = List /\ Position'
      BY <1>b, <2>1, <3>1, <3>2, Zenon
    <3>4. Before(List, n + 1) = From(List, 1)
      BY <2>4, <2>7, ListFacts, Zenon
    <3>5. errors' = 0 => Apart'
      BY <1>0, <2>1, <2>5, <3>3, <3>4, Zenon DEF Apart
    <3> QED BY <1>0, <2>1, <2>3, <3>3, <3>5, WaitFacts, Zenon DEF Kept
  <2> QED BY <1>0, <2>6, <2>7, Zenon
<1>2. CASE UnsubscribeRemoves
  <2>1. /\ waiting.pc = "remove" /\ UNCHANGED <<raft_subs, topics, errors>> /\ subs' = subs \ {now}
        /\ waiting' = [waiting EXCEPT !.pc = "forget"]
    BY <1>2, Zenon DEF UnsubscribeRemoves, Locked, Inside
  <2>2. List \in Seq(Filters) /\ n \in 1..Len(List) /\ now = List[n]
    BY <2>1, WaitFacts, Zenon
  <2>3. waiting' = [waiting EXCEPT !.at = n, !.pc = "forget"]
    BY <1>a, <2>1, Zenon DEF Waits
  <2>4. /\ waiting' \in Waits /\ waiting'.at = n /\ waiting'.pc = "forget" /\ List' = List /\ Position'
        /\ waiting'.pkt = waiting.pkt
    BY <1>a, <1>b, <2>1, <2>2, <2>3, Zenon
  <2>5. From(List, n) = From(List, n + 1) \cup {now}
    BY <2>2, ListFacts, Zenon
  <2>6. now' = now
    BY <1>0, <2>4, Zenon DEF now, packet
  <2>7. errors' = 0 => Apart'
    BY <1>0, <2>1, <2>4, <2>5, <2>6, Zenon DEF Apart
  <2> QED BY <1>0, <2>1, <2>4, <2>7, WaitFacts, Zenon DEF Kept, Fails
<1>3. CASE UnsubscribeForgets
  <2>1. waiting.pc = "forget" /\ UNCHANGED <<subs, topics>>
    BY <1>3, Zenon DEF UnsubscribeForgets, Inside
  <2>2. List \in Seq(Filters) /\ n \in 1..Len(List) /\ (more <=> n < Len(List))
    BY <2>1, WaitFacts, Zenon
  <2>3. Fails /\ (errors' = 0 => errors = 0 /\ (script.persistent => raft_subs' = raft_subs \ {now}))
    <3>1. CASE script.persistent
      <4>1. PICK out \in Outcomes(raft_subs, raft_subs \ {now}) : raft_subs' = out.value /\ Counted(out.ok)
        BY <1>3, <3>1, Zenon DEF UnsubscribeForgets
      <4> QED BY <4>1, OutcomeFacts, CountFacts, WaitFacts DEF Fails
    <3>2. CASE ~script.persistent
      BY <1>3, <3>2, WaitFacts, Zenon DEF UnsubscribeForgets, Fails
    <3> QED BY <3>1, <3>2, Zenon
  <2>4. errors' = 0 => topics' = subs \ From(List, n + 1) /\ (script.persistent => raft_subs' = subs)
    BY <2>1, <2>3, Zenon DEF Apart
  <2>5. CASE more
    <3>1. waiting' = [waiting EXCEPT !.at = n + 1, !.pc = "remove"]
      BY <1>3, <2>5, Zenon DEF UnsubscribeForgets
    <3>2. n + 1 \in Int /\ n + 1 \in 1..Len(List)
      BY <2>2, <2>5
    <3>3. waiting' \in Waits /\ waiting'.at = n + 1 /\ waiting'.pc = "remove" /\ List' = List /\ Position'
      BY <1>b, <2>1, <3>1, <3>2, Zenon
    <3>4. errors' = 0 => Apart'
      BY <1>0, <2>1, <2>4, <3>3, Zenon DEF Apart
    <3> QED BY <1>0, <2>1, <2>3, <3>3, <3>4, WaitFacts, Zenon DEF Kept
  <2>6. CASE ~more
    <3>1. waiting' = NotWaiting
      BY <1>3, <2>6, Zenon DEF UnsubscribeForgets
    <3>2. From(List, n + 1) = {}
      BY <2>2, <2>6, ListFacts, Zenon
    <3> QED BY <1>0, <2>1, <2>3, <2>4, <3>1, <3>2, EndKept, WaitFacts, Zenon
  <2> QED BY <1>0, <2>5, <2>6, Zenon
<1> QED BY <1>1, <1>2, <1>3, Zenon

\* Releasing a packet and delivering a message touch no table.
LEMMA LastKept ==
  ASSUME Shapes, Position, errors = 0 => Apart, PubrelReleases \/ Delivers
  PROVE  Kept /\ script' = script /\ retained' = retained
<1>1. /\ waiting' = NotWaiting /\ waiting.pc \in {"release", "deliver"}
      /\ UNCHANGED <<script, retained, subs, raft_subs, topics>>
  BY Zenon DEF PubrelReleases, Delivers, Locked, Inside, filters
<1>2. Fails
  <2>1. CASE Delivers
    BY <2>1, WaitFacts, Zenon DEF Delivers, Fails
  <2>2. CASE PubrelReleases
    <3>1. errors' = errors \/ \E ok \in BOOLEAN : Counted(ok)
      <4>1. CASE ~script.persistent  BY <2>2, <4>1, Zenon DEF PubrelReleases
      <4>2. CASE script.persistent
        <5>1. PICK first \in Outcomes(raft, next_state(raft, packet(waiting.pkt).id)) :
                IF ~first.ok THEN Counted(FALSE)
                ELSE \E second \in Outcomes(first.value, clean_finished_items(first.value)) : Counted(second.ok)
          BY <2>2, <4>2, Zenon DEF PubrelReleases
        <5>2. CASE ~first.ok
          <6>1. Counted(FALSE) /\ FALSE \in BOOLEAN
            BY <5>1, <5>2, Zenon
          <6> QED BY <6>1, Zenon
        <5>3. CASE first.ok
          <6>1. PICK second \in Outcomes(first.value, clean_finished_items(first.value)) : Counted(second.ok)
            BY <5>1, <5>3, Zenon
          <6>2. second.ok \in BOOLEAN
            BY OutcomeFacts, Zenon
          <6> QED BY <6>1, <6>2, Zenon
        <5> QED BY <5>2, <5>3, Zenon
      <4> QED BY <4>1, <4>2, Zenon
    <3> QED BY <3>1, CountFacts, WaitFacts, Zenon DEF Fails
  <2> QED BY <2>1, <2>2, Zenon
<1>3. errors' = 0 => topics' = subs' /\ (script.persistent => raft_subs' = subs')
  BY <1>1, <1>2, Zenon DEF Apart, Fails
<1> QED BY <1>1, <1>2, <1>3, EndKept, WaitFacts, Zenon

\* A packet that is just taken has reached no filter.
LEMMA EntersKept ==
  ASSUME Shapes, Position, errors = 0 => Apart, Enters
  PROVE  Kept
<1>1. UNCHANGED <<script, subs, raft_subs, topics, errors>> /\ waiting.pc = "idle"
  BY Zenon DEF Enters
<1>2. PICK i \in Int, pc \in {"read", "topic", "release", "deliver"} :
        /\ waiting' = [pkt |-> i, pc |-> pc, at |-> 1, existing |-> {}, granted |-> <<>>]
        /\ pc \in {"read", "topic"} => i \in Packets /\ packet(i).kind \in {"subscribe", "unsubscribe"}
  BY PacketFacts DEF Enters
<1>3. /\ waiting' \in Waits /\ waiting'.pc = pc /\ waiting'.at = 1 /\ waiting'.pkt = i
      /\ waiting'.granted = <<>>
  BY <1>2 DEF Waits, WaitPcs
<1>4. pc \in {"read", "topic"} => List' \in Seq(Filters) /\ List' # <<>> /\ i \in Packets
  BY <1>1, <1>2, <1>3, PacketFacts, Zenon DEF List, packet
<1>5. pc \in {"read", "topic"} => 1 \in 1..Len(List') /\ Before(List', 1) = {}
  BY <1>4, EmptySeq, ListFacts
<1>6. Position'
  BY <1>1, <1>3, <1>4, <1>5, Zenon DEF Position, Packets
<1>7. errors' = 0 => Apart'
  BY <1>1, <1>3, <1>5, Zenon DEF Apart
<1> QED BY <1>1, <1>3, <1>6, <1>7, Zenon DEF Kept, Fails, Shapes

\* Steps that concern no table keep the two equal.
LEMMA ElsewhereKept ==
  ASSUME Shapes, Position, errors = 0 => Apart, Elsewhere, Fails
  PROVE  Kept
<1>1. List' = List /\ now' = now /\ Packets' = Packets
  BY Zenon DEF Elsewhere, List, now, packet, Packets
<1>2. Position'
  BY <1>1, Zenon DEF Elsewhere, Position
<1>3. errors' = 0 => Apart'
  BY <1>1, Zenon DEF Elsewhere, Apart, Fails
<1> QED BY <1>2, <1>3, Zenon DEF Elsewhere, Kept, Shapes

-------------------------------------------------------------------------------
\* The two halves of the invariant.

\* Every step keeps what is known of the two tables.
LEMMA SubscriptionsStep ==
  ASSUME IInv, [Next]_vars
  PROVE  Kept /\ script' = script /\ retained' \in Int
<1>1. Shapes /\ Position /\ (errors = 0 => Apart) /\ retained \in Int
  BY Zenon DEF IInv, Shapes
<1>2. CASE Handle
  <2>1. retained' = retained /\ (Enters \/ (Elsewhere /\ errors' = errors))
    BY <1>1, <1>2, HandleMoves, Zenon
  <2>2. CASE Enters
    BY <1>1, <2>1, <2>2, EntersKept, Zenon DEF Enters
  <2>3. CASE Elsewhere /\ errors' = errors
    <3>1. Fails
      BY <1>1, <2>3, Zenon DEF Fails, Shapes
    <3> QED BY <1>1, <2>1, <2>3, <3>1, ElsewhereKept, Zenon DEF Elsewhere
  <2> QED BY <2>1, <2>2, <2>3, Zenon
<1>3. CASE PublishStep
  <2>1. Elsewhere /\ Fails /\ retained' \in Int
    BY <1>1, <1>3, PublishElsewhere, Zenon DEF PublishStep
  <2> QED BY <1>1, <2>1, ElsewhereKept, Zenon DEF Elsewhere
<1>4. CASE Send \/ Spawned \/ UNCHANGED vars
  <2>1. Elsewhere /\ Fails /\ retained' = retained
    BY <1>1, <1>4, SpawnedElsewhere, Zenon
  <2> QED BY <1>1, <2>1, ElsewhereKept, Zenon DEF Elsewhere
<1>5. CASE WaitStep
  BY <1>1, <1>5, SubscribeKept, UnsubscribeKept, LastKept, Zenon DEF WaitStep
<1> QED BY <1>2, <1>3, <1>4, <1>5, Zenon DEF Next

\* Every step keeps what is known of the acknowledgements.
LEMMA AcksStep ==
  ASSUME IInv, [Next]_vars
  PROVE  /\ written' \in Seq(Answers) /\ routed' \in Seq(Int) /\ task' \in [Packets -> Pcs]
         /\ Replies' /\ AckedAfterRouted'
<1>1. /\ Shapes /\ Position /\ Replies /\ AckedAfterRouted
      /\ written \in Seq(Answers) /\ routed \in Seq(Int) /\ task \in [Packets -> Pcs]
  BY Zenon DEF IInv, Shapes
<1>2. script' = script => Packets' = Packets
  BY Zenon DEF Packets
<1>3. CASE Calm
  <2>1. /\ Packets' = Packets /\ refused \subseteq refused' /\ routed' = routed
        /\ \A i \in Packets : task'[i] = "reply" => task[i] = "reply"
    BY <1>2, <1>3, Zenon DEF Calm
  <2>2. /\ written' \in Seq(Answers)
        /\ \A kind \in Acks : \A i : Wrote(kind, i)' => Wrote(kind, i)
    <3>1. CASE written' = written
      BY <1>1, <3>1, Zenon DEF Wrote
    <3>2. CASE \E a \in Answers : a.kind \in Others /\ written' = Append(written, a)
      <4>1. PICK a \in Answers : a.kind \in Others /\ written' = Append(written, a)
        BY <3>2, Zenon
      <4>2. \A kind \in Acks : \A i : a # Answer(kind, i)
        BY <4>1 DEF Answer, Acks, Others
      <4> QED BY <1>1, <4>1, <4>2, WriteFacts, Zenon
    <3> QED BY <1>3, <3>1, <3>2, Zenon DEF Calm
  <2>3. Replies'
    BY <1>1, <2>1, Zenon DEF Replies
  <2>4. AckedAfterRouted'
    BY <1>1, <2>1, <2>2, Zenon DEF AckedAfterRouted, Acks
  <2> QED BY <1>1, <1>3, <2>1, <2>2, <2>3, <2>4, Zenon DEF Calm
<1>4. ASSUME NEW i \in Packets, Acked(i)
      PROVE  /\ written' \in Seq(Answers) /\ routed' \in Seq(Int) /\ task' \in [Packets -> Pcs]
             /\ Replies' /\ AckedAfterRouted'
  <2>1. /\ Packets' = Packets /\ routed' = routed /\ task' = [task EXCEPT ![i] = "done"]
        /\ refused' = refused \cup {i} \/ (refused' = refused /\ task[i] = "reply")
    BY <1>2, <1>4, Zenon DEF Acked
  <2>2. PICK kind \in Acks : written' = Append(written, Answer(kind, i))
    BY <1>4, Zenon DEF Acked
  <2>3. Answer(kind, i) \in Answers
    BY <1>1, PacketFacts, Zenon DEF Answer, Answers
  <2>4. /\ written' \in Seq(Answers)
        /\ \A other \in Acks : \A j : Wrote(other, j)' => Wrote(other, j) \/ Answer(kind, i) = Answer(other, j)
    BY <1>1, <2>2, <2>3, WriteFacts, Zenon
  <2>5. \A other \in Acks : \A j : Wrote(other, j)' => Wrote(other, j) \/ i = j
    BY <2>4, Zenon DEF Answer
  <2>6. task' \in [Packets -> Pcs] /\ \A j \in Packets : task'[j] = "reply" => task[j] = "reply"
    BY <1>1, <2>1, Zenon DEF Pcs
  <2>7. Replies'
    BY <1>1, <2>1, <2>6, Zenon DEF Replies
  <2>8. ASSUME NEW j \in Packets' \ refused', NEW other \in Acks, Wrote(other, j)'
        PROVE  \E k \in DOMAIN routed' : routed'[k] = j
    <3>1. CASE Wrote(other, j)
      BY <1>1, <2>1, <2>8, <3>1, Zenon DEF AckedAfterRouted, Acks
    <3>2. CASE i = j
      BY <1>1, <2>1, <2>8, <3>2, Zenon DEF Replies
    <3> QED BY <2>5, <2>8, <3>1, <3>2, Zenon
  <2>9. AckedAfterRouted'
    BY <2>8, Zenon DEF AckedAfterRouted, Acks
  <2> QED BY <1>1, <2>1, <2>4, <2>6, <2>7, <2>9, Zenon
<1>5. ASSUME NEW i \in Packets, Taken(i)
      PROVE  /\ written' \in Seq(Answers) /\ routed' \in Seq(Int) /\ task' \in [Packets -> Pcs]
             /\ Replies' /\ AckedAfterRouted'
  <2>1. /\ Packets' = Packets /\ refused' = refused /\ written' = written
        /\ routed' = Append(routed, i) /\ task' = [task EXCEPT ![i] = "reply"]
    BY <1>2, <1>5, Zenon DEF Taken
  <2>2. /\ routed' \in Seq(Int) /\ \E k \in DOMAIN routed' : routed'[k] = i
        /\ \A j : (\E k \in DOMAIN routed : routed[k] = j) => \E k \in DOMAIN routed' : routed'[k] = j
    BY <1>1, <2>1, PacketFacts, RouteFacts, Zenon
  <2>3. task' \in [Packets -> Pcs] /\ \A j \in Packets : task'[j] = "reply" => task[j] = "reply" \/ j = i
    BY <1>1, <2>1, Zenon DEF Pcs
  <2>4. Replies'
    BY <1>1, <2>1, <2>2, <2>3, Zenon DEF Replies
  <2>5. \A kind, j : Wrote(kind, j)' <=> Wrote(kind, j)
    BY <2>1, Zenon DEF Wrote
  <2>6. AckedAfterRouted'
    BY <1>1, <2>1, <2>2, <2>5, Zenon DEF AckedAfterRouted
  <2> QED BY <1>1, <2>1, <2>2, <2>3, <2>4, <2>6, Zenon
<1> QED BY <1>1, <1>3, <1>4, <1>5, AckMoves, Zenon

\* The invariant holds initially.
LEMMA InitIInv == Init => IInv
<1> SUFFICES ASSUME Init PROVE IInv
  BY Zenon
<1>1. NotWaiting \in Waits /\ waiting = NotWaiting /\ waiting.pc = "idle"
  BY DEF Init, NotWaiting, Waits, WaitPcs
<1>2. Shapes
  BY <1>1 DEF Init, Shapes, Pcs
<1>3. Position
  BY <1>1, Zenon DEF Position
<1>4. Apart
  BY <1>1, Zenon DEF Init, Apart
<1>5. Replies
  BY Zenon DEF Init, Replies
<1>6. AckedAfterRouted
  BY DEF Init, AckedAfterRouted, Wrote
<1> QED BY <1>2, <1>3, <1>4, <1>5, <1>6, Zenon DEF IInv

\* The invariant holds in every state.
LEMMA Inductive == Spec => []IInv
<1>1. Init => IInv
  BY InitIInv, Zenon
<1>2. ASSUME IInv, [Next]_vars PROVE IInv'
  <2>1. Kept /\ script' = script /\ retained' \in Int
    BY <1>2, SubscriptionsStep, Zenon
  <2>2. /\ written' \in Seq(Answers) /\ routed' \in Seq(Int) /\ task' \in [Packets -> Pcs]
        /\ Replies' /\ AckedAfterRouted'
    BY <1>2, AcksStep, Zenon
  <2>3. script \in Scripts /\ Packets' = Packets
    BY <1>2, <2>1, Zenon DEF IInv, Shapes, Packets
  <2>4. Shapes'
    BY <2>1, <2>2, <2>3, Zenon DEF Shapes, Kept, Fails
  <2> QED BY <2>1, <2>2, <2>4, Zenon DEF IInv, Kept
<1> QED BY <1>1, <1>2, PTL DEF Spec

-------------------------------------------------------------------------------
\* A PUBLISH that no plugin stopped and that had not expired is acknowledged only after
\* the router has taken it (do_handle_publish), whatever else is in progress.
THEOREM AcknowledgedIsRouted == Spec => []AckedAfterRouted
<1>1. IInv => AckedAfterRouted
  BY Zenon DEF IInv
<1> QED BY <1>1, Inductive, PTL

\* As long as no call failed, the filters of the actor, of the topic tree and of the
\* replicated session agree whenever no handler is inside ctx.wait (handle_subscribe,
\* handle_unsubscribe), for lists of any length, also with repeated filters.
THEOREM FiltersAgree == Spec => []SubscriptionsAgree
<1>1. IInv => SubscriptionsAgree
  BY Zenon DEF IInv, Apart, SubscriptionsAgree, Idle
<1> QED BY <1>1, Inductive, PTL

-------------------------------------------------------------------------------
\* What a PUBLISH may rely on while it has the lock.

InTurn == {"register", "retain", "route", "reply", "failed"}

\* A future past the lock has it: they are there one at a time.
Turns ==
  /\ lock \in Seq(Int) /\ refusals \in Nat
  /\ \A i \in Packets : task[i] \in InTurn => Holds(i)

\* A packet is in the mailbox once, before its future starts.
Mailed ==
  /\ inbox \in Seq(Int) /\ next \in Nat
  /\ \A i \in Packets : i >= next => task[i] = "idle"
  /\ \A k \in DOMAIN inbox : inbox[k] \in Packets =>
       /\ inbox[k] < next /\ task[inbox[k]] = "idle"
       /\ \A l \in DOMAIN inbox : inbox[l] = inbox[k] => l = k

\* What brought a handler where it is.
Origins ==
  /\ \A i \in Packets : /\ task[i] # "idle" => packet(i).kind = "publish"
                        /\ task[i] = "register" => packet(i).qos # 0
                        /\ task[i] = "retain" => packet(i).retain # "no"
  /\ waiting.pc = "release" => waiting.pkt \in Packets /\ packet(waiting.pkt).kind = "pubrel"

Safe(i) == raft[packet(i).id].state = "WaitPubrel" \/ Ended(i)

\* A QoS 2 packet of a persistent session is in the replicated table before it
\* is routed.
Recorded ==
  /\ raft = [id \in Ids |-> raft[id]]
  /\ script.persistent => \A i \in Packets :
       task[i] \in {"retain", "route", "reply"} /\ packet(i).qos = 2 => Safe(i)

AtRoute(i) == task[i] = "route" /\ packet(i).retain # "no"

Latest == \A k \in DOMAIN routed : LatestFlagged(k) => retained = RetainedBy(routed[k])

\* A flagged packet about to be routed is retained already.
Retaining ==
  errors = 0 /\ refusals = 0 =>
    /\ (\A i \in Packets : ~AtRoute(i)) => Latest
    /\ \A i \in Packets : AtRoute(i) => retained = RetainedBy(i)

TurnInv == Turns /\ Mailed /\ Origins /\ Recorded /\ ReceivedKept /\ Retaining

-------------------------------------------------------------------------------
\* The replicated table.

\* What was written stays written.
LEMMA WroteGrows ==
  ASSUME Shapes, Position, [Next]_vars
  PROVE  script' = script /\ \A kind, i : Wrote(kind, i) => Wrote(kind, i)'
<1>1. CASE Calm
  BY <1>1, WriteFacts, Zenon DEF Calm, Wrote
<1>2. ASSUME NEW i \in Packets, Acked(i) PROVE script' = script /\ \A kind, j : Wrote(kind, j) => Wrote(kind, j)'
  <2>1. PICK kind \in Acks : written' = Append(written, Answer(kind, i))
    BY <1>2, Zenon DEF Acked
  <2>2. Answer(kind, i) \in Answers
    BY PacketFacts, Zenon DEF Answer, Answers
  <2> QED BY <1>2, <2>1, <2>2, WriteFacts, Zenon DEF Acked
<1>3. ASSUME NEW i \in Packets, Taken(i) PROVE script' = script /\ \A kind, j : Wrote(kind, j) => Wrote(kind, j)'
  BY <1>3, Zenon DEF Taken, Wrote
<1> QED BY <1>1, <1>2, <1>3, AckMoves, Zenon

\* Cleaning up leaves a packet that waits for its PUBREL alone.
LEMMA CleanFacts ==
  ASSUME NEW t, t = [id \in Ids |-> t[id]]
  PROVE  /\ clean_finished_items(t) = [id \in Ids |-> clean_finished_items(t)[id]]
         /\ \A id \in Ids : t[id].state = "WaitPubrel" => clean_finished_items(t)[id].state = "WaitPubrel"
<1>1. DOMAIN t = Ids
  BY Zenon
<1>2. clean_finished_items(t) = [id \in Ids |-> IF t[id].state = "Finish" THEN NoItem ELSE t[id]]
  BY <1>1, Zenon DEF clean_finished_items
<1> QED BY <1>2, Zenon

\* Advancing an identifier leaves the others alone.
LEMMA AdvanceFacts ==
  ASSUME NEW t, t = [id \in Ids |-> t[id]], NEW x \in Ids
  PROVE  /\ next_state(t, x) = [id \in Ids |-> next_state(t, x)[id]]
         /\ \A id \in Ids : id # x => next_state(t, x)[id] = t[id]
BY Zenon DEF next_state

\* The identifier is free for the client again, or was used for a QoS 1 packet.
Closed(id) ==
  \E j \in Packets :
    /\ packet(j).id = id
    /\ \/ packet(j).kind = "pubrel" /\ Wrote("pubcomp", j)
       \/ packet(j).kind = "publish" /\ packet(j).qos = 1

\* A packet leaves the replicated table only once its identifier is closed.
LEMMA RaftMoves ==
  ASSUME Shapes, Position, Origins, raft = [id \in Ids |-> raft[id]], [Next]_vars
  PROVE  /\ raft' = [id \in Ids |-> raft'[id]]
         /\ \A id \in Ids : raft[id].state = "WaitPubrel" => raft'[id].state = "WaitPubrel" \/ Closed(id)'
<1> DEFINE Holding == /\ raft' = [id \in Ids |-> raft'[id]]
                      /\ \A id \in Ids : raft[id].state = "WaitPubrel" =>
                           raft'[id].state = "WaitPubrel" \/ Closed(id)'
<1>1. ASSUME raft' = raft PROVE Holding
  BY <1>1, Zenon
<1>2. CASE Send \/ Handle \/ SpawnedDelivers \/ CleanupLocal \/ UNCHANGED vars
  <2>1. CASE Handle
    BY <2>1, Zenon DEF Handle, start_outbound_publish_delivery, handle_publish, handle_pingreq, handle_subscribe,
                handle_unsubscribe, handle_pubrel, TakePacket, Take, tables
  <2> QED BY <1>1, <1>2, <2>1, Zenon DEF Send, SpawnedDelivers, CleanupLocal, vars, tables
<1>3. ASSUME NEW i \in Packets,
             Authorize(i) \/ Expired(i) \/ Policy(i) \/ Put(i) \/ Retain(i) \/ Route(i) \/ Reply(i)
      PROVE  Holding
  BY <1>1, <1>3, Zenon DEF Authorize, Expired, Policy, Put, Retain, Route, Reply, tables
<1>4. ASSUME NEW i \in Packets, Register(i) PROVE Holding
  <2> DEFINE x == packet(i).id
  <2> DEFINE after == register_with_rx_packet(raft, x, packet(i).qos, RxKey)
  <2>1. x \in Ids /\ packet(i).qos \in {1, 2} /\ packet(i).kind = "publish"
    BY <1>4, PacketFacts DEF Origins, Register, At, PacketSet
  <2>2. raft' = raft \/ raft' = after
    <3>1. PICK out \in Outcomes(raft, after) : raft' = out.value
      BY <1>4, Zenon DEF Register
    <3> QED BY <3>1, OutcomeFacts
  <2>3. script' = script
    BY WroteGrows, Zenon
  <2>4. CASE raft' = after
    <3>1. /\ raft' = [id \in Ids |-> raft'[id]] /\ raft'[x] = RxItem(packet(i).qos, RxKey)
          /\ \A id \in Ids : id # x => raft'[id] = raft[id]
      BY <2>1, <2>4, Zenon DEF register_with_rx_packet
    <3>2. packet(i).qos = 2 => raft'[x].state = "WaitPubrel"
      BY <3>1 DEF RxItem
    <3>3. packet(i).qos = 1 => \A id : id = x => Closed(id)'
      BY <2>1, <2>3, Zenon DEF Closed, packet, Packets
    <3> HIDE DEF x
    <3> QED BY <2>1, <3>1, <3>2, <3>3, Zenon
  <2> QED BY <1>1, <2>2, <2>4, Zenon
<1>5. CASE CleanupRaft
  <2>1. PICK out \in Outcomes(raft, clean_finished_items(raft)) : raft' = out.value
    BY <1>5, Zenon DEF CleanupRaft
  <2>2. raft' = raft \/ raft' = clean_finished_items(raft)
    BY <2>1, OutcomeFacts
  <2> QED BY <1>1, <2>2, CleanFacts, Zenon
<1>6. CASE PubrelReleases
  <2> DEFINE x == packet(waiting.pkt).id
  <2>1. waiting.pkt \in Packets /\ packet(waiting.pkt).kind = "pubrel" /\ x \in Ids
    BY <1>6, PacketFacts, Zenon DEF Origins, PubrelReleases, Locked, Inside, PacketSet
  <2>2. \A id : id = x => Closed(id)'
    <3>1. Answer("pubcomp", waiting.pkt) \in Answers /\ written' = Append(written, Answer("pubcomp", waiting.pkt))
      BY <1>6, <2>1, PacketFacts, Zenon DEF PubrelReleases, Answer, Answers, Others
    <3>2. \A j : j = waiting.pkt => Wrote("pubcomp", j)'
      BY <3>1, WriteFacts, Zenon
    <3>3. ASSUME NEW j, j = waiting.pkt, NEW id, id = x PROVE Closed(id)'
      <4>1. script' = script /\ j \in Packets /\ packet(j).kind = "pubrel" /\ packet(j).id = id /\ Wrote("pubcomp", j)'
        BY <2>1, <3>2, <3>3, WroteGrows, Zenon
      <4> QED BY <4>1, Zenon DEF Closed, packet, Packets
    <3> QED BY <3>3, Zenon
  <2>3. \/ raft' = raft \/ raft' = next_state(raft, x)
        \/ raft' = clean_finished_items(raft) \/ raft' = clean_finished_items(next_state(raft, x))
    <3>1. CASE ~script.persistent  BY <1>6, <3>1, Zenon DEF PubrelReleases
    <3>2. CASE script.persistent
      <4>1. PICK first \in Outcomes(raft, next_state(raft, x)) :
              IF ~first.ok THEN raft' = first.value
              ELSE \E second \in Outcomes(first.value, clean_finished_items(first.value)) : raft' = second.value
        BY <1>6, <3>2, Zenon DEF PubrelReleases
      <4>2. first.value = raft \/ first.value = next_state(raft, x)
        BY OutcomeFacts
      <4>3. raft' = first.value \/ raft' = clean_finished_items(first.value)
        BY <4>1, OutcomeFacts
      <4> QED BY <4>2, <4>3, Zenon
    <3> QED BY <3>1, <3>2, Zenon
  <2> HIDE DEF x
  <2> DEFINE t == next_state(raft, x)
  <2>4. t = [id \in Ids |-> t[id]] /\ \A id \in Ids : id # x => t[id] = raft[id]
    BY <2>1, AdvanceFacts, Zenon
  <2> HIDE DEF t
  <2>5. CASE raft' = raft \/ raft' = clean_finished_items(raft)
    BY <1>1, <2>5, CleanFacts, Zenon
  <2>6. CASE raft' = t
    BY <2>2, <2>4, <2>6, Zenon
  <2>7. CASE raft' = clean_finished_items(t)
    BY <2>2, <2>4, <2>7, CleanFacts, Zenon
  <2> QED BY <2>3, <2>5, <2>6, <2>7, Zenon DEF t
<1>7. CASE WaitStep /\ ~PubrelReleases
  BY <1>1, <1>7, Zenon DEF WaitStep, SubscribeReads, SubscribeRefused, SubscribeFilter, SubscribeAnswers,
     SubscribePersists, SubscribeInserts, UnsubscribeTopic, UnsubscribeRemoves, UnsubscribeForgets, Delivers, tables
<1> QED BY <1>2, <1>3, <1>4, <1>5, <1>6, <1>7, Zenon DEF Next, PublishStep, Spawned

\* A packet that is safe stays so.
LEMMA SafeKept ==
  ASSUME Shapes, Position, Origins, Recorded, [Next]_vars, NEW i \in Packets, Safe(i)
  PROVE  Safe(i)'
<1>1. script' = script /\ packet(i).id \in Ids
  BY WroteGrows, PacketFacts, Zenon DEF PacketSet
<1>2. CASE Ended(i)
  BY <1>1, <1>2, WroteGrows, Zenon DEF Safe, Ended, packet, Packets
<1>3. CASE raft[packet(i).id].state = "WaitPubrel"
  <2>1. raft'[packet(i).id].state = "WaitPubrel" \/ \E x \in Ids : x = packet(i).id /\ Closed(x)'
    BY <1>1, <1>3, RaftMoves, Zenon DEF Recorded
  <2> QED BY <1>1, <2>1, Zenon DEF Safe, Closed, Ended, packet, Packets
<1> QED BY <1>2, <1>3, Zenon DEF Safe

-------------------------------------------------------------------------------
\* The turns of the futures.

Refuses == refusals' \in Nat /\ (refusals' = 0 => refusals = 0)

\* A step of PUBLISH i.
Turn(i) ==
  /\ task[i] # "idle"
  /\ \E pc \in Pcs \ {"idle"} :
       /\ task' = [task EXCEPT ![i] = pc]
       /\ pc = "register" => packet(i).qos # 0
       /\ pc = "retain" => packet(i).retain # "no"
       /\ pc \in InTurn => Holds(i) /\ lock' = lock
       /\ script.persistent /\ packet(i).qos = 2 /\ pc \in {"retain", "route", "reply"} =>
            task[i] \in {"retain", "route"} \/ raft'[packet(i).id].state = "WaitPubrel"
  /\ lock' = lock \/ lock' = Append(lock, i) \/ (Holds(i) /\ lock' = Tail(lock))
  /\ inbox' = inbox \/ inbox' = Append(inbox, 0)
  /\ UNCHANGED <<next, waiting>>

\* Ending the future is such a step.
LEMMA DoneTurn ==
  ASSUME NEW i \in Packets, NEW ack, Done(i, ack), task[i] # "idle"
  PROVE  Turn(i)
<1>1. task' = [task EXCEPT ![i] = "done"] /\ UNCHANGED <<inbox, next, waiting>>
  BY Zenon DEF Done
<1>2. lock' = lock \/ (Holds(i) /\ lock' = Tail(lock))
  BY Zenon DEF Done, Holds
<1>3. "done" \in Pcs \ {"idle"} /\ "done" \notin InTurn
  BY Zenon DEF Pcs, InTurn
<1> QED BY <1>1, <1>2, <1>3, Zenon DEF Turn

\* Every step of a future is its turn, or comes before it.
LEMMA PublishTurns ==
  ASSUME Shapes, raft = [id \in Ids |-> raft[id]], Turns, NEW i \in Packets,
         \/ Authorize(i) \/ Expired(i) \/ Policy(i) \/ Put(i) \/ Register(i) \/ Retain(i) \/ Route(i) \/ Reply(i)
  PROVE  Turn(i) /\ Refuses
<1>0. /\ AfterRegister(i) \in {"route", "retain"} /\ (AfterRegister(i) = "retain" => packet(i).retain # "no")
      /\ {"policy", "put", "register", "retain", "route", "reply", "failed"} \subseteq Pcs \ {"idle"}
      /\ "policy" \notin InTurn /\ "put" \notin InTurn
      /\ packet(i).id \in Ids /\ packet(i).qos \in 0..2 /\ refusals \in Nat
  BY PacketFacts, Zenon DEF AfterRegister, Pcs, InTurn, PacketSet, Turns
<1>1. ASSUME NEW pc, Goes(i, pc)
      PROVE  task' = [task EXCEPT ![i] = pc] /\ UNCHANGED <<inbox, next, waiting, refusals>>
  BY <1>1, Zenon DEF Goes
<1>2. CASE Authorize(i)
  <2>1. CASE Goes(i, "policy") /\ lock' = lock
    BY <1>0, <1>1, <1>2, <2>1, ZenonT(30) DEF Authorize, At, Turn, Refuses
  <2>2. CASE refusals' = refusals + 1 /\ Done(i, TRUE)
    <3>1. Turn(i)
      BY <1>2, <2>2, DoneTurn, Zenon DEF Authorize, At
    <3> QED BY <1>0, <2>2, <3>1 DEF Refuses
  <2> QED BY <1>2, <2>1, <2>2, Zenon DEF Authorize
<1>3. CASE Expired(i)
  <2>1. Done(i, TRUE) /\ task[i] # "idle" /\ refusals' = refusals + 1
    BY <1>3, Zenon DEF Expired, At
  <2>2. Turn(i)
    BY <2>1, DoneTurn, Zenon
  <2> QED BY <1>0, <2>1, <2>2 DEF Refuses
<1>4. CASE Policy(i)
  <2>1. CASE Goes(i, "put") /\ lock' = Append(lock, i)
    BY <1>0, <1>1, <1>4, <2>1, Zenon DEF Policy, At, Turn, Refuses
  <2>2. CASE refusals' = refusals + 1 /\ Done(i, TRUE)
    <3>1. Turn(i)
      BY <1>4, <2>2, DoneTurn, Zenon DEF Policy, At
    <3> QED BY <1>0, <2>2, <3>1 DEF Refuses
  <2> QED BY <1>4, <2>1, <2>2, Zenon DEF Policy
<1>5. CASE Put(i)
  <2>1. CASE Done(i, FALSE) /\ refusals' = refusals
    BY <1>0, <1>5, <2>1, DoneTurn, Zenon DEF Put, At, Refuses
  <2>2. CASE packet(i).qos = 0 /\ Goes(i, AfterRegister(i)) /\ lock' = lock
    BY <1>0, <1>1, <1>5, <2>2, SMTT(30) DEF Put, At, Turn, Refuses
  <2>3. CASE packet(i).qos # 0 /\ Goes(i, AfterPut(i)) /\ lock' = lock
    <3>1. CASE script.persistent
      BY <1>0, <1>1, <1>5, <2>3, <3>1, Zenon DEF AfterPut, Put, At, Turn, Refuses
    <3>2. CASE ~script.persistent
      BY <1>0, <1>1, <1>5, <2>3, <3>2, Zenon DEF AfterPut, Put, At, Turn, Refuses
    <3> QED BY <3>1, <3>2, Zenon
  <2> QED BY <1>5, <2>1, <2>2, <2>3, Zenon DEF Put
<1>6. CASE Register(i)
  <2> DEFINE after == register_with_rx_packet(raft, packet(i).id, packet(i).qos, RxKey)
  <2>1. PICK out \in Outcomes(raft, after) :
          /\ raft' = out.value
          /\ IF out.ok THEN Goes(i, AfterRegister(i)) /\ UNCHANGED lock
                       ELSE Done(i, FALSE) /\ UNCHANGED <<refused, refusals>>
    BY <1>6, Zenon DEF Register
  <2>2. CASE ~out.ok
    BY <1>0, <1>6, <2>1, <2>2, DoneTurn, Zenon DEF Register, At, Refuses
  <2>3. CASE out.ok
    <3>1. raft' = after /\ Goes(i, AfterRegister(i)) /\ lock' = lock
      BY <2>1, <2>3, OutcomeFacts, Zenon
    <3>2. packet(i).qos = 2 => raft'[packet(i).id].state = "WaitPubrel"
      BY <1>0, <3>1, Zenon DEF register_with_rx_packet, RxItem
    <3> QED BY <1>0, <1>1, <1>6, <3>1, <3>2, Zenon DEF Register, At, Turn, Refuses
  <2> QED BY <2>2, <2>3, Zenon
<1>7. CASE Retain(i)
  <2>1. Goes(i, "route") /\ lock' = lock /\ Holds(i) /\ task[i] = "retain"
    BY <1>7, Zenon DEF Retain, At
  <2> QED BY <1>0, <1>1, <2>1, Zenon DEF Turn, Refuses
<1>8. CASE Route(i)
  <2>1. /\ task[i] = "route" /\ Holds(i) /\ UNCHANGED <<lock, next, waiting, refusals>>
        /\ inbox' = inbox \/ inbox' = Append(inbox, 0)
        /\ task' = [task EXCEPT ![i] = "reply"] \/ task' = [task EXCEPT ![i] = "failed"]
    BY <1>8, Zenon DEF Route
  <2>2. PICK pc \in {"reply", "failed"} : task' = [task EXCEPT ![i] = pc]
    BY <2>1, Zenon
  <2> QED BY <1>0, <2>1, <2>2, Zenon DEF Turn, Refuses
<1>9. CASE Reply(i)
  BY <1>0, <1>9, DoneTurn, Zenon DEF Reply, Refuses
<1> QED BY <1>2, <1>3, <1>4, <1>5, <1>6, <1>7, <1>8, <1>9, Zenon

\* A step outside the futures: one may start, and only ctx.wait uses the lock.
Quiet ==
  /\ UNCHANGED <<retained, routed, refused>> /\ Refuses
  /\ \/ task' = task
     \/ \E i \in Packets : /\ packet(i).kind = "publish" /\ inbox # <<>> /\ i = Head(inbox)
                           /\ inbox' = Tail(inbox) /\ task' = [task EXCEPT ![i] = "authorize"]
  /\ \/ lock' = lock \/ lock' = Append(lock, 0)
     \/ Holds(0) /\ (lock' = Tail(lock) \/ lock' = Append(Tail(lock), 0))
  /\ \/ UNCHANGED <<inbox, next>>
     \/ next' = next /\ inbox # <<>> /\ inbox' = Tail(inbox)
     \/ /\ task' = task /\ next \in Packets
        /\ next' = next + 1 /\ inbox' = Append(inbox, Mail(next))
  /\ waiting'.pc = "release" => waiting'.pkt \in Packets /\ packet(waiting'.pkt).kind = "pubrel"

\* Taking a message from the mailbox.
LEMMA HandleQuiet ==
  ASSUME Shapes, Turns, Origins, Handle
  PROVE  Quiet
<1>1. ASSUME NEW i, Take(i)
      PROVE  /\ UNCHANGED <<retained, routed, refused, next>> /\ Refuses /\ waiting.pc = "idle"
             /\ inbox # <<>> /\ i = Head(inbox) /\ inbox' = Tail(inbox)
  BY <1>1, Zenon DEF Take, Refuses, Turns, Idle
<1>2. ASSUME NEW i, NEW pc, NEW locked, Wait(i, pc, locked)
      PROVE  /\ task' = task /\ (lock' = lock \/ lock' = Append(lock, 0))
             /\ waiting'.pc = pc /\ waiting'.pkt = i
  BY <1>2, Zenon DEF Wait
<1>3. CASE start_outbound_publish_delivery
  <2>1. /\ UNCHANGED <<retained, routed, refused, next, task>> /\ Refuses /\ waiting.pc = "idle"
        /\ inbox # <<>> /\ inbox' = Tail(inbox)
    BY <1>1, <1>2, <1>3, Zenon DEF start_outbound_publish_delivery
  <2>2. (lock' = lock \/ lock' = Append(lock, 0)) /\ waiting'.pc # "release"
    <3>1. CASE Wait(0, "deliver", TRUE)  BY <3>1, Zenon DEF Wait
    <3>2. CASE UNCHANGED <<waiting, lock>>  BY <2>1, <3>2, Zenon
    <3> QED BY <1>3, <3>1, <3>2, Zenon DEF start_outbound_publish_delivery
  <2> QED BY <2>1, <2>2, Zenon DEF Quiet
<1>4. ASSUME NEW i \in Packets, handle_publish(i) PROVE Quiet
  BY <1>1, <1>4, Zenon DEF handle_publish, TakePacket, Quiet
<1>5. ASSUME NEW i \in Packets, handle_pingreq(i) PROVE Quiet
  BY <1>1, <1>5, Zenon DEF handle_pingreq, TakePacket, Quiet
<1>6. ASSUME NEW i \in Packets, handle_subscribe(i) PROVE Quiet
  <2>1. Take(i) /\ Wait(i, "read", TRUE)
    BY <1>6, Zenon DEF handle_subscribe, TakePacket
  <2>2. /\ task' = task /\ (lock' = lock \/ lock' = Append(lock, 0))
        /\ waiting'.pc = "read"
    BY <1>2, <2>1, Zenon
  <2> QED BY <1>1, <2>1, <2>2, Zenon DEF Quiet
<1>7. ASSUME NEW i \in Packets, handle_unsubscribe(i) PROVE Quiet
  <2>1. Take(i) /\ Wait(i, "topic", FALSE)
    BY <1>7, Zenon DEF handle_unsubscribe, TakePacket
  <2>2. /\ task' = task /\ (lock' = lock \/ lock' = Append(lock, 0))
        /\ waiting'.pc = "topic"
    BY <1>2, <2>1, Zenon
  <2> QED BY <1>1, <2>1, <2>2, Zenon DEF Quiet
<1>8. ASSUME NEW i \in Packets, handle_pubrel(i) PROVE Quiet
  BY <1>1, <1>2, <1>8, Zenon DEF handle_pubrel, TakePacket, Quiet
<1> QED BY <1>3, <1>4, <1>5, <1>6, <1>7, <1>8, Zenon DEF Handle

\* The handlers inside ctx.wait.
LEMMA WaitQuiet ==
  ASSUME Shapes, Turns, Origins, WaitStep
  PROVE  Quiet
<1> DEFINE LockMoves == \/ lock' = lock \/ lock' = Append(lock, 0)
                        \/ Holds(0) /\ (lock' = Tail(lock) \/ lock' = Append(Tail(lock), 0))
<1>0. refusals \in Nat /\ waiting \in Waits
  BY Zenon DEF Turns, Shapes
<1>1. ASSUME UNCHANGED <<retained, routed, refused, task, inbox, next>>, Refuses, LockMoves,
             waiting'.pc # "release"
      PROVE  Quiet
  BY <1>1, Zenon DEF Quiet
<1>2. NotWaiting.pc # "release"
  BY Zenon DEF NotWaiting
<1>3. ASSUME NEW granted, Recording(granted) PROVE LockMoves /\ waiting'.pc # "release"
  BY <1>0, <1>2, <1>3, Zenon DEF Recording, Waits
<1>4. UNCHANGED <<retained, routed, refused, task, inbox, next>>
  BY Zenon DEF WaitStep, SubscribeReads, SubscribeRefused, SubscribeFilter, SubscribeAnswers, SubscribePersists,
     SubscribeInserts, UnsubscribeTopic, UnsubscribeRemoves, UnsubscribeForgets, PubrelReleases, Delivers
<1>5. Refuses
  <2>1. CASE SubscribeFilter \/ SubscribeRefused
    <3>1. refusals' = refusals \/ refusals' = refusals + 1
      BY <2>1, Zenon DEF SubscribeFilter, SubscribeRefused
    <3> QED BY <1>0, <3>1 DEF Refuses
  <2>2. CASE ~(SubscribeFilter \/ SubscribeRefused)
    <3>1. refusals' = refusals
      BY <2>2, Zenon DEF WaitStep, SubscribeReads, SubscribeAnswers, SubscribePersists,
         SubscribeInserts, UnsubscribeTopic, UnsubscribeRemoves, UnsubscribeForgets, PubrelReleases, Delivers
    <3> QED BY <1>0, <3>1, Zenon DEF Refuses
  <2> QED BY <2>1, <2>2, Zenon
<1>6. CASE SubscribeReads \/ UnsubscribeRemoves \/ PubrelReleases \/ Delivers
  <2>1. LockMoves
    BY <1>6, Zenon DEF SubscribeReads, UnsubscribeRemoves, PubrelReleases, Delivers, Locked
  <2>2. waiting'.pc # "release"
    BY <1>0, <1>2, <1>6, Zenon DEF SubscribeReads, UnsubscribeRemoves, PubrelReleases, Delivers, Waits
  <2> QED BY <1>1, <1>4, <1>5, <2>1, <2>2, Zenon
<1>7. CASE SubscribeFilter
  <2>1. lock' = lock
    BY <1>7, Zenon DEF SubscribeFilter
  <2>2. waiting'.pc # "release"
    BY <1>0, <1>7, Zenon DEF SubscribeFilter, Waits
  <2> QED BY <1>1, <1>4, <1>5, <2>1, <2>2, Zenon
<1>8. CASE SubscribeRefused
  BY <1>0, <1>1, <1>4, <1>5, <1>8, Zenon DEF SubscribeRefused, Waits
<1>9. CASE SubscribeAnswers
  BY <1>1, <1>3, <1>4, <1>5, <1>9, Zenon DEF SubscribeAnswers
<1>10. CASE SubscribePersists
  <2>1. \/ Recording(Tail(waiting.granted))
        \/ waiting' = [waiting EXCEPT !.pc = "insert"] /\ lock' = Append(lock, 0)
    BY <1>10, Zenon DEF SubscribePersists
  <2>2. LockMoves /\ waiting'.pc # "release"
    BY <1>0, <1>3, <2>1, ZenonT(30) DEF Waits
  <2> QED BY <1>1, <1>4, <1>5, <2>2, Zenon
<1>11. CASE SubscribeInserts
  <2>1. LockMoves
    BY <1>11, Zenon DEF SubscribeInserts
  <2>2. waiting'.pc # "release"
    BY <1>0, <1>2, <1>11, Zenon DEF SubscribeInserts, Waits
  <2> QED BY <1>1, <1>4, <1>5, <2>1, <2>2, Zenon
<1>12. CASE UnsubscribeTopic
  <2>1. LockMoves /\ waiting.pc = "topic"
    BY <1>12, Zenon DEF UnsubscribeTopic, Inside
  <2>2. waiting'.pc # "release"
    BY <1>0, <1>12, <2>1, ZenonT(30) DEF UnsubscribeTopic, Waits
  <2> QED BY <1>1, <1>4, <1>5, <2>1, <2>2, Zenon
<1>13. CASE UnsubscribeForgets
  <2>1. LockMoves
    BY <1>13, Zenon DEF UnsubscribeForgets
  <2>2. waiting'.pc # "release"
    BY <1>0, <1>2, <1>13, Zenon DEF UnsubscribeForgets, Waits
  <2> QED BY <1>1, <1>4, <1>5, <2>1, <2>2, Zenon
<1> QED BY <1>6, <1>7, <1>8, <1>9, <1>10, <1>11, <1>12, <1>13, ZenonT(30) DEF WaitStep

\* Sending, spawned tasks and stuttering.
LEMMA SpawnedQuiet ==
  ASSUME Shapes, Turns, Origins, Send \/ Spawned \/ UNCHANGED vars
  PROVE  Quiet
<1>1. UNCHANGED <<retained, routed, refused, task, lock, waiting, refusals, script>>
  BY Zenon DEF Send, Spawned, SpawnedDelivers, CleanupLocal, CleanupRaft, vars
<1>2. \/ UNCHANGED <<inbox, next>>
      \/ next \in Packets /\ next' = next + 1 /\ inbox' = Append(inbox, Mail(next))
  BY Zenon DEF Send, Spawned, SpawnedDelivers, CleanupLocal, CleanupRaft, vars
<1>3. Refuses
  BY <1>1, Zenon DEF Refuses, Turns
<1> QED BY <1>1, <1>2, <1>3, Zenon DEF Quiet, Origins

-------------------------------------------------------------------------------
\* The queue of the lock and the mailbox.

\* Whoever holds a lock keeps it until its turn ends.
LEMMA QueueFacts ==
  ASSUME lock \in Seq(Int), NEW x \in Int
  PROVE  /\ Append(lock, x) \in Seq(Int) /\ Append(lock, x) # <<>>
         /\ lock # <<>> => Tail(lock) \in Seq(Int) /\ Head(Append(lock, x)) = Head(lock)
<1>1. Append(lock, x) \in Seq(Int) /\ Len(Append(lock, x)) = Len(lock) + 1 /\ Len(lock) \in Nat
  BY AppendProperties
<1>2. Append(lock, x) # <<>>
  BY <1>1
<1>3. ASSUME lock # <<>> PROVE Tail(lock) \in Seq(Int) /\ Head(Append(lock, x)) = Head(lock)
  <2>1. Len(lock) > 0 /\ Append(lock, x)[1] = lock[1] /\ Tail(lock) \in Seq(Int)
    BY <1>1, <1>3, AppendProperties, HeadTailProperties, EmptySeq, SMTT(30)
  <2> QED BY <1>1, <1>3, <2>1
<1> QED BY <1>1, <1>2, <1>3, Zenon

\* The mailbox takes one more message at its end.
LEMMA PostFacts ==
  ASSUME inbox \in Seq(Int), NEW x \in Int, inbox' = Append(inbox, x)
  PROVE  /\ inbox' \in Seq(Int) /\ DOMAIN inbox' = DOMAIN inbox \cup {Len(inbox) + 1}
         /\ Len(inbox) + 1 \notin DOMAIN inbox /\ inbox'[Len(inbox) + 1] = x
         /\ \A k \in DOMAIN inbox : inbox'[k] = inbox[k]
<1>1. Len(inbox) \in Nat /\ DOMAIN inbox = 1..Len(inbox)
  OBVIOUS
<1>2. /\ inbox' \in Seq(Int) /\ DOMAIN inbox' = 1..(Len(inbox) + 1) /\ inbox'[Len(inbox) + 1] = x
      /\ \A k \in 1..Len(inbox) : inbox'[k] = inbox[k]
  BY AppendProperties
<1> QED BY <1>1, <1>2

\* The mailbox gives its first message.
LEMMA TakeFacts ==
  ASSUME inbox \in Seq(Int), inbox # <<>>, inbox' = Tail(inbox)
  PROVE  /\ inbox' \in Seq(Int) /\ 1 \in DOMAIN inbox /\ Head(inbox) = inbox[1]
         /\ DOMAIN inbox' \subseteq Int
         /\ \A k \in DOMAIN inbox' : k + 1 \in DOMAIN inbox /\ k + 1 # 1 /\ inbox'[k] = inbox[k + 1]
<1>1. Len(inbox) \in Nat \ {0} /\ DOMAIN inbox = 1..Len(inbox)
  BY EmptySeq
<1>2. /\ inbox' \in Seq(Int) /\ DOMAIN inbox' = 1..(Len(inbox) - 1) /\ Head(inbox) = inbox[1]
      /\ \A k \in 1..(Len(inbox) - 1) : inbox'[k] = inbox[k + 1]
  BY <1>1, HeadTailProperties
<1> QED BY <1>1, <1>2

\* A step outside the futures keeps the turns.
LEMMA QuietTurns ==
  ASSUME Shapes, Turns, script' = script, Quiet
  PROVE  Turns'
<1>1. Packets' = Packets /\ refusals' \in Nat /\ 0 \notin Packets /\ lock \in Seq(Int)
  <2>1. script.packets \in Seq(PacketSet)
    BY InboundAssumption, Zenon DEF Shapes
  <2> QED BY <2>1 DEF Packets, Quiet, Refuses, Turns
<1>2. \A i \in Packets : task'[i] \in InTurn => task[i] \in InTurn
  BY Zenon DEF Quiet, Shapes, InTurn
<1>3. lock' \in Seq(Int)
  <2>1. ASSUME Holds(0) PROVE Tail(lock) \in Seq(Int) /\ Append(Tail(lock), 0) \in Seq(Int)
    BY <1>1, <2>1, QueueFacts, AppendProperties, SMTT(30) DEF Holds
  <2>2. Append(lock, 0) \in Seq(Int)
    BY <1>1, QueueFacts
  <2>3. \/ lock' = lock \/ lock' = Append(lock, 0)
        \/ Holds(0) /\ (lock' = Tail(lock) \/ lock' = Append(Tail(lock), 0))
    BY Zenon DEF Quiet
  <2> QED BY <1>1, <2>1, <2>2, <2>3, Zenon
<1>4. ASSUME NEW i \in Packets, Holds(i) PROVE Holds(i)'
  <2>1. ~Holds(0) /\ lock # <<>> /\ Head(lock) = i
    BY <1>1, <1>4, Zenon DEF Holds
  <2>2. lock' = lock \/ lock' = Append(lock, 0)
    BY <2>1, Zenon DEF Quiet
  <2>3. lock' # <<>> /\ Head(lock') = i
    BY <1>1, <2>1, <2>2, QueueFacts, SMTT(30)
  <2> QED BY <2>3, Zenon DEF Holds
<1>5. ASSUME NEW i \in Packets, task'[i] \in InTurn PROVE Holds(i)'
  BY <1>2, <1>4, <1>5, Zenon DEF Turns
<1> QED BY <1>1, <1>3, <1>5, Zenon DEF Turns

\* A step of a future keeps them too.
LEMMA TurnTurns ==
  ASSUME Shapes, Turns, script' = script, NEW i \in Packets, Turn(i), Refuses
  PROVE  Turns'
<1>1. Packets' = Packets /\ refusals' \in Nat /\ i \in Int /\ lock \in Seq(Int)
  BY PacketFacts, Zenon DEF Packets, Refuses, Turns
<1>2. PICK pc \in Pcs : task' = [task EXCEPT ![i] = pc] /\ (pc \in InTurn => Holds(i) /\ lock' = lock)
  BY Zenon DEF Turn
<1>3. lock' \in Seq(Int)
  BY <1>1, QueueFacts, Zenon DEF Turn, Holds
<1>4. ASSUME NEW j \in Packets, j # i, Holds(j) PROVE Holds(j)'
  <2>1. ~Holds(i) /\ lock # <<>> /\ Head(lock) = j
    BY <1>4, Zenon DEF Holds
  <2>2. lock' = lock \/ lock' = Append(lock, i)
    BY <2>1, Zenon DEF Turn
  <2>3. lock' # <<>> /\ Head(lock') = j
    BY <1>1, <2>1, <2>2, QueueFacts, SMTT(30)
  <2> QED BY <2>3, Zenon DEF Holds
<1>5. ASSUME NEW j \in Packets, task'[j] \in InTurn PROVE Holds(j)'
  <2>1. CASE j = i
    <3>1. Holds(i) /\ lock' = lock
      BY <1>2, <1>5, <2>1, Zenon DEF Shapes
    <3> QED BY <2>1, <3>1, Zenon DEF Holds
  <2>2. CASE j # i
    <3>1. task[j] \in InTurn
      BY <1>2, <1>5, <2>2, Zenon DEF Shapes
    <3> QED BY <1>4, <2>2, <3>1, Zenon DEF Turns
  <2> QED BY <2>1, <2>2, Zenon
<1> QED BY <1>1, <1>3, <1>5, Zenon DEF Turns

\* No packet comes twice: the mailbox under the steps outside the futures.
LEMMA QuietMailed ==
  ASSUME Shapes, Mailed, script' = script, Quiet
  PROVE  Mailed'
<1>1. /\ Packets' = Packets /\ 0 \notin Packets /\ Packets \subseteq Int
      /\ inbox \in Seq(Int) /\ next \in Nat /\ task \in [Packets -> Pcs]
  <2>1. script.packets \in Seq(PacketSet)
    BY InboundAssumption, Zenon DEF Shapes
  <2> QED BY <2>1 DEF Packets, Mailed, Shapes
<1>2. CASE task' = task /\ UNCHANGED <<inbox, next>>
  BY <1>1, <1>2, Zenon DEF Mailed
<1>3. CASE next' = next /\ inbox # <<>> /\ inbox' = Tail(inbox)
  <2>1. /\ inbox' \in Seq(Int) /\ 1 \in DOMAIN inbox /\ Head(inbox) = inbox[1] /\ DOMAIN inbox' \subseteq Int
        /\ \A k \in DOMAIN inbox' : k + 1 \in DOMAIN inbox /\ k + 1 # 1 /\ inbox'[k] = inbox[k + 1]
    BY <1>1, <1>3, TakeFacts, Zenon
  <2>2. \A j \in Packets : task'[j] # task[j] => j = inbox[1]
    BY <1>1, <2>1, Zenon DEF Quiet
  <2>3. ASSUME NEW j \in Packets, j >= next PROVE task'[j] = "idle"
    <3>1. task[j] = "idle" /\ j # inbox[1]
      BY <1>1, <2>1, <2>3, SMTT(30) DEF Mailed
    <3> QED BY <2>2, <3>1, Zenon
  <2>4. ASSUME NEW k \in DOMAIN inbox', inbox'[k] \in Packets
        PROVE  /\ inbox'[k] < next /\ task'[inbox'[k]] = "idle"
               /\ \A l \in DOMAIN inbox' : inbox'[l] = inbox'[k] => l = k
    <3>1. /\ k + 1 \in DOMAIN inbox /\ k + 1 # 1 /\ inbox'[k] = inbox[k + 1]
          /\ \A l \in DOMAIN inbox : inbox[l] = inbox[k + 1] => l = k + 1
          /\ inbox[k + 1] < next /\ task[inbox[k + 1]] = "idle"
      BY <2>1, <2>4, Zenon DEF Mailed
    <3>2. inbox'[k] # inbox[1]
      BY <2>1, <3>1, Zenon
    <3>3. ASSUME NEW l \in DOMAIN inbox', inbox'[l] = inbox'[k] PROVE l = k
      <4>1. l + 1 = k + 1 /\ l \in Int /\ k \in Int
        BY <2>1, <3>1, <3>3, Zenon
      <4> QED BY <4>1
    <3> QED BY <2>2, <2>4, <3>1, <3>2, <3>3, Zenon
  <2> QED BY <1>1, <1>3, <2>1, <2>3, <2>4, Zenon DEF Mailed
<1>4. CASE task' = task /\ next \in Packets /\ next' = next + 1 /\ inbox' = Append(inbox, Mail(next))
  <2> DEFINE n == Len(inbox) + 1
  <2> DEFINE m == Mail(next)
  <2>1. m \in {0, next} /\ m \in Int
    BY <1>1 DEF Mail
  <2> HIDE DEF m
  <2>2. /\ inbox' \in Seq(Int) /\ DOMAIN inbox' = DOMAIN inbox \cup {n} /\ n \notin DOMAIN inbox /\ inbox'[n] = m
        /\ \A k \in DOMAIN inbox : inbox'[k] = inbox[k]
    BY <1>1, <1>4, <2>1, PostFacts, Zenon DEF m
  <2> HIDE DEF n
  <2>3. \A j \in Packets : j >= next' => task'[j] = "idle"
    BY <1>1, <1>4 DEF Mailed
  <2>4. \A k \in DOMAIN inbox : inbox[k] \in Packets => inbox[k] # m
    BY <1>1, <2>1 DEF Mailed
  <2>5. ASSUME NEW k \in DOMAIN inbox, inbox[k] \in Packets
        PROVE  /\ inbox'[k] < next' /\ task'[inbox'[k]] = "idle"
               /\ \A l \in DOMAIN inbox' : inbox'[l] = inbox'[k] => l = k
    <3>1. /\ inbox[k] < next /\ task[inbox[k]] = "idle" /\ inbox[k] \in Int
          /\ \A l \in DOMAIN inbox : inbox[l] = inbox[k] => l = k
      BY <1>1, <2>5, Zenon DEF Mailed
    <3>2. inbox[k] < next'
      BY <1>1, <1>4, <3>1
    <3>3. \A l \in DOMAIN inbox' : inbox'[l] = inbox'[k] => l = k
      BY <2>2, <2>4, <2>5, <3>1, Zenon
    <3> QED BY <1>4, <2>2, <3>1, <3>2, <3>3, Zenon
  <2>6. ASSUME m \in Packets
        PROVE  /\ m < next' /\ task'[m] = "idle"
               /\ \A l \in DOMAIN inbox' : inbox'[l] = m => l = n
    <3>1. m = next /\ m < next' /\ task[m] = "idle"
      BY <1>1, <1>4, <2>1, <2>6, SMTT(30) DEF Mailed
    <3>2. \A l \in DOMAIN inbox' : inbox'[l] = m => l = n
      BY <2>2, <2>4, <2>6, Zenon
    <3> QED BY <1>4, <3>1, <3>2, Zenon
  <2>7. \A k \in DOMAIN inbox' : inbox'[k] \in Packets =>
          /\ inbox'[k] < next' /\ task'[inbox'[k]] = "idle"
          /\ \A l \in DOMAIN inbox' : inbox'[l] = inbox'[k] => l = k
    BY <2>2, <2>5, <2>6, Zenon
  <2> QED BY <1>1, <1>4, <2>2, <2>3, <2>7, SMTT(30) DEF Mailed
<1>5. CASE task' # task
  BY <1>3, <1>5, Zenon DEF Quiet
<1> QED BY <1>2, <1>3, <1>4, <1>5, Zenon DEF Quiet

\* The mailbox under the steps of a future.
LEMMA TurnMailed ==
  ASSUME Shapes, Mailed, script' = script, NEW i \in Packets, Turn(i)
  PROVE  Mailed'
<1>1. /\ Packets' = Packets /\ 0 \notin Packets /\ Packets \subseteq Int
      /\ inbox \in Seq(Int) /\ next \in Nat /\ task \in [Packets -> Pcs]
  <2>1. script.packets \in Seq(PacketSet)
    BY InboundAssumption, Zenon DEF Shapes
  <2> QED BY <2>1 DEF Packets, Mailed, Shapes
<1>2. next' = next /\ task[i] # "idle" /\ \A j \in Packets : task[j] = "idle" => task'[j] = "idle"
  BY <1>1, Zenon DEF Turn
<1>3. \A j \in Packets : j >= next' => task'[j] = "idle"
  BY <1>2, Zenon DEF Mailed
<1>4. CASE inbox' = inbox
  BY <1>1, <1>2, <1>3, <1>4, Zenon DEF Mailed
<1>5. CASE inbox' = Append(inbox, 0)
  <2> DEFINE n == Len(inbox) + 1
  <2>1. /\ inbox' \in Seq(Int) /\ DOMAIN inbox' = DOMAIN inbox \cup {n} /\ n \notin DOMAIN inbox /\ inbox'[n] = 0
        /\ \A k \in DOMAIN inbox : inbox'[k] = inbox[k]
    BY <1>1, <1>5, PostFacts, SMTT(30)
  <2> HIDE DEF n
  <2>2. ASSUME NEW k \in DOMAIN inbox', inbox'[k] \in Packets
        PROVE  /\ inbox'[k] < next /\ task'[inbox'[k]] = "idle"
               /\ \A l \in DOMAIN inbox' : inbox'[l] = inbox'[k] => l = k
    <3>1. k \in DOMAIN inbox /\ inbox'[k] = inbox[k] /\ inbox[k] # 0
      BY <1>1, <2>1, <2>2, Zenon
    <3>2. /\ inbox[k] < next /\ task[inbox[k]] = "idle"
          /\ \A l \in DOMAIN inbox : inbox[l] = inbox[k] => l = k
      BY <2>2, <3>1, Zenon DEF Mailed
    <3> QED BY <1>2, <2>1, <2>2, <3>1, <3>2, Zenon
  <2> QED BY <1>1, <1>2, <1>3, <2>1, <2>2, Zenon DEF Mailed
<1> QED BY <1>4, <1>5, Zenon DEF Turn

\* Every step keeps what brought the handlers where they are.
LEMMA OriginsStep ==
  ASSUME Shapes, Origins, script' = script, Quiet \/ \E i \in Packets : Turn(i)
  PROVE  Origins'
<1>1. Packets' = Packets /\ \A i \in Packets : packet(i)' = packet(i)
  BY Zenon DEF Packets, packet
<1>2. CASE Quiet
  <2>1. \A i \in Packets : \/ task'[i] = task[i]
                           \/ task'[i] = "authorize" /\ packet(i).kind = "publish"
    BY <1>2, Zenon DEF Quiet, Shapes
  <2>2. waiting'.pc = "release" => waiting'.pkt \in Packets' /\ packet(waiting.pkt)'.kind = "pubrel"
    BY <1>2, Zenon DEF Quiet, packet, Packets
  <2>3. \A i \in Packets : /\ task'[i] # "idle" => packet(i).kind = "publish"
                           /\ task'[i] = "register" => packet(i).qos # 0
                           /\ task'[i] = "retain" => packet(i).retain # "no"
    BY <2>1, Zenon DEF Origins
  <2> QED BY <1>1, <2>2, <2>3, Zenon DEF Origins
<1>3. ASSUME NEW i \in Packets, Turn(i) PROVE Origins'
  <2>1. PICK pc \in Pcs \ {"idle"} : /\ task' = [task EXCEPT ![i] = pc]
                                     /\ pc = "register" => packet(i).qos # 0
                                     /\ pc = "retain" => packet(i).retain # "no"
    BY <1>3, Zenon DEF Turn
  <2>2. task[i] # "idle" /\ waiting' = waiting
    BY <1>3, Zenon DEF Turn
  <2>3. \A j \in Packets : task'[j] = IF j = i THEN pc ELSE task[j]
    BY <2>1, Zenon DEF Shapes
  <2>4. \A j \in Packets : /\ task'[j] # "idle" => packet(j).kind = "publish"
                           /\ task'[j] = "register" => packet(j).qos # 0
                           /\ task'[j] = "retain" => packet(j).retain # "no"
    BY <2>1, <2>2, <2>3 DEF Origins
  <2>5. waiting'.pc = "release" => waiting'.pkt \in Packets' /\ packet(waiting.pkt)'.kind = "pubrel"
    BY <2>2, Zenon DEF Origins, packet, Packets
  <2> QED BY <1>1, <2>4, <2>5, Zenon DEF Origins
<1> QED BY <1>2, <1>3, Zenon

\* Every step keeps the QoS 2 packets in the replicated table.
LEMMA RecordedStep ==
  ASSUME Shapes, Position, Origins, Recorded, [Next]_vars, Quiet \/ \E i \in Packets : Turn(i)
  PROVE  Recorded'
<1>1. script' = script /\ Packets' = Packets /\ \A i \in Packets : packet(i)' = packet(i)
  BY WroteGrows, Zenon DEF Packets, packet
<1>2. raft' = [id \in Ids |-> raft'[id]]
  BY RaftMoves, Zenon DEF Recorded
<1>3. ASSUME script.persistent, NEW i \in Packets,
             task'[i] \in {"retain", "route", "reply"}, packet(i).qos = 2
      PROVE  Safe(i)'
  <2>1. CASE task[i] \in {"retain", "route", "reply"}
    BY <1>3, <2>1, SafeKept, Zenon DEF Recorded
  <2>2. CASE task[i] \notin {"retain", "route", "reply"}
    <3>1. ~Quiet
      BY <1>3, <2>2, Zenon DEF Quiet, Shapes
    <3>2. PICK j \in Packets : Turn(j)
      BY <3>1, Zenon
    <3>3. PICK pc \in Pcs :
            /\ task' = [task EXCEPT ![j] = pc]
            /\ script.persistent /\ packet(j).qos = 2 /\ pc \in {"retain", "route", "reply"} =>
                 task[j] \in {"retain", "route"} \/ raft'[packet(j).id].state = "WaitPubrel"
      BY <3>2, Zenon DEF Turn
    <3>4. j = i /\ task'[i] = pc
      BY <1>3, <2>2, <3>3, Zenon DEF Shapes
    <3>5. raft'[packet(i).id].state = "WaitPubrel"
      BY <1>3, <2>2, <3>3, <3>4, Zenon
    <3> QED BY <1>1, <3>5, Zenon DEF Safe
  <2> QED BY <2>1, <2>2, Zenon
<1> QED BY <1>1, <1>2, <1>3, Zenon DEF Recorded

\* PUBREC is written for a packet that was refused or waits for its reply.
LEMMA PubrecFacts ==
  ASSUME Shapes, Position, [Next]_vars, NEW i \in Packets \ refused', Wrote("pubrec", i)'
  PROVE  i \notin refused /\ (Wrote("pubrec", i) \/ (task[i] = "reply" /\ packet(i).qos = 2))
<1>1. CASE Calm
  <2>1. CASE written' = written
    BY <1>1, <2>1, Zenon DEF Calm, Wrote
  <2>2. ASSUME NEW a \in Answers, a.kind \in Others, written' = Append(written, a)
        PROVE  Wrote("pubrec", i)
    <3>1. a # Answer("pubrec", i)
      BY <2>2 DEF Answer, Others
    <3> QED BY <2>2, <3>1, WriteFacts, Zenon
  <2> QED BY <1>1, <2>1, <2>2, Zenon DEF Calm
<1>2. ASSUME NEW j \in Packets, Acked(j)
      PROVE  i \notin refused /\ (Wrote("pubrec", i) \/ (task[i] = "reply" /\ packet(i).qos = 2))
  <2>1. PICK kind \in Acks : /\ written' = Append(written, Answer(kind, j))
                             /\ kind = "pubrec" => packet(j).qos = 2
    BY <1>2, Zenon DEF Acked
  <2>2. Answer(kind, j) \in Answers
    BY PacketFacts, Zenon DEF Answer, Answers
  <2>3. Wrote("pubrec", i) \/ Answer(kind, j) = Answer("pubrec", i)
    BY <2>1, <2>2, WriteFacts, Zenon
  <2>4. Answer(kind, j) = Answer("pubrec", i) => kind = "pubrec" /\ i = j
    BY Zenon DEF Answer
  <2>5. refused' = refused \cup {j} \/ (refused' = refused /\ task[j] = "reply")
    BY <1>2, Zenon DEF Acked
  <2> QED BY <2>1, <2>3, <2>4, <2>5, Zenon
<1>3. ASSUME NEW j \in Packets, Taken(j)
      PROVE  i \notin refused /\ Wrote("pubrec", i)
  BY <1>3, Zenon DEF Taken, Wrote
<1> QED BY <1>1, <1>2, <1>3, AckMoves, Zenon

\* Every step keeps the received packets.
LEMMA ReceivedStep ==
  ASSUME Shapes, Position, Origins, Recorded, ReceivedKept, [Next]_vars
  PROVE  ReceivedKept'
<1>1. script' = script /\ Packets' = Packets
  BY WroteGrows, Zenon DEF Packets
<1>2. ASSUME script.persistent, NEW i \in Packets \ refused', Wrote("pubrec", i)' PROVE Safe(i)'
  <2>1. i \notin refused /\ (Wrote("pubrec", i) \/ (task[i] = "reply" /\ packet(i).qos = 2))
    BY <1>2, PubrecFacts, Zenon
  <2>2. Safe(i)
    BY <1>2, <2>1, Zenon DEF ReceivedKept, Recorded, Safe
  <2> QED BY <1>2, <2>2, SafeKept, Zenon
<1> QED BY <1>1, <1>2, Zenon DEF ReceivedKept, Safe

-------------------------------------------------------------------------------
\* The retained message.

\* A step that touches neither the retained message nor what was routed.
LEMMA SameRetaining ==
  ASSUME Retaining, script' = script, UNCHANGED <<retained, routed>>,
         errors' = 0 => errors = 0, refusals' = 0 => refusals = 0,
         \A i \in Packets : packet(i).retain # "no" => (task'[i] = "route" <=> task[i] = "route")
  PROVE  Retaining'
<1>1. /\ Packets' = Packets /\ DOMAIN routed' = DOMAIN routed
      /\ \A i : packet(i)' = packet(i) /\ RetainedBy(i)' = RetainedBy(i)
      /\ \A k : LatestFlagged(k)' <=> LatestFlagged(k)
  BY Zenon DEF Packets, packet, RetainedBy, LatestFlagged
<1>2. \A i \in Packets : AtRoute(i)' <=> AtRoute(i)
  BY Zenon DEF AtRoute, packet
<1>3. Latest => Latest'
  BY <1>1, Zenon DEF Latest, RetainedBy, packet
<1> QED BY <1>1, <1>2, <1>3, Zenon DEF Retaining

\* Steps outside the futures.
LEMMA QuietRetaining ==
  ASSUME Shapes, Mailed, Retaining, script' = script, Quiet, errors' = 0 => errors = 0
  PROVE  Retaining'
<1>1. \A i \in Packets : task'[i] = "route" <=> task[i] = "route"
  <2>1. CASE task' = task  BY <2>1, Zenon
  <2>2. ASSUME NEW i \in Packets, inbox # <<>>, i = Head(inbox), inbox' = Tail(inbox),
               task' = [task EXCEPT ![i] = "authorize"]
        PROVE  \A j \in Packets : task'[j] = "route" <=> task[j] = "route"
    <3>1. task[i] = "idle"
      BY <2>2, TakeFacts, Zenon DEF Mailed
    <3> QED BY <2>2, <3>1, Zenon DEF Shapes
  <2> QED BY <2>1, <2>2, Zenon DEF Quiet
<1> QED BY <1>1, SameRetaining, Zenon DEF Quiet, Refuses

\* The latest flagged packet among those routed, when one more is.
LEMMA LatestFacts ==
  ASSUME Shapes, script' = script, NEW j \in Int, routed' = Append(routed, j), NEW k \in DOMAIN routed', LatestFlagged(k)'
  PROVE  \/ packet(j).retain # "no" /\ routed'[k] = j
         \/ packet(j).retain = "no" /\ k \in DOMAIN routed /\ routed'[k] = routed[k] /\ LatestFlagged(k)
<1> DEFINE n == Len(routed)
<1>1. routed \in Seq(Int) /\ n \in Nat /\ DOMAIN routed = 1..n
  BY SMTT(30) DEF Shapes
<1>2. /\ routed' \in Seq(Int) /\ DOMAIN routed' = 1..(n + 1) /\ routed'[n + 1] = j
      /\ \A l \in 1..n : routed'[l] = routed[l]
  BY <1>1, AppendProperties
<1> HIDE DEF n
<1>3. /\ packet(routed'[k]).retain # "no"
      /\ \A l \in DOMAIN routed' : l > k => packet(routed'[l]).retain = "no"
  BY Zenon DEF LatestFlagged, packet
<1>4. CASE k = n + 1
  BY <1>2, <1>3, <1>4, Zenon
<1>5. CASE k \in 1..n
  <2>1. n + 1 > k /\ n + 1 \in DOMAIN routed'
    BY <1>1, <1>2, <1>5
  <2>2. packet(j).retain = "no"
    BY <1>2, <1>3, <2>1, Zenon
  <2>3. \A l \in DOMAIN routed : l > k => packet(routed[l]).retain = "no"
    BY <1>1, <1>2, <1>3
  <2>4. LatestFlagged(k)
    BY <1>2, <1>3, <1>5, <2>3, Zenon DEF LatestFlagged
  <2> QED BY <1>1, <1>2, <1>5, <2>2, <2>4, Zenon
<1> QED BY <1>1, <1>2, <1>4, <1>5, SMTT(30)

\* Steps of a future: its message is retained before it is routed, in the same turn.
LEMMA TurnRetaining ==
  ASSUME Shapes, Turns, Origins, Retaining, script' = script, NEW i \in Packets,
         \/ Authorize(i) \/ Expired(i) \/ Policy(i) \/ Put(i) \/ Register(i) \/ Retain(i) \/ Route(i) \/ Reply(i),
         Fails, Refuses
  PROVE  Retaining'
<1>0. ASSUME ~(errors' = 0 /\ refusals' = 0) PROVE Retaining'
  BY <1>0, Zenon DEF Retaining
<1>1. ASSUME task[i] # "route", NEW pc, task' = [task EXCEPT ![i] = pc],
             pc = "route" => packet(i).retain = "no", UNCHANGED <<retained, routed>>
      PROVE  Retaining'
  <2>1. \A j \in Packets : packet(j).retain # "no" => (task'[j] = "route" <=> task[j] = "route")
    BY <1>1, Zenon DEF Shapes
  <2> QED BY <1>1, <2>1, SameRetaining, Zenon DEF Fails, Refuses
<1>2. AfterRegister(i) = "route" => packet(i).retain = "no"
  BY Zenon DEF AfterRegister
<1>3. AfterPut(i) = "route" => packet(i).retain = "no"
  BY <1>2, Zenon DEF AfterPut
<1>4. ASSUME NEW j \in Packets, task[j] = "route", Holds(i) PROVE j = i
  BY <1>4, Zenon DEF Turns, InTurn, Holds
<1>5. CASE Authorize(i)
  <2>1. UNCHANGED <<retained, routed>> /\ task[i] # "route"
    BY <1>5, Zenon DEF Authorize, At
  <2>2. CASE Goes(i, "policy")  BY <1>1, <2>1, <2>2, Zenon DEF Goes
  <2>3. CASE Done(i, TRUE)  BY <1>1, <2>1, <2>3, Zenon DEF Done
  <2> QED BY <1>5, <2>2, <2>3, Zenon DEF Authorize
<1>6. CASE Policy(i)
  <2>1. UNCHANGED <<retained, routed>> /\ task[i] # "route"
    BY <1>6, Zenon DEF Policy, At
  <2>2. CASE Goes(i, "put")  BY <1>1, <2>1, <2>2, Zenon DEF Goes
  <2>3. CASE Done(i, TRUE)  BY <1>1, <2>1, <2>3, Zenon DEF Done
  <2> QED BY <1>6, <2>2, <2>3, Zenon DEF Policy
<1>7. CASE Expired(i)
  <2>1. refusals' = refusals + 1 /\ refusals \in Nat
    BY <1>7, Zenon DEF Expired, Turns
  <2>2. refusals' # 0
    BY <2>1
  <2> QED BY <1>0, <2>2, Zenon
<1>8. CASE Put(i)
  <2>1. UNCHANGED <<retained, routed>> /\ task[i] # "route"
    BY <1>8, Zenon DEF Put, At
  <2>2. CASE Goes(i, AfterRegister(i))  BY <1>1, <1>2, <2>1, <2>2, Zenon DEF Goes
  <2>3. CASE Goes(i, AfterPut(i))  BY <1>1, <1>3, <2>1, <2>3, Zenon DEF Goes
  <2>4. CASE Done(i, FALSE)  BY <1>1, <2>1, <2>4, Zenon DEF Done
  <2> QED BY <1>8, <2>2, <2>3, <2>4, Zenon DEF Put
<1>9. CASE Register(i)
  <2>1. UNCHANGED <<retained, routed>> /\ task[i] # "route"
    BY <1>9, ZenonT(30) DEF Register, At
  <2>2. CASE Goes(i, AfterRegister(i))  BY <1>1, <1>2, <2>1, <2>2, Zenon DEF Goes
  <2>3. CASE Done(i, FALSE)  BY <1>1, <2>1, <2>3, Zenon DEF Done
  <2> QED BY <1>9, <2>2, <2>3, Zenon DEF Register
<1>10. CASE Reply(i)
  <2>1. UNCHANGED <<retained, routed>> /\ task[i] # "route" /\ task' = [task EXCEPT ![i] = "done"]
    BY <1>10, Zenon DEF Reply, Done
  <2> QED BY <1>1, <2>1, Zenon
<1>11. CASE Retain(i)
  <2>1. /\ task[i] = "retain" /\ Holds(i) /\ routed' = routed /\ task' = [task EXCEPT ![i] = "route"]
        /\ packet(i).retain # "no"
    BY <1>11, Zenon DEF Retain, At, Goes, Origins
  <2>2. PICK out \in Outcomes(retained, RetainedBy(i)) : retained' = out.value /\ Counted(out.ok)
    BY <1>11, Zenon DEF Retain
  <2>3. out.ok \in BOOLEAN /\ (out.ok => out.value = RetainedBy(i)) /\ errors \in Nat
    BY OutcomeFacts, Zenon DEF Shapes
  <2>4. errors' = 0 => retained' = RetainedBy(i)
    BY <2>2, <2>3, CountFacts, Zenon
  <2>5. Packets' = Packets /\ \A j \in Packets : AtRoute(j)' <=> j = i
    <3>1. \A j \in Packets : task'[j] = "route" <=> j = i
      BY <1>4, <2>1, Zenon DEF Shapes
    <3> QED BY <2>1, <3>1, Zenon DEF AtRoute, packet, Packets
  <2>6. RetainedBy(i)' = RetainedBy(i)
    BY Zenon DEF RetainedBy, packet
  <2> QED BY <2>4, <2>5, <2>6, Zenon DEF Retaining
<1>12. CASE Route(i)
  <2>1. task[i] = "route" /\ Holds(i) /\ retained' = retained
    BY <1>12, Zenon DEF Route
  <2>2. CASE errors < script.errors /\ Counted(FALSE)
    <3>1. errors' # 0
      BY <2>2, CountFacts, Zenon DEF Shapes
    <3> QED BY <1>0, <3>1, Zenon
  <2>3. CASE task' = [task EXCEPT ![i] = "reply"] /\ routed' = Append(routed, i)
    <3>1. Packets' = Packets /\ \A j \in Packets : ~AtRoute(j)'
      BY <1>4, <2>1, <2>3, Zenon DEF AtRoute, Shapes, Packets
    <3>2. ASSUME errors = 0, refusals = 0, NEW k \in DOMAIN routed', LatestFlagged(k)'
          PROVE  retained = RetainedBy(routed'[k])
      <4>1. \/ packet(i).retain # "no" /\ routed'[k] = i
            \/ packet(i).retain = "no" /\ k \in DOMAIN routed /\ routed'[k] = routed[k] /\ LatestFlagged(k)
        BY <2>3, <3>2, PacketFacts, LatestFacts, Zenon
      <4>2. CASE packet(i).retain # "no" /\ routed'[k] = i
        BY <2>1, <3>2, <4>2, Zenon DEF Retaining, AtRoute
      <4>3. CASE packet(i).retain = "no" /\ k \in DOMAIN routed /\ routed'[k] = routed[k] /\ LatestFlagged(k)
        <5>1. \A j \in Packets : ~AtRoute(j)
          BY <1>4, <2>1, <4>3, Zenon DEF AtRoute
        <5> QED BY <3>2, <4>3, <5>1, Zenon DEF Retaining, Latest
      <4> QED BY <4>1, <4>2, <4>3, Zenon
    <3>3. errors = 0 /\ refusals = 0 => Latest'
      BY <2>1, <3>2, Zenon DEF Latest, RetainedBy, packet
    <3> QED BY <3>1, <3>3, Zenon DEF Retaining, Fails, Refuses
  <2> QED BY <1>12, <2>2, <2>3, Zenon DEF Route
<1> QED BY <1>5, <1>6, <1>7, <1>8, <1>9, <1>10, <1>11, <1>12, Zenon

\* The invariant holds in every state.
LEMMA TurnsInductive == Spec => []TurnInv
<1>1. Init => TurnInv
  <2> SUFFICES ASSUME Init PROVE TurnInv
    BY Zenon
  <2>1. Turns
    BY DEF Init, Turns, InTurn
  <2>2. Mailed
    BY DEF Init, Mailed
  <2>3. Origins
    BY Zenon DEF Init, Origins, NotWaiting
  <2>4. Recorded
    BY Zenon DEF Init, Recorded
  <2>5. ReceivedKept
    BY DEF Init, ReceivedKept, Wrote
  <2>6. Retaining
    BY DEF Init, Retaining, AtRoute, Latest
  <2> QED BY <2>1, <2>2, <2>3, <2>4, <2>5, <2>6, ZenonT(30) DEF TurnInv
<1>2. ASSUME IInv, TurnInv, [Next]_vars PROVE TurnInv'
  <2>1. /\ Shapes /\ Position /\ Turns /\ Mailed /\ Origins /\ Recorded /\ ReceivedKept /\ Retaining
        /\ raft = [id \in Ids |-> raft[id]]
    BY <1>2, Zenon DEF IInv, TurnInv, Recorded
  <2>2. script' = script /\ Fails
    BY <1>2, SubscriptionsStep, Zenon DEF Kept
  <2>3. ReceivedKept'
    BY <1>2, <2>1, ReceivedStep, Zenon
  <2>4. ASSUME NEW i \in Packets,
               \/ Authorize(i) \/ Expired(i) \/ Policy(i) \/ Put(i) \/ Register(i) \/ Retain(i) \/ Route(i) \/ Reply(i)
        PROVE  TurnInv'
    <3>1. Turn(i) /\ Refuses
      BY <2>1, <2>4, PublishTurns, Zenon
    <3>2. Turns' /\ Mailed'
      BY <2>1, <2>2, <3>1, TurnTurns, TurnMailed, ZenonT(30)
    <3>3. Origins'
      BY <2>1, <2>2, <3>1, OriginsStep, Zenon
    <3>4. Recorded'
      BY <1>2, <2>1, <3>1, RecordedStep, ZenonT(30)
    <3>5. Retaining'
      BY <2>1, <2>2, <2>4, <3>1, TurnRetaining, Zenon
    <3> QED BY <2>3, <3>2, <3>3, <3>4, <3>5, Zenon DEF TurnInv
  <2>5. ASSUME Quiet PROVE TurnInv'
    <3>1. Turns' /\ Mailed'
      BY <2>1, <2>2, <2>5, QuietTurns, QuietMailed, Zenon
    <3>2. Origins'
      BY <2>1, <2>2, <2>5, OriginsStep, Zenon
    <3>3. Recorded'
      BY <1>2, <2>1, <2>5, RecordedStep, Zenon
    <3>4. Retaining'
      BY <2>1, <2>2, <2>5, QuietRetaining, Zenon DEF Fails
    <3> QED BY <2>3, <3>1, <3>2, <3>3, <3>4, Zenon DEF TurnInv
  <2>6. CASE Handle  BY <2>1, <2>5, <2>6, HandleQuiet, Zenon
  <2>7. CASE WaitStep  BY <2>1, <2>5, <2>7, WaitQuiet, Zenon
  <2>8. CASE Send \/ Spawned \/ UNCHANGED vars  BY <2>1, <2>5, <2>8, SpawnedQuiet, Zenon
  <2> QED BY <1>2, <2>4, <2>6, <2>7, <2>8, ZenonT(30) DEF Next, PublishStep
<1> QED BY <1>1, <1>2, Inductive, PTL DEF Spec

-------------------------------------------------------------------------------
\* From PUBREC to PUBCOMP a QoS 2 packet of a persistent session is in the replicated
\* inflight table (do_handle_publish, handle_pubrel), whatever calls fail in between and
\* however the cleanup tasks interleave: they remove finished items only.
THEOREM ReceivedIsKept == Spec => []ReceivedKept
<1>1. TurnInv => ReceivedKept
  BY Zenon DEF TurnInv
<1> QED BY <1>1, TurnsInductive, PTL

\* Between two PUBLISH packets the retained message is the one of the last flagged packet
\* routed, as long as no call failed and no plugin said no (do_handle_publish): retaining
\* and routing happen in one turn of the lock, so that both orders agree.
THEOREM RetainedIsLatest == Spec => []RetainedLatest
<1>1. TurnInv => RetainedLatest
  BY Zenon DEF TurnInv, Retaining, RetainedLatest, AtRoute, Latest
<1> QED BY <1>1, TurnsInductive, PTL
===============================================================================
