------------------------ MODULE ClusterMembershipProofs ------------------------
(***************************************************************************)
(* What the cluster endpoints leave behind, for any sets of nodes, any     *)
(* plan of the two operators and any number of leader changes and lost     *)
(* answers: no node is taken out of a group, an add_node call that reports *)
(* no error has changed every group, and a node that answers ready has     *)
(* seen every group with members.                                          *)
(*                                                                         *)
(* A call keeps the steps it has left and the errors it met, so its end    *)
(* says something of the groups only through what is recorded of the steps *)
(* that are behind it (Reported, Added), under an invariant on the groups  *)
(* themselves (Grounded).                                                  *)
(***************************************************************************)
EXTENDS ClusterMembership, FiniteSetTheorems, SequenceTheorems, TLAPS

\* Each group has its voters and its learners.
Shapes == DOMAIN voters = Groups /\ DOMAIN learners = Groups
          /\ voters = [g \in Groups |-> voters[g]] /\ learners = [g \in Groups |-> learners[g]]

Retained == \A g \in Groups : NodesOf(g) \subseteq NodesOf(g)'

Kept == Shapes' /\ Retained

\* Initializing changes a group without members only.
LEMMA VotersSet ==
  ASSUME Shapes, NEW g, NodesOf(g) = {}, voters' = [voters EXCEPT ![g] = Configured], learners' = learners
  PROVE  Kept
<1>1. Shapes'
  BY Zenon DEF Shapes
<1>2. ASSUME NEW h \in Groups PROVE NodesOf(h) \subseteq NodesOf(h)'
  BY Zenon DEF Shapes, NodesOf
<1> QED BY <1>1, <1>2, Zenon DEF Kept, Retained

\* A step that changes no members drops none.
LEMMA SameKept ==
  ASSUME Shapes, UNCHANGED <<voters, learners>>
  PROVE  Kept
BY Zenon DEF Shapes, Kept, Retained, NodesOf

\* What a leader does adds a learner, or turns voters into learners.
LEMMA ApplyKept ==
  ASSUME Shapes, NEW g, NEW ask, NEW members, Apply(g, ask, members)
  PROVE  Kept
<1>1. CASE Learn(g) /\ UNCHANGED voters
  <2>1. Shapes'
    BY <1>1, Zenon DEF Shapes, Learn
  <2>2. ASSUME NEW h \in Groups PROVE NodesOf(h) \subseteq NodesOf(h)'
    BY <1>1, Zenon DEF Shapes, Learn, NodesOf
  <2> QED BY <2>1, <2>2, Zenon DEF Kept, Retained
<1>2. CASE Change(g, members)
  <2>1. Shapes'
    BY <1>2, Zenon DEF Shapes, Change
  <2>2. ASSUME NEW h \in Groups PROVE NodesOf(h) \subseteq NodesOf(h)'
    <3>1. CASE h = g
      <4>1. voters'[h] = members /\ learners'[h] = (learners[h] \cup voters[h]) \ members
        BY <1>2, <3>1, Zenon DEF Shapes, Change
      <4> QED BY <4>1, Zenon DEF NodesOf
    <3>2. CASE h # g
      BY <1>2, <3>2, Zenon DEF Shapes, Change, NodesOf
    <3> QED BY <3>1, <3>2, Zenon
  <2> QED BY <2>1, <2>2, Zenon DEF Kept, Retained
<1> QED BY <1>1, <1>2, Zenon DEF Apply

\* No step of the system drops a node.
LEMMA StepKept ==
  ASSUME Shapes, [Next]_vars
  PROVE  Kept
<1>1. ASSUME NEW o, NEW i, InitRaftCluster(o, i) PROVE Kept
  <2>1. learners' = learners
    BY <1>1, Zenon DEF InitRaftCluster
  <2>2. CASE UNCHANGED voters
    BY <2>1, <2>2, SameKept, Zenon
  <2>3. CASE NodesOf(StepOf(o, i).group) = {} /\ voters' = [voters EXCEPT ![StepOf(o, i).group] = Configured]
    BY <2>1, <2>3, VotersSet, Zenon
  <2> QED BY <1>1, <2>2, <2>3, Zenon DEF InitRaftCluster
<1>2. ASSUME NEW o, NEW i,
             \/ GetLeader(o, i) \/ AnswerOfLeader(o, i) \/ GetRaftMetrics(o, i)
             \/ probe_local_cluster_rpc(o, i) \/ HttpFails(o, i)
      PROVE  Kept
  BY <1>2, SameKept, Zenon DEF GetLeader, AnswerOfLeader, GetRaftMetrics, probe_local_cluster_rpc, HttpFails, raft
<1>3. ASSUME NEW o, NEW i, AskLeader(o, i) PROVE Kept
  BY <1>3, ApplyKept, SameKept, Zenon DEF AskLeader, raft
<1>4. ASSUME NEW c, Late(c) PROVE Kept
  BY <1>4, ApplyKept, SameKept, Zenon DEF Late, raft
<1>5. ASSUME NEW o, Retry(o) PROVE Kept
  BY <1>5, SameKept, Zenon DEF Retry, raft
<1>6. ASSUME NEW g, NEW n, Follow(g) \/ Elect(g, n) PROVE Kept
  BY <1>6, SameKept, Zenon DEF Follow, Elect, raft
<1>7. ASSUME NEW g, NEW n, initialize_raft(g, n) PROVE Kept
  <2>1. learners' = learners
    BY <1>7, Zenon DEF initialize_raft
  <2>2. CASE voters' = voters
    BY <2>1, <2>2, SameKept, Zenon
  <2>3. CASE NodesOf(g) = {} /\ voters' = [voters EXCEPT ![g] = Configured]
    BY <2>1, <2>3, VotersSet, Zenon
  <2> QED BY <1>7, <2>2, <2>3, Zenon DEF initialize_raft
<1>8. CASE UNCHANGED vars
  BY <1>8, SameKept, Zenon DEF vars, raft
<1>9. ASSUME NEW o, Proceed(o) PROVE Kept
  BY <1>1, <1>2, <1>3, <1>9, Zenon DEF Proceed
<1> QED BY <1>2, <1>4, <1>5, <1>6, <1>7, <1>8, <1>9, Zenon
        DEF Next, topic_initialize_raft, session_actor_map_initialize_raft, session_state_initialize_raft

\* No endpoint, and no late, repeated or concurrent use of one, takes a node out of a
\* group (raft.initialize is refused twice, change_membership retains the old voters).
THEOREM NodesRetained == Spec => NoNodeDropped
<1>1. Init => Shapes
  BY Zenon DEF Init, Shapes
<1>2. Shapes /\ [Next]_vars => Shapes'
  BY StepKept, Zenon DEF Kept
<1>3. Shapes /\ [Next]_vars => [\A g \in Groups : NodesOf(g) \subseteq NodesOf(g)']_vars
  BY StepKept, Zenon DEF Kept, Retained
<1> QED BY <1>1, <1>2, <1>3, PTL DEF Spec, NoNodeDropped

-------------------------------------------------------------------------------
(* What add_node and the readiness answers say of the groups. *)

Jobs == [todo : SUBSET Nat, asked : SUBSET Nat, found : [Groups -> Nodes \cup {NoNode}],
         seen : [Groups -> Status], errors : BOOLEAN]
Calls == [group : Groups, ask : {"learner", "change"}, at : Nodes \cup {NoNode},
          members : {plan.calls[o].members : o \in Operators}]

Typed ==
  /\ voters \in [Groups -> SUBSET Nodes] /\ learners \in [Groups -> SUBSET Nodes]
  /\ leader \in [Groups -> Nodes \cup {NoNode}] /\ running \in [Groups -> SUBSET Nodes]
  /\ view \in [Groups -> [leader : Nodes \cup {NoNode}, nodes : SUBSET Nodes]]
  /\ plan \in Plans /\ job \in [Operators -> Jobs] /\ late \subseteq Calls /\ faults \in 0..MaxFaults
  /\ \A o \in Operators : job[o].todo \subseteq DOMAIN Called(o).steps

\* The steps of the endpoints: an endpoint asks a leader only to change the membership.
Steps ==
  {s \in [ask : {"init", "learner", "change", "leader", "metrics", "payload", "probe"},
          group : Groups, at : {"here", "leader"}] :
     s.at = "leader" => s.ask \in {"learner", "change"}}

\* A list of three.
LEMMA TripleIsSeq ==
  ASSUME NEW S, NEW x \in S, NEW y \in S, NEW z \in S
  PROVE  <<x, y, z>> \in Seq(S) /\ Len(<<x, y, z>>) = 3
OBVIOUS

\* An endpoint that asks the three groups in turn has three steps.
LEMMA AskAllSteps ==
  ASSUME NEW ask \in {"init", "learner", "leader", "metrics"},
         NEW a \in Groups, NEW b \in Groups, NEW c \in Groups
  PROVE  /\ AskAll(ask, <<a, b, c>>) \in Seq(Steps) /\ Len(AskAll(ask, <<a, b, c>>)) = 3
         /\ AskAll(ask, <<a, b, c>>)[1] = Step(ask, a, "here")
         /\ AskAll(ask, <<a, b, c>>)[2] = Step(ask, b, "here")
         /\ AskAll(ask, <<a, b, c>>)[3] = Step(ask, c, "here")
<1> DEFINE s == AskAll(ask, <<a, b, c>>)
<1>1. DOMAIN s = 1..3
  BY DEF AskAll
<1>2. s[1] = Step(ask, a, "here") /\ s[2] = Step(ask, b, "here") /\ s[3] = Step(ask, c, "here")
  BY <1>1 DEF AskAll
<1>3. \A g \in Groups : Step(ask, g, "here") \in Steps
  BY Zenon DEF Step, Steps
<1>4. s = <<Step(ask, a, "here"), Step(ask, b, "here"), Step(ask, c, "here")>>
  BY DEF AskAll
<1>5. s \in Seq(Steps) /\ Len(s) = 3
  BY <1>3, <1>4, TripleIsSeq, Zenon
<1> QED BY <1>2, <1>5, Zenon

\* Every endpoint is a list of steps.
LEMMA EndpointSteps ==
  ASSUME NEW e \in DOMAIN EndpointOf
  PROVE  EndpointOf[e].steps \in Seq(Steps)
<1>1. /\ init_topic_raft.steps \in Seq(Steps) /\ init_session_actor_map_raft.steps \in Seq(Steps)
      /\ init_session_state_raft.steps \in Seq(Steps)
  BY DEF init_topic_raft, init_session_actor_map_raft, init_session_state_raft, Endpoint, Step, Steps, Groups
<1> USE DEF Groups
<1>2. init_cluster.steps \in Seq(Steps) /\ add_learner.steps \in Seq(Steps) /\ metrics.steps \in Seq(Steps)
  BY AskAllSteps, Zenon DEF init_cluster, add_learner, metrics, Endpoint
<1>3. add_node_changes \in Seq(Steps)
  BY DEF add_node_changes, Step, Steps, topic_raft_add_learner, session_actor_map_raft_add_learner,
         session_state_raft_add_learner, topic_raft_change_membership,
         session_actor_map_raft_change_membership, session_state_raft_change_membership
<1>4. change_membership_changes \in Seq(Steps)
  BY DEF change_membership_changes, Step, Steps, topic_raft_change_membership,
         session_actor_map_raft_change_membership, session_state_raft_change_membership
<1>5. <<Step("payload", "state", "here"), Step("probe", "state", "here")>> \in Seq(Steps)
  BY DEF Step, Steps
<1>6. add_node_leaders \in Seq(Steps) /\ change_membership_leaders \in Seq(Steps)
      /\ AskAll("metrics", <<"topic", "map", "state">>) \in Seq(Steps)
  BY AskAllSteps, Zenon DEF add_node_leaders, change_membership_leaders
<1>7. add_node.steps \in Seq(Steps) /\ change_membership.steps \in Seq(Steps)
      /\ build_cluster_ready_response.steps \in Seq(Steps)
  BY <1>3, <1>4, <1>5, <1>6, ConcatProperties, Zenon
     DEF add_node, change_membership, build_cluster_ready_response, Endpoint
<1> HIDE DEF Groups
<1> QED BY <1>1, <1>2, <1>7, SMTT(30) DEF EndpointOf, status

\* Where the steps of a list of three and one of six come in their concatenation.
LEMMA ConcatOfTwo ==
  ASSUME NEW S, NEW l \in Seq(S), NEW c \in Seq(S), Len(l) = 3, Len(c) = 6
  PROVE  /\ Len(l \o c) = 9 /\ l \o c \in Seq(S)
         /\ \A i \in 1..9 : (l \o c)[i] = IF i <= 3 THEN l[i] ELSE c[i - 3]
<1>1. l \o c \in Seq(S) /\ Len(l \o c) = Len(l) + Len(c)
  BY ConcatProperties, Zenon
<1>2. \A i \in 1..(Len(l) + Len(c)) : (l \o c)[i] = IF i <= Len(l) THEN l[i] ELSE c[i - Len(l)]
  BY ConcatProperties, Zenon
<1> QED BY <1>1, <1>2, SMTT(30)

\* add_node asks the leaders to add a learner in its steps 4 to 6 and to change
\* the voters in its steps 7 to 9.
LearnAt == [topic |-> 4, map |-> 5, state |-> 6]
ChangeAt == [topic |-> 7, map |-> 8, state |-> 9]

\* The nine steps of add_node: three leaders, three learners, three changes.
LEMMA AddNodeSteps ==
  /\ EndpointOf["add_node"] = add_node /\ add_node.strict /\ ~add_node.joined
  /\ DOMAIN add_node.steps = 1..9
  /\ \A i \in 1..3 : add_node.steps[i].ask = "leader"
  /\ \A i \in 4..6 : add_node.steps[i].ask = "learner" /\ LearnAt[add_node.steps[i].group] = i
  /\ \A i \in 7..9 : add_node.steps[i].ask = "change" /\ ChangeAt[add_node.steps[i].group] = i
  /\ \A g \in Groups : /\ LearnAt[g] \in 4..6 /\ add_node.steps[LearnAt[g]].group = g
                       /\ ChangeAt[g] \in 7..9 /\ add_node.steps[ChangeAt[g]].group = g
<1> DEFINE s == add_node.steps
<1>1. EndpointOf["add_node"] = add_node /\ add_node.strict /\ ~add_node.joined
  BY Zenon DEF EndpointOf, add_node, Endpoint
<1>2. /\ add_node_leaders \in Seq(Steps) /\ Len(add_node_leaders) = 3
      /\ \A i \in 1..3 : add_node_leaders[i].ask = "leader"
  <2>1. /\ add_node_leaders \in Seq(Steps) /\ Len(add_node_leaders) = 3
        /\ add_node_leaders[1] = Step("leader", "topic", "here")
        /\ add_node_leaders[2] = Step("leader", "map", "here")
        /\ add_node_leaders[3] = Step("leader", "state", "here")
    BY AskAllSteps, Zenon DEF add_node_leaders, Groups
  <2>2. \A g : Step("leader", g, "here").ask = "leader"
    BY Zenon DEF Step
  <2> QED BY <2>1, <2>2
<1>3. /\ Len(add_node_changes) = 6 /\ DOMAIN add_node_changes = 1..6
      /\ add_node_changes[1].ask = "learner" /\ add_node_changes[1].group = "topic"
      /\ add_node_changes[2].ask = "learner" /\ add_node_changes[2].group = "map"
      /\ add_node_changes[3].ask = "learner" /\ add_node_changes[3].group = "state"
      /\ add_node_changes[4].ask = "change" /\ add_node_changes[4].group = "topic"
      /\ add_node_changes[5].ask = "change" /\ add_node_changes[5].group = "map"
      /\ add_node_changes[6].ask = "change" /\ add_node_changes[6].group = "state"
  BY DEF add_node_changes, Step, topic_raft_add_learner, session_actor_map_raft_add_learner,
         session_state_raft_add_learner, topic_raft_change_membership,
         session_actor_map_raft_change_membership, session_state_raft_change_membership
<1>4. add_node_changes \in Seq(Steps)
  BY DEF add_node_changes, Step, Steps, Groups, topic_raft_add_learner, session_actor_map_raft_add_learner,
         session_state_raft_add_learner, topic_raft_change_membership,
         session_actor_map_raft_change_membership, session_state_raft_change_membership
<1>5. s = add_node_leaders \o add_node_changes
  BY Zenon DEF add_node, Endpoint
<1>6. /\ Len(s) = 9 /\ s \in Seq(Steps)
      /\ \A i \in 1..9 : s[i] = IF i <= 3 THEN add_node_leaders[i] ELSE add_node_changes[i - 3]
  BY <1>2, <1>3, <1>4, <1>5, ConcatOfTwo, SMTT(30) DEF s
<1>7. /\ s[4] = add_node_changes[1] /\ s[5] = add_node_changes[2] /\ s[6] = add_node_changes[3]
      /\ s[7] = add_node_changes[4] /\ s[8] = add_node_changes[5] /\ s[9] = add_node_changes[6]
  BY <1>6
<1>8. DOMAIN s = 1..9 /\ \A i \in 1..3 : s[i].ask = "leader"
  <2> HIDE DEF s
  <2>1. DOMAIN s = 1..9
    BY <1>6
  <2>2. \A i \in 1..3 : s[i] = add_node_leaders[i]
    BY <1>6, SMTT(30)
  <2> QED BY <1>2, <2>1, <2>2, Zenon
<1> HIDE DEF s
<1>9. /\ \A i \in 4..6 : s[i].ask = "learner" /\ LearnAt[s[i].group] = i
      /\ \A i \in 7..9 : s[i].ask = "change" /\ ChangeAt[s[i].group] = i
      /\ \A g \in Groups : /\ LearnAt[g] \in 4..6 /\ s[LearnAt[g]].group = g
                           /\ ChangeAt[g] \in 7..9 /\ s[ChangeAt[g]].group = g
  BY <1>3, <1>7 DEF LearnAt, ChangeAt, Groups
<1> QED BY <1>1, <1>8, <1>9, Zenon DEF s

\* The step a call is at is a step on a group, for members that are nodes.
LEMMA StepFacts ==
  ASSUME Typed, NEW o \in Operators, NEW i \in job[o].todo
  PROVE  /\ StepOf(o, i) \in Steps /\ StepOf(o, i).group \in Groups
         /\ plan.calls[o].members \subseteq Nodes
<1>1. Called(o).steps \in Seq(Steps) /\ plan.calls[o].members \subseteq Nodes
  BY EndpointSteps, MembershipAssumption, Zenon DEF Typed, Called
<1>2. i \in DOMAIN Called(o).steps
  BY Zenon DEF Typed
<1>3. StepOf(o, i) \in Steps
  BY <1>1, <1>2 DEF StepOf
<1> QED BY <1>1, <1>3, Zenon DEF Steps

\* What a request's own moves do to it.
LEMMA LeftFacts ==
  ASSUME Typed, NEW o \in Operators, NEW t \in SUBSET job[o].todo
  PROVE  /\ Left(o, t) \in [Operators -> Jobs]
         /\ \A p \in Operators : p # o => Left(o, t)[p] = job[p]
         /\ Left(o, t)[o].todo = t /\ Left(o, t)[o].asked = job[o].asked \cap t
         /\ Left(o, t)[o].seen = job[o].seen /\ Left(o, t)[o].errors = job[o].errors
<1>1. job \in [Operators -> Jobs] /\ t \in SUBSET Nat /\ job[o].asked \cap t \in SUBSET Nat
  BY Zenon DEF Typed, Jobs
<1>2. (IF t = {} THEN [g \in Groups |-> NoNode] ELSE job[o].found) \in [Groups -> Nodes \cup {NoNode}]
  BY <1>1, Zenon DEF Jobs
<1> DEFINE f == IF t = {} THEN [g \in Groups |-> NoNode] ELSE job[o].found
           a == job[o].asked \cap t
<1>3. Left(o, t) = [job EXCEPT ![o] = [job[o] EXCEPT !.todo = t, !.asked = a, !.found = f]]
  BY <1>1, Zenon DEF Left, Jobs
<1> DEFINE j == [job[o] EXCEPT !.todo = t, !.asked = a, !.found = f]
<1>4. f \in [Groups -> Nodes \cup {NoNode}] /\ a \in SUBSET Nat
  BY <1>1, <1>2, Zenon
<1> HIDE DEF f, a
<1>5. j \in Jobs /\ j.todo = t /\ j.asked = a /\ j.seen = job[o].seen /\ j.errors = job[o].errors
  BY <1>1, <1>4, ZenonT(30) DEF Jobs
<1>6. Left(o, t) = [job EXCEPT ![o] = j]
  BY <1>3, Zenon
<1> HIDE DEF j
<1> QED BY <1>1, <1>5, <1>6, Zenon DEF a

\* A call that goes on keeps what it has read and whether it failed.
LEMMA AdvanceFacts ==
  ASSUME Typed, NEW o \in Operators, NEW i
  PROVE  /\ Advance(o, i) \in [Operators -> Jobs]
         /\ \A p \in Operators : p # o => Advance(o, i)[p] = job[p]
         /\ Advance(o, i)[o].todo = job[o].todo \ {i}
         /\ Advance(o, i)[o].asked = job[o].asked \cap (job[o].todo \ {i})
         /\ Advance(o, i)[o].seen = job[o].seen /\ Advance(o, i)[o].errors = job[o].errors
BY LeftFacts DEF Advance

\* A request that goes wrong: only the error matters of it.
Failing(j, o) ==
  /\ j \in [Operators -> Jobs] /\ \A p \in Operators : p # o => j[p] = job[p]
  /\ j[o].errors /\ j[o].seen = job[o].seen /\ j[o].todo \subseteq job[o].todo

\* Recording a failure changes nothing else in a call.
LEMMA SetsErrors ==
  ASSUME NEW j \in [Operators -> Jobs], NEW o \in Operators
  PROVE  /\ [j EXCEPT ![o].errors = TRUE] \in [Operators -> Jobs]
         /\ \A p \in Operators : p # o => [j EXCEPT ![o].errors = TRUE][p] = j[p]
         /\ [j EXCEPT ![o].errors = TRUE][o].errors = TRUE
         /\ [j EXCEPT ![o].errors = TRUE][o].seen = j[o].seen
         /\ [j EXCEPT ![o].errors = TRUE][o].todo = j[o].todo
BY ZenonT(30) DEF Jobs

\* A call that fails keeps its type, and its failure.
LEMMA FailFacts ==
  ASSUME Typed, NEW o \in Operators, NEW i
  PROVE  Failing(Fail(o, i), o)
<1> DEFINE t == IF Called(o).joined THEN job[o].todo \ {i} ELSE {}
<1>1. t \in SUBSET job[o].todo
  BY Zenon
<1>2. Fail(o, i) = [Left(o, t) EXCEPT ![o].errors = TRUE]
  BY Zenon DEF Fail
<1> HIDE DEF t
<1> DEFINE j == Left(o, t)
<1>3. /\ j \in [Operators -> Jobs] /\ \A p \in Operators : p # o => j[p] = job[p]
      /\ j[o].todo = t /\ j[o].seen = job[o].seen
  BY <1>1, LeftFacts, Zenon
<1> HIDE DEF j
<1> DEFINE k == [j EXCEPT ![o].errors = TRUE]
<1>4. /\ k \in [Operators -> Jobs] /\ \A p \in Operators : p # o => k[p] = j[p]
      /\ k[o].errors = TRUE /\ k[o].seen = j[o].seen /\ k[o].todo = j[o].todo
  BY <1>3, SetsErrors, Zenon
<1>5. Fail(o, i) = k
  BY <1>2, Zenon DEF j
<1> HIDE DEF k
<1> QED BY <1>1, <1>3, <1>4, <1>5, Zenon DEF Failing

\* A call begins with every step to do and nothing read.
LEMMA BeginFacts ==
  ASSUME plan \in Plans, NEW o \in Operators
  PROVE  /\ Begin(plan.calls[o]) \in Jobs /\ Begin(plan.calls[o]).todo = DOMAIN Called(o).steps
         /\ Begin(plan.calls[o]).asked = {} /\ ~Begin(plan.calls[o]).errors
         /\ \A g \in Groups : Begin(plan.calls[o]).seen[g] = build_not_ready_status
<1>1. EndpointOf[plan.calls[o].endpoint].steps \in Seq(Steps)
  BY EndpointSteps, MembershipAssumption, Zenon
<1>2. DOMAIN EndpointOf[plan.calls[o].endpoint].steps \in SUBSET Nat
  BY <1>1, SMTT(30)
<1>3. build_not_ready_status \in Status
  BY Zenon DEF build_not_ready_status, Status
<1> QED BY <1>2, <1>3, Zenon DEF Begin, Called, Jobs

\* What a step of the system does to the request of operator o: nothing, or it
\* fails, starts again, gets past its step i, or has its step i carried out.
Passed(o, i) ==
  /\ job'[o].todo = job[o].todo \ {i} /\ job'[o].asked \subseteq job[o].asked
  /\ job'[o].errors = job[o].errors
  /\ i \in job[o].asked \/ StepOf(o, i).ask \notin {"learner", "change"} \/ ~Called(o).strict
  /\ \A g \in Groups : \/ job'[o].seen[g] = job[o].seen[g]
                       \/ job'[o].seen[g].nodes = view[g].nodes

CarriedOut(o, i) ==
  /\ job'[o].todo = job[o].todo /\ job'[o].asked = job[o].asked \cup {i}
  /\ job'[o].errors = job[o].errors /\ job'[o].seen = job[o].seen
  /\ StepOf(o, i).ask \in {"learner", "change"}
  /\ Apply(StepOf(o, i).group, StepOf(o, i).ask, plan.calls[o].members)

Progress(o) ==
  \/ job'[o] = job[o]
  \/ job'[o].errors /\ job'[o].seen = job[o].seen /\ job'[o].todo \subseteq job[o].todo
  \/ job'[o] = Begin(plan.calls[o])
  \/ \E i \in job[o].todo : Passed(o, i) \/ CarriedOut(o, i)

Moves == job' \in [Operators -> Jobs] /\ \A o \in Operators : Progress(o)

\* A failed request is a move of its call.
LEMMA FailMoves ==
  ASSUME Typed, NEW o \in Operators, NEW i, job' = Fail(o, i)
  PROVE  Moves
BY FailFacts DEF Failing, Moves, Progress

\* A step that leaves the calls alone moves none.
LEMMA SameMoves ==
  ASSUME Typed, job' = job
  PROVE  Moves
BY Zenon DEF Typed, Moves, Progress

\* A call goes past a change only after a leader carried it out.
LEMMA AdvanceMoves ==
  ASSUME Typed, NEW o \in Operators, NEW i \in job[o].todo, job' = Advance(o, i),
         i \in job[o].asked \/ StepOf(o, i).ask \notin {"learner", "change"} \/ ~Called(o).strict
  PROVE  Moves
<1>1. /\ job' \in [Operators -> Jobs] /\ \A p \in Operators : p # o => job'[p] = job[p]
      /\ job'[o].todo = job[o].todo \ {i} /\ job'[o].asked \subseteq job[o].asked
      /\ job'[o].seen = job[o].seen /\ job'[o].errors = job[o].errors
  BY AdvanceFacts
<1>2. Passed(o, i)
  BY <1>1, Zenon DEF Passed
<1> QED BY <1>1, <1>2, Zenon DEF Moves, Progress

\* An HTTP answer from a peer is a move of its call.
LEMMA HttpAnswerMoves ==
  ASSUME Typed, NEW o \in Operators, NEW i \in job[o].todo, job' = post_json_with_auth(o, i)
  PROVE  Moves
BY FailMoves, AdvanceMoves, Zenon DEF post_json_with_auth

\* Every step of a call is one of the moves.
LEMMA RequestMoves ==
  ASSUME Typed, NEW o \in Operators, NEW i \in job[o].todo,
         \/ InitRaftCluster(o, i) \/ GetLeader(o, i) \/ AskLeader(o, i) \/ AnswerOfLeader(o, i)
         \/ GetRaftMetrics(o, i) \/ probe_local_cluster_rpc(o, i) \/ HttpFails(o, i)
  PROVE  Moves
<1>1. CASE InitRaftCluster(o, i)
  BY <1>1, FailMoves, AdvanceMoves, Zenon DEF InitRaftCluster
<1>2. CASE GetLeader(o, i)
  <2>1. CASE job' = Fail(o, i)
    BY <2>1, FailMoves, Zenon
  <2>2. CASE job' = [Advance(o, i) EXCEPT ![o].found[StepOf(o, i).group] = view[StepOf(o, i).group].leader]
    <3> DEFINE j == Advance(o, i)
               g == StepOf(o, i).group
    <3>1. j \in [Operators -> Jobs] /\ g \in Groups /\ view[g].leader \in Nodes \cup {NoNode}
      BY AdvanceFacts, StepFacts, Zenon DEF Typed
    <3>2. job' = [j EXCEPT ![o].found[g] = view[g].leader]
      BY <2>2, Zenon
    <3>3. /\ \A p \in Operators : p # o => j[p] = job[p]
          /\ j[o].todo = job[o].todo \ {i} /\ j[o].asked \subseteq job[o].asked
          /\ j[o].seen = job[o].seen /\ j[o].errors = job[o].errors
      BY AdvanceFacts
    <3>4. StepOf(o, i).ask \notin {"learner", "change"}
      BY <1>2, Zenon DEF GetLeader
    <3> HIDE DEF j, g
    <3>5. /\ job' \in [Operators -> Jobs] /\ \A p \in Operators : p # o => job'[p] = j[p]
          /\ job'[o].todo = j[o].todo /\ job'[o].asked = j[o].asked
          /\ job'[o].seen = j[o].seen /\ job'[o].errors = j[o].errors
      BY <3>1, <3>2, Zenon DEF Jobs
    <3>6. Passed(o, i)
      BY <3>3, <3>4, <3>5, Zenon DEF Passed
    <3> QED BY <3>3, <3>5, <3>6, Zenon DEF Moves, Progress
  <2> QED BY <1>2, <2>1, <2>2, Zenon DEF GetLeader
<1>3. CASE AskLeader(o, i)
  <2>1. CASE job' = post_json_with_auth(o, i)
    BY <2>1, HttpAnswerMoves, Zenon
  <2>2. CASE /\ Apply(StepOf(o, i).group, StepOf(o, i).ask, plan.calls[o].members)
             /\ job' = [job EXCEPT ![o].asked = @ \cup {i}]
    <3>1. /\ job' \in [Operators -> Jobs] /\ \A p \in Operators : p # o => job'[p] = job[p]
          /\ job'[o].todo = job[o].todo /\ job'[o].asked = job[o].asked \cup {i}
          /\ job'[o].seen = job[o].seen /\ job'[o].errors = job[o].errors
      <4> DEFINE a == job[o].asked \cup {i}
                 j == [job[o] EXCEPT !.asked = a]
      <4>1. job \in [Operators -> Jobs] /\ a \in SUBSET Nat
        BY Zenon DEF Typed, Jobs
      <4> HIDE DEF a
      <4>2. j \in Jobs /\ j.todo = job[o].todo /\ j.asked = a /\ j.seen = job[o].seen /\ j.errors = job[o].errors
        BY <4>1, Zenon DEF Jobs
      <4>3. job' = [job EXCEPT ![o] = j]
        BY <2>2, <4>1, Zenon DEF a
      <4> HIDE DEF j
      <4> QED BY <4>1, <4>2, <4>3, Zenon DEF a
    <3>2. CarriedOut(o, i)
      BY <1>3, <2>2, <3>1, Zenon DEF CarriedOut, AskLeader
    <3> QED BY <3>1, <3>2, Zenon DEF Moves, Progress
  <2> QED BY <1>3, <2>1, <2>2, Zenon DEF AskLeader
<1>4. CASE AnswerOfLeader(o, i)
  BY <1>4, AdvanceMoves, HttpAnswerMoves, Zenon DEF AnswerOfLeader
<1>5. CASE GetRaftMetrics(o, i)
  <2>1. CASE job' = Fail(o, i)
    BY <2>1, FailMoves, Zenon
  <2>2. CASE job' = Advance(o, i)
    BY <1>5, <2>2, AdvanceMoves, Zenon DEF GetRaftMetrics
  <2>3. CASE job' = [Advance(o, i) EXCEPT ![o].seen[StepOf(o, i).group] = evaluate_raft_metrics(StepOf(o, i).group)]
    <3> DEFINE j == Advance(o, i)
               g == StepOf(o, i).group
               m == evaluate_raft_metrics(g)
    <3>1. j \in [Operators -> Jobs] /\ g \in Groups /\ m \in Status /\ m.nodes = view[g].nodes
      BY AdvanceFacts, StepFacts, Zenon DEF Typed, evaluate_raft_metrics, Status
    <3>2. job' = [j EXCEPT ![o].seen[g] = m]
      BY <2>3, Zenon
    <3>3. /\ \A p \in Operators : p # o => j[p] = job[p]
          /\ j[o].todo = job[o].todo \ {i} /\ j[o].asked \subseteq job[o].asked
          /\ j[o].seen = job[o].seen /\ j[o].errors = job[o].errors
      BY AdvanceFacts
    <3>4. StepOf(o, i).ask \notin {"learner", "change"}
      BY <1>5, Zenon DEF GetRaftMetrics
    <3> HIDE DEF j, g, m
    <3>5. /\ job' \in [Operators -> Jobs] /\ \A p \in Operators : p # o => job'[p] = j[p]
          /\ job'[o].todo = j[o].todo /\ job'[o].asked = j[o].asked /\ job'[o].errors = j[o].errors
          /\ \A h \in Groups : job'[o].seen[h] = IF h = g THEN m ELSE j[o].seen[h]
      BY <3>1, <3>2, Zenon DEF Jobs
    <3>6. Passed(o, i)
      BY <3>1, <3>3, <3>4, <3>5, Zenon DEF Passed
    <3> QED BY <3>3, <3>5, <3>6, Zenon DEF Moves, Progress
  <2> QED BY <1>5, <2>1, <2>2, <2>3, ZenonT(30) DEF GetRaftMetrics
<1>6. CASE probe_local_cluster_rpc(o, i)
  <2>1. CASE job' = Advance(o, i)
    BY <1>6, <2>1, AdvanceMoves, Zenon DEF probe_local_cluster_rpc
  <2>2. CASE job' = [Advance(o, i) EXCEPT ![o].errors = TRUE]
    <3> DEFINE j == Advance(o, i)
    <3>1. /\ j \in [Operators -> Jobs] /\ \A p \in Operators : p # o => j[p] = job[p]
          /\ j[o].seen = job[o].seen /\ j[o].todo = job[o].todo \ {i}
      BY AdvanceFacts
    <3>2. /\ job' \in [Operators -> Jobs] /\ \A p \in Operators : p # o => job'[p] = j[p]
          /\ job'[o].errors = TRUE /\ job'[o].seen = j[o].seen /\ job'[o].todo = j[o].todo
      BY <2>2, <3>1, SetsErrors, Zenon
    <3> HIDE DEF j
    <3> QED BY <3>1, <3>2, Zenon DEF Moves, Progress
  <2> QED BY <1>6, <2>1, <2>2, Zenon DEF probe_local_cluster_rpc
<1>7. CASE HttpFails(o, i)
  BY <1>7, FailMoves, Zenon DEF HttpFails
<1> QED BY <1>1, <1>2, <1>3, <1>4, <1>5, <1>6, <1>7, ZenonT(30)

\* No step of the system does anything else to a call.
LEMMA StepMoves ==
  ASSUME Typed, [Next]_vars
  PROVE  Moves
<1>1. ASSUME NEW o \in Operators, Retry(o) PROVE Moves
  <2>1. Begin(plan.calls[o]) \in Jobs /\ job \in [Operators -> Jobs]
    BY BeginFacts, Zenon DEF Typed
  <2>2. job' = [job EXCEPT ![o] = Begin(plan.calls[o])]
    BY <1>1, Zenon DEF Retry
  <2> QED BY <2>1, <2>2, Zenon DEF Moves, Progress
<1>2. ASSUME NEW c, Late(c) PROVE Moves
  BY <1>2, SameMoves, Zenon DEF Late
<1>3. ASSUME NEW g, NEW n, Follow(g) \/ Elect(g, n) \/ initialize_raft(g, n) PROVE Moves
  BY <1>3, SameMoves, Zenon DEF Follow, Elect, initialize_raft
<1>4. CASE UNCHANGED vars
  BY <1>4, SameMoves, Zenon DEF vars
<1>5. ASSUME NEW o \in Operators, Proceed(o) PROVE Moves
  BY <1>5, RequestMoves, Zenon DEF Proceed
<1> QED BY <1>1, <1>2, <1>3, <1>4, <1>5, RequestMoves, ZenonT(30)
        DEF Next, topic_initialize_raft, session_actor_map_initialize_raft, session_state_initialize_raft

\* An actor that still starts refuses whatever an endpoint asks of a Raft group.
LEMMA ServesRuns ==
  ASSUME NEW g \in Groups, NEW n, NEW ask \in {"learner", "change"}, Serves(g, n, ask)
  PROVE  n \in running[g]
BY DEF Serves, Groups, Actor, Topic!AddLearnerMessage, Topic!ChangeMembershipMessage, Topic!Handler,
       Map!AddLearnerMessage, Map!ChangeMembershipMessage, Map!Handler,
       State!AddLearnerMessage, State!ChangeMembershipMessage, State!Handler

\* A group without voters commits nothing.
LEMMA NoMajorityOfNone ==
  ASSUME NEW g
  PROVE  ~Majority(g, {})
<1>1. {} \cap running[g] = {}
  BY Zenon
<1> QED BY <1>1, FS_EmptySet DEF Majority

\* A group with a leader has voters, the configured nodes are nodes of every
\* group that has any, and nobody is a voter and a learner.
Grounded ==
  \A g \in Groups :
    /\ leader[g] # NoNode => voters[g] # {}
    /\ NodesOf(g) # {} => Configured \subseteq NodesOf(g) /\ voters[g] # {}
    /\ voters[g] \cap learners[g] = {}

\* What a step does to a group: its voters stay, or it had no node, or they
\* become what an operator asked for.
Regrouped(g) ==
  \/ voters'[g] = voters[g]
  \/ NodesOf(g) = {}
  \/ \E p \in Operators : voters'[g] = plan.calls[p].members

Settles ==
  /\ voters' \in [Groups -> SUBSET Nodes] /\ learners' \in [Groups -> SUBSET Nodes]
  /\ Grounded' /\ \A g \in Groups : Regrouped(g)

\* A step that leaves the groups alone.
LEMMA SameSettles ==
  ASSUME Typed, Grounded, UNCHANGED <<voters, learners, leader>>
  PROVE  Settles
BY Zenon DEF Typed, Settles, Grounded, Regrouped, NodesOf

\* Initializing an empty group gives it the configured nodes.
LEMMA InitSettles ==
  ASSUME Typed, Grounded, NEW g \in Groups, NodesOf(g) = {},
         voters' = [voters EXCEPT ![g] = Configured], learners' = learners, leader' = leader
  PROVE  Settles
<1>1. Configured \subseteq Nodes /\ Configured # {}
  BY MembershipAssumption, Zenon DEF Nodes
<1>2. voters' \in [Groups -> SUBSET Nodes] /\ voters'[g] = Configured
  BY <1>1, Zenon DEF Typed
<1>3. \A h \in Groups : h # g => voters'[h] = voters[h]
  BY Zenon DEF Typed
<1>4. voters[g] = {} /\ learners[g] = {}
  BY Zenon DEF NodesOf
<1>5. Grounded'
  BY <1>1, <1>2, <1>3, <1>4, Zenon DEF Grounded, NodesOf
<1>6. \A h \in Groups : Regrouped(h)
  BY <1>3, Zenon DEF Regrouped
<1> QED BY <1>2, <1>5, <1>6, Zenon DEF Settles, Typed

\* A leader carries out what an operator asked for.
LEMMA ApplySettles ==
  ASSUME Typed, Grounded, NEW g \in Groups, NEW n, NEW ask \in {"learner", "change"},
         NEW p \in Operators, Takes(g, n, ask, plan.calls[p].members), Apply(g, ask, plan.calls[p].members)
  PROVE  Settles
<1> DEFINE members == plan.calls[p].members
<1>1. members \subseteq Nodes /\ Joining \in Nodes
  BY MembershipAssumption, Zenon DEF Typed, Nodes
<1>2. n \in running[g] /\ leader[g] = n /\ leader' = leader
  BY ServesRuns, Zenon DEF Takes, Apply
<1>3. leader[g] # NoNode
  BY <1>2, MembershipAssumption, Zenon DEF Typed
<1>4. voters[g] # {} /\ Configured \subseteq NodesOf(g)
  BY <1>3, Zenon DEF Grounded, NodesOf
<1> HIDE DEF members
<1>5. CASE Learn(g) /\ UNCHANGED voters
  <2>1. /\ learners' \in [Groups -> SUBSET Nodes]
        /\ learners'[g] = learners[g] \cup ({Joining} \ voters[g])
        /\ \A h \in Groups : h # g => learners'[h] = learners[h]
    BY <1>1, <1>5, Zenon DEF Typed, Learn
  <2>2. Grounded'
    BY <1>2, <1>4, <1>5, <2>1, Zenon DEF Grounded, NodesOf
  <2> QED BY <1>5, <2>1, <2>2, Zenon DEF Settles, Regrouped, Typed
<1>6. CASE Change(g, members) /\ Majority(g, members)
  <2>1. members # {}
    BY <1>6, NoMajorityOfNone, Zenon
  <2>2. /\ voters' \in [Groups -> SUBSET Nodes] /\ voters'[g] = members
        /\ \A h \in Groups : h # g => voters'[h] = voters[h]
    BY <1>1, <1>6, Zenon DEF Typed, Change
  <2>3. /\ learners' \in [Groups -> SUBSET Nodes] /\ learners'[g] = (learners[g] \cup voters[g]) \ members
        /\ \A h \in Groups : h # g => learners'[h] = learners[h]
    BY <1>6, Zenon DEF Typed, Change
  <2>4. Grounded'
    BY <1>2, <1>4, <2>1, <2>2, <2>3, ZenonT(30) DEF Grounded, NodesOf
  <2> QED BY <2>2, <2>3, <2>4, Zenon DEF Settles, Regrouped, members
<1> QED BY <1>5, <1>6, Zenon DEF Apply, members

\* A call that is carried out late was made by an operator.
LEMMA LateFacts ==
  ASSUME Typed, NEW c \in late
  PROVE  /\ c.group \in Groups /\ c.ask \in {"learner", "change"}
         /\ \E p \in Operators : c.members = plan.calls[p].members
BY Zenon DEF Typed, Calls

\* Every step keeps the groups grounded.
LEMMA StepSettles ==
  ASSUME Typed, Grounded, [Next]_vars
  PROVE  Settles
<1>1. ASSUME NEW o \in Operators, NEW i \in job[o].todo, InitRaftCluster(o, i) PROVE Settles
  <2>1. StepOf(o, i).group \in Groups
    BY StepFacts, Zenon
  <2> QED BY <1>1, <2>1, InitSettles, SameSettles, Zenon DEF InitRaftCluster
<1>2. ASSUME NEW o, NEW i,
             \/ GetLeader(o, i) \/ AnswerOfLeader(o, i) \/ GetRaftMetrics(o, i)
             \/ probe_local_cluster_rpc(o, i) \/ HttpFails(o, i)
      PROVE  Settles
  BY <1>2, SameSettles, Zenon DEF GetLeader, AnswerOfLeader, GetRaftMetrics, probe_local_cluster_rpc, HttpFails, raft
<1>3. ASSUME NEW o \in Operators, NEW i \in job[o].todo, AskLeader(o, i) PROVE Settles
  <2>1. StepOf(o, i).group \in Groups
    BY StepFacts, Zenon
  <2> QED BY <1>3, <2>1, ApplySettles, SameSettles, ZenonT(30) DEF AskLeader, raft
<1>4. ASSUME NEW c \in late, Late(c) PROVE Settles
  <2>1. PICK p \in Operators : c.members = plan.calls[p].members
    BY LateFacts, Zenon
  <2>2. CASE Takes(c.group, c.at, c.ask, c.members) /\ Apply(c.group, c.ask, c.members)
    BY <2>1, <2>2, LateFacts, ApplySettles, Zenon
  <2> QED BY <1>4, <2>2, SameSettles, Zenon DEF Late, raft
<1>5. ASSUME NEW o, Retry(o) PROVE Settles
  BY <1>5, SameSettles, Zenon DEF Retry, raft
<1>6. ASSUME NEW g, Follow(g) PROVE Settles
  BY <1>6, SameSettles, Zenon DEF Follow, raft
<1>7. ASSUME NEW g \in Groups, NEW n \in Nodes, Elect(g, n) PROVE Settles
  <2>1. voters' = voters /\ learners' = learners /\ voters[g] # {}
    BY <1>7, Zenon DEF Elect
  <2>2. \A h \in Groups : leader'[h] = leader[h] \/ h = g
    BY <1>7, Zenon DEF Elect, Typed
  <2>3. Grounded'
    BY <2>1, <2>2, Zenon DEF Grounded, NodesOf
  <2> QED BY <2>1, <2>3, Zenon DEF Settles, Regrouped, Typed
<1>8. ASSUME NEW g \in Groups, NEW n, initialize_raft(g, n) PROVE Settles
  BY <1>8, InitSettles, SameSettles, Zenon DEF initialize_raft
<1>9. CASE UNCHANGED vars
  BY <1>9, SameSettles, Zenon DEF vars, raft
<1>10. ASSUME NEW o \in Operators, Proceed(o) PROVE Settles
  BY <1>1, <1>2, <1>3, <1>10, Zenon DEF Proceed
<1> QED BY <1>2, <1>4, <1>5, <1>6, <1>7, <1>8, <1>9, <1>10, ZenonT(30)
        DEF Next, Groups, topic_initialize_raft, session_actor_map_initialize_raft, session_state_initialize_raft

\* Whatever Here learns of a group is what the group is at that moment.
Informed ==
  /\ view' \in [Groups -> [leader : Nodes \cup {NoNode}, nodes : SUBSET Nodes]]
  /\ leader' \in [Groups -> Nodes \cup {NoNode}]
  /\ \A g \in Groups : view'[g] = view[g] \/ view'[g].nodes = NodesOf(g)'

\* A step in which Here learns nothing.
LEMMA SameInformed ==
  ASSUME Typed, UNCHANGED <<view, leader>>
  PROVE  Informed
BY Zenon DEF Typed, Informed

\* What Here learns of a group is what the group is then.
LEMMA InformInformed ==
  ASSUME Typed, NEW g \in Groups, NEW n \in Nodes \cup {NoNode}, NEW nodes \in SUBSET Nodes,
         nodes = NodesOf(g)', Inform(g, n, nodes) \/ view' = [view EXCEPT ![g] = Known(g, n, nodes)],
         leader' \in [Groups -> Nodes \cup {NoNode}]
  PROVE  Informed
<1> DEFINE k == Known(g, n, nodes)
<1>1. k \in [leader : Nodes \cup {NoNode}, nodes : SUBSET Nodes] /\ k.nodes = nodes
  BY Zenon DEF Known
<1>2. view' = view \/ view' = [view EXCEPT ![g] = k]
  BY Zenon DEF Inform
<1> HIDE DEF k
<1> QED BY <1>1, <1>2, SMTT(30) DEF Typed, Informed

\* Here may learn of a change as it is carried out.
LEMMA ApplyInformed ==
  ASSUME Typed, Settles, NEW g \in Groups, NEW ask, NEW members, Apply(g, ask, members)
  PROVE  Informed
<1>1. voters'[g] \cup learners'[g] = NodesOf(g)' /\ NodesOf(g)' \in SUBSET Nodes
  BY Zenon DEF NodesOf, Settles
<1>2. leader[g] \in Nodes \cup {NoNode} /\ leader' \in [Groups -> Nodes \cup {NoNode}]
  BY Zenon DEF Typed, Apply
<1> QED BY <1>1, <1>2, InformInformed, Zenon DEF Apply

\* Every step tells Here the truth or nothing.
LEMMA StepInformed ==
  ASSUME Typed, Settles, [Next]_vars
  PROVE  Informed
<1>1. ASSUME NEW o, NEW i,
             \/ InitRaftCluster(o, i) \/ GetLeader(o, i) \/ AnswerOfLeader(o, i) \/ GetRaftMetrics(o, i)
             \/ probe_local_cluster_rpc(o, i) \/ HttpFails(o, i)
      PROVE  Informed
  BY <1>1, SameInformed, Zenon DEF InitRaftCluster, GetLeader, AnswerOfLeader, GetRaftMetrics,
                            probe_local_cluster_rpc, HttpFails, raft
<1>2. ASSUME NEW o \in Operators, NEW i \in job[o].todo, AskLeader(o, i) PROVE Informed
  BY <1>2, StepFacts, ApplyInformed, SameInformed, Zenon DEF AskLeader, raft
<1>3. ASSUME NEW c \in late, Late(c) PROVE Informed
  BY <1>3, LateFacts, ApplyInformed, SameInformed, Zenon DEF Late, raft
<1>4. ASSUME NEW o, Retry(o) PROVE Informed
  BY <1>4, SameInformed, Zenon DEF Retry, raft
<1>5. ASSUME NEW g \in Groups, Follow(g) PROVE Informed
  <2>1. NodesOf(g)' = NodesOf(g) /\ leader' = leader
    BY <1>5, Zenon DEF Follow, raft, NodesOf
  <2>2. NodesOf(g) \in SUBSET Nodes /\ leader[g] \in Nodes \cup {NoNode}
    BY Zenon DEF Typed, NodesOf
  <2> QED BY <1>5, <2>1, <2>2, InformInformed, Zenon DEF Follow, Typed
<1>6. ASSUME NEW g \in Groups, NEW n \in Nodes, Elect(g, n) PROVE Informed
  <2>1. NodesOf(g)' = NodesOf(g) /\ leader' \in [Groups -> Nodes \cup {NoNode}]
    BY <1>6, Zenon DEF Elect, NodesOf, Typed
  <2>2. NodesOf(g) \in SUBSET Nodes
    BY Zenon DEF Typed, NodesOf
  <2> QED BY <1>6, <2>1, <2>2, InformInformed, Zenon DEF Elect
<1>7. ASSUME NEW g, NEW n, initialize_raft(g, n) PROVE Informed
  BY <1>7, SameInformed, Zenon DEF initialize_raft
<1>8. CASE UNCHANGED vars
  BY <1>8, SameInformed, Zenon DEF vars, raft
<1>9. ASSUME NEW o \in Operators, Proceed(o) PROVE Informed
  BY <1>1, <1>2, <1>9, Zenon DEF Proceed
<1> QED BY <1>1, <1>3, <1>4, <1>5, <1>6, <1>7, <1>8, <1>9, ZenonT(30)
        DEF Next, topic_initialize_raft, session_actor_map_initialize_raft, session_state_initialize_raft

\* The rest of the state: which actors run, calls that are late, the plan.
Others ==
  /\ plan' = plan /\ running' \in [Groups -> SUBSET Nodes]
  /\ late' \subseteq Calls /\ faults' \in 0..MaxFaults

\* A step that leaves the rest alone.
LEMMA SameOthers ==
  ASSUME Typed, UNCHANGED <<plan, running, faults>>, late' \subseteq late
  PROVE  Others
BY Zenon DEF Typed, Others

\* Every step keeps the types of the rest.
LEMMA StepOthers ==
  ASSUME Typed, [Next]_vars
  PROVE  Others
<1>1. ASSUME NEW o, NEW i,
             \/ InitRaftCluster(o, i) \/ GetLeader(o, i) \/ AskLeader(o, i) \/ AnswerOfLeader(o, i)
             \/ GetRaftMetrics(o, i) \/ probe_local_cluster_rpc(o, i)
      PROVE  Others
  BY <1>1, SameOthers, Zenon DEF InitRaftCluster, GetLeader, AskLeader, AnswerOfLeader, GetRaftMetrics,
                          probe_local_cluster_rpc, Apply
<1>2. ASSUME NEW o \in Operators, NEW i \in job[o].todo, HttpFails(o, i) PROVE Others
  <2> DEFINE g == StepOf(o, i).group
             a == StepOf(o, i).ask
             n == Target(o, i)
             m == plan.calls[o].members
             c == [group |-> g, ask |-> a, at |-> n, members |-> m]
  <2>1. g \in Groups /\ a \in {"learner", "change"} /\ StepOf(o, i).at = "leader"
    BY <1>2, StepFacts, Zenon DEF HttpFails, Steps
  <2>2. n \in Nodes \cup {NoNode}
    <3>1. job[o].found \in [Groups -> Nodes \cup {NoNode}]
      BY Zenon DEF Typed, Jobs
    <3> QED BY <2>1, <3>1, Zenon DEF Target
  <2>3. late' \subseteq late \cup {c}
    BY <1>2, Zenon DEF HttpFails
  <2> HIDE DEF g, a, n
  <2>4. c \in Calls
    BY <2>1, <2>2, Zenon DEF Calls
  <2>5. plan' = plan /\ running' = running /\ faults < MaxFaults /\ faults' = faults + 1
    BY <1>2, Zenon DEF HttpFails
  <2>6. faults' \in 0..MaxFaults
    BY <2>5, MembershipAssumption DEF Typed
  <2> HIDE DEF c
  <2> QED BY <2>3, <2>4, <2>5, <2>6, Zenon DEF Others, Typed
<1>3. ASSUME NEW c, Late(c) PROVE Others
  BY <1>3, SameOthers, Zenon DEF Late, Apply
<1>4. ASSUME NEW o, Retry(o) PROVE Others
  BY <1>4, SameOthers, Zenon DEF Retry
<1>5. ASSUME NEW g, Follow(g) PROVE Others
  BY <1>5, SameOthers, Zenon DEF Follow
<1>6. ASSUME NEW g, NEW n, Elect(g, n) PROVE Others
  <2>1. UNCHANGED <<plan, running, late>> /\ (faults' = faults \/ (faults < MaxFaults /\ faults' = faults + 1))
    BY <1>6, Zenon DEF Elect
  <2>2. faults' \in 0..MaxFaults
    BY <2>1, MembershipAssumption, SMTT(30) DEF Typed
  <2> QED BY <2>1, <2>2, Zenon DEF Others, Typed
<1>7. ASSUME NEW g, NEW n \in Nodes, initialize_raft(g, n) PROVE Others
  BY <1>7, Zenon DEF initialize_raft, Others, Typed
<1>8. CASE UNCHANGED vars
  BY <1>8, SameOthers, Zenon DEF vars
<1>9. ASSUME NEW o \in Operators, Proceed(o) PROVE Others
  BY <1>1, <1>9, Zenon DEF Proceed
<1> QED BY <1>2, <1>3, <1>4, <1>5, <1>6, <1>7, <1>8, <1>9, ZenonT(30)
        DEF Next, topic_initialize_raft, session_actor_map_initialize_raft, session_state_initialize_raft

\* Every step keeps the types and the groups in order.
LEMMA TypedStep ==
  ASSUME Typed, Grounded, [Next]_vars
  PROVE  Typed' /\ Grounded'
<1>1. Moves /\ Settles /\ Informed /\ Others
  BY StepMoves, StepSettles, StepInformed, StepOthers, Zenon
<1>2. Calls' = Calls
  BY <1>1, Zenon DEF Others, Calls
<1>3. ASSUME NEW o \in Operators PROVE job'[o].todo \subseteq DOMAIN Called(o)'.steps
  <2>1. Called(o)' = Called(o)
    BY <1>1, Zenon DEF Others, Called
  <2>2. job[o].todo \subseteq DOMAIN Called(o).steps
    BY Zenon DEF Typed
  <2>3. job'[o].todo \subseteq job[o].todo \/ job'[o].todo = DOMAIN Called(o).steps
    BY <1>1, BeginFacts, Zenon DEF Typed, Moves, Progress, Passed, CarriedOut
  <2> QED BY <2>1, <2>2, <2>3, ZenonT(30)
<1> QED BY <1>1, <1>2, <1>3, Zenon DEF Typed, Moves, Settles, Informed, Others

-------------------------------------------------------------------------------
\* What was reported of a group is true of it: no node was added to the report,
\* and a report that is not empty has all configured nodes.
Agrees(g, nodes) == nodes \subseteq NodesOf(g) /\ (nodes # {} => Configured \subseteq nodes)

Reported ==
  \A g \in Groups : /\ Agrees(g, view[g].nodes)
                   /\ \A o \in Operators : Agrees(g, job[o].seen[g].nodes)

\* What a readiness call has read stays true of the groups.
LEMMA ReportedStep ==
  ASSUME Typed, Grounded, Reported, [Next]_vars
  PROVE  Reported'
<1>1. Moves /\ Settles /\ Informed /\ Kept
  <2>1. Shapes
    BY Zenon DEF Typed, Shapes
  <2> QED BY <2>1, StepMoves, StepSettles, StepInformed, StepKept, ZenonT(30)
<1> SUFFICES ASSUME NEW g \in Groups
             PROVE  /\ Agrees(g, view[g].nodes)'
                    /\ \A o \in Operators : Agrees(g, job[o].seen[g].nodes)'
  BY Zenon DEF Reported
<1>2. NodesOf(g) \subseteq NodesOf(g)' /\ (NodesOf(g)' # {} => Configured \subseteq NodesOf(g)')
  BY <1>1, Zenon DEF Kept, Retained, Settles, Grounded
<1>3. Agrees(g, view[g].nodes)'
  BY <1>1, <1>2, Zenon DEF Informed, Reported, Agrees
<1>4. ASSUME NEW o \in Operators PROVE Agrees(g, job[o].seen[g].nodes)'
  <2>1. \/ job'[o].seen[g] = job[o].seen[g] \/ job'[o].seen[g].nodes = view[g].nodes
        \/ job'[o].seen[g].nodes = {}
    BY <1>1, BeginFacts, SMTT(30) DEF Typed, Moves, Progress, Passed, CarriedOut, build_not_ready_status
  <2> QED BY <1>2, <2>1, ZenonT(30) DEF Reported, Agrees
<1> QED BY <1>3, <1>4, Zenon

\* add_node is past its step i, or has had it carried out.
Past(o, i) == i \notin job[o].todo \/ i \in job[o].asked

Unanimous(o) == \A p \in Operators : plan.calls[p].members = plan.calls[o].members

Added ==
  \A o \in Operators : plan.calls[o].endpoint = "add_node" /\ ~job[o].errors =>
    \A g \in Groups :
      /\ Past(o, LearnAt[g]) => Joining \in NodesOf(g)
      /\ Past(o, ChangeAt[g]) /\ Unanimous(o) => voters[g] = plan.calls[o].members /\ NodesOf(g) # {}

\* What an add_node call has done stays done.
LEMMA AddedStep ==
  ASSUME Typed, Grounded, Added, [Next]_vars
  PROVE  Added'
<1>1. Moves /\ Settles /\ Others /\ Kept
  <2>1. Shapes
    BY Zenon DEF Typed, Shapes
  <2> QED BY <2>1, StepMoves, StepSettles, StepOthers, StepKept, ZenonT(30)
<1>2. plan' = plan
  BY <1>1, Zenon DEF Others
<1> SUFFICES ASSUME NEW o \in Operators, plan.calls[o].endpoint = "add_node", ~job'[o].errors,
                    NEW g \in Groups
             PROVE  /\ Past(o, LearnAt[g])' => Joining \in NodesOf(g)'
                    /\ Past(o, ChangeAt[g])' /\ Unanimous(o) =>
                         voters'[g] = plan.calls[o].members /\ NodesOf(g)' # {}
  BY <1>2, Zenon DEF Added, Unanimous
<1>3. Called(o) = add_node
  BY AddNodeSteps, Zenon DEF Called
<1>4. ASSUME Joining \in NodesOf(g) PROVE Joining \in NodesOf(g)'
  BY <1>1, <1>4, Zenon DEF Kept, Retained
<1>5. ASSUME Unanimous(o), voters[g] = plan.calls[o].members, NodesOf(g) # {}
      PROVE  voters'[g] = plan.calls[o].members /\ NodesOf(g)' # {}
  BY <1>1, <1>5, ZenonT(30) DEF Settles, Regrouped, Unanimous, Kept, Retained
<1>6. CASE ~job[o].errors /\ \A i \in 4..9 : Past(o, i)' => Past(o, i)
  <2>1. /\ Past(o, LearnAt[g])' => Past(o, LearnAt[g])
        /\ Past(o, ChangeAt[g])' => Past(o, ChangeAt[g])
    BY <1>6, AddNodeSteps, SMTT(30)
  <2> QED BY <1>4, <1>5, <1>6, <2>1, ZenonT(30) DEF Added
<1>7. CASE job'[o] = job[o]
  BY <1>6, <1>7, ZenonT(30) DEF Past
<1>8. CASE job'[o] = Begin(plan.calls[o])
  <2>1. job'[o].todo = 1..9 /\ job'[o].asked = {}
    <3>1. plan \in Plans
      BY Zenon DEF Typed
    <3> QED BY <1>3, <1>8, <3>1, BeginFacts, AddNodeSteps, SMTT(30)
  <2> QED BY <2>1, AddNodeSteps, SMTT(30) DEF Past
<1>9. ASSUME NEW i \in job[o].todo, Passed(o, i)
      PROVE  ~job[o].errors /\ \A j \in 4..9 : Past(o, j)' => Past(o, j)
  <2>1. i \in job[o].asked \/ i \notin 4..9
    BY <1>3, <1>9, AddNodeSteps, SMTT(30) DEF Passed, StepOf
  <2> QED BY <1>9, <2>1, ZenonT(30) DEF Passed, Past
<1>10. ASSUME NEW i \in job[o].todo, CarriedOut(o, i)
       PROVE  /\ Past(o, LearnAt[g])' => Joining \in NodesOf(g)'
              /\ Past(o, ChangeAt[g])' /\ Unanimous(o) =>
                   voters'[g] = plan.calls[o].members /\ NodesOf(g)' # {}
  <2> DEFINE h == StepOf(o, i).group
  <2>1. \A j : Past(o, j)' => Past(o, j) \/ j = i
    BY <1>10, Zenon DEF CarriedOut, Past
  <2>2. ~job[o].errors
    BY <1>10, Zenon DEF CarriedOut
  <2>3. CASE i = LearnAt[g]
    <3>1. h = g /\ StepOf(o, i).ask = "learner" /\ ChangeAt[g] # i
      BY <1>3, <2>3, AddNodeSteps, SMTT(30) DEF StepOf
    <3>2. Learn(g) /\ voters' = voters
      BY <1>10, <3>1, Zenon DEF CarriedOut, Apply
    <3>3. Joining \in NodesOf(g)'
      BY <3>2, Zenon DEF Learn, NodesOf, Typed
    <3> QED BY <1>5, <2>1, <2>2, <3>1, <3>3, ZenonT(30) DEF Added
  <2>4. CASE i = ChangeAt[g]
    <3>1. h = g /\ StepOf(o, i).ask = "change" /\ LearnAt[g] # i
      BY <1>3, <2>4, AddNodeSteps, SMTT(30) DEF StepOf
    <3>2. Change(g, plan.calls[o].members) /\ Majority(g, plan.calls[o].members)
      BY <1>10, <3>1, Zenon DEF CarriedOut, Apply
    <3>3. voters'[g] = plan.calls[o].members /\ plan.calls[o].members # {}
      BY <3>2, NoMajorityOfNone, Zenon DEF Change, Typed
    <3>4. NodesOf(g)' # {}
      BY <3>3, Zenon DEF NodesOf
    <3> QED BY <1>4, <2>1, <2>2, <3>1, <3>3, <3>4, ZenonT(30) DEF Added
  <2>5. CASE i # LearnAt[g] /\ i # ChangeAt[g]
    BY <1>4, <1>5, <2>1, <2>2, <2>5, Zenon DEF Added
  <2> QED BY <2>3, <2>4, <2>5, ZenonT(30)
<1> QED BY <1>1, <1>6, <1>7, <1>8, <1>9, <1>10, ZenonT(30) DEF Moves, Progress

-------------------------------------------------------------------------------
IInv == Typed /\ Grounded /\ Reported /\ Added

\* The invariant holds initially.
LEMMA InitInv ==
  ASSUME Init
  PROVE  IInv
<1>1. Configured \subseteq Nodes /\ Configured # {} /\ FirstLeader \in [Groups -> Nodes]
  BY MembershipAssumption, Zenon DEF Nodes
<1>2. \A o \in Operators : job[o] = Begin(plan.calls[o])
  BY Zenon DEF Init
<1>3. \A o \in Operators : /\ job[o] \in Jobs /\ job[o].todo = DOMAIN Called(o).steps /\ job[o].asked = {}
                           /\ \A g \in Groups : job[o].seen[g] = build_not_ready_status
  BY <1>2, BeginFacts, Zenon DEF Init
<1>4. voters \in [Groups -> SUBSET Nodes] /\ \A g \in Groups : voters[g] \in {{}, Configured}
  BY <1>1, Zenon DEF Init
<1>5. /\ learners \in [Groups -> SUBSET Nodes] /\ \A g \in Groups : learners[g] = {}
      /\ running \in [Groups -> SUBSET Nodes]
  BY Zenon DEF Init
<1>6. /\ leader \in [Groups -> Nodes \cup {NoNode}]
      /\ \A g \in Groups : leader[g] # NoNode => voters[g] # {}
  BY <1>1, Zenon DEF Init
<1>7. /\ view \in [Groups -> [leader : Nodes \cup {NoNode}, nodes : SUBSET Nodes]]
      /\ \A g \in Groups : view[g].nodes \in {{}, voters[g]}
  BY <1>4, <1>6, Zenon DEF Init, Known
<1>8. job = [o \in Operators |-> job[o]] /\ plan \in Plans /\ late = {} /\ faults \in 0..MaxFaults
  BY MembershipAssumption DEF Init
<1>9. Typed
  <2>1. job \in [Operators -> Jobs]
    BY <1>3, <1>8, Zenon
  <2> QED BY <1>3, <1>4, <1>5, <1>6, <1>7, <1>8, <2>1, Zenon DEF Typed
<1>10. Grounded
  BY <1>1, <1>4, <1>5, <1>6, ZenonT(30) DEF Grounded, NodesOf
<1>11. Reported
  <2>1. \A g \in Groups : Agrees(g, view[g].nodes)
    BY <1>4, <1>7, ZenonT(30) DEF Agrees, NodesOf
  <2>2. \A g \in Groups, o \in Operators : job[o].seen[g].nodes = {}
    BY <1>3, SMTT(30) DEF build_not_ready_status
  <2> QED BY <2>1, <2>2, Zenon DEF Reported, Agrees
<1>12. Added
  <2> SUFFICES ASSUME NEW o \in Operators, plan.calls[o].endpoint = "add_node", NEW i \in 4..9
               PROVE  ~Past(o, i)
    BY AddNodeSteps DEF Added
  <2> QED BY <1>3, AddNodeSteps, SMTT(30) DEF Past, Called
<1> QED BY <1>9, <1>10, <1>11, <1>12, ZenonT(30) DEF IInv

\* Every step keeps the invariant.
LEMMA InvStep == IInv /\ [Next]_vars => IInv'
BY TypedStep, ReportedStep, AddedStep, Zenon DEF IInv

\* add_node answers 200 only when the new node is in all three groups, and a
\* voter of all three unless another operator asked for other voters: for any
\* number of nodes, of leader changes and of HTTP requests left unanswered.
THEOREM AddNodeCompletes == Spec => []AddNodeComplete
<1>1. IInv => AddNodeComplete
  <2> SUFFICES ASSUME IInv, NEW o \in Operators, plan.calls[o].endpoint = "add_node", Succeeded(o),
                      NEW g \in Groups
               PROVE  /\ Joining \in NodesOf(g)
                      /\ (\A p \in Operators : plan.calls[p].members = plan.calls[o].members)
                           => voters[g] = plan.calls[o].members
    BY Zenon DEF AddNodeComplete
  <2>1. ~job[o].errors /\ Past(o, LearnAt[g]) /\ Past(o, ChangeAt[g])
    BY ZenonT(30) DEF Succeeded, Finished, Past
  <2> QED BY <2>1, Zenon DEF IInv, Added, Unanimous
<1> QED BY InitInv, InvStep, <1>1, PTL DEF Spec

\* The nodes in a 200 answer of the readiness endpoints are nodes of every group,
\* and all configured nodes are among them, however far this node lags behind
\* and whatever is changed between its three reads.
THEOREM ReadinessAgrees == Spec => []ReadyAgrees
<1>1. IInv => ReadyAgrees
  <2> SUFFICES ASSUME IInv, NEW o \in Operators, plan.calls[o].endpoint \in {"ready", "status"}, Succeeded(o)
               PROVE  /\ Configured \subseteq derive_cluster_node_ids(o)
                      /\ \A g \in Groups : derive_cluster_node_ids(o) \subseteq NodesOf(g)
    BY Zenon DEF ReadyAgrees
  <2>1. \A g \in Groups : /\ derive_cluster_node_ids(o) # {}
                          /\ job[o].seen[g].nodes = derive_cluster_node_ids(o)
    BY Zenon DEF Succeeded, ready, apply_cluster_node_ids
  <2>2. \A g \in Groups : Agrees(g, job[o].seen[g].nodes)
    BY Zenon DEF IInv, Reported
  <2>3. "topic" \in Groups
    BY Zenon DEF Groups
  <2> QED BY <2>1, <2>2, <2>3, ZenonT(30) DEF Agrees
<1> QED BY InitInv, InvStep, <1>1, PTL DEF Spec
===============================================================================
