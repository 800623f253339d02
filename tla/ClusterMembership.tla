-------------------------- MODULE ClusterMembership --------------------------
(***************************************************************************)
(* The cluster endpoints of the REST API.  A cluster is three Raft groups, *)
(* each with a membership of its own, and an endpoint that changes the     *)
(* membership asks the leaders of the three groups one after the other:    *)
(* the memberships differ in between, and for good if it stops half way.   *)
(* The readiness endpoint reads the groups one after the other as well.    *)
(*                                                                         *)
(* Two operators use the API of node Here at the same time.  What an actor *)
(* does with a message while it starts is taken from the three modules of  *)
(* the Raft actors.  OpenRaft is external: a group has voters and          *)
(* learners, and only its leader changes them.                             *)
(***************************************************************************)
EXTENDS RaftHandlers, Naturals, Sequences, FiniteSets, FiniteSetsExt

CONSTANTS Configured,  \* the nodes of the settings file
          Joining,     \* a node started in join mode
          Here,        \* the node whose REST API is used
          Plans,       \* startup mode, the actors <<group, node>> that do not
                       \* run at first, what the two operators ask for
          FirstLeader, \* who leads the groups that a bootstrap formed
          MaxFaults,   \* leader changes and unanswered HTTP requests
          NoNode

VARIABLES voters, learners, leader,  \* of each group
          running,                   \* the nodes whose actor of the group runs
          view,                      \* what Here knows of each group
          plan,                      \* the plan that is followed
          job,                       \* how far each operator's request is
          late,                      \* calls whose caller gave up
          faults

raft == <<voters, learners, leader>>
vars == <<raft, running, view, plan, job, late, faults>>

Topic == INSTANCE TopicRaftActor
State == INSTANCE SessionStateRaftActor
Map == INSTANCE SessionActorMapRaftActor

Groups == {"topic", "map", "state"}
Nodes == Configured \cup {Joining}
Operators == {1, 2}

\* The handlers that the endpoints use, by group.
Actor ==
  [topic |-> [init |-> Topic!InitRaftClusterMessage, learner |-> Topic!AddLearnerMessage,
              change |-> Topic!ChangeMembershipMessage, leader |-> Topic!GetLeader,
              metrics |-> Topic!GetRaftMetrics],
   map   |-> [init |-> Map!InitRaftClusterMessage, learner |-> Map!AddLearnerMessage,
              change |-> Map!ChangeMembershipMessage, leader |-> Map!GetLeader,
              metrics |-> Map!GetRaftMetrics],
   state |-> [init |-> State!InitRaftClusterMessage, learner |-> State!AddLearnerMessage,
              change |-> State!ChangeMembershipMessage, leader |-> State!GetLeader,
              metrics |-> State!GetRaftMetrics]]

\* Whether the actor of group g on node n does what it is asked: while it
\* starts, each of these handlers refuses.
Serves(g, n, ask) ==
  n \in running[g] \/ Actor[g][ask].initializing \notin {"reject", "queue"}

NodesOf(g) == voters[g] \cup learners[g]

-----------------------------------------------------------------------------
(* The endpoints, as sequences of steps.  A step is a question to a group, *)
(* put to the actor of this node or by HTTP to the leader an earlier step  *)
(* found.  strict: an HTTP answer with an error status ends the request.   *)
(* joined: the three actors are asked at once and their errors collected.  *)

Step(ask, g, at) == [ask |-> ask, group |-> g, at |-> at]
Endpoint(strict, joined, steps) == [strict |-> strict, joined |-> joined, steps |-> steps]
AskAll(ask, gs) == [i \in DOMAIN gs |-> Step(ask, gs[i], "here")]

init_topic_raft == Endpoint(TRUE, FALSE, <<Step("init", "topic", "here")>>)
init_session_actor_map_raft == Endpoint(TRUE, FALSE, <<Step("init", "map", "here")>>)
init_session_state_raft == Endpoint(TRUE, FALSE, <<Step("init", "state", "here")>>)
init_cluster == Endpoint(TRUE, TRUE, AskAll("init", <<"topic", "map", "state">>))
add_learner == Endpoint(TRUE, TRUE, AskAll("learner", <<"topic", "map", "state">>))
topic_raft_add_learner == Step("learner", "topic", "leader")
session_actor_map_raft_add_learner == Step("learner", "map", "leader")
session_state_raft_add_learner == Step("learner", "state", "leader")
topic_raft_change_membership == Step("change", "topic", "leader")
session_actor_map_raft_change_membership == Step("change", "map", "leader")
session_state_raft_change_membership == Step("change", "state", "leader")

add_node_leaders == AskAll("leader", <<"topic", "map", "state">>)
add_node_changes ==
  <<topic_raft_add_learner, session_actor_map_raft_add_learner,
    session_state_raft_add_learner, topic_raft_change_membership,
    session_actor_map_raft_change_membership, session_state_raft_change_membership>>
\* Mutant: the status of the HTTP answers is not looked at.
add_node_lenient == Endpoint(FALSE, FALSE, add_node_leaders \o add_node_changes)

add_node == Endpoint(TRUE, FALSE, add_node_leaders \o add_node_changes)

change_membership_leaders == AskAll("leader", <<"topic", "state", "map">>)
change_membership_changes ==
  <<topic_raft_change_membership, session_actor_map_raft_change_membership,
    session_state_raft_change_membership>>
change_membership ==
  Endpoint(FALSE, FALSE, change_membership_leaders \o change_membership_changes)

build_cluster_ready_response ==
  Endpoint(FALSE, FALSE, AskAll("metrics", <<"topic", "map", "state">>)
                         \o <<Step("payload", "state", "here"), Step("probe", "state", "here")>>)
status == build_cluster_ready_response
metrics == Endpoint(TRUE, FALSE, AskAll("metrics", <<"topic", "map", "state">>))

EndpointOf ==
  [init_topic_raft |-> init_topic_raft,
   init_session_actor_map_raft |-> init_session_actor_map_raft,
   init_session_state_raft |-> init_session_state_raft,
   init_cluster |-> init_cluster, add_learner |-> add_learner,
   add_node |-> add_node, change_membership |-> change_membership,
   ready |-> build_cluster_ready_response, status |-> status, metrics |-> metrics]

ASSUME MembershipAssumption ==
  /\ Configured # {} /\ NoNode \notin Nodes /\ Here \in Nodes /\ MaxFaults \in Nat
  /\ FirstLeader \in [Groups -> Configured]
  /\ \A p \in Plans : \A o \in Operators :
       p.calls[o].endpoint \in DOMAIN EndpointOf /\ p.calls[o].members \subseteq Nodes

-----------------------------------------------------------------------------
(* Requests *)

Called(o) == EndpointOf[plan.calls[o].endpoint]
StepOf(o, i) == Called(o).steps[i]
Target(o, i) == IF StepOf(o, i).at = "here" THEN Here ELSE job[o].found[StepOf(o, i).group]

\* What a group looks like before it was asked, or if its actor refuses.
build_not_ready_status == [ready |-> FALSE, nodes |-> {}]

\* todo   the steps that are left
\* asked  the steps that their actor has begun
Begin(call) ==
  [todo |-> DOMAIN EndpointOf[call.endpoint].steps, asked |-> {},
   found |-> [g \in Groups |-> NoNode], seen |-> [g \in Groups |-> build_not_ready_status],
   errors |-> FALSE]

Finished(o) == job[o].todo = {}
Due(o, i) == i \in job[o].todo /\ (Called(o).joined \/ i = Min(job[o].todo))

\* The leaders that a request found are forgotten when it ends.
Left(o, todo) ==
  [job EXCEPT ![o].todo = todo, ![o].asked = @ \cap todo,
              ![o].found = IF todo = {} THEN [g \in Groups |-> NoNode] ELSE @]

Advance(o, i) == Left(o, job[o].todo \ {i})

\* The step went wrong: the request ends, or notes it.
Fail(o, i) ==
  [Left(o, IF Called(o).joined THEN job[o].todo \ {i} ELSE {}) EXCEPT ![o].errors = TRUE]

\* An actor answered with an error: an error of the request, unless it comes
\* as the status of an HTTP answer that the endpoint does not look at.
post_json_with_auth(o, i) ==
  IF Called(o).strict \/ StepOf(o, i).at = "here" THEN Fail(o, i) ELSE Advance(o, i)

\* What Here knows of a group that it leads is never out of date.
Known(g, n, nodes) == [leader |-> n, nodes |-> nodes]
Inform(g, n, nodes) == view' = IF n = Here THEN [view EXCEPT ![g] = Known(g, n, nodes)] ELSE view

-----------------------------------------------------------------------------
(* The steps of a request *)

\* raft.initialize: the configured nodes become the voters of a group that
\* has none.
InitRaftCluster(o, i) ==
  LET g == StepOf(o, i).group
  IN  /\ StepOf(o, i).ask = "init" /\ Due(o, i)
      /\ IF Serves(g, Here, "init") /\ NodesOf(g) = {}
         THEN voters' = [voters EXCEPT ![g] = Configured] /\ job' = Advance(o, i)
         ELSE UNCHANGED voters /\ job' = Fail(o, i)
      /\ UNCHANGED <<learners, leader, running, view, plan, late, faults>>

\* The leader that Here knows of.
GetLeader(o, i) ==
  LET g == StepOf(o, i).group
  IN  /\ StepOf(o, i).ask = "leader" /\ Due(o, i)
      /\ job' = IF Serves(g, Here, "leader") /\ view[g].leader # NoNode
                THEN [Advance(o, i) EXCEPT ![o].found[g] = view[g].leader]
                ELSE Fail(o, i)
      /\ UNCHANGED <<raft, running, view, plan, late, faults>>

\* add_learner on a leader: the node is in the group at once.
Learn(g) == learners' = [learners EXCEPT ![g] = @ \cup ({Joining} \ voters[g])]

\* change_membership on a leader: the voters that are left out stay as learners.
Change(g, members) ==
  /\ voters' = [voters EXCEPT ![g] = members]
  /\ learners' = [learners EXCEPT ![g] = (@ \cup voters[g]) \ members]

Majority(g, members) ==
  2 * Cardinality(members \cap running[g]) > Cardinality(members)

\* Node n is the leader and takes the change: the new voters are nodes of the
\* group already.
Takes(g, n, ask, members) ==
  /\ Serves(g, n, ask) /\ leader[g] = n
  /\ ask = "change" => members \subseteq NodesOf(g)

\* The leader carries the change out.
Apply(g, ask, members) ==
  /\ IF ask = "learner"
     THEN Learn(g) /\ UNCHANGED voters
     ELSE Change(g, members) /\ Majority(g, members) /\ Majority(g, voters[g])
  /\ Inform(g, leader[g], voters'[g] \cup learners'[g])
  /\ UNCHANGED <<leader, running, plan, faults>>

\* A leader is asked to change the membership.
AskLeader(o, i) ==
  LET g == StepOf(o, i).group
      ask == StepOf(o, i).ask
      members == plan.calls[o].members
  IN  /\ ask \in {"learner", "change"} /\ Due(o, i) /\ i \notin job[o].asked
      /\ \/ /\ Takes(g, Target(o, i), ask, members)
            /\ Apply(g, ask, members)
            /\ job' = [job EXCEPT ![o].asked = @ \cup {i}]
         \/ /\ ~Takes(g, Target(o, i), ask, members)
            /\ job' = post_json_with_auth(o, i)
            /\ UNCHANGED <<raft, running, view, plan, faults>>
      /\ UNCHANGED late

\* Its answer: a learner must have caught up first.  A leader that was
\* replaced answers with an error.
AnswerOfLeader(o, i) ==
  LET g == StepOf(o, i).group
  IN  /\ i \in job[o].asked /\ Due(o, i)
      /\ \/ /\ leader[g] = Target(o, i)
            /\ StepOf(o, i).ask = "learner" => Joining \in running[g]
            /\ job' = Advance(o, i)
         \/ leader[g] # Target(o, i) /\ job' = post_json_with_auth(o, i)
      /\ UNCHANGED <<raft, running, view, plan, late, faults>>

\* evaluate_raft_metrics of what Here knows of the group.
evaluate_raft_metrics(g) ==
  [ready |-> view[g].leader # NoNode /\ view[g].nodes # {}, nodes |-> view[g].nodes]

GetRaftMetrics(o, i) ==
  LET g == StepOf(o, i).group
  IN  /\ StepOf(o, i).ask = "metrics" /\ Due(o, i)
      /\ job' = IF Serves(g, Here, "metrics")
                THEN [Advance(o, i) EXCEPT ![o].seen[g] = evaluate_raft_metrics(g)]
                ELSE IF Called(o).strict THEN Fail(o, i) ELSE Advance(o, i)
      /\ UNCHANGED <<raft, running, view, plan, late, faults>>

\* GetPayloadReady, which is false until the actor runs, and the probe of this
\* node's own RPC server: not ready is noted and the request goes on.
probe_local_cluster_rpc(o, i) ==
  /\ StepOf(o, i).ask \in {"payload", "probe"} /\ Due(o, i)
  /\ \/ /\ StepOf(o, i).ask = "payload" => Here \in running["state"]
        /\ job' = Advance(o, i)
     \/ job' = [Advance(o, i) EXCEPT ![o].errors = TRUE]
  /\ UNCHANGED <<raft, running, view, plan, late, faults>>

\* An HTTP request is not answered; what it asks for may still happen.
HttpFails(o, i) ==
  LET s == StepOf(o, i)
  IN  /\ s.at = "leader" /\ Due(o, i) /\ faults < MaxFaults
      /\ job' = Fail(o, i)
      /\ late' = IF i \in job[o].asked THEN late
                 ELSE late \cup {[group |-> s.group, ask |-> s.ask, at |-> Target(o, i),
                                  members |-> plan.calls[o].members]}
      /\ faults' = faults + 1
      /\ UNCHANGED <<raft, running, view, plan>>

Late(c) ==
  /\ late' = late \ {c}
  /\ \/ /\ Takes(c.group, c.at, c.ask, c.members)
        /\ Apply(c.group, c.ask, c.members)
     \/ UNCHANGED <<raft, running, view, plan, faults>>
  /\ UNCHANGED job

\* The operator repeats a request that failed.
Retry(o) ==
  /\ Finished(o) /\ job[o].errors
  /\ job' = [job EXCEPT ![o] = Begin(plan.calls[o])]
  /\ UNCHANGED <<raft, running, view, plan, late, faults>>

-----------------------------------------------------------------------------
(* The answers *)

\* The body of the readiness answer: the members that the first group with a
\* membership has, and whether each group has exactly these.
derive_cluster_node_ids(o) ==
  LET has == {i \in 1..3 : job[o].seen[Called(o).steps[i].group].nodes # {}}
  IN  IF has = {} THEN {} ELSE job[o].seen[Called(o).steps[Min(has)].group].nodes

\* Mutant: only the missing nodes are looked for, in the wrong direction.
apply_cluster_node_ids_extra(o, g) ==
  /\ job[o].seen[g].ready /\ derive_cluster_node_ids(o) # {}
  /\ job[o].seen[g].nodes \subseteq derive_cluster_node_ids(o)

apply_cluster_node_ids(o, g) ==
  /\ job[o].seen[g].ready /\ derive_cluster_node_ids(o) # {}
  /\ job[o].seen[g].nodes = derive_cluster_node_ids(o)

\* The answer to operator o is 200.
ready(o) == \A g \in Groups : apply_cluster_node_ids(o, g)
Succeeded(o) ==
  /\ Finished(o) /\ ~job[o].errors
  /\ plan.calls[o].endpoint \in {"ready", "status"} => ready(o)

-----------------------------------------------------------------------------
(* The nodes *)

\* initialize_raft of one of the three actors: in bootstrap mode a node that
\* knows of no membership initializes the group.
initialize_raft(g, n) ==
  /\ <<g, n>> \in plan.starting /\ n \notin running[g]
  /\ running' = [running EXCEPT ![g] = @ \cup {n}]
  /\ voters' = IF plan.startup_mode = "bootstrap" /\ n \in Configured /\ NodesOf(g) = {}
               THEN [voters EXCEPT ![g] = Configured] ELSE voters
  /\ UNCHANGED <<learners, leader, view, plan, job, late, faults>>

topic_initialize_raft(n) == initialize_raft("topic", n)
session_actor_map_initialize_raft(n) == initialize_raft("map", n)
session_state_initialize_raft(n) == initialize_raft("state", n)

\* A voter becomes the leader: where there is none or the leader is no voter
\* any more, or in place of another.
Elect(g, n) ==
  /\ n \in voters[g] \cap running[g] /\ n # leader[g] /\ Majority(g, voters[g])
  /\ \/ leader[g] \notin voters[g] /\ UNCHANGED faults
     \/ leader[g] \in voters[g] /\ faults < MaxFaults /\ faults' = faults + 1
  /\ leader' = [leader EXCEPT ![g] = n]
  /\ Inform(g, n, NodesOf(g))
  /\ UNCHANGED <<voters, learners, running, plan, job, late>>

\* Here hears from the leader of the group.
Follow(g) ==
  /\ Here \in running[g] /\ leader[g] # NoNode
  /\ view' = [view EXCEPT ![g] = Known(g, leader[g], NodesOf(g))]
  /\ UNCHANGED <<raft, running, plan, job, late, faults>>

Init ==
  /\ plan \in Plans
  /\ running = [g \in Groups |-> {n \in Nodes : <<g, n>> \notin plan.starting}]
  /\ voters = [g \in Groups |->
                 IF plan.startup_mode = "bootstrap" /\ running[g] \cap Configured # {}
                 THEN Configured ELSE {}]
  /\ learners = [g \in Groups |-> {}]
  /\ leader = [g \in Groups |-> IF voters[g] # {} /\ Majority(g, voters[g])
                                THEN FirstLeader[g] ELSE NoNode]
  /\ view = [g \in Groups |-> IF Here \in running[g] THEN Known(g, leader[g], voters[g])
                              ELSE Known(g, NoNode, {})]
  /\ job = [o \in Operators |-> Begin(plan.calls[o])]
  /\ late = {}
  /\ faults = 0

\* A step of a request that its server takes whatever the environment does.
Proceed(o) ==
  \E i \in job[o].todo :
    \/ InitRaftCluster(o, i)
    \/ GetLeader(o, i)
    \/ AskLeader(o, i)
    \/ AnswerOfLeader(o, i)
    \/ GetRaftMetrics(o, i)
    \/ probe_local_cluster_rpc(o, i)

Next ==
  \/ \E o \in Operators : Proceed(o) \/ Retry(o) \/ \E i \in job[o].todo : HttpFails(o, i)
  \/ \E c \in late : Late(c)
  \/ \E g \in Groups : Follow(g) \/ \E n \in Nodes : Elect(g, n)
  \/ \E n \in Nodes : \/ topic_initialize_raft(n)
                      \/ session_actor_map_initialize_raft(n)
                      \/ session_state_initialize_raft(n)

\* Actors finish starting, a group without a leader elects one, followers hear
\* from it, requests are served and a failed one is repeated.
Fairness ==
  /\ \A o \in Operators : WF_vars(Proceed(o)) /\ WF_vars(Retry(o))
  /\ \A g \in Groups :
       /\ WF_vars(Follow(g))
       /\ WF_vars(leader[g] \notin voters[g] /\ \E n \in Nodes : Elect(g, n))
  /\ \A n \in Nodes : WF_vars(\/ topic_initialize_raft(n)
                             \/ session_actor_map_initialize_raft(n)
                             \/ session_state_initialize_raft(n))

Spec == Init /\ [][Next]_vars /\ Fairness

-----------------------------------------------------------------------------
(* Properties *)

Status == [ready : BOOLEAN, nodes : SUBSET Nodes]

TypeOK ==
  /\ voters \in [Groups -> SUBSET Nodes] /\ learners \in [Groups -> SUBSET Nodes]
  /\ leader \in [Groups -> Nodes \cup {NoNode}]
  /\ running \in [Groups -> SUBSET Nodes]
  /\ view \in [Groups -> [leader : Nodes \cup {NoNode}, nodes : SUBSET Nodes]]
  /\ plan \in Plans
  /\ \A o \in Operators :
       /\ job[o].todo \subseteq DOMAIN Called(o).steps /\ job[o].asked \subseteq job[o].todo
       /\ job[o].found \in [Groups -> Nodes \cup {NoNode}]
       /\ job[o].seen \in [Groups -> Status]
       /\ job[o].errors \in BOOLEAN
  /\ \A c \in late : c.group \in Groups /\ c.ask \in {"learner", "change"} /\ c.at \in Nodes
  /\ faults \in 0..MaxFaults
  \* A voter is not a learner, and a group with members has voters.
  /\ \A g \in Groups : voters[g] \cap learners[g] = {} /\ (learners[g] # {} => voters[g] # {})

\* add_node: when it answers 200, the new node is in all three groups, although
\* leaders change between the question who leads and the request to the leader;
\* and it is a voter of all three, unless somebody else asked for other voters.
AddNodeComplete ==
  \A o \in Operators :
    plan.calls[o].endpoint = "add_node" /\ Succeeded(o) =>
      \A g \in Groups :
        /\ Joining \in NodesOf(g)
        /\ (\A p \in Operators : plan.calls[p].members = plan.calls[o].members)
             => voters[g] = plan.calls[o].members

\* ready and status read three groups while others change them, on a node that
\* may lag behind.  A node in the answer of a ready cluster is really a node of
\* every one of the three groups.
ReadyAgrees ==
  \A o \in Operators :
    plan.calls[o].endpoint \in {"ready", "status"} /\ Succeeded(o) =>
      /\ Configured \subseteq derive_cluster_node_ids(o)
      /\ \A g \in Groups : derive_cluster_node_ids(o) \subseteq NodesOf(g)

\* No endpoint, and no late, repeated or concurrent use of one, takes a node out
\* of a group: initializing again is refused, and voters are retained as learners.
NoNodeDropped == [][\A g \in Groups : NodesOf(g) \subseteq NodesOf(g)']_vars

=============================================================================
