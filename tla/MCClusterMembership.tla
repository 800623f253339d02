------------------------- MODULE MCClusterMembership -------------------------
(* Two configured nodes and a third that joins.  The session state actor of *)
(* this node and actors of the joining node may still be starting.          *)
EXTENDS ClusterMembership

Call(endpoint, members) == [endpoint |-> endpoint, members |-> members]
Pair(mode, starting, first, second) ==
  [startup_mode |-> mode, starting |-> starting, calls |-> <<first, second>>]

Starting(g) == {<<"state", Here>>, <<g, Joining>>}

MCPlans ==
  {Pair("bootstrap", {<<"state", Here>>}, Call("add_node", Nodes), Call("ready", Nodes)),
   Pair("bootstrap", {<<"map", Joining>>}, Call("add_node", Nodes),
        Call("change_membership", Configured)),
   Pair("bootstrap", Starting("topic"), Call("change_membership", {Here}), Call("status", {Here})),
   Pair("bootstrap", Starting("topic"), Call("add_learner", Nodes), Call("metrics", Nodes))}
  \cup {Pair("join", Starting("topic"), Call("init_cluster", Configured), Call(e, Configured)) :
          e \in {"init_topic_raft", "init_session_actor_map_raft", "init_session_state_raft"}}

MCFirstLeader == [g \in Groups |-> Here]
=============================================================================
