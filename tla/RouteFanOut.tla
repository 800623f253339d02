------------------------------ MODULE RouteFanOut ------------------------------
(***************************************************************************)
(* How the router finds the subscribers of a packet and hands it to each   *)
(* of them (router_actor.rs route, publish_to_local_subscribers), next to  *)
(* the replica of the topic group that it reads and while sessions move    *)
(* between nodes.                                                          *)
(*                                                                         *)
(* A packet's route runs as a task with an await at each delivery.  It     *)
(* knows a session by this node's copy of the session map, which can be    *)
(* behind; a session the copy does not have is asked for at the leader.    *)
(* Handing a packet to another node ends, here, with its entry in the      *)
(* outbox; DurableRoute has what follows.                                  *)
(***************************************************************************)
EXTENDS TopicStore, Bags

VARIABLES
  tasks,     \* the route of each packet of the scope
  cursors,   \* shared_subscription_cursors: group to the member to try first
  sess,      \* where each client's session is registered, and runs
  view,      \* this node's copy of the session map
  got        \* what each packet's route handed out: a bag of subscriptions

routeVars == <<tasks, cursors, sess, view, got>>

(* A scope also has: packets, what is routed; sessions, where each client  *)
(* starts; tenants, those with sessions here; moves, how many sessions     *)
(* move; failures, whether stores and leaders may fail.                    *)
(* A session is "here", "away", registered here without an actor ("dead"), *)
(* or "none".                                                              *)

Clients == DOMAIN scope.sessions
Idle == [stage |-> "idle", normal |-> {}, groups |-> {}, order |-> <<>>, tenants |-> {},
         from |-> 0, applied |-> 0, steady |-> {}]

RouteInit ==
  /\ Init
  /\ tasks = [i \in DOMAIN scope.packets |-> Idle]
  /\ cursors = <<>>
  /\ sess = scope.sessions
  /\ view = [c \in Clients |-> IF sess[c] = "dead" THEN "here" ELSE sess[c]]
  /\ got = [i \in DOMAIN scope.packets |-> EmptyBag]

Ended == {"ok", "error", "expired"}
Packet(i) == scope.packets[i]
Group(x) == <<x.tenant, x.share, x.path>>

\* Whether the packet's own client asked not to get it.
NoLocal(i, x) == x.no_local /\ x.client = Packet(i).source

\* The subscriptions of the group in the order of their clients.
Sorted(subs) == SetToSortSeq(subs, LAMBDA x, y : x.client < y.client)

Split(task, subs) ==
  [task EXCEPT !.stage = "deliver", !.normal = {x \in subs : x.share = ""},
               !.groups = {{x \in subs : Group(x) = g} : g \in {Group(y) : y \in {z \in subs : z.share # ""}}}]

\* The member to start with; the next packet starts one further.
Advance(key, len) ==
  LET entry == IF key \in DOMAIN cursors THEN cursors[key] ELSE 0 IN
  [start |-> entry % len, cursors |-> (key :> (entry % len) + 1) @@ cursors]

\* The members from start on and round.
Turn(members, start) == [i \in DOMAIN members |-> members[((start + i - 1) % Len(members)) + 1]]

\* The outcomes of deliver_to_subscriber: handed over or not, or an error that
\* ends the route.
Outcomes(x) ==
  LET known == IF view[x.client] # "none" THEN view[x.client]
               ELSE IF sess[x.client] = "dead" THEN "here" ELSE sess[x.client]
  IN  (CASE known = "none" -> {"missed"}
         [] known = "here" -> {IF sess[x.client] = "here" THEN "handed" ELSE "missed"}
         [] known = "away" -> {"handed"} \cup (IF scope.failures /\ x.qos > 0 THEN {"error"} ELSE {}))
      \cup (IF scope.failures /\ view[x.client] = "none" THEN {"error"} ELSE {})

-----------------------------------------------------------------------------
(* route *)

\* The subscriptions of this node's tree; when there are none, those of the
\* leader's.  A tenant without a tree is an error.
Begin(i) ==
  /\ tasks[i].stage = "idle" /\ Packet(i).kind = "route"
  /\ rep.up
  /\ LET p == Packet(i)
         found == get_subscriptions(rep.data, p.tenant, p.topic)
         task == [tasks[i] EXCEPT !.from = Len(log), !.applied = rep.applied,
                                  !.steady = {c \in Clients : view[c] \in {sess[c], "none"}}]
     IN  \/ p.expires /\ tasks' = [tasks EXCEPT ![i].stage = "expired"]
         \/ tasks' = [tasks EXCEPT ![i] =
              IF p.tenant \notin rep.data.tenants THEN [task EXCEPT !.stage = "error"]
              ELSE IF found # {} THEN Split(task, found) ELSE [task EXCEPT !.stage = "ask"]]
  /\ UNCHANGED <<storeVars, cursors, sess, view, got>>

get_subscriptions_linearizable(i) ==
  /\ tasks[i].stage = "ask"
  /\ LET s == Replay(Len(log))
         found == get_subscriptions(s.data, Packet(i).tenant, Packet(i).topic)
     IN  \/ ~s.halted /\ tasks' = [tasks EXCEPT ![i] =
                           IF found = {} THEN [@ EXCEPT !.stage = "ok"] ELSE Split(@, found)]
         \/ (scope.failures \/ s.halted) /\ tasks' = [tasks EXCEPT ![i].stage = "error"]
  /\ UNCHANGED <<storeVars, cursors, sess, view, got>>

\* One delivery to a normal subscription; No Local is skipped.
DeliverNormal(i) ==
  /\ tasks[i].stage = "deliver"
  /\ \E x \in tasks[i].normal : \E o \in IF NoLocal(i, x) THEN {"missed"} ELSE Outcomes(x) :
       /\ tasks' = [tasks EXCEPT ![i].normal = @ \ {x},
                                 ![i].stage = IF o = "error" THEN "error" ELSE @]
       /\ got' = [got EXCEPT ![i] = IF o = "handed" THEN @ (+) SetToBag({x}) ELSE @]
  /\ UNCHANGED <<storeVars, cursors, sess, view>>

\* The next shared group: where its turn starts.
PickGroup(i) ==
  /\ tasks[i].stage = "deliver" /\ tasks[i].normal = {} /\ tasks[i].order = <<>>
  /\ \E g \in tasks[i].groups :
       LET eligible == {x \in g : ~NoLocal(i, x)}
           turn == Advance(Group(CHOOSE x \in g : TRUE), Cardinality(eligible))
       IN  IF eligible = {}
           THEN tasks' = [tasks EXCEPT ![i].groups = @ \ {g}] /\ UNCHANGED cursors
           ELSE /\ tasks' = [tasks EXCEPT ![i].groups = @ \ {g},
                                          ![i].order = Turn(Sorted(eligible), turn.start)]
                /\ cursors' = turn.cursors
  /\ UNCHANGED <<storeVars, sess, view, got>>

\* Mutant: the group is left when the first member is not reached.
DeliverShared_first(i) ==
  /\ tasks[i].stage = "deliver" /\ tasks[i].order # <<>>
  /\ LET x == Head(tasks[i].order) IN \E o \in Outcomes(x) :
       /\ tasks' = [tasks EXCEPT ![i].order = <<>>,
                                 ![i].stage = IF o = "error" THEN "error" ELSE @]
       /\ got' = [got EXCEPT ![i] = IF o = "handed" THEN @ (+) SetToBag({x}) ELSE @]
  /\ UNCHANGED <<storeVars, cursors, sess, view>>

\* The members in turn until one takes the packet.
DeliverShared(i) ==
  /\ tasks[i].stage = "deliver" /\ tasks[i].order # <<>>
  /\ LET x == Head(tasks[i].order) IN \E o \in Outcomes(x) :
       /\ tasks' = [tasks EXCEPT ![i].order = IF o = "handed" THEN <<>> ELSE Tail(@),
                                 ![i].stage = IF o = "error" THEN "error" ELSE @]
       /\ got' = [got EXCEPT ![i] = IF o = "handed" THEN @ (+) SetToBag({x}) ELSE @]
  /\ UNCHANGED <<storeVars, cursors, sess, view>>

RouteEnds(i) ==
  /\ tasks[i].stage = "deliver"
  /\ tasks[i].normal = {} /\ tasks[i].groups = {} /\ tasks[i].order = <<>>
  /\ tasks' = [tasks EXCEPT ![i].stage = "ok"]
  /\ UNCHANGED <<storeVars, cursors, sess, view, got>>

-----------------------------------------------------------------------------
(* publish_to_local_subscribers: one tenant, from the local tree, without  *)
(* an await between its deliveries.                                        *)

\* The tenants that have sessions here, for a packet of the broker itself; else
\* the tenant of a packet of another node that names no client.
BeginLocal(i) ==
  /\ tasks[i].stage = "idle" /\ Packet(i).kind \in {"all", "local"}
  /\ tasks' = [tasks EXCEPT ![i].stage = "local",
                 ![i].tenants = IF Packet(i).kind = "all" THEN scope.tenants ELSE {Packet(i).tenant}]
  /\ UNCHANGED <<storeVars, cursors, sess, view, got>>

\* The members of the groups that get it: the first that runs here, if any.
Takers(subs, start) ==
  LET members == Turn(Sorted(subs), start)
      running == {k \in DOMAIN members : sess[members[k].client] = "here"}
  IN  IF running = {} THEN {} ELSE {members[Min(running)]}

publish_to_local_subscribers(i) ==
  /\ tasks[i].stage = "local" /\ rep.up
  /\ \E t \in tasks[i].tenants :
       LET subs == get_subscriptions(rep.data, t, Packet(i).topic)
           shared == {x \in subs : x.share # ""}
           groups == {Group(x) : x \in shared}
           of(g) == {x \in shared : Group(x) = g}
           turn(g) == Advance(g, Cardinality(of(g)))
       IN  IF Packet(i).expires
           THEN tasks' = [tasks EXCEPT ![i].tenants = @ \ {t}] /\ UNCHANGED <<cursors, got>>
           ELSE IF t \notin rep.data.tenants
           THEN /\ tasks' = [tasks EXCEPT ![i].stage = "error"]
                /\ UNCHANGED <<cursors, got>>
           ELSE /\ tasks' = [tasks EXCEPT ![i].tenants = @ \ {t}]
                /\ got' = [got EXCEPT ![i] = @ (+) SetToBag(
                      {x \in subs \ shared : sess[x.client] = "here"}
                      \cup UNION {Takers(of(g), turn(g).start) : g \in groups})]
                /\ cursors' = [g \in groups |-> turn(g).cursors[g]] @@ cursors
  /\ UNCHANGED <<storeVars, sess, view>>

LocalEnds(i) ==
  /\ tasks[i].stage = "local" /\ tasks[i].tenants = {}
  /\ tasks' = [tasks EXCEPT ![i].stage = "ok"]
  /\ UNCHANGED <<storeVars, cursors, sess, view, got>>

-----------------------------------------------------------------------------
(* Sessions and the copy of their map *)

Moved == {c \in Clients : sess[c] # scope.sessions[c]}

SessionMoves(c) ==
  /\ c \notin Moved /\ Cardinality(Moved) < scope.moves
  /\ \E to \in {"here", "away", "dead", "none"} \ {sess[c]} : sess' = [sess EXCEPT ![c] = to]
  /\ tasks' = [i \in DOMAIN tasks |-> [tasks[i] EXCEPT !.steady = @ \ {c}]]
  /\ UNCHANGED <<storeVars, cursors, view, got>>

MapReplicated(c) ==
  /\ view[c] # IF sess[c] = "dead" THEN "here" ELSE sess[c]
  /\ view' = [view EXCEPT ![c] = IF sess[c] = "dead" THEN "here" ELSE sess[c]]
  /\ UNCHANGED <<storeVars, tasks, cursors, sess, got>>

TaskStep(i) ==
  \/ Begin(i) \/ get_subscriptions_linearizable(i) \/ DeliverNormal(i) \/ PickGroup(i)
  \/ DeliverShared(i) \/ RouteEnds(i)
  \/ BeginLocal(i) \/ publish_to_local_subscribers(i) \/ LocalEnds(i)

Next ==
  \/ StoreStep /\ UNCHANGED routeVars
  \/ \E i \in DOMAIN tasks : TaskStep(i)
  \/ \E c \in Clients : SessionMoves(c) \/ MapReplicated(c)

-----------------------------------------------------------------------------
(* Properties *)

TypeOK ==
  /\ rep.applied <= Len(log) /\ rep.db.committed <= Len(log)
  /\ \A i \in DOMAIN tasks : tasks[i].stage \in {"idle", "ask", "deliver", "local"} \cup Ended
  /\ \A g \in DOMAIN cursors : cursors[g] \in Nat

\* The subscriptions that match, by the definition and not by the walk.
Matching(s, i) ==
  {x \in s.subs : x.tenant = Packet(i).tenant /\ Matches(x.path, Packet(i).topic, FALSE)}

\* The subscriptions that a finished route must have served: they were there
\* when it began and are there now, and it could know of them, from the local
\* tree or, when that had none, from the leader.
Due(i) ==
  LET here == Matching(Replay(tasks[i].applied).data, i)
      start == IF here # {} THEN here ELSE Matching(Replay(tasks[i].from).data, i)
  IN  start \cap Matching(Replay(Len(log)).data, i)

\* The client's session stayed where this node believed it to be.
Reachable(i, c) == c \in tasks[i].steady /\ sess[c] \in {"here", "away"}

\* A route that ends well has handed exactly one copy to every normal
\* subscription whose session did not move, none back to a No Local publisher,
\* and to every shared group exactly one copy when one of its members could be
\* reached, at most one in any case, even when the route ends with an error
\* (router_actor.rs route and deliver_to_subscriber).
RoutedToAll ==
  \A i \in DOMAIN tasks : Packet(i).kind = "route" =>
    /\ \A x \in BagToSet(got[i]) : CopiesIn(x, got[i]) = 1 /\ ~NoLocal(i, x)
    /\ \A x, y \in BagToSet(got[i]) : x # y /\ Group(x) = Group(y) => x.share = ""
    /\ tasks[i].stage = "ok" => \A x \in Due(i) :
         Reachable(i, x.client) /\ ~NoLocal(i, x) =>
           \E y \in BagToSet(got[i]) : IF x.share = "" THEN x = y ELSE Group(x) = Group(y)

Spec == RouteInit /\ [][Next]_<<storeVars, routeVars>>
=============================================================================
