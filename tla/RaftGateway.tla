----------------------------- MODULE RaftGateway -----------------------------
(***************************************************************************)
(* How a request reaches one of the three Raft groups.  Each node runs one *)
(* actor per group.  A caller sends its message to the actor of its own    *)
(* node; the actor refuses it, keeps it for later, serves it, or passes it *)
(* to the node it takes for the leader, where another actor does the same. *)
(* The handlers are the records of the three actor modules; this module    *)
(* interprets them while actors start, leaders change, nodes restart and   *)
(* RPCs are lost.                                                          *)
(*                                                                         *)
(* OpenRaft is external: the committed log grows at the leader while a     *)
(* majority of actors is running, a node learns of entries and of leaders  *)
(* through the RPC handlers of its actor, and a deposed leader answers no  *)
(* write and no linearizable read before it hears of its successor.        *)
(***************************************************************************)
EXTENDS RaftHandlers, Naturals, Sequences, FiniteSets

CONSTANTS Nodes,        \* the cluster
          Requests,     \* how many requests are made: 1 .. Requests
          MaxFaults,    \* elections, restarts and lost RPCs of one behaviour
          NoNode,       \* no leader is known
          FirstLeader,  \* the leader at first; the nodes are alike
          Starting      \* the nodes that are still starting at first

VARIABLES group,    \* the Raft group this behaviour is about
          state,    \* ActorState of each node's actor
          pending,  \* the messages each initializing actor keeps
          leader,   \* the leader of the current term
          view,     \* the leader each node knows of
          log,      \* committed entries: the request and what applying it said
          applied,  \* how many entries each node has applied
          req,      \* what each caller asked for and was told
          calls,    \* messages in flight or being handled
          faults

vars == <<group, state, pending, leader, view, log, applied, req, calls, faults>>

Topic == INSTANCE TopicRaftActor
State == INSTANCE SessionStateRaftActor
Map == INSTANCE SessionActorMapRaftActor

Groups == {"topic", "session_state", "session_actor_map"}
ActorState == {"initializing", "running", "failed"}
Ids == 1 .. Requests

Entries == CASE group = "topic" -> Topic!Entries
             [] group = "session_state" -> State!Entries
             [] group = "session_actor_map" -> Map!Entries

Remote(h) == CASE group = "topic" -> Topic!Remote(h)
               [] group = "session_state" -> State!Remote(h)
               [] group = "session_actor_map" -> Map!Remote(h)

Replayed(kept) ==
  CASE group = "topic" -> Topic!process_pending_messages(kept)
    [] group = "session_state" -> State!process_pending_messages(kept)
    [] group = "session_actor_map" -> Map!process_pending_messages(kept)

\* The handlers of the RPCs that OpenRaft makes.
RaftRpc == CASE group = "topic" ->
                  [append |-> Topic!AppendEntriesRequestMessage,
                   snapshot |-> Topic!InstallSnapshotRequestMessage,
                   vote |-> Topic!VoteRequestMessage]
             [] group = "session_state" ->
                  [append |-> State!AppendEntriesRequestMessage,
                   snapshot |-> State!InstallSnapshotRequestMessage,
                   vote |-> State!VoteRequestMessage]
             [] group = "session_actor_map" ->
                  [append |-> Map!AppendEntriesRequestMessage,
                   snapshot |-> Map!InstallSnapshotRequestMessage,
                   vote |-> Map!VoteRequestMessage]

\* Whether the actor of node n answers a message without an error.
Answers(h, n) ==
  \/ state[n] = "running"
  \/ state[n] = "initializing" /\ h.initializing \in {"queue_ok", "empty"}

\* A node opens its gRPC server and its listeners only after it has got the
\* storage of the topic and of the session actor map actor, which they hand
\* out once they run.  It does not wait for the session state actor.
Serving(n) ==
  CASE group = "topic" -> Answers(Topic!GetTopicStorage, n)
    [] group = "session_actor_map" -> Answers(Map!GetSessionActorMapStorage, n)
    [] group = "session_state" -> TRUE

\* The nodes whose actors pass an RPC of OpenRaft on to their Raft instance.
Reached(h) == {n \in Nodes : Serving(n) /\ Answers(h, n)}
Majority(S) == 2 * Cardinality(S) > Cardinality(Nodes)
Quorum == Majority(Reached(RaftRpc.append))

-----------------------------------------------------------------------------
(* Answers *)

\* The entry of a request that was not made yet.
NoEntry == Entry(Handler("other", "metrics", "reject", FALSE), <<>>)

\* The requests whose write was acknowledged.
Acked(rs) == {r \in Ids : rs[r].status = "ok" /\ rs[r].entry.handler.work = "write"}

\* The caller of c gets an answer unless it already has one: the caller of a
\* replayed message was refused, the caller of a lost RPC saw an error.
\* What a refused caller had asked for no longer matters.
Answer(c, by, value) ==
  IF req[c.req].status = "waiting"
  THEN [req EXCEPT ![c.req] = [@ EXCEPT !.status = "ok", !.by = by, !.value = value]]
  ELSE req

Refused == [status |-> "error", entry |-> NoEntry, by |-> "none",
            value |-> {}, before |-> {}]

Refuse(c) ==
  IF req[c.req].status = "waiting" THEN [req EXCEPT ![c.req] = Refused] ELSE req

-----------------------------------------------------------------------------
(* Callers and calls *)

\* A caller on node n sends the message of a service, REST or gRPC call to
\* the actor of its node.  Requests are made in the order of their names; the
\* last one is any call, the ones before it are commands for it to find.
Send(r, n, e) ==
  /\ req[r].status = "idle"
  /\ r < Requests => e.handler.type = "command" /\ e.handler.reports = {}
  /\ \A q \in Ids : q < r => req[q].status # "idle"
  /\ Serving(n)
  /\ req' = [req EXCEPT ![r] = [@ EXCEPT !.status = "waiting", !.entry = e,
                                         !.before = Acked(req)]]
  /\ calls' = calls \cup {[req |-> r, node |-> n, handler |-> e.handler,
                           forward |-> e.forward, rpc |-> FALSE]}
  /\ UNCHANGED <<group, state, pending, leader, view, log, applied, faults>>

\* Mutant: a message that is kept is acknowledged at once.
HandleInitializing_Acks(c) ==
  /\ state[c.node] = "initializing"
  /\ calls' = calls \ {c}
  /\ pending' = IF c.handler.initializing \in {"queue", "queue_ok"}
                THEN [pending EXCEPT ![c.node] = @ \cup {c}]
                ELSE pending
  /\ req' = IF c.handler.initializing \in {"queue", "queue_ok", "empty"}
            THEN Answer(c, "initializing", {})
            ELSE Refuse(c)
  /\ UNCHANGED <<group, state, leader, view, log, applied, faults>>

\* An actor that is still initializing.
HandleInitializing(c) ==
  /\ state[c.node] = "initializing"
  /\ calls' = calls \ {c}
  /\ pending' = IF c.handler.initializing \in {"queue", "queue_ok"}
                THEN [pending EXCEPT ![c.node] = @ \cup {c}]
                ELSE pending
  /\ req' = IF c.handler.initializing \in {"queue_ok", "empty"}
            THEN Answer(c, "initializing", {})
            ELSE Refuse(c)
  /\ UNCHANGED <<group, state, leader, view, log, applied, faults>>

\* Mutant: the message is dropped without an answer.
HandleFailed_Silent(c) ==
  /\ state[c.node] = "failed"
  /\ calls' = calls \ {c}
  /\ UNCHANGED <<group, state, pending, leader, view, log, applied, req, faults>>

\* An actor whose initialization failed.
HandleFailed(c) ==
  /\ state[c.node] = "failed"
  /\ calls' = calls \ {c}
  /\ req' = Refuse(c)
  /\ UNCHANGED <<group, state, pending, leader, view, log, applied, faults>>

\* What the state machine may answer instead of doing what the entry says.
\* Only packet registrations can meet a taken packet identifier.
Refusals(h) ==
  CASE group # "session_state" -> {}
    [] group = "session_state" /\ h.reports = {} -> {"missing"}
    [] OTHER -> Rejections

\* Mutant: what the state machine answered is not looked at.
try_local_write_Blind(c, outcome) ==
  /\ state[c.node] = "running" /\ c.handler.work = "write"
  /\ c.node = leader /\ view[c.node] = c.node /\ Quorum
  /\ outcome \in {"done"} \cup Refusals(c.handler)
  /\ log' = Append(log, [req |-> c.req, outcome |-> outcome])
  /\ applied' = [applied EXCEPT ![c.node] = Len(log) + 1]
  /\ calls' = calls \ {c}
  /\ req' = Answer(c, "write", {})
  /\ UNCHANGED <<group, state, pending, leader, view, faults>>

\* client_write on the leader: the entry is committed and applied, and the
\* caller hears what the state machine said if the handler passes it on.
try_local_write(c, outcome) ==
  /\ state[c.node] = "running" /\ c.handler.work = "write"
  /\ c.node = leader /\ view[c.node] = c.node /\ Quorum
  /\ outcome \in {"done"} \cup Refusals(c.handler)
  /\ log' = Append(log, [req |-> c.req, outcome |-> outcome])
  /\ applied' = [applied EXCEPT ![c.node] = Len(log) + 1]
  /\ calls' = calls \ {c}
  /\ req' = IF outcome \in c.handler.reports
            THEN Refuse(c)
            ELSE Answer(c, "write", {})
  /\ UNCHANGED <<group, state, pending, leader, view, faults>>

\* Mutant: a node that takes itself for the leader reads without asking.
try_local_linearizable_read_Trusting(c) ==
  /\ state[c.node] = "running" /\ c.handler.work = "leader_read"
  /\ view[c.node] = c.node
  /\ calls' = calls \ {c}
  /\ req' = Answer(c, "leader_read", {log[i].req : i \in 1 .. applied[c.node]})
  /\ UNCHANGED <<group, state, pending, leader, view, log, applied, faults>>

\* ensure_linearizable on the leader, then a read of its state machine.
try_local_linearizable_read(c) ==
  /\ state[c.node] = "running" /\ c.handler.work = "leader_read"
  /\ c.node = leader /\ view[c.node] = c.node /\ Quorum
  /\ applied' = [applied EXCEPT ![c.node] = Len(log)]
  /\ calls' = calls \ {c}
  /\ req' = Answer(c, "leader_read", {log[i].req : i \in DOMAIN log})
  /\ UNCHANGED <<group, state, pending, leader, view, log, faults>>

\* A read of the local state machine, without asking anyone.
LocalRead(c) ==
  /\ state[c.node] = "running" /\ c.handler.work = "local_read"
  /\ calls' = calls \ {c}
  /\ req' = Answer(c, "local_read", {log[i].req : i \in 1 .. applied[c.node]})
  /\ UNCHANGED <<group, state, pending, leader, view, log, applied, faults>>

\* What is answered from the metrics of the local Raft instance.
LocalMetrics(c) ==
  /\ state[c.node] = "running" /\ c.handler.work = "metrics"
  /\ calls' = calls \ {c}
  /\ req' = Answer(c, "metrics", {})
  /\ UNCHANGED <<group, state, pending, leader, view, log, applied, faults>>

\* The actor, or the service behind it, makes an RPC to the node it takes for
\* the leader when this one is not; the RPC fails if that node does not serve.
NotLeader(c) ==
  LET to == view[c.node]
      next == IF c.handler.forwards THEN <<Remote(c.handler)>> ELSE c.forward
  IN  /\ state[c.node] = "running"
      /\ c.handler.work \in {"write", "leader_read"}
      /\ to # c.node
      /\ IF to # NoNode /\ next # <<>> /\ Serving(to)
         THEN /\ calls' = (calls \ {c}) \cup
                          {[req |-> c.req, node |-> to, handler |-> Head(next),
                            forward |-> <<>>, rpc |-> TRUE]}
              /\ req' = req
         ELSE /\ calls' = calls \ {c}
              /\ req' = Refuse(c)
      /\ UNCHANGED <<group, state, pending, leader, view, log, applied, faults>>

\* A caller, or the service of a caller, gives up an RPC whose transport
\* failed.  Either the call never arrived or its answer was lost: then the
\* leader's actor still handles it.
RpcFails(c) ==
  /\ c.rpc /\ req[c.req].status = "waiting" /\ faults < MaxFaults
  /\ calls' \in {calls, calls \ {c}}
  /\ req' = Refuse(c)
  /\ faults' = faults + 1
  /\ UNCHANGED <<group, state, pending, leader, view, log, applied>>

Handle(c) ==
  \/ HandleInitializing(c)
  \/ HandleFailed(c)
  \/ \E outcome \in {"done"} \cup Rejections : try_local_write(c, outcome)
  \/ try_local_linearizable_read(c)
  \/ LocalRead(c)
  \/ LocalMetrics(c)
  \/ NotLeader(c)

-----------------------------------------------------------------------------
(* Actors and the Raft group *)

\* initialize_raft succeeded: the actor runs and sends the commands it kept
\* to itself.  Their callers were refused, nobody waits for the answers.
InitializationComplete(n) ==
  /\ state[n] = "initializing"
  /\ state' = [state EXCEPT ![n] = "running"]
  /\ pending' = [pending EXCEPT ![n] = {}]
  /\ calls' = calls \cup {[m EXCEPT !.forward = <<>>, !.rpc = FALSE] : m \in Replayed(pending[n])}
  /\ UNCHANGED <<group, leader, view, log, applied, req, faults>>

\* initialize_raft failed.  It counts as a fault: a majority must survive.
InitializationFailed(n) ==
  /\ state[n] = "initializing" /\ \A m \in Nodes : state[m] # "failed"
  /\ state' = [state EXCEPT ![n] = "failed"]
  /\ UNCHANGED <<group, pending, leader, view, log, applied, req, calls, faults>>

\* Node n wins an election: a majority of the actors pass its vote requests
\* on.  The nodes that did not hear of it keep their view.
Elect(n) ==
  /\ n # leader /\ n \in Reached(RaftRpc.append)
  /\ Majority(Reached(RaftRpc.vote))
  /\ IF leader = NoNode THEN faults' = faults
     ELSE faults < MaxFaults /\ faults' = faults + 1
  /\ leader' = n
  /\ view' = [view EXCEPT ![n] = n]
  /\ UNCHANGED <<group, state, pending, log, applied, req, calls>>

\* AppendEntries of the leader arrives at node n, which thereby knows the
\* leader and applies the next entry.
AppendEntries(n) ==
  /\ leader # NoNode /\ n \in Reached(RaftRpc.append)
  /\ view[n] # leader \/ applied[n] < Len(log)
  /\ view' = [view EXCEPT ![n] = leader]
  /\ applied' = [applied EXCEPT ![n] = IF @ < Len(log) THEN @ + 1 ELSE @]
  /\ UNCHANGED <<group, state, pending, leader, log, req, calls, faults>>

\* A node that is far behind gets a snapshot of everything instead.
InstallSnapshot(n) ==
  /\ leader \notin {NoNode, n} /\ n \in Reached(RaftRpc.snapshot)
  /\ Len(log) - applied[n] > 1
  /\ view' = [view EXCEPT ![n] = leader]
  /\ applied' = [applied EXCEPT ![n] = Len(log)]
  /\ UNCHANGED <<group, state, pending, leader, log, req, calls, faults>>

\* The process of node n ends and starts again.  Its messages are gone; the
\* log is on disk, and its state machine is rebuilt from it.
Restart(n) ==
  /\ state[n] = "running" /\ faults < MaxFaults
  /\ faults' = faults + 1
  /\ state' = [state EXCEPT ![n] = "initializing"]
  /\ pending' = [pending EXCEPT ![n] = {}]
  /\ leader' = IF leader = n THEN NoNode ELSE leader
  /\ view' = [view EXCEPT ![n] = NoNode]
  /\ applied' = [applied EXCEPT ![n] = 0]
  /\ LET lost == {c \in calls : c.node = n}
     IN  /\ calls' = calls \ lost
         /\ req' = [r \in Ids |->
                     IF req[r].status = "waiting" /\ \E c \in lost : c.req = r
                     THEN Refused ELSE req[r]]
  /\ UNCHANGED <<group, log>>

Init ==
  /\ group \in Groups
  /\ leader = FirstLeader
  /\ state = [n \in Nodes |-> IF n \in Starting THEN "initializing" ELSE "running"]
  /\ view = [n \in Nodes |-> IF state[n] = "running" THEN leader ELSE NoNode]
  /\ pending = [n \in Nodes |-> {}]
  /\ log = <<>>
  /\ applied = [n \in Nodes |-> 0]
  /\ req = [r \in Ids |-> [status |-> "idle", entry |-> NoEntry, by |-> "none",
                           value |-> {}, before |-> {}]]
  /\ calls = {}
  /\ faults = 0

Next ==
  \/ \E r \in Ids, n \in Nodes : \E e \in Entries : Send(r, n, e)
  \/ \E c \in calls : Handle(c) \/ RpcFails(c)
  \/ \E n \in Nodes :
       \/ InitializationComplete(n) \/ InitializationFailed(n)
       \/ Elect(n) \/ AppendEntries(n) \/ InstallSnapshot(n)
       \/ Restart(n)

\* Actors handle their messages, initialization ends, a group without leader
\* elects one and the leader's heartbeats arrive.
Fairness ==
  /\ \A r \in Ids : WF_vars(\E c \in calls : c.req = r /\ Handle(c))
  /\ WF_vars(\E n \in Nodes : InitializationComplete(n) \/ InitializationFailed(n))
  /\ WF_vars(\E n \in Nodes : AppendEntries(n))
  /\ WF_vars(leader = NoNode /\ \E n \in Nodes : Elect(n))

Spec == Init /\ [][Next]_vars /\ Fairness

-----------------------------------------------------------------------------
(* Properties *)

TypeOK ==
  /\ group \in Groups
  /\ state \in [Nodes -> ActorState]
  /\ leader \in Nodes \cup {NoNode}
  /\ view \in [Nodes -> Nodes \cup {NoNode}]
  /\ log \in Seq([req : Ids, outcome : {"done"} \cup Rejections])
  /\ applied \in [Nodes -> 0 .. Len(log)]
  /\ \A n \in Nodes : \A m \in pending[n] : m.handler.type \in Types
  /\ \A c \in calls : c.node \in Nodes /\ c.handler.work \in Works

Logged(r) == \E i \in DOMAIN log : log[i].req = r

\* A write that was acknowledged is in the committed log, however many nodes
\* it was passed through, whichever actor kept it, and whatever was lost
\* (handle_raft_write, the services, DirectWriteToRaft).  The one message
\* that is acknowledged without being written is InflightCleanFinishedItems,
\* by an actor that is still initializing.
AckedIsLogged ==
  \A r \in Acked(req) : Logged(r) \/ req[r].entry.handler.type = "clean"

\* No request is written twice: an actor that forwards a command has not
\* written it, and a command that is sent again after initialization was not
\* forwarded before (try_local_write, process_pending_messages).
WrittenOnce ==
  \A i, j \in DOMAIN log : log[i].req = log[j].req => i = j

\* The read of a caller that a leader served through ensure_linearizable
\* shows every write that had been acknowledged when the caller asked, also
\* if the leader changed in between (try_local_linearizable_read).
LeaderReadsAcked ==
  \A r \in Ids :
    req[r].status = "ok" /\ req[r].by = "leader_read" =>
      {q \in req[r].before : Logged(q)} \subseteq req[r].value

\* An outgoing packet that the state machine refused to register is not
\* acknowledged, whether the caller is on the leader or behind a forward
\* (handle_raft_write and the error mapping of the RPC).
RefusedIsReported ==
  \A i \in DOMAIN log :
    LET r == log[i].req
    IN  /\ log[i].outcome # "done"
        /\ log[i].outcome \in req[r].entry.handler.reports
        => req[r].status # "ok"

\* Every caller gets an answer while a majority of the actors is running:
\* calls do not circle between nodes with outdated views for ever.
Answered ==
  \A r \in Ids : req[r].status = "waiting" ~> req[r].status # "waiting"
=============================================================================
