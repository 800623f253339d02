--------------------------- MODULE SessionTakeover ---------------------------
(***************************************************************************)
(* Competing CONNECTs of one client: the session manager of every node,    *)
(* the session actors it starts, the raft-replicated session_actor_map     *)
(* that decides which instance owns the client, and the client's stored    *)
(* session state.                                                          *)
(*                                                                         *)
(* `log` is the committed log of the session_actor_map raft group; the     *)
(* group's leader applies an entry when it commits, the other nodes later  *)
(* (ApplyNext).  A linearizable read therefore reads the leader's map.     *)
(* Leader changes are left to OpenRaft.  Requests to the session_state     *)
(* group are atomic at their commit; SessionStateStorage models them.      *)
(***************************************************************************)
EXTENDS Naturals, Sequences, FiniteSets

CONSTANTS
  Nodes,
  Leader,      \* the node leading both raft groups
  Connects,    \* the CONNECT packets the client ever sends
  Home,        \* Home[a]: the node that receives CONNECT a
  Kinds,       \* the ways the CONNECTs may ask for their sessions
  MaxErrors,   \* bound: failed requests and lost replies
  MaxCrashes,  \* bound: crashes of nodes other than Leader
  MaxSweeps    \* bound: rounds of CheckExpiredSessions that find the session

ASSUME TakeoverAssumption ==
  /\ Leader \in Nodes
  /\ Home \in [Connects -> Nodes]
  /\ Kinds \subseteq [Connects -> {"clean", "fresh", "resume"}]
  /\ MaxErrors \in Nat /\ MaxCrashes \in Nat /\ MaxSweeps \in Nat

VARIABLES
  log,                \* committed requests of the session_actor_map group
  applied,            \* how much of it each node has applied
  session_actor_map,  \* each node's entry for the client
  force_stops,        \* ForceStopWithSessionService messages to session managers
  sessions,           \* each manager's registry entry for the client: instance or 0
  pc,                 \* progress of CreateSessionMessage for each CONNECT
  instance,           \* its session_instance_id, 0 before registration
  replaced,           \* the registry entry it displaced
  seen,               \* the instance its last ownership read returned
  actor,              \* life of the session actor it started
  mailbox,            \* actors with a ForceStop message waiting
  writes,             \* session_state requests the actors have in flight
  lifecycle,          \* each manager's channel of SessionStopped messages
  stored,             \* the client's persistent session state
  sweep,              \* the leader's CheckExpiredSessions task
  errors, crashes, sweeps,
  kind                \* kind[a]: a clean session, a fresh or a resumed one

mapVars == <<log, applied, session_actor_map, force_stops>>
connectVars == <<pc, instance, replaced, seen>>
actorVars == <<actor, mailbox, writes, lifecycle>>
sweepVars == <<sweep, sweeps>>
vars == <<mapVars, sessions, connectVars, actorVars, stored, sweepVars, errors, crashes, kind>>

-------------------------------------------------------------------------------
(* The replicated map (session_actor_map_storage.rs, raft apply).          *)

NoEntry == [node |-> Leader, instance |-> 0]

Indices == 0 .. 2 * Cardinality(Connects)

Entry == [node : Nodes, instance : Indices]

RegisterSession(n) == [op |-> "register", node |-> n, instance |-> 0]
UnregisterSession(i) == [op |-> "unregister", node |-> Leader, instance |-> i]

\* Mutant: an unregister removes whatever entry the client has.
ApplyRequest_AnyInstance(req, index, current) ==
  IF req.op = "register" THEN [node |-> req.node, instance |-> index] ELSE NoEntry

\* The instance id of a registration is its log index; a stale unregister is ignored.
ApplyRequest(req, index, current) ==
  IF req.op = "register" THEN [node |-> req.node, instance |-> index]
  ELSE IF current.instance = req.instance THEN NoEntry ELSE current

\* Mutant: the node of the NEW registration is told to stop the old session.
StopsPrevious_NewNode(n, req, current) ==
  IF req.op = "register" /\ current.instance # 0 /\ req.node = n
    THEN {<<n, current.instance>>} ELSE {}

\* Applying a registration, the node that runs the previous instance stops it.
StopsPrevious(n, req, current) ==
  IF req.op = "register" /\ current.instance # 0 /\ current.node = n
    THEN {<<n, current.instance>>} ELSE {}

ApplyAt(n, req, index) ==
  /\ session_actor_map' =
       [session_actor_map EXCEPT ![n] = ApplyRequest(req, index, session_actor_map[n])]
  /\ force_stops' = force_stops \cup StopsPrevious(n, req, session_actor_map[n])
  /\ applied' = [applied EXCEPT ![n] = index]

Commit(req) ==
  /\ log' = Append(log, req)
  /\ ApplyAt(Leader, req, Len(log) + 1)

Owner == session_actor_map[Leader].instance

\* A follower applies the next committed entry.
ApplyNext(n) ==
  /\ n # Leader
  /\ applied[n] < Len(log)
  /\ ApplyAt(n, log[applied[n] + 1], applied[n] + 1)
  /\ UNCHANGED <<log, sessions, connectVars, actorVars, stored, sweepVars, errors, crashes, kind>>

-------------------------------------------------------------------------------
(* CreateSessionMessage, one action per await (session_manager_actor.rs).  *)

NoState == [exists |-> FALSE, disconnected_at |-> 0]

\* `disconnected_at` is the instance whose disconnect was recorded, 0 for None.
Connected == [exists |-> TRUE, disconnected_at |-> 0]

Persistent(a) == kind[a] # "clean"

Running(a) == actor[a] \in {"starting", "active", "inactive", "deleting"}

Fail == errors < MaxErrors /\ errors' = errors + 1

Goto(a, from, to) == pc[a] = from /\ pc' = [pc EXCEPT ![a] = to]

Register(a) ==
  /\ Commit(RegisterSession(Home[a]))
  /\ instance' = [instance EXCEPT ![a] = Len(log) + 1]
  /\ \/ Goto(a, "idle", IF kind[a] = "resume" THEN "recover" ELSE "reset") /\ UNCHANGED errors
     \/ Goto(a, "idle", "failed") /\ Fail    \* committed, but the reply is an error
  /\ UNCHANGED <<sessions, replaced, seen, actorVars, stored, sweepVars, crashes, kind>>

\* clean_start: the previous state is deleted; a failure to do so is ignored.
ResetState(a) ==
  /\ Goto(a, "reset", IF Persistent(a) THEN "create" ELSE "check")
  /\ \/ stored' = NoState /\ UNCHANGED errors
     \/ UNCHANGED stored /\ Fail
  /\ UNCHANGED <<mapVars, sessions, instance, replaced, seen, actorVars, sweepVars, crashes, kind>>

\* A stored state whose client is disconnected may or may not have expired.
RecoverState(a) ==
  /\ \/ ~stored.exists /\ Goto(a, "recover", "create") /\ UNCHANGED <<seen, errors>>
     \/ stored.exists /\ Goto(a, "recover", "check") /\ UNCHANGED <<seen, errors>>
     \/ /\ stored.disconnected_at # 0
        /\ Goto(a, "recover", "expire")
        /\ seen' = [seen EXCEPT ![a] = stored.disconnected_at]
        /\ UNCHANGED errors
     \/ Goto(a, "recover", "failed") /\ Fail /\ UNCHANGED seen
  /\ UNCHANGED <<mapVars, sessions, instance, replaced, actorVars, stored, sweepVars, crashes, kind>>

\* delete_session_state with an expected disconnected_at.
DeleteIfStill(at) == IF stored.disconnected_at = at THEN NoState ELSE stored

ExpireState(a) ==
  /\ Goto(a, "expire", "create")
  /\ \/ stored' = DeleteIfStill(seen[a]) /\ UNCHANGED errors
     \/ UNCHANGED stored /\ Fail
  /\ UNCHANGED <<mapVars, sessions, instance, replaced, seen, actorVars, sweepVars, crashes, kind>>

CreateState(a) ==
  /\ \/ Goto(a, "create", "check") /\ stored' = Connected /\ UNCHANGED errors
     \/ Goto(a, "create", "failed") /\ Fail /\ UNCHANGED stored
  /\ UNCHANGED <<mapVars, sessions, instance, replaced, seen, actorVars, sweepVars, crashes, kind>>

\* The ownership check before the session actor is started.
CheckOwner(a) ==
  /\ \/ Goto(a, "check", IF Owner = instance[a] THEN "start" ELSE "superseded") /\ UNCHANGED errors
     \/ Goto(a, "check", "failed") /\ Fail
  /\ UNCHANGED <<mapVars, sessions, instance, replaced, seen, actorVars, stored, sweepVars, crashes, kind>>

\* The actor is started and put in the registry in one step of the manager's thread.
StartSession(a) ==
  /\ Goto(a, "start", "confirm")
  /\ actor' = [actor EXCEPT ![a] = "starting"]
  /\ replaced' = [replaced EXCEPT ![a] = sessions[Home[a]]]
  /\ sessions' = [sessions EXCEPT ![Home[a]] = instance[a]]
  /\ UNCHANGED <<mapVars, instance, seen, mailbox, writes, lifecycle, stored, sweepVars, errors, crashes, kind>>

\* The second ownership check; an error counts as not being the owner.
ConfirmOwner(a) ==
  /\ \/ /\ Goto(a, "confirm", IF Owner = instance[a] THEN "ok" ELSE "undo")
        /\ seen' = [seen EXCEPT ![a] = Owner]
        /\ UNCHANGED errors
     \/ /\ Goto(a, "confirm", "undo")
        /\ seen' = [seen EXCEPT ![a] = 0]
        /\ Fail
  /\ UNCHANGED <<mapVars, sessions, instance, replaced, actorVars, stored, sweepVars, crashes, kind>>

Vacate(current, i) == IF current = i THEN 0 ELSE current

\* The registry entry is withdrawn, the displaced one put back if it was the
\* owner when the check read the map, and the new actor stopped.
UndoSession(a) ==
  /\ Goto(a, "undo", "superseded")
  /\ LET vacated == Vacate(sessions[Home[a]], instance[a])
         restored == IF vacated = 0 /\ seen[a] = replaced[a] THEN replaced[a] ELSE vacated
     IN  sessions' = [sessions EXCEPT ![Home[a]] = restored]
  /\ mailbox' = IF Running(a) THEN mailbox \cup {a} ELSE mailbox
  /\ UNCHANGED <<mapVars, instance, replaced, seen, actor, writes, lifecycle, stored, sweepVars, errors, crashes, kind>>

-------------------------------------------------------------------------------
(* The session actor (session_actor.rs).                                   *)

\* force_stop: report SessionStopped to the manager, then stop.
Stop(a) ==
  /\ actor' = [actor EXCEPT ![a] = "stopped"]
  /\ mailbox' = mailbox \ {a}
  /\ lifecycle' = [lifecycle EXCEPT ![Home[a]] =
                     Append(@, [instance |-> instance[a], step |-> "unregister"])]

\* started: a persistent session marks its stored state connected.  The mailbox
\* is blocked until this is done.
ActorStarted(a) ==
  /\ actor[a] = "starting"
  /\ actor' = [actor EXCEPT ![a] = "active"]
  /\ \/ stored' = (IF Persistent(a) /\ stored.exists THEN Connected ELSE stored) /\ UNCHANGED errors
     \/ Persistent(a) /\ UNCHANGED stored /\ Fail
  /\ UNCHANGED <<mapVars, sessions, connectVars, mailbox, writes, lifecycle, sweepVars, crashes, kind>>

HandleForceStop(a) ==
  /\ a \in mailbox
  /\ actor[a] \in {"active", "inactive", "deleting"}
  /\ Stop(a)
  /\ UNCHANGED <<mapVars, sessions, connectVars, writes, stored, sweepVars, errors, crashes, kind>>

\* finish_connection_disconnect.  A persistent session becomes inactive, or
\* deletes its state when the expiry interval is (or has been set to) 0; the
\* request it sends runs beside its mailbox.
ClientDisconnect(a) ==
  /\ pc[a] = "ok" /\ actor[a] = "active"
  /\ \/ ~Persistent(a) /\ Stop(a) /\ UNCHANGED writes
     \/ /\ Persistent(a)
        /\ \E inactive \in BOOLEAN :
             /\ actor' = [actor EXCEPT ![a] = IF inactive THEN "inactive" ELSE "deleting"]
             /\ writes' = writes \cup {[by |-> a, op |-> IF inactive THEN "disconnect" ELSE "delete"]}
        /\ UNCHANGED <<mailbox, lifecycle>>
  /\ UNCHANGED <<mapVars, sessions, connectVars, stored, sweepVars, errors, crashes, kind>>

\* What an actor's request leaves stored.
WriteResult(w) ==
  IF w.op = "delete" THEN NoState
  ELSE IF stored.exists THEN [stored EXCEPT !.disconnected_at = instance[w.by]]
  ELSE stored

\* An actor's request commits or fails.  After a delete the actor stops itself.
WriteCommits(w) ==
  /\ w \in writes
  /\ writes' = writes \ {w}
  /\ \/ stored' = WriteResult(w) /\ UNCHANGED errors
     \/ UNCHANGED stored /\ Fail
  /\ IF w.op = "delete" /\ actor[w.by] = "deleting"
       THEN Stop(w.by)
       ELSE UNCHANGED <<actor, mailbox, lifecycle>>
  /\ UNCHANGED <<mapVars, sessions, connectVars, sweepVars, crashes, kind>>

\* A stopped actor drops the requests it has not handed over yet.
WriteDropped(w) ==
  /\ w \in writes /\ ~Running(w.by)
  /\ writes' = writes \ {w}
  /\ UNCHANGED <<mapVars, sessions, connectVars, actor, mailbox, lifecycle, stored, sweepVars, errors, crashes, kind>>

-------------------------------------------------------------------------------
(* The session manager's messages (session_manager_actor.rs).              *)

\* ForceStopWithSessionService stops the instance only if the registry holds it.
HandleForceStopRequest(n, i) ==
  /\ <<n, i>> \in force_stops
  /\ force_stops' = force_stops \ {<<n, i>>}
  /\ mailbox' = mailbox \cup {a \in Connects : sessions[n] = i /\ instance[a] = i /\ Running(a)}
  /\ UNCHANGED <<log, applied, session_actor_map, sessions, connectVars, actor, writes, lifecycle,
                 stored, sweepVars, errors, crashes, kind>>

\* Mutant: the stopped session is not unregistered.
UnregisterStopped_LocalOnly(n) ==
  /\ lifecycle[n] # <<>> /\ Head(lifecycle[n]).step = "unregister"
  /\ lifecycle' = [lifecycle EXCEPT ![n][1].step = "remove"]
  /\ UNCHANGED <<mapVars, errors, sessions, connectVars, actor, mailbox, writes, stored, sweepVars, crashes, kind>>

\* SessionStopped, first half: unregister; a failure is logged and ignored.
UnregisterStopped(n) ==
  /\ lifecycle[n] # <<>> /\ Head(lifecycle[n]).step = "unregister"
  /\ lifecycle' = [lifecycle EXCEPT ![n][1].step = "remove"]
  /\ \/ Commit(UnregisterSession(Head(lifecycle[n]).instance)) /\ UNCHANGED errors
     \/ UNCHANGED mapVars /\ Fail
  /\ UNCHANGED <<sessions, connectVars, actor, mailbox, writes, stored, sweepVars, crashes, kind>>

\* Mutant: the stopped session stays in the local registry.
RemoveSession_Skipped(n) ==
  /\ lifecycle[n] # <<>> /\ Head(lifecycle[n]).step = "remove"
  /\ lifecycle' = [lifecycle EXCEPT ![n] = Tail(@)]
  /\ UNCHANGED <<mapVars, sessions, connectVars, actor, mailbox, writes, stored, sweepVars, errors, crashes, kind>>

\* SessionStopped, second half: RemoveSessionMessage.
RemoveSession(n) ==
  /\ lifecycle[n] # <<>> /\ Head(lifecycle[n]).step = "remove"
  /\ lifecycle' = [lifecycle EXCEPT ![n] = Tail(@)]
  /\ sessions' = [sessions EXCEPT ![n] = Vacate(@, Head(lifecycle[n]).instance)]
  /\ UNCHANGED <<mapVars, connectVars, actor, mailbox, writes, stored, sweepVars, errors, crashes, kind>>

-------------------------------------------------------------------------------
(* CheckExpiredSessions, one action per await.                             *)

NoTarget == <<Leader, 0>>

Idle == [step |-> "idle", at |-> 0, target |-> NoTarget]

ScanExpired ==
  /\ sweep = Idle /\ sweeps < MaxSweeps
  /\ stored.disconnected_at # 0
  /\ sweep' = [Idle EXCEPT !.step = "resolve", !.at = stored.disconnected_at]
  /\ sweeps' = sweeps + 1
  /\ UNCHANGED <<mapVars, sessions, connectVars, actorVars, stored, errors, crashes, kind>>

\* The owner's node is asked to stop the instance; it may be out of reach.
SweepForceStop ==
  LET entry == session_actor_map[Leader] IN
  /\ sweep.step = "resolve"
  /\ \/ /\ entry.instance # 0
        /\ force_stops' = force_stops \cup {<<entry.node, entry.instance>>}
        /\ sweep' = [sweep EXCEPT !.step = "await", !.target = <<entry.node, entry.instance>>]
        /\ UNCHANGED errors
     \/ /\ entry.instance = 0
        /\ sweep' = [sweep EXCEPT !.step = "delete"]
        /\ UNCHANGED <<force_stops, errors>>
     \/ /\ entry.instance # 0 /\ Fail
        /\ sweep' = [sweep EXCEPT !.step = "delete"]
        /\ UNCHANGED force_stops
  /\ UNCHANGED <<log, applied, session_actor_map, sessions, connectVars, actorVars, stored, sweeps, crashes, kind>>

\* The reply comes once the actor, if the registry had it, has handled ForceStop.
SweepAwait ==
  /\ sweep.step = "await"
  /\ sweep.target \notin force_stops
  /\ \A a \in mailbox : instance[a] # sweep.target[2]
  /\ sweep' = [sweep EXCEPT !.step = "delete"]
  /\ UNCHANGED <<mapVars, sessions, connectVars, actorVars, stored, sweeps, errors, crashes, kind>>

SweepDelete ==
  /\ sweep.step = "delete"
  /\ \/ stored' = DeleteIfStill(sweep.at) /\ UNCHANGED errors
     \/ UNCHANGED stored /\ Fail
  /\ sweep' = Idle
  /\ UNCHANGED <<mapVars, sessions, connectVars, actorVars, sweeps, crashes, kind>>

-------------------------------------------------------------------------------
(* A node other than the leader crashes and restarts: its processes and    *)
(* queues are gone, and it applies the log again from the start.           *)

Crash(n) ==
  LET local == {a \in Connects : Home[a] = n} IN
  /\ n # Leader /\ crashes < MaxCrashes
  /\ crashes' = crashes + 1
  /\ applied' = [applied EXCEPT ![n] = 0]
  /\ session_actor_map' = [session_actor_map EXCEPT ![n] = NoEntry]
  /\ force_stops' = {m \in force_stops : m[1] # n}
  /\ sessions' = [sessions EXCEPT ![n] = 0]
  /\ pc' = [a \in Connects |-> IF a \in local /\ pc[a] \notin {"idle", "ok", "superseded"}
                                 THEN "failed" ELSE pc[a]]
  /\ actor' = [a \in Connects |-> IF a \in local /\ Running(a) THEN "stopped" ELSE actor[a]]
  /\ mailbox' = mailbox \ local
  /\ lifecycle' = [lifecycle EXCEPT ![n] = <<>>]
  /\ UNCHANGED <<log, instance, replaced, seen, writes, stored, sweepVars, errors, kind>>

-------------------------------------------------------------------------------
Init ==
  /\ log = <<>>
  /\ applied = [n \in Nodes |-> 0]
  /\ session_actor_map = [n \in Nodes |-> NoEntry]
  /\ force_stops = {}
  /\ sessions = [n \in Nodes |-> 0]
  /\ pc = [a \in Connects |-> "idle"]
  /\ instance = [a \in Connects |-> 0]
  /\ replaced = [a \in Connects |-> 0]
  /\ seen = [a \in Connects |-> 0]
  /\ actor = [a \in Connects |-> "none"]
  /\ mailbox = {}
  /\ writes = {}
  /\ lifecycle = [n \in Nodes |-> <<>>]
  /\ stored = NoState
  /\ sweep = Idle
  /\ errors = 0 /\ crashes = 0 /\ sweeps = 0
  /\ kind \in Kinds

CreateSession(a) ==
  \/ ResetState(a) \/ RecoverState(a) \/ ExpireState(a) \/ CreateState(a)
  \/ CheckOwner(a) \/ StartSession(a) \/ ConfirmOwner(a) \/ UndoSession(a)

ManagerStep(n) ==
  \/ ApplyNext(n) \/ UnregisterStopped(n) \/ RemoveSession(n)
  \/ \E i \in Indices : HandleForceStopRequest(n, i)

SweepStep == SweepForceStop \/ SweepAwait \/ SweepDelete

Next ==
  \/ \E a \in Connects :
       Register(a) \/ CreateSession(a) \/ ActorStarted(a) \/ HandleForceStop(a) \/ ClientDisconnect(a)
  \/ \E w \in writes : WriteCommits(w) \/ WriteDropped(w)
  \/ \E n \in Nodes : ManagerStep(n) \/ Crash(n)
  \/ ScanExpired \/ SweepStep

\* The broker as a whole goes on as long as one of its own steps is possible.
\* No step can be taken for ever, so nothing more has to be assumed.  The
\* client's CONNECT and DISCONNECT, crashes and failures may never happen.
BrokerStep ==
  \/ \E a \in Connects : CreateSession(a) \/ ActorStarted(a) \/ HandleForceStop(a)
  \/ \E w \in writes : WriteCommits(w) \/ WriteDropped(w)
  \/ \E n \in Nodes : ManagerStep(n)
  \/ ScanExpired \/ SweepStep
Fairness == WF_vars(BrokerStep)

Spec == Init /\ [][Next]_vars

-------------------------------------------------------------------------------
TypeOK ==
  /\ log \in Seq([op : {"register", "unregister"}, node : Nodes, instance : Indices])
  /\ applied \in [Nodes -> 0 .. Len(log)]
  /\ session_actor_map \in [Nodes -> Entry]
  /\ force_stops \subseteq Nodes \X Indices
  /\ sessions \in [Nodes -> Indices]
  /\ pc \in [Connects -> {"idle", "reset", "recover", "expire", "create", "check", "start",
                          "confirm", "undo", "ok", "superseded", "failed"}]
  /\ instance \in [Connects -> Indices] /\ replaced \in [Connects -> Indices]
  /\ seen \in [Connects -> Indices]
  /\ actor \in [Connects -> {"none", "starting", "active", "inactive", "deleting", "stopped"}]
  /\ mailbox \subseteq {a \in Connects : Running(a)}
  /\ writes \subseteq [by : Connects, op : {"disconnect", "delete"}]
  /\ lifecycle \in [Nodes -> Seq([instance : Indices, step : {"unregister", "remove"}])]
  /\ stored \in [exists : BOOLEAN, disconnected_at : Indices]
  /\ sweep \in [step : {"idle", "resolve", "await", "delete"}, at : Indices, target : Nodes \X Indices]
  /\ errors \in 0 .. MaxErrors /\ crashes \in 0 .. MaxCrashes /\ sweeps \in 0 .. MaxSweeps
  /\ kind \in Kinds

Issued == {i \in 1 .. Len(log) : log[i].op = "register"}

Ownership == INSTANCE SessionOwnership WITH
  issued <- Issued,
  owner <- Owner,
  live <- {instance[a] : a \in {b \in Connects : Running(b)}},
  ended <- {instance[a] : a \in {b \in Connects : actor[b] = "stopped"}}

\* The whole takeover protocol implements SessionOwnership: a later CONNECT
\* always wins, and the clean-up of a replaced session never takes the client
\* away from the running owner (stale UnregisterSession requests are ignored).
RefinesOwnership == Ownership!Spec

\* No message is waiting and every node has applied the whole log.
Settled ==
  /\ force_stops = {} /\ mailbox = {}
  /\ \A n \in Nodes : applied[n] = Len(log) /\ lifecycle[n] = <<>>
  /\ \A a \in Connects : pc[a] \notin {"confirm", "undo"}

\* Once everything in flight is handled, only the owner's session still runs:
\* every earlier instance has been found by ForceStopWithSessionService or by
\* the second ownership check of its own CreateSessionMessage.
OnlyOwnerRuns == Settled => \A a \in Connects : Running(a) => Owner = instance[a]

\* Once everything in flight is handled, the registry that SendMessageToSession
\* uses holds exactly the running sessions.
RegistryHoldsRunning ==
  Settled => \A n \in Nodes :
    {i \in {sessions[n]} : i # 0} = {instance[a] : a \in {b \in Connects : Running(b) /\ Home[b] = n}}

\* A request failed or a node crashed.
Disturbed == errors + crashes > 0

\* A session that stopped is eventually cleaned up, unless a failure gets in the
\* way: neither the replicated map nor its node's registry names it any more.
StoppedSessionForgotten ==
  []<>(Disturbed \/ \A a \in Connects :
         actor[a] = "stopped" => Owner # instance[a] /\ sessions[Home[a]] # instance[a])

===============================================================================
