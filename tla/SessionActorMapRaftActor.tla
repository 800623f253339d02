---------------------- MODULE SessionActorMapRaftActor ----------------------
(***************************************************************************)
(* The handlers of the session actor map Raft actor, the gRPC methods that *)
(* reach them, and the session actor map service.  Like the session state  *)
(* actor it forwards by itself, but its forwarded read is linearizable on  *)
(* the leader too.                                                         *)
(***************************************************************************)
EXTENDS RaftHandlers, Sequences

Command == Handler("command", "write", "queue", TRUE)
Rpc == Handler("other", "raft", "queue", FALSE)

(* Handlers *)
RenewSession == Command
RegisterSessionActorMap == Command
UnregisterSessionActorMap == Command
GetSessionActorMap == Handler("other", "local_read", "reject", FALSE)
GetSessionActorMapLinearizable ==
  Handler("other", "leader_read", "reject", TRUE)
GetClientListWithPagination ==
  Handler("other", "local_read", "reject", FALSE)
GetSessionActorMapStorage == Handler("other", "metrics", "reject", FALSE)
DirectWriteToRaft ==
  Handler("other", "write", "queue", TRUE)
AppendEntriesRequestMessage == Rpc
InstallSnapshotRequestMessage == Rpc
VoteRequestMessage == Rpc
InitRaftClusterMessage == Handler("other", "member", "reject", FALSE)
AddLearnerMessage == Handler("other", "member", "queue", FALSE)
ChangeMembershipMessage == Handler("other", "member", "reject", FALSE)
GetLeader == Handler("other", "metrics", "reject", FALSE)
GetRaftMetrics == Handler("other", "metrics", "reject", FALSE)
GetClusterNodes == Handler("other", "metrics", "empty", FALSE)

\* What the actor sends to itself again once it is running.
process_pending_messages(kept) == {m \in kept : m.handler.type = "command"}

(* gRPC methods *)
register_session_actor_map == RegisterSessionActorMap
un_register_session_actor_map == UnregisterSessionActorMap
renew_session_lease == RenewSession
get_session_actor_map == GetSessionActorMapLinearizable

(* Service *)
service_renew_session == Entry(RenewSession, <<>>)
service_register == Entry(RegisterSessionActorMap, <<>>)
service_unregister == Entry(UnregisterSessionActorMap, <<>>)
service_get == Entry(GetSessionActorMap, <<>>)
service_get_linearizable == Entry(GetSessionActorMapLinearizable, <<>>)

\* The calls that reach the actor.
Entries ==
  {service_renew_session, service_register, service_unregister, service_get,
   service_get_linearizable}
  \cup {Entry(h, <<>>) : h \in
         {register_session_actor_map, un_register_session_actor_map,
          renew_session_lease, get_session_actor_map,
          GetClientListWithPagination, GetClusterNodes}}

\* The handler that a call forwarded by handler h reaches on the leader.
Remote(h) ==
  IF h.work = "write" THEN DirectWriteToRaft ELSE get_session_actor_map
=============================================================================
