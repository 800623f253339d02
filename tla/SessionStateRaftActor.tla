------------------------ MODULE SessionStateRaftActor ------------------------
(***************************************************************************)
(* The handlers of the session state Raft actor, the gRPC methods that     *)
(* reach them, and the session state service.  This actor forwards by      *)
(* itself: a write goes to the leader's Raft service, where it becomes a   *)
(* DirectWriteToRaft, and a linearizable read goes to a method of the      *)
(* leader's cluster service.                                               *)
(***************************************************************************)
EXTENDS RaftHandlers, Sequences

Command == Handler("command", "write", "queue", TRUE)
Query == Handler("other", "leader_read", "queue", TRUE)
Rpc == Handler("other", "raft", "queue", FALSE)

(* Handlers *)
StoreOfflineMessage == Command
PopOfflineMessage ==
  Handler("command", "write", "reject", TRUE)
CreateSessionState == Command
DeleteSessionState == Command
SubscribeTopic == Command
UnsubscribeTopic == Command
UpdateSessionConnectionState ==
  Handler("other", "write", "queue", TRUE)
RegisterInflightRxPacket == Reporting(Command, {"inflight"})
RegisterInflightTxPacket == Reporting(Command, {"inflight", "missing"})
AdvanceInflightState == Command
InflightCleanFinishedItems ==
  Handler("clean", "write", "queue_ok", TRUE)
DirectWriteToRaft ==
  Handler("other", "write", "queue", TRUE)
ScanExpiredSessions == Handler("other", "leader_read", "queue", FALSE)
GetSessionState == Handler("other", "local_read", "queue", FALSE)
GetCurrentInflightPacket == Handler("other", "local_read", "queue", FALSE)
GetNextInflightPacket == Handler("other", "local_read", "queue", FALSE)
AppendEntriesRequestMessage == Rpc
InstallSnapshotRequestMessage == Rpc
VoteRequestMessage == Rpc
InitRaftClusterMessage == Handler("other", "member", "reject", FALSE)
AddLearnerMessage == Handler("other", "member", "queue", FALSE)
ChangeMembershipMessage == Handler("other", "member", "queue", FALSE)
GetLeader == Handler("other", "metrics", "reject", FALSE)
GetRaftMetrics == Handler("other", "metrics", "reject", FALSE)
GetClusterNodes == Handler("other", "metrics", "empty", FALSE)
GetPayloadReady == Handler("other", "metrics", "empty", FALSE)

\* What the actor sends to itself again once it is running; every other
\* message it kept is dropped.
process_pending_messages(kept) == {m \in kept : m.handler.type = "command"}

(* gRPC methods *)
store_offline_message == StoreOfflineMessage
pop_offline_message == PopOfflineMessage
get_session_state == GetSessionState
create_session_state == CreateSessionState
delete_session_state == DeleteSessionState
register_inflight_rx_packet == RegisterInflightRxPacket
register_inflight_tx_packet == RegisterInflightTxPacket
advance_inflight_state == AdvanceInflightState
get_current_inflight_packet == GetCurrentInflightPacket
get_next_inflight_packet == GetNextInflightPacket

(* The handlers that call such a method of the leader *)
GetSessionStateEnsureLinearizable == Reaching(Query, get_session_state)
GetCurrentInflightPacketLinearizable ==
  Reaching(Query, get_current_inflight_packet)
GetNextInflightPacketLinearizable == Reaching(Query, get_next_inflight_packet)

(* Service *)
service_store_offline == Entry(StoreOfflineMessage, <<>>)
service_pop_offline == Entry(PopOfflineMessage, <<>>)
service_get_linearizable == Entry(GetSessionStateEnsureLinearizable, <<>>)
service_create == Entry(CreateSessionState, <<>>)
service_delete == Entry(DeleteSessionState, <<>>)
service_update_connection == Entry(UpdateSessionConnectionState, <<>>)
service_scan_expired == Entry(ScanExpiredSessions, <<>>)
service_subscribe == Entry(SubscribeTopic, <<>>)
service_unsubscribe == Entry(UnsubscribeTopic, <<>>)
service_register_rx == Entry(RegisterInflightRxPacket, <<>>)
service_advance == Entry(AdvanceInflightState, <<>>)
service_clean_finished == Entry(InflightCleanFinishedItems, <<>>)
write_delivery_command(reports) ==
  Entry(Reporting(DirectWriteToRaft, reports), <<>>)
service_register_tx == write_delivery_command({"inflight", "missing"})
start_inflight_delivery == write_delivery_command({})
discard_unsent_inflight == write_delivery_command({})

\* The calls that reach the actor.
Entries ==
  {service_store_offline, service_pop_offline, service_get_linearizable,
   service_create, service_delete, service_update_connection,
   service_scan_expired, service_subscribe, service_unsubscribe,
   service_register_rx, service_register_tx, service_advance,
   service_clean_finished, start_inflight_delivery, discard_unsent_inflight}
  \cup {Entry(h, <<>>) : h \in
         {store_offline_message, pop_offline_message, get_session_state,
          create_session_state, delete_session_state,
          register_inflight_rx_packet, register_inflight_tx_packet,
          advance_inflight_state, get_current_inflight_packet,
          get_next_inflight_packet, GetCurrentInflightPacketLinearizable,
          GetNextInflightPacketLinearizable, GetClusterNodes,
          GetPayloadReady}}

\* The handler that a call forwarded by handler h reaches on the leader.  The
\* leader's answer is turned into an error by the kind of the command, which
\* the forwarded call carries.
Remote(h) ==
  IF h.work = "write" THEN Reporting(DirectWriteToRaft, h.reports)
  ELSE Head(h.remote)
=============================================================================
