--------------------------- MODULE TopicRaftActor ---------------------------
(***************************************************************************)
(* The handlers of the topic Raft actor, the gRPC methods that reach them  *)
(* from other nodes, and the topic service, whose calls go to the local    *)
(* actor first and to the leader's gRPC service when the actor says that   *)
(* another node leads.  The actor itself never forwards.                   *)
(***************************************************************************)
EXTENDS RaftHandlers, Sequences

Command == Handler("command", "write", "queue", FALSE)
Query(work) == Handler("other", work, "reject", FALSE)
Rpc == Handler("other", "raft", "queue", FALSE)

(* Handlers *)
Subscribe == Command
Unsubscribe == Command
RegisterRetainPublishPacket == Command
CleanRetainPublishPacket == Command
GetSubscriptions == Query("local_read")
GetSubscriptionsEnsureLinearizable == Query("leader_read")
GetRetainPublishPacket == Query("local_read")
GetRetainPublishPacketEnsureLinearizable == Query("leader_read")
GetRetainMessageListWithPagination ==
  Handler("other", "local_read", "queue", FALSE)
GetTopicListWithPagination == Query("local_read")
GetTopicStorage == Query("metrics")
AppendEntriesRequestMessage == Rpc
InstallSnapshotRequestMessage == Rpc
VoteRequestMessage == Rpc
InitRaftClusterMessage == Handler("other", "member", "reject", FALSE)
AddLearnerMessage == Handler("other", "member", "queue", FALSE)
ChangeMembershipMessage == Handler("other", "member", "queue", FALSE)
GetLeader == Handler("other", "metrics", "reject", FALSE)
GetRaftMetrics == Handler("other", "metrics", "reject", FALSE)
GetClusterNodes == Handler("other", "metrics", "empty", FALSE)
DirectWriteToRaft == Handler("other", "write", "queue", FALSE)

\* What the actor sends to itself again once it is running; every other
\* message it kept is dropped.
process_pending_messages(kept) == {m \in kept : m.handler.type = "command"}

(* gRPC methods *)
subscribe_topic == Subscribe
unsubscribe_topic == Unsubscribe
get_subscribers_by_topic == GetSubscriptions
register_retain_publish_message == RegisterRetainPublishPacket
get_retain_publish_message == GetRetainPublishPacketEnsureLinearizable
clean_retain_publish_message == CleanRetainPublishPacket

(* Service *)
subscribe == Entry(Subscribe, <<subscribe_topic>>)
unsubscribe == Entry(Unsubscribe, <<unsubscribe_topic>>)
register_retain == Entry(RegisterRetainPublishPacket,
                         <<register_retain_publish_message>>)
clean_retain == Entry(CleanRetainPublishPacket,
                      <<clean_retain_publish_message>>)
get_subscriptions_linearizable ==
  Entry(GetSubscriptionsEnsureLinearizable, <<get_subscribers_by_topic>>)
get_retain_publish_packets_linearizable ==
  Entry(GetRetainPublishPacketEnsureLinearizable,
        <<get_retain_publish_message>>)

\* The calls that reach the actor, from the broker and from the REST API.
Entries ==
  {subscribe, unsubscribe, register_retain, clean_retain,
   get_subscriptions_linearizable, get_retain_publish_packets_linearizable}
  \cup {Entry(h, <<>>) : h \in
         {GetRetainPublishPacket, GetRetainMessageListWithPagination,
          GetTopicListWithPagination, GetClusterNodes, DirectWriteToRaft}}

\* No handler of this actor calls an RPC: the service does.
Remote(h) == h
=============================================================================
