------------------------- MODULE MCSessionStateStorage -------------------------
(* A finite instance of SessionStateStorage for TLC: two sessions that share  *)
(* keys.  The requests about connections and subscriptions touch no payload,  *)
(* so their states are explored only while no session holds one.              *)
EXTENDS SessionStateStorage, TLC

CONSTANTS c1, c2, k1, k2

MCClients == {c1, c2}
MCPayloadKeys == {k1, k2}
MCSymmetry == Permutations({c1, c2}) \cup Permutations({k1, k2})

NoPayloads == \A c \in Clients : pending_messages[c] = <<>> /\ inflight[c] = EmptyInflight
NoConnections ==
  \A c \in Clients :
    disconnected_at[c] = None /\ session_expiry_interval[c] = None /\ subscriptions[c] = NoSubscriptions

MCSpec == Init /\ [][Next /\ (NoPayloads \/ NoConnections)']_storageVars
===============================================================================
