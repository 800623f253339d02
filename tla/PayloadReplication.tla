-------------------------- MODULE PayloadReplication --------------------------
(***************************************************************************)
(* How message payloads travel beside the session_state Raft log           *)
(* (broker/src/raft/session_state/store.rs, raft_network_impl.rs,          *)
(* raft/payload/).  A log entry carries only the key of a payload; the     *)
(* bytes are pushed ahead of the entry, checked for when the entry is      *)
(* appended, and deleted once the entries that mention them are purged.    *)
(*                                                                         *)
(* The state machine is cut down to the pending queue of one session:      *)
(* AppendToPendingQueue references a key and PopFromPendingQueue releases  *)
(* the newest one.  Inflight registration and cleaning reference and       *)
(* release keys in the same way (SessionStateStorage has them all).        *)
(* OpenRaft is external: a fixed leader, a log that is never rewritten,    *)
(* commitment by a majority, and a storage error that stops the replica    *)
(* until its process restarts.                                             *)
(***************************************************************************)
EXTENDS Integers, Sequences, FiniteSets, Functions

CONSTANTS
  Nodes, Leader,
  Keys,          \* payload keys; a fresh UUID per message
  NoKey,
  MaxLog,        \* bound: entries proposed
  MaxSnapshots,  \* bound: snapshots built
  MaxOverlap,    \* bound: entries one replica applies during a snapshot build
  MaxRestarts    \* bound: process restarts

ASSUME ReplicationAssumption ==
  /\ IsFiniteSet(Nodes) /\ Leader \in Nodes
  /\ NoKey \notin Keys
  /\ {MaxLog, MaxSnapshots, MaxOverlap, MaxRestarts} \subseteq Nat

VARIABLES
  log,         \* every entry the leader ever appended, purged ones included
  stored,      \* per node: index of the last entry in its log
  purged,      \* per node: last_purged_log_id
  payloads,    \* per node: keys in the payload store
  payload_gc,  \* per node: PayloadGcItems, queued and persisted
  snapshot,    \* per node: the stored snapshot
  applied,     \* per node: last_applied_log_id (in memory)
  pending,     \* per node: pending_messages of the session (in memory)
  building,    \* per node: last_applied of the snapshot builder at work, or None
  pushed,      \* per node: last index of the append_entries call whose payloads arrived
  installing,  \* per node: the snapshot being installed, or None
  is_ready,
  halted,      \* nodes whose replica stopped on a storage error
  snapshots, restarts

durable == <<log, stored, purged, payloads, payload_gc, snapshot>>
memory == <<applied, pending, building, pushed, installing, is_ready, halted>>
vars == <<durable, memory, snapshots, restarts>>

None == [last |-> -1, pending |-> <<>>]
NotBuilding == -1

Append_(key) == [op |-> "append", key |-> key]
Pop_ == [op |-> "pop", key |-> NoKey]
Entries == {Append_(key) : key \in Keys} \cup {Pop_}

\* The payload keys that the entries from..to mention.
KeysIn(from, to) == {log[i].key : i \in from..to} \ {NoKey}

IsCommitted(i) == 2 * Cardinality({n \in Nodes : stored[n] >= i}) > Cardinality(Nodes)

Init ==
  /\ log = <<>>
  /\ stored = [n \in Nodes |-> 0] /\ purged = [n \in Nodes |-> 0]
  /\ payloads = [n \in Nodes |-> {}] /\ payload_gc = [n \in Nodes |-> {}]
  /\ snapshot = [n \in Nodes |-> [last |-> 0, pending |-> <<>>]]
  /\ applied = [n \in Nodes |-> 0] /\ pending = [n \in Nodes |-> <<>>]
  /\ building = [n \in Nodes |-> NotBuilding]
  /\ pushed = [n \in Nodes |-> 0]
  /\ installing = [n \in Nodes |-> None]
  /\ is_ready = [n \in Nodes |-> TRUE]
  /\ halted = {} /\ snapshots = 0 /\ restarts = 0

-----------------------------------------------------------------------------
\* Proposing a message.

InLog(key) == \E i \in 1..Len(log) : log[i].key = key

\* The node that has a message for an offline session stores the payload under
\* a fresh key.
StorePayload(n, key) ==
  /\ \A m \in Nodes : key \notin payloads[m]
  /\ ~InLog(key)
  /\ payloads' = [payloads EXCEPT ![n] = @ \cup {key}]
  /\ UNCHANGED <<log, stored, purged, payload_gc, snapshot, memory, snapshots, restarts>>

\* handle_raft_write on a follower: the payload goes to the leader before the
\* request does.
ForwardPayload(n, key) ==
  /\ n # Leader
  /\ key \in payloads[n] \ payloads[Leader]
  /\ ~InLog(key)
  /\ payloads' = [payloads EXCEPT ![Leader] = @ \cup {key}]
  /\ UNCHANGED <<log, stored, purged, payload_gc, snapshot, memory, snapshots, restarts>>

\* LogStore::append at the leader, behind the payload barrier.
ProposeEntry(entry) ==
  /\ Leader \notin halted
  /\ Len(log) < MaxLog
  /\ entry # Pop_ => entry.key \in payloads[Leader] /\ ~InLog(entry.key)
  /\ log' = Append(log, entry)
  /\ stored' = [stored EXCEPT ![Leader] = Len(log) + 1]
  /\ UNCHANGED <<purged, payloads, payload_gc, snapshot, memory, snapshots, restarts>>

-----------------------------------------------------------------------------
\* Replication.

\* NetworkConnection::append_entries, first half: the payloads of the batch are
\* read from the leader's store (a missing one fails the call, and OpenRaft
\* retries it) and pushed to the follower.
PushPayloads(n) ==
  /\ n # Leader /\ {n, Leader} \cap halted = {}
  /\ pushed[n] = 0 /\ installing[n] = None
  /\ stored[n] >= purged[Leader]
  /\ \E upto \in (stored[n] + 1)..Len(log) :
       /\ KeysIn(stored[n] + 1, upto) \subseteq payloads[Leader]
       /\ payloads' = [payloads EXCEPT ![n] = @ \cup KeysIn(stored[n] + 1, upto)]
       /\ pushed' = [pushed EXCEPT ![n] = upto]
  /\ UNCHANGED <<log, stored, purged, payload_gc, snapshot, applied, pending, building,
                 installing, is_ready, halted, snapshots, restarts>>

\* The call fails after the payloads arrived: the entries are not appended.
AppendLost(n) ==
  /\ pushed[n] # 0
  /\ pushed' = [pushed EXCEPT ![n] = 0]
  /\ UNCHANGED <<durable, applied, pending, building, installing, is_ready, halted,
                 snapshots, restarts>>

\* Mutant: the log part of the call does not wait for the payload part.
AppendEntries_NoBarrier(n) ==
  /\ n # Leader /\ {n, Leader} \cap halted = {}
  /\ stored[n] < Len(log) /\ stored[n] >= purged[Leader]
  /\ pushed' = [pushed EXCEPT ![n] = 0]
  /\ stored' = [stored EXCEPT ![n] = @ + 1]
  /\ UNCHANGED <<log, purged, payloads, payload_gc, snapshot, applied, pending, building,
                 installing, is_ready, halted, snapshots, restarts>>

\* Second half, LogStore::append at the follower: each new entry passes the
\* payload barrier, and a missing payload is a storage error.  Entries are
\* written one by one: a crash between two writes is a shorter batch.
AppendEntries(n) ==
  /\ n \notin halted
  /\ pushed[n] # 0
  /\ pushed' = [pushed EXCEPT ![n] = 0]
  /\ IF KeysIn(stored[n] + 1, pushed[n]) \subseteq payloads[n]
       THEN /\ stored' = [stored EXCEPT ![n] = pushed[n]]
            /\ UNCHANGED halted
       ELSE /\ halted' = halted \cup {n}
            /\ UNCHANGED stored
  /\ UNCHANGED <<log, purged, payloads, payload_gc, snapshot, applied, pending, building,
                 installing, is_ready, snapshots, restarts>>

-----------------------------------------------------------------------------
\* The state machine.

\* pop_from_pending_queue takes the newest key; popping an empty queue is a no-op.
Popped(queue) == IF queue = <<>> THEN <<>> ELSE SubSeq(queue, 1, Len(queue) - 1)

\* dec_ref: the key is freed when no other reference to it is left.
Freed(queue) == Range(queue) \ Range(Popped(queue))

\* Mutant: a payload may go as soon as the entry before the pop is purged.
GcItem_Early(index, key) == [delete_after_log_index |-> index - 1, key |-> key]

GcItem(index, key) == [delete_after_log_index |-> index, key |-> key]

\* StateMachineStore::apply for one committed entry.  Popping the last
\* reference to a key schedules its payload for deletion behind this entry.
ApplyEntry(n) ==
  /\ n \notin halted /\ installing[n] = None
  /\ applied[n] < stored[n] /\ IsCommitted(applied[n] + 1)
  /\ building[n] # NotBuilding => applied[n] < building[n] + MaxOverlap
  /\ applied' = [applied EXCEPT ![n] = @ + 1]
  /\ LET index == applied[n] + 1
     IN  IF log[index].op = "append"
           THEN /\ pending' = [pending EXCEPT ![n] = Append(@, log[index].key)]
                /\ UNCHANGED payload_gc
           ELSE /\ pending' = [pending EXCEPT ![n] = Popped(@)]
                /\ payload_gc' = [payload_gc EXCEPT ![n] =
                     @ \cup {GcItem(index, key) : key \in Freed(pending[n])}]
  /\ UNCHANGED <<log, stored, purged, payloads, snapshot, building, pushed, installing,
                 is_ready, halted, snapshots, restarts>>

\* get_snapshot_builder: the clone keeps last_applied as it is now.
BeginSnapshot(n) ==
  /\ n \notin halted /\ installing[n] = None
  /\ building[n] = NotBuilding
  /\ applied[n] > snapshot[n].last
  /\ snapshots < MaxSnapshots
  /\ snapshots' = snapshots + 1
  /\ building' = [building EXCEPT ![n] = applied[n]]
  /\ UNCHANGED <<durable, applied, pending, pushed, installing, is_ready, halted, restarts>>

\* build_snapshot, in a task of its own: the storage behind the shared Arc is
\* read now, and stored under the clone's last_applied.
BuildSnapshot(n) ==
  /\ n \notin halted
  /\ building[n] # NotBuilding
  /\ snapshot' = [snapshot EXCEPT ![n] = [last |-> building[n], pending |-> pending[n]]]
  /\ building' = [building EXCEPT ![n] = NotBuilding]
  /\ UNCHANGED <<log, stored, purged, payloads, payload_gc, applied, pending, pushed,
                 installing, is_ready, halted, snapshots, restarts>>

-----------------------------------------------------------------------------
\* Purging the log, and with it the payloads.

\* What LogStore::purge(upto) does to the payload side of node n.  `done` are
\* the due items it got to; a failed delete goes back to the queue, and a crash
\* in the loop leaves the persisted records of the others.
CollectPayloads(n, upto) ==
  \E done \in SUBSET {item \in payload_gc[n] : item.delete_after_log_index <= upto} :
    /\ payloads' = [payloads EXCEPT ![n] = @ \ {item.key : item \in done}]
    /\ payload_gc' = [payload_gc EXCEPT ![n] = @ \ done]

\* OpenRaft purges no further than the stored snapshot.
Purge(n) ==
  /\ n \notin halted
  /\ \E upto \in (purged[n] + 1)..snapshot[n].last :
       /\ purged' = [purged EXCEPT ![n] = upto]
       /\ CollectPayloads(n, upto)
  /\ UNCHANGED <<log, stored, snapshot, memory, snapshots, restarts>>

-----------------------------------------------------------------------------
\* A follower that is behind the leader's purged log gets its snapshot.

BeginInstall(n) ==
  /\ n # Leader /\ {n, Leader} \cap halted = {}
  /\ installing[n] = None /\ building[n] = NotBuilding /\ pushed[n] = 0
  /\ stored[n] < purged[Leader]
  /\ installing' = [installing EXCEPT ![n] = snapshot[Leader]]
  /\ is_ready' = [is_ready EXCEPT ![n] = FALSE]
  /\ UNCHANGED <<durable, applied, pending, building, pushed, halted, snapshots, restarts>>

MissingFor(n) == Range(installing[n].pending) \ payloads[n]

\* Mutant: install_snapshot does not fetch what it misses.
InstallSnapshot_NoSync(n) ==
  /\ n \notin halted /\ installing[n] # None
  /\ snapshot' = [snapshot EXCEPT ![n] = installing[n]]
  /\ pending' = [pending EXCEPT ![n] = installing[n].pending]
  /\ applied' = [applied EXCEPT ![n] = installing[n].last]
  /\ stored' = [stored EXCEPT ![n] = installing[n].last]
  /\ purged' = [purged EXCEPT ![n] = installing[n].last]
  /\ CollectPayloads(n, installing[n].last)
  /\ installing' = [installing EXCEPT ![n] = None]
  /\ is_ready' = [is_ready EXCEPT ![n] = TRUE]
  /\ UNCHANGED <<log, building, pushed, halted, snapshots, restarts>>

\* bulk_sync from one peer that has everything missing.
SyncPayloads(n) ==
  /\ n \notin halted /\ installing[n] # None
  /\ MissingFor(n) # {}
  /\ \E peer \in Nodes \ {n} : MissingFor(n) \subseteq payloads[peer]
  /\ payloads' = [payloads EXCEPT ![n] = @ \cup MissingFor(n)]
  /\ UNCHANGED <<log, stored, purged, payload_gc, snapshot, memory, snapshots, restarts>>

\* Mutant: the first peer without the payloads ends the installation.
SyncFails_FirstPeer(n) ==
  /\ n \notin halted /\ installing[n] # None
  /\ \E peer \in Nodes \ {n} : ~(MissingFor(n) \subseteq payloads[peer])
  /\ halted' = halted \cup {n}
  /\ installing' = [installing EXCEPT ![n] = None]
  /\ UNCHANGED <<durable, applied, pending, building, pushed, is_ready, snapshots, restarts>>

\* Every peer has lost some missing payload: a storage error.  (The peers
\* themselves can be reached; a failed connection has the same effect.)
SyncFails(n) ==
  /\ n \notin halted /\ installing[n] # None
  /\ \A peer \in Nodes \ {n} : ~(MissingFor(n) \subseteq payloads[peer])
  /\ halted' = halted \cup {n}
  /\ installing' = [installing EXCEPT ![n] = None]
  /\ UNCHANGED <<durable, applied, pending, building, pushed, is_ready, snapshots, restarts>>

\* The snapshot replaces the state machine and is stored; OpenRaft then purges
\* the log it covers.
InstallSnapshot(n) ==
  /\ n \notin halted /\ installing[n] # None
  /\ MissingFor(n) = {}
  /\ snapshot' = [snapshot EXCEPT ![n] = installing[n]]
  /\ pending' = [pending EXCEPT ![n] = installing[n].pending]
  /\ applied' = [applied EXCEPT ![n] = installing[n].last]
  /\ stored' = [stored EXCEPT ![n] = installing[n].last]
  /\ purged' = [purged EXCEPT ![n] = installing[n].last]
  /\ CollectPayloads(n, installing[n].last)
  /\ installing' = [installing EXCEPT ![n] = None]
  /\ is_ready' = [is_ready EXCEPT ![n] = TRUE]
  /\ UNCHANGED <<log, building, pushed, halted, snapshots, restarts>>

-----------------------------------------------------------------------------
\* PerformIntegrityCheck, once a second: a node that misses a payload it
\* references is not ready, and asks the leader for what it misses.
PerformIntegrityCheck(n) ==
  /\ LET missing == Range(pending[n]) \ payloads[n]
     IN  /\ is_ready' = [is_ready EXCEPT ![n] = missing = {}]
         /\ payloads' = IF missing \subseteq payloads[Leader]
                          THEN [payloads EXCEPT ![n] = @ \cup missing]
                          ELSE payloads
  /\ UNCHANGED <<log, stored, purged, payload_gc, snapshot, applied, pending, building,
                 pushed, installing, halted, snapshots, restarts>>

\* The process restarts: StateMachineStore::new restores the stored snapshot,
\* and the committed entries behind it are applied again.
Restart(n) ==
  /\ restarts < MaxRestarts
  /\ restarts' = restarts + 1
  /\ applied' = [applied EXCEPT ![n] = snapshot[n].last]
  /\ pending' = [pending EXCEPT ![n] = snapshot[n].pending]
  /\ building' = [building EXCEPT ![n] = NotBuilding]
  /\ pushed' = [m \in Nodes |-> IF m = n \/ n = Leader THEN 0 ELSE pushed[m]]
  /\ installing' = [installing EXCEPT ![n] = None]
  /\ is_ready' = [is_ready EXCEPT ![n] = TRUE]
  /\ halted' = halted \ {n}
  /\ UNCHANGED <<durable, snapshots>>

Next ==
  \/ \E n \in Nodes, key \in Keys : StorePayload(n, key) \/ ForwardPayload(n, key)
  \/ \E entry \in Entries : ProposeEntry(entry)
  \/ \E n \in Nodes :
       \/ PushPayloads(n) \/ AppendLost(n) \/ AppendEntries(n)
       \/ ApplyEntry(n) \/ BeginSnapshot(n) \/ BuildSnapshot(n) \/ Purge(n)
       \/ BeginInstall(n) \/ SyncPayloads(n) \/ SyncFails(n) \/ InstallSnapshot(n)
       \/ PerformIntegrityCheck(n) \/ Restart(n)

Spec == Init /\ [][Next]_vars

-----------------------------------------------------------------------------
Snapshots == [last : Nat, pending : Seq(Keys)]

TypeOK ==
  /\ log \in Seq(Entries)
  /\ stored \in [Nodes -> 0..Len(log)] /\ purged \in [Nodes -> 0..Len(log)]
  /\ payloads \in [Nodes -> SUBSET Keys]
  /\ \A n \in Nodes : payload_gc[n] \subseteq [delete_after_log_index : Nat, key : Keys]
  /\ snapshot \in [Nodes -> Snapshots]
  /\ applied \in [Nodes -> 0..Len(log)] /\ pending \in [Nodes -> Seq(Keys)]
  /\ building \in [Nodes -> Nat \cup {NotBuilding}]
  /\ pushed \in [Nodes -> 0..Len(log)]
  /\ installing \in [Nodes -> Snapshots \cup {None}]
  /\ is_ready \in [Nodes -> BOOLEAN]
  /\ halted \subseteq Nodes
  /\ {snapshots, restarts} \subseteq Nat

\* No node ever refers to a payload it does not have: what a pending queue
\* holds, before or after a restart or a snapshot installation, can be
\* delivered from the local store.
PendingPayloadsStored == \A n \in Nodes : Range(pending[n]) \subseteq payloads[n]

\* Every entry still in a node's log has its payload there.  The leader relies
\* on it to push payloads ahead of old entries (otherwise every append_entries
\* call fails with "Leader missing payload"), and a restart to replay them.
LoggedPayloadsStored ==
  \A n \in Nodes : KeysIn(purged[n] + 1, stored[n]) \subseteq payloads[n]

\* Replicas that have applied the same entries hold the same queue, whatever
\* restarts, snapshots and installations brought them there.
ReplicasAgree ==
  \A m, n \in Nodes : applied[m] = applied[n] => pending[m] = pending[n]

\* An installation fails for want of payloads only when its snapshot is out of
\* date: the leader's own stored snapshot has moved on and a retry can succeed.
InstallFailsOnlyIfOutdated ==
  [][\A n \in Nodes :
       n \in halted' \ halted =>
         /\ installing[n] # None
         /\ snapshot[Leader].last > installing[n].last]_vars
=============================================================================
