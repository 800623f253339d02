----------------------- MODULE PayloadReplicationProofs -----------------------
(***************************************************************************)
(* A payload stays in a node's store for as long as the node's log has the *)
(* entry that names it, or its queue or its stored snapshot the key, for   *)
(* any number of nodes, messages, snapshots and restarts, if no replica    *)
(* applies an entry while it builds a snapshot.                            *)
(*                                                                         *)
(* The collector deletes a payload behind the entry that released it.  It  *)
(* is safe for the log because whatever a replica, a snapshot or a         *)
(* scheduled deletion knows of a key, the one entry that brought the key   *)
(* came before (IInv).  It is safe for the queues because the log decides  *)
(* what a queue holds at each index, and a key that has left a queue is in *)
(* no later one (QInv).                                                    *)
(***************************************************************************)
EXTENDS PayloadReplication, TLAPS

\* The key was brought by an entry no later than index.
Brought(key, index) == \E i \in 1..Len(log) : i <= index /\ log[i].key = key

Types ==
  /\ log \in Seq(Entries)
  /\ stored \in [Nodes -> Nat] /\ purged \in [Nodes -> Nat] /\ applied \in [Nodes -> Nat]
  /\ pushed \in [Nodes -> Nat]
  /\ \A n \in Nodes : stored[n] <= Len(log) /\ pushed[n] <= Len(log)
  /\ payloads \in [Nodes -> SUBSET Keys]
  /\ payload_gc \in [Nodes -> SUBSET [delete_after_log_index : Nat, key : Keys]]
  /\ snapshot \in [Nodes -> Snapshots]
  /\ pending \in [Nodes -> Seq(Keys)]
  /\ building \in [Nodes -> Nat \cup {NotBuilding}]
  /\ installing \in [Nodes -> Snapshots \cup {None}]

\* A key is in one entry: keys are fresh.
KeysUnique ==
  \A i, j \in 1..Len(log) : log[i].key = log[j].key /\ log[i].key # NoKey => i = j

\* Nothing knows of a key before the entry that brought it.
KeysBrought ==
  \A n \in Nodes :
    /\ \A key \in Range(pending[n]) : Brought(key, applied[n])
    /\ \A key \in Range(snapshot[n].pending) : Brought(key, snapshot[n].last)
    /\ installing[n] # None =>
         \A key \in Range(installing[n].pending) : Brought(key, installing[n].last)
    /\ \A item \in payload_gc[n] : Brought(item.key, item.delete_after_log_index)

\* A replica applies nothing while it builds a snapshot, and installs none.
BuildsAlone ==
  \A n \in Nodes : building[n] # NotBuilding => building[n] = applied[n] /\ installing[n] = None

\* The leader has the whole log and takes entries from nobody.
LeaderComplete == stored[Leader] = Len(log) /\ pushed[Leader] = 0 /\ installing[Leader] = None

\* Nothing is applied or in a snapshot that is not in the log.
Bounded ==
  \A n \in Nodes : /\ applied[n] <= Len(log) /\ snapshot[n].last <= Len(log)
                   /\ installing[n] # None => installing[n].last <= Len(log)

IInv ==
  /\ Types /\ KeysUnique /\ KeysBrought /\ BuildsAlone /\ LeaderComplete /\ Bounded
  /\ LoggedPayloadsStored

\* The invariant holds initially.
LEMMA InitInv == Init => IInv
  <1> SUFFICES ASSUME Init PROVE IInv
    BY Zenon
  <1>1. Types
    BY DEF Init, Types, Snapshots, NotBuilding, None
  <1>2. KeysUnique /\ BuildsAlone
    BY DEF Init, KeysUnique, BuildsAlone
  <1>3. KeysBrought
    BY DEF Init, KeysBrought, Range
  <1>4. LoggedPayloadsStored
    BY DEF Init, LoggedPayloadsStored, KeysIn
  <1>5. LeaderComplete /\ Bounded
    BY ReplicationAssumption DEF Init, LeaderComplete, Bounded
  <1> QED BY <1>1, <1>2, <1>3, <1>4, <1>5, Zenon DEF IInv

\* What a queue holds after an entry is applied to it.
LEMMA QueueFacts ==
  ASSUME NEW q \in Seq(Keys)
  PROVE  /\ Popped(q) \in Seq(Keys) /\ Range(Popped(q)) \subseteq Range(q)
         /\ Freed(q) \subseteq Range(q) /\ Range(q) \subseteq Keys
         /\ \A key \in Keys : /\ Append(q, key) \in Seq(Keys)
                              /\ Range(Append(q, key)) \subseteq Range(q) \cup {key}
  <1>1. Popped(q) \in Seq(Keys) /\ Range(Popped(q)) \subseteq Range(q)
    <2>1. CASE q = <<>>
      BY <2>1, Zenon DEF Popped
    <2>2. CASE q # <<>>
      BY <2>2 DEF Popped, Range
    <2> QED BY <2>1, <2>2, Zenon
  <1>2. Freed(q) \subseteq Range(q) /\ Range(q) \subseteq Keys
    BY DEF Freed, Range
  <1>3. ASSUME NEW key \in Keys
        PROVE  Append(q, key) \in Seq(Keys) /\ Range(Append(q, key)) \subseteq Range(q) \cup {key}
    <2>1. Append(q, key) \in Seq(Keys) /\ DOMAIN Append(q, key) = 1..(Len(q) + 1)
      OBVIOUS
    <2>2. \A i \in 1..(Len(q) + 1) : Append(q, key)[i] \in Range(q) \cup {key}
      BY DEF Range
    <2> QED BY <2>1, <2>2, Zenon DEF Range
  <1> QED BY <1>1, <1>2, <1>3, Zenon

\* A log that grows keeps what was brought, and the keys in a part of it.
LEMMA LogGrows ==
  ASSUME Types, NEW entry \in Entries, log' = Append(log, entry)
  PROVE  /\ log' \in Seq(Entries) /\ Len(log') = Len(log) + 1
         /\ \A i \in 1..Len(log) : log'[i] = log[i]
         /\ log'[Len(log) + 1] = entry
         /\ \A key, index : Brought(key, index) => Brought(key, index)'
  <1>1. log \in Seq(Entries) /\ Len(log) \in Nat
    BY DEF Types
  <1>2. /\ log' \in Seq(Entries) /\ Len(log') = Len(log) + 1
        /\ \A i \in 1..Len(log) : log'[i] = log[i]
        /\ log'[Len(log) + 1] = entry
    BY <1>1
  <1>3. ASSUME NEW key, NEW index, Brought(key, index)
        PROVE  Brought(key, index)'
    BY <1>1, <1>2, <1>3 DEF Brought
  <1> QED BY <1>2, <1>3, Zenon

\* What CollectPayloads deletes was brought before.
LEMMA CollectedBrought ==
  ASSUME Types, KeysBrought, NEW n \in Nodes, NEW upto \in Nat, CollectPayloads(n, upto)
  PROVE  /\ payloads' \in [Nodes -> SUBSET Keys]
         /\ payload_gc' \in [Nodes -> SUBSET [delete_after_log_index : Nat, key : Keys]]
         /\ \A m \in Nodes : payload_gc'[m] \subseteq payload_gc[m]
         /\ \A m \in Nodes \ {n} : payloads'[m] = payloads[m]
         /\ \A key \in payloads[n] \ payloads'[n] : Brought(key, upto)
  <1> PICK done \in SUBSET {item \in payload_gc[n] : item.delete_after_log_index <= upto} :
        /\ payloads' = [payloads EXCEPT ![n] = @ \ {item.key : item \in done}]
        /\ payload_gc' = [payload_gc EXCEPT ![n] = @ \ done]
    BY Zenon DEF CollectPayloads
  <1>1. /\ payloads' \in [Nodes -> SUBSET Keys]
        /\ payload_gc' \in [Nodes -> SUBSET [delete_after_log_index : Nat, key : Keys]]
        /\ \A m \in Nodes : payload_gc'[m] \subseteq payload_gc[m]
        /\ \A m \in Nodes \ {n} : payloads'[m] = payloads[m]
    BY Zenon DEF Types
  <1>2. ASSUME NEW key \in payloads[n] \ payloads'[n]
        PROVE  Brought(key, upto)
    <2>1. PICK item \in done : item.key = key
      BY Zenon DEF Types
    <2>2. /\ item \in payload_gc[n] /\ item.delete_after_log_index <= upto
          /\ item.delete_after_log_index \in Nat
      BY DEF Types
    <2>3. Brought(key, item.delete_after_log_index)
      BY <2>1, <2>2, Zenon DEF KeysBrought
    <2> QED BY <2>2, <2>3 DEF Brought
  <1> QED BY <1>1, <1>2, Zenon

\* The steps that leave the log alone, and what is known of keys.
LEMMA KeysFrame ==
  ASSUME KeysUnique, KeysBrought, BuildsAlone,
         Bounded, UNCHANGED <<log, payload_gc, snapshot, applied, pending, building, installing>>
  PROVE  KeysUnique' /\ KeysBrought' /\ BuildsAlone' /\ Bounded'
  <1>1. KeysUnique'
    BY Zenon DEF KeysUnique
  <1>2. KeysBrought'
    <2>1. \A key, index : Brought(key, index) => Brought(key, index)'
      BY Zenon DEF Brought
    <2> SUFFICES ASSUME NEW n \in Nodes
                 PROVE  (/\ \A key \in Range(pending[n]) : Brought(key, applied[n])
                         /\ \A key \in Range(snapshot[n].pending) : Brought(key, snapshot[n].last)
                         /\ installing[n] # None =>
                              \A key \in Range(installing[n].pending) : Brought(key, installing[n].last)
                         /\ \A item \in payload_gc[n] : Brought(item.key, item.delete_after_log_index))'
      BY Zenon DEF KeysBrought
    <2> QED BY <2>1, Zenon DEF KeysBrought
  <1>3. BuildsAlone' /\ Bounded'
    BY Zenon DEF BuildsAlone, Bounded
  <1> QED BY <1>1, <1>2, <1>3, Zenon

\* Payloads that are only added do no harm.
LEMMA PayloadsGrow ==
  ASSUME LoggedPayloadsStored, UNCHANGED <<log, stored, purged>>,
         \A n \in Nodes : payloads[n] \subseteq payloads'[n]
  PROVE  LoggedPayloadsStored'
  BY Zenon DEF LoggedPayloadsStored, KeysIn

\* The keys of a part of the log are keys.
LEMMA KeysInType ==
  ASSUME Types, NEW from \in Nat \ {0}, NEW to \in Nat, to <= Len(log)
  PROVE  KeysIn(from, to) \subseteq Keys
  <1>1. \A e \in Entries : e.key \in Keys \cup {NoKey}
    BY DEF Entries, Append_, Pop_
  <1>2. \A i \in from..to : log[i] \in Entries
    BY DEF Types
  <1> QED BY <1>1, <1>2, Zenon DEF KeysIn

\* Storing and forwarding a payload.
LEMMA StoreStep ==
  ASSUME IInv, NEW n \in Nodes, NEW key \in Keys, StorePayload(n, key) \/ ForwardPayload(n, key)
  PROVE  IInv'
  <1>1. /\ UNCHANGED <<log, stored, purged, payload_gc, snapshot, memory>>
        /\ payloads' = [payloads EXCEPT ![n] = @ \cup {key}]
           \/ payloads' = [payloads EXCEPT ![Leader] = @ \cup {key}]
    BY Zenon DEF StorePayload, ForwardPayload
  <1>2. payloads' \in [Nodes -> SUBSET Keys] /\ \A m \in Nodes : payloads[m] \subseteq payloads'[m]
    <2>1. payloads \in [Nodes -> SUBSET Keys] /\ Leader \in Nodes
      BY ReplicationAssumption, Zenon DEF IInv, Types
    <2>2. CASE payloads' = [payloads EXCEPT ![n] = @ \cup {key}]
      BY <2>1, <2>2, Zenon
    <2>3. CASE payloads' = [payloads EXCEPT ![Leader] = @ \cup {key}]
      BY <2>1, <2>3, Zenon
    <2> QED BY <1>1, <2>2, <2>3, Zenon
  <1>3. Types'
    BY <1>1, <1>2, Zenon DEF IInv, Types, memory
  <1>4. LeaderComplete'
    BY <1>1, Zenon DEF IInv, LeaderComplete, memory
  <1> QED BY <1>1, <1>2, <1>3, <1>4, KeysFrame, PayloadsGrow, Zenon DEF IInv, memory

\* Fetching payloads for an installation or for the integrity check.
LEMMA FetchStep ==
  ASSUME IInv, NEW n \in Nodes, SyncPayloads(n) \/ PerformIntegrityCheck(n)
  PROVE  IInv'
  <1>1. UNCHANGED <<log, stored, purged, payload_gc, snapshot, applied, pending, building, pushed, installing>>
    BY Zenon DEF SyncPayloads, PerformIntegrityCheck, memory
  <1>2. \E more \in SUBSET Keys : payloads' = [payloads EXCEPT ![n] = @ \cup more]
    <2>1. CASE SyncPayloads(n)
      <3>1. installing[n] \in Snapshots
        BY <2>1, Zenon DEF SyncPayloads, IInv, Types
      <3>2. MissingFor(n) \in SUBSET Keys
        BY <3>1, QueueFacts, Zenon DEF MissingFor, Snapshots
      <3> QED BY <2>1, <3>2, Zenon DEF SyncPayloads
    <2>2. CASE PerformIntegrityCheck(n)
      <3>1. Range(pending[n]) \ payloads[n] \in SUBSET Keys
        BY QueueFacts, Zenon DEF IInv, Types
      <3>2. payloads' = payloads => payloads' = [payloads EXCEPT ![n] = @ \cup {}]
        BY Zenon DEF IInv, Types
      <3> QED BY <2>2, <3>1, <3>2, Zenon DEF PerformIntegrityCheck
    <2> QED BY <2>1, <2>2, Zenon
  <1>3. payloads' \in [Nodes -> SUBSET Keys] /\ \A m \in Nodes : payloads[m] \subseteq payloads'[m]
    BY <1>2, Zenon DEF IInv, Types
  <1>4. Types'
    BY <1>1, <1>3, Zenon DEF IInv, Types
  <1>5. LeaderComplete'
    BY <1>1, Zenon DEF IInv, LeaderComplete
  <1> QED BY <1>1, <1>3, <1>4, <1>5, KeysFrame, PayloadsGrow, Zenon DEF IInv

\* Replication to a follower.
LEMMA ReplicateStep ==
  ASSUME IInv, NEW n \in Nodes, PushPayloads(n) \/ AppendLost(n) \/ AppendEntries(n)
  PROVE  IInv'
  <1>1. UNCHANGED <<log, purged, payload_gc, snapshot, applied, pending, building, installing>>
    BY Zenon DEF PushPayloads, AppendLost, AppendEntries, durable
  <1>2. CASE PushPayloads(n)
    <2>1. PICK upto \in (stored[n] + 1)..Len(log) :
            /\ payloads' = [payloads EXCEPT ![n] = @ \cup KeysIn(stored[n] + 1, upto)]
            /\ pushed' = [pushed EXCEPT ![n] = upto]
      BY <1>2, Zenon DEF PushPayloads
    <2>2. KeysIn(stored[n] + 1, upto) \subseteq Keys
      BY KeysInType, SMTT(30) DEF IInv, Types
    <2>3. payloads' \in [Nodes -> SUBSET Keys] /\ \A m \in Nodes : payloads[m] \subseteq payloads'[m]
      BY <2>1, <2>2, Zenon DEF IInv, Types
    <2>4. UNCHANGED stored
      BY <1>2, Zenon DEF PushPayloads
    <2>5. pushed' \in [Nodes -> Nat] /\ \A m \in Nodes : pushed'[m] <= Len(log)
      BY <2>1 DEF IInv, Types
    <2>6. Types'
      BY <1>1, <2>3, <2>4, <2>5, Zenon DEF IInv, Types
    <2>7. LeaderComplete'
      BY <1>1, <1>2, <2>1, <2>4 DEF IInv, Types, LeaderComplete, PushPayloads
    <2> QED BY <1>1, <2>3, <2>4, <2>6, <2>7, KeysFrame, PayloadsGrow, Zenon DEF IInv
  <1>3. CASE AppendLost(n) \/ AppendEntries(n)
    <2>1. /\ UNCHANGED payloads /\ pushed' = [pushed EXCEPT ![n] = 0]
          /\ \/ UNCHANGED stored
             \/ /\ KeysIn(stored[n] + 1, pushed[n]) \subseteq payloads[n]
                /\ stored' = [stored EXCEPT ![n] = pushed[n]]
      BY <1>3, Zenon DEF AppendLost, AppendEntries, durable
    <2>2. /\ pushed' \in [Nodes -> Nat] /\ \A m \in Nodes : pushed'[m] <= Len(log)
          /\ stored' \in [Nodes -> Nat] /\ \A m \in Nodes : stored'[m] <= Len(log)
      <3>1. /\ Len(log) \in Nat /\ pushed \in [Nodes -> Nat] /\ stored \in [Nodes -> Nat]
            /\ \A m \in Nodes : stored[m] <= Len(log) /\ pushed[m] <= Len(log)
        BY DEF IInv, Types
      <3> QED BY <2>1, <3>1, SMTT(30)
    <2>3. Types'
      BY <1>1, <2>1, <2>2, Zenon DEF IInv, Types
    <2>4. LoggedPayloadsStored'
      <3>1. CASE UNCHANGED stored
        BY <1>1, <2>1, <3>1, PayloadsGrow, Zenon DEF IInv
      <3>2. CASE /\ KeysIn(stored[n] + 1, pushed[n]) \subseteq payloads[n]
                 /\ stored' = [stored EXCEPT ![n] = pushed[n]]
        <4> SUFFICES ASSUME NEW m \in Nodes, NEW i \in purged[m] + 1 .. stored'[m], log[i].key # NoKey
                     PROVE  log[i].key \in payloads[m]
          BY <1>1, <2>1, Zenon DEF LoggedPayloadsStored, KeysIn
        <4>1. CASE i <= stored[m]
          <5>1. i \in purged[m] + 1 .. stored[m]
            BY <4>1, <2>2 DEF IInv, Types
          <5> QED BY <5>1, Zenon DEF IInv, LoggedPayloadsStored, KeysIn
        <4>2. CASE i > stored[m]
          <5>1. m = n /\ i \in stored[n] + 1 .. pushed[n]
            <6>1. /\ pushed \in [Nodes -> Nat] /\ stored \in [Nodes -> Nat]
                  /\ purged \in [Nodes -> Nat]
              BY Zenon DEF IInv, Types
            <6> QED BY <4>2, <3>2, <6>1
          <5> QED BY <5>1, <3>2, Zenon DEF KeysIn
        <4>3. i \in Int /\ stored[m] \in Int
          BY DEF IInv, Types
        <4> QED BY <4>1, <4>2, <4>3
      <3> QED BY <2>1, <3>1, <3>2, Zenon
    <2>5. LeaderComplete'
      BY <1>1, <1>3, <2>1, ReplicationAssumption, Zenon DEF IInv, Types, LeaderComplete, AppendLost, AppendEntries
    <2> QED BY <1>1, <2>3, <2>4, <2>5, KeysFrame, Zenon DEF IInv
  <1> QED BY <1>2, <1>3, Zenon

\* What is known of keys at one node.
BroughtAt(n) ==
  /\ \A key \in Range(pending[n]) : Brought(key, applied[n])
  /\ \A key \in Range(snapshot[n].pending) : Brought(key, snapshot[n].last)
  /\ installing[n] # None =>
       \A key \in Range(installing[n].pending) : Brought(key, installing[n].last)
  /\ \A item \in payload_gc[n] : Brought(item.key, item.delete_after_log_index)

\* A new entry at the leader.
LEMMA ProposeStep ==
  ASSUME IInv, NEW entry \in Entries, ProposeEntry(entry)
  PROVE  IInv'
  <1>1. /\ log' = Append(log, entry) /\ stored' = [stored EXCEPT ![Leader] = Len(log) + 1]
        /\ UNCHANGED <<purged, payloads, payload_gc, snapshot, applied, pending, building, pushed, installing>>
        /\ entry # Pop_ => entry.key \in payloads[Leader] /\ ~InLog(entry.key)
    BY Zenon DEF ProposeEntry, memory
  <1>2. /\ log' \in Seq(Entries) /\ Len(log') = Len(log) + 1 /\ Len(log) \in Nat
        /\ \A i \in 1..Len(log) : log'[i] = log[i]
        /\ log'[Len(log) + 1] = entry
        /\ \A key, index : Brought(key, index) => Brought(key, index)'
    BY <1>1, LogGrows DEF IInv, Types
  <1>3. /\ stored' \in [Nodes -> Nat]
        /\ \A n \in Nodes : stored'[n] <= Len(log') /\ pushed[n] <= Len(log')
    <2>1. stored \in [Nodes -> Nat] /\ pushed \in [Nodes -> Nat]
          /\ \A n \in Nodes : stored[n] <= Len(log) /\ pushed[n] <= Len(log)
      BY Zenon DEF IInv, Types
    <2>2. stored' = [stored EXCEPT ![Leader] = Len(log) + 1] /\ Len(log) \in Nat /\ Leader \in Nodes
      BY <1>1, <1>2, ReplicationAssumption, Zenon
    <2>3. stored' \in [Nodes -> Nat] /\ \A n \in Nodes : stored'[n] <= Len(log) + 1 /\ pushed[n] <= Len(log) + 1
      BY <2>1, <2>2
    <2> QED BY <1>2, <2>3, Zenon
  <1>4. Types'
    BY <1>1, <1>2, <1>3, Zenon DEF IInv, Types
  <1>5. KeysUnique'
    <2> SUFFICES ASSUME NEW i \in 1..Len(log) + 1, NEW j \in 1..Len(log) + 1,
                        log'[i].key = log'[j].key, log'[i].key # NoKey
                 PROVE  i = j
      BY <1>2, Zenon DEF KeysUnique
    <2>1. \A k \in 1..Len(log) : log[k].key = entry.key => entry.key = NoKey
      BY <1>1 DEF InLog, Pop_
    <2>2. (i \in 1..Len(log) \/ i = Len(log) + 1) /\ (j \in 1..Len(log) \/ j = Len(log) + 1)
      BY <1>2
    <2> QED BY <1>2, <2>1, <2>2, Zenon DEF IInv, KeysUnique
  <1>6. KeysBrought'
    <2> SUFFICES ASSUME NEW n \in Nodes PROVE BroughtAt(n)'
      BY Zenon DEF KeysBrought, BroughtAt
    <2> QED BY <1>1, <1>2, Zenon DEF IInv, KeysBrought, BroughtAt
  <1>7. BuildsAlone'
    BY <1>1, Zenon DEF IInv, BuildsAlone
  <1>8. LoggedPayloadsStored'
    <2> SUFFICES ASSUME NEW n \in Nodes, NEW i \in purged[n] + 1 .. stored'[n], log'[i].key # NoKey
                 PROVE  log'[i].key \in payloads[n]
      BY <1>1, Zenon DEF LoggedPayloadsStored, KeysIn
    <2>1. /\ stored \in [Nodes -> Nat] /\ purged \in [Nodes -> Nat] /\ Leader \in Nodes
          /\ \A m \in Nodes : stored[m] <= Len(log)
      BY ReplicationAssumption, Zenon DEF IInv, Types
    <2>2. CASE i = Len(log) + 1
      <3>1. n = Leader
        BY <1>1, <1>2, <2>1, <2>2
      <3>2. entry # Pop_
        BY <1>2, <2>2 DEF Pop_
      <3> QED BY <1>1, <1>2, <2>2, <3>1, <3>2, Zenon
    <2>3. CASE i # Len(log) + 1
      <3>1. i \in 1..Len(log)
        BY <1>1, <1>2, <2>1, <2>3
      <3>2. i \in purged[n] + 1 .. stored[n]
        BY <1>1, <2>1, <3>1 DEF IInv, LeaderComplete
      <3> QED BY <1>2, <3>1, <3>2, Zenon DEF IInv, LoggedPayloadsStored, KeysIn
    <2> QED BY <2>2, <2>3, Zenon
  <1>9. LeaderComplete'
    BY <1>1, <1>2, ReplicationAssumption, Zenon DEF IInv, Types, LeaderComplete
  <1>10. Bounded'
    <2>1. /\ applied \in [Nodes -> Nat] /\ \A n \in Nodes : snapshot[n].last \in Nat
          /\ \A n \in Nodes : installing[n] # None => installing[n].last \in Nat
      BY Zenon DEF IInv, Types, Snapshots
    <2> QED BY <1>1, <1>2, <2>1 DEF IInv, Bounded
  <1> QED BY <1>10, <1>4, <1>5, <1>6, <1>7, <1>8, <1>9, Zenon DEF IInv

\* Applying a committed entry, while no snapshot is being built.
LEMMA ApplyStep ==
  ASSUME IInv, MaxOverlap = 0, NEW n \in Nodes, ApplyEntry(n)
  PROVE  IInv'
  <1>0. PICK index \in Nat : index = applied[n] + 1
    BY DEF IInv, Types
  <1>1. /\ UNCHANGED <<log, stored, purged, payloads, snapshot, building, pushed, installing>>
        /\ applied' = [applied EXCEPT ![n] = index]
        /\ \/ /\ log[index].op = "append"
              /\ pending' = [pending EXCEPT ![n] = Append(@, log[index].key)]
              /\ UNCHANGED payload_gc
           \/ /\ pending' = [pending EXCEPT ![n] = Popped(@)]
              /\ payload_gc' = [payload_gc EXCEPT ![n] =
                   @ \cup {GcItem(index, key) : key \in Freed(pending[n])}]
    BY <1>0 DEF ApplyEntry
  <1>2. /\ applied[n] \in Nat /\ index \in 1..Len(log) /\ applied \in [Nodes -> Nat]
        /\ pending \in [Nodes -> Seq(Keys)] /\ Len(log) \in Nat
    BY <1>0, SMTT(30) DEF IInv, Types, ApplyEntry
  <1>3. building[n] = NotBuilding
    BY <1>2 DEF IInv, BuildsAlone, ApplyEntry
  <1>4. log[index] \in Entries
    BY <1>2 DEF IInv, Types
  <1>5. log[index].op = "append" => log[index].key \in Keys
    <2>1. \A e \in Entries : e.op = "append" => e.key \in Keys
      BY DEF Entries, Append_, Pop_
    <2> QED BY <1>4, <2>1, Zenon
  <1>6. applied' \in [Nodes -> Nat] /\ \A m \in Nodes : applied'[m] <= Len(log)
    <2>1. \A m \in Nodes : applied[m] <= Len(log)
      BY Zenon DEF IInv, Bounded
    <2> QED BY <1>1, <1>2, <2>1
  <1>7. \A key, i : Brought(key, i) => Brought(key, i)'
    BY <1>1, Zenon DEF Brought
  <1>8. \A key : Brought(key, applied[n]) => Brought(key, index)'
    BY <1>0, <1>1, <1>2 DEF Brought
  <1>9. \A key : key = log[index].key => Brought(key, index)'
    BY <1>1, <1>2 DEF Brought
  <1>10. /\ pending' \in [Nodes -> Seq(Keys)]
         /\ \A key \in Range(pending'[n]) : Brought(key, index)'
    <2>1. \A key \in Range(pending[n]) : Brought(key, applied[n])
      BY Zenon DEF IInv, KeysBrought
    <2>2. pending[n] \in Seq(Keys)
      BY <1>2, Zenon
    <2>3. CASE log[index].op = "append" /\ pending' = [pending EXCEPT ![n] = Append(@, log[index].key)]
      <3>1. /\ Append(pending[n], log[index].key) \in Seq(Keys)
            /\ Range(Append(pending[n], log[index].key)) \subseteq Range(pending[n]) \cup {log[index].key}
        BY <1>5, <2>2, <2>3, QueueFacts, Zenon
      <3>2. pending'[n] = Append(pending[n], log[index].key)
        BY <1>2, <2>3, Zenon
            <3>3. pending' \in [Nodes -> Seq(Keys)]
        BY <1>2, <2>3, <3>1, Zenon
      <3> QED BY <1>8, <1>9, <2>1, <3>1, <3>2, <3>3, Zenon
    <2>4. CASE pending' = [pending EXCEPT ![n] = Popped(@)]
      <3>1. Popped(pending[n]) \in Seq(Keys) /\ Range(Popped(pending[n])) \subseteq Range(pending[n])
        BY <2>2, QueueFacts, Zenon
            <3> QED BY <1>2, <1>8, <2>1, <2>4, <3>1, Zenon
    <2> QED BY <1>1, <2>3, <2>4, Zenon
  <1>11. /\ payload_gc' \in [Nodes -> SUBSET [delete_after_log_index : Nat, key : Keys]]
         /\ \A m \in Nodes \ {n} : payload_gc'[m] = payload_gc[m]
         /\ \A item \in payload_gc'[n] : Brought(item.key, item.delete_after_log_index)'
    <2>1. /\ payload_gc \in [Nodes -> SUBSET [delete_after_log_index : Nat, key : Keys]]
          /\ \A item \in payload_gc[n] : Brought(item.key, item.delete_after_log_index)
      BY Zenon DEF IInv, Types, KeysBrought
    <2>2. CASE UNCHANGED payload_gc
      BY <1>7, <2>1, <2>2, Zenon
    <2>3. CASE payload_gc' = [payload_gc EXCEPT ![n] =
                 @ \cup {GcItem(index, key) : key \in Freed(pending[n])}]
      <3> DEFINE more == {GcItem(index, key) : key \in Freed(pending[n])}
      <3>1. Freed(pending[n]) \subseteq Range(pending[n]) /\ Range(pending[n]) \subseteq Keys
        BY <1>2, QueueFacts, Zenon
      <3>2. \A item \in more : /\ item \in [delete_after_log_index : Nat, key : Keys]
                               /\ Brought(item.key, item.delete_after_log_index)'
        <4> SUFFICES ASSUME NEW key \in Freed(pending[n])
                     PROVE  /\ GcItem(index, key) \in [delete_after_log_index : Nat, key : Keys]
                            /\ Brought(GcItem(index, key).key, GcItem(index, key).delete_after_log_index)'
          BY Zenon
        <4>1. Brought(key, index)'
          BY <1>8, <3>1, Zenon DEF IInv, KeysBrought
        <4> QED BY <1>2, <3>1, <4>1, Zenon DEF GcItem
      <3>3. payload_gc' = [payload_gc EXCEPT ![n] = @ \cup more]
        BY <2>3, Zenon
      <3> HIDE DEF more
      <3> QED BY <1>7, <2>1, <3>2, <3>3, Zenon
    <2> QED BY <1>1, <2>2, <2>3, Zenon
  <1>12. Types'
    BY <1>1, <1>6, <1>10, <1>11, Zenon DEF IInv, Types
  <1>13. KeysUnique' /\ LeaderComplete' /\ LoggedPayloadsStored'
    BY <1>1 DEF IInv, KeysUnique, LeaderComplete, LoggedPayloadsStored, KeysIn
  <1>14. BuildsAlone' /\ Bounded'
    BY <1>1, <1>2, <1>3, <1>6, Zenon DEF IInv, BuildsAlone, Bounded
  <1>15. KeysBrought'
    <2> SUFFICES ASSUME NEW m \in Nodes PROVE BroughtAt(m)'
      BY Zenon DEF KeysBrought, BroughtAt
    <2>1. BroughtAt(m)
      BY Zenon DEF IInv, KeysBrought, BroughtAt
    <2>2. CASE m = n
      <3>1. applied'[n] = index
        BY <1>1, <1>2, Zenon
            <3> QED BY <1>1, <1>7, <1>10, <1>11, <2>1, <2>2, <3>1, Zenon DEF BroughtAt
    <2>3. CASE m # n
      <3>1. applied'[m] = applied[m] /\ pending'[m] = pending[m] /\ payload_gc'[m] = payload_gc[m]
        BY <1>1, <1>2, <1>11, <2>3, Zenon
      <3> QED BY <1>1, <1>7, <2>1, <3>1, Zenon DEF BroughtAt
    <2> QED BY <2>2, <2>3, Zenon
  <1> QED BY <1>12, <1>13, <1>14, <1>15, Zenon DEF IInv

\* Building a snapshot: what it holds is what was applied when the build began.
LEMMA SnapshotStep ==
  ASSUME IInv, NEW n \in Nodes, BeginSnapshot(n) \/ BuildSnapshot(n)
  PROVE  IInv'
  <1>1. UNCHANGED <<log, stored, purged, payloads, payload_gc, applied, pending, pushed, installing>>
    BY Zenon DEF BeginSnapshot, BuildSnapshot, durable
  <1>2. /\ applied \in [Nodes -> Nat] /\ building \in [Nodes -> Nat \cup {NotBuilding}]
        /\ snapshot \in [Nodes -> Snapshots] /\ pending \in [Nodes -> Seq(Keys)]
    BY Zenon DEF IInv, Types
  <1>3. \A key, i : Brought(key, i) => Brought(key, i)'
    BY <1>1, Zenon DEF Brought
  <1>4. KeysUnique' /\ LeaderComplete' /\ LoggedPayloadsStored'
    BY <1>1 DEF IInv, KeysUnique, LeaderComplete, LoggedPayloadsStored, KeysIn
  <1>5. CASE BeginSnapshot(n)
    <2>1. /\ UNCHANGED snapshot /\ building' = [building EXCEPT ![n] = applied[n]] /\ installing[n] = None
      BY <1>5, Zenon DEF BeginSnapshot, durable
    <2>2. Types'
      BY <1>1, <2>1, <1>2, Zenon DEF IInv, Types
    <2>3. BuildsAlone'
      BY <1>1, <1>2, <2>1, Zenon DEF IInv, BuildsAlone
    <2>4. Bounded'
      BY <1>1, <2>1, Zenon DEF IInv, Bounded
    <2>5. KeysBrought'
      <3> SUFFICES ASSUME NEW m \in Nodes PROVE BroughtAt(m)'
        BY Zenon DEF KeysBrought, BroughtAt
      <3> QED BY <1>1, <1>3, <2>1, Zenon DEF IInv, KeysBrought, BroughtAt
    <2> QED BY <1>4, <2>2, <2>3, <2>4, <2>5, Zenon DEF IInv
  <1>6. CASE BuildSnapshot(n)
    <2>1. /\ snapshot' = [snapshot EXCEPT ![n] = [last |-> building[n], pending |-> pending[n]]]
          /\ building' = [building EXCEPT ![n] = NotBuilding] /\ building[n] # NotBuilding
      BY <1>6, Zenon DEF BuildSnapshot
    <2>2. building[n] = applied[n]
      BY <2>1, Zenon DEF IInv, BuildsAlone
    <2>3. /\ snapshot' \in [Nodes -> Snapshots]
          /\ snapshot'[n].last = applied[n] /\ snapshot'[n].pending = pending[n]
          /\ \A m \in Nodes \ {n} : snapshot'[m] = snapshot[m]
      BY <1>2, <2>1, <2>2, Zenon DEF Snapshots
    <2>4. Types'
      BY <1>1, <1>2, <2>1, <2>3, Zenon DEF IInv, Types
    <2>5. BuildsAlone'
      BY <1>1, <1>2, <2>1, Zenon DEF IInv, BuildsAlone
    <2>6. Bounded'
      BY <1>1, <2>3, Zenon DEF IInv, Bounded
    <2>7. KeysBrought'
      <3> SUFFICES ASSUME NEW m \in Nodes PROVE BroughtAt(m)'
        BY Zenon DEF KeysBrought, BroughtAt
      <3>1. BroughtAt(m)
        BY Zenon DEF IInv, KeysBrought, BroughtAt
      <3>2. CASE m = n
        BY <1>1, <1>3, <2>3, <3>1, <3>2, Zenon DEF BroughtAt
      <3>3. CASE m # n
        BY <1>1, <1>3, <2>3, <3>1, <3>3, Zenon DEF BroughtAt
      <3> QED BY <3>2, <3>3, Zenon
    <2> QED BY <1>4, <2>4, <2>5, <2>6, <2>7, Zenon DEF IInv
  <1> QED BY <1>5, <1>6, Zenon

\* Purging the log: the payloads that go were brought by entries that go.
LEMMA PurgeStep ==
  ASSUME IInv, NEW n \in Nodes, Purge(n)
  PROVE  IInv'
  <1>1. PICK upto \in (purged[n] + 1)..snapshot[n].last :
          purged' = [purged EXCEPT ![n] = upto] /\ CollectPayloads(n, upto)
    BY Zenon DEF Purge
  <1>2. UNCHANGED <<log, stored, snapshot, applied, pending, building, pushed, installing>>
    BY Zenon DEF Purge, memory
  <1>3. /\ purged \in [Nodes -> Nat] /\ stored \in [Nodes -> Nat] /\ upto \in Nat /\ Len(log) \in Nat
        /\ purged[n] < upto /\ \A m \in Nodes : stored[m] <= Len(log)
    BY DEF IInv, Types, Snapshots
  <1>4. /\ payloads' \in [Nodes -> SUBSET Keys]
        /\ payload_gc' \in [Nodes -> SUBSET [delete_after_log_index : Nat, key : Keys]]
        /\ \A m \in Nodes : payload_gc'[m] \subseteq payload_gc[m]
        /\ \A m \in Nodes \ {n} : payloads'[m] = payloads[m]
        /\ \A key \in payloads[n] \ payloads'[n] : Brought(key, upto)
    BY <1>1, <1>3, CollectedBrought, Zenon DEF IInv
  <1>5. Types'
    <2>1. purged' \in [Nodes -> Nat]
      BY <1>1, <1>3, Zenon
    <2> QED BY <1>2, <1>4, <2>1, Zenon DEF IInv, Types
  <1>6. KeysUnique' /\ LeaderComplete' /\ BuildsAlone' /\ Bounded'
    BY <1>2, Zenon DEF IInv, KeysUnique, LeaderComplete, BuildsAlone, Bounded
  <1>7. KeysBrought'
    <2>1. \A key, i : Brought(key, i) => Brought(key, i)'
      BY <1>2, Zenon DEF Brought
    <2> SUFFICES ASSUME NEW m \in Nodes PROVE BroughtAt(m)'
      BY Zenon DEF KeysBrought, BroughtAt
    <2> QED BY <1>2, <1>4, <2>1, Zenon DEF IInv, KeysBrought, BroughtAt
  <1>8. LoggedPayloadsStored'
    <2> SUFFICES ASSUME NEW m \in Nodes, NEW i \in purged'[m] + 1 .. stored[m], log[i].key # NoKey
                 PROVE  log[i].key \in payloads'[m]
      BY <1>2, Zenon DEF LoggedPayloadsStored, KeysIn
    <2>1. i \in purged[m] + 1 .. stored[m] /\ i \in 1..Len(log) /\ (m = n => upto < i)
      BY <1>1, <1>3
    <2>2. log[i].key \in payloads[m]
      BY <2>1, Zenon DEF IInv, LoggedPayloadsStored, KeysIn
    <2>3. CASE m # n
      BY <1>4, <2>2, <2>3, Zenon
    <2>4. CASE m = n
      <3>1. ~Brought(log[i].key, upto)
        BY <1>3, <2>1, <2>4 DEF IInv, KeysUnique, Brought
      <3> QED BY <1>4, <2>2, <2>4, <3>1, Zenon
    <2> QED BY <2>3, <2>4, Zenon
  <1> QED BY <1>5, <1>6, <1>7, <1>8, Zenon DEF IInv

\* The steps before a snapshot is installed: it is sent, or its payloads are
\* nowhere to be found.
LEMMA SendSnapshotStep ==
  ASSUME IInv, NEW n \in Nodes, BeginInstall(n) \/ SyncFails(n)
  PROVE  IInv'
  <1>1. UNCHANGED <<log, stored, purged, payloads, payload_gc, snapshot, applied, pending, building, pushed>>
    BY Zenon DEF BeginInstall, SyncFails, durable
  <1>2. /\ installing \in [Nodes -> Snapshots \cup {None}] /\ Leader \in Nodes
        /\ snapshot[Leader] \in Snapshots
    BY ReplicationAssumption, Zenon DEF IInv, Types
  <1>3. \/ /\ n # Leader /\ building[n] = NotBuilding
           /\ installing' = [installing EXCEPT ![n] = snapshot[Leader]]
        \/ installing' = [installing EXCEPT ![n] = None]
    BY Zenon DEF BeginInstall, SyncFails
  <1>4. /\ installing' \in [Nodes -> Snapshots \cup {None}]
        /\ \A m \in Nodes \ {n} : installing'[m] = installing[m]
        /\ installing'[n] # None => installing'[n] = snapshot[Leader] /\ n # Leader /\ building[n] = NotBuilding
    BY <1>2, <1>3, Zenon
  <1>5. Types'
    BY <1>1, <1>4, Zenon DEF IInv, Types
  <1>6. KeysUnique' /\ LoggedPayloadsStored'
    BY <1>1, Zenon DEF IInv, KeysUnique, LoggedPayloadsStored, KeysIn
  <1>7. LeaderComplete' /\ BuildsAlone'
    BY <1>1, <1>2, <1>4, Zenon DEF IInv, LeaderComplete, BuildsAlone
  <1>8. Bounded'
    BY <1>1, <1>2, <1>4, Zenon DEF IInv, Bounded
  <1>9. KeysBrought'
    <2>1. \A key, i : Brought(key, i) => Brought(key, i)'
      BY <1>1, Zenon DEF Brought
    <2> SUFFICES ASSUME NEW m \in Nodes PROVE BroughtAt(m)'
      BY Zenon DEF KeysBrought, BroughtAt
    <2>2. BroughtAt(m) /\ BroughtAt(Leader)
      BY <1>2, Zenon DEF IInv, KeysBrought, BroughtAt
    <2>3. CASE m # n
      BY <1>1, <1>4, <2>1, <2>2, <2>3, Zenon DEF BroughtAt
    <2>4. CASE m = n
      BY <1>1, <1>4, <2>1, <2>2, <2>4, Zenon DEF BroughtAt
    <2> QED BY <2>3, <2>4, Zenon
  <1> QED BY <1>5, <1>6, <1>7, <1>8, <1>9, Zenon DEF IInv

\* Installing a snapshot leaves no entry in the follower's log.
LEMMA InstallStep ==
  ASSUME IInv, NEW n \in Nodes, InstallSnapshot(n)
  PROVE  IInv'
  <1>1. PICK last \in Nat : last = installing[n].last /\ installing[n] # None /\ last <= Len(log)
    BY Zenon DEF IInv, Types, Bounded, InstallSnapshot, Snapshots
  <1>2. installing[n] \in Snapshots /\ installing[n].pending \in Seq(Keys)
    BY <1>1, Zenon DEF IInv, Types, Snapshots
  <1>3. /\ UNCHANGED <<log, building, pushed>>
        /\ snapshot' = [snapshot EXCEPT ![n] = installing[n]]
        /\ pending' = [pending EXCEPT ![n] = installing[n].pending]
        /\ applied' = [applied EXCEPT ![n] = last]
        /\ stored' = [stored EXCEPT ![n] = last]
        /\ purged' = [purged EXCEPT ![n] = last]
        /\ installing' = [installing EXCEPT ![n] = None]
    BY <1>1, Zenon DEF InstallSnapshot
  <1>4. /\ payloads' \in [Nodes -> SUBSET Keys]
        /\ payload_gc' \in [Nodes -> SUBSET [delete_after_log_index : Nat, key : Keys]]
        /\ \A m \in Nodes : payload_gc'[m] \subseteq payload_gc[m]
        /\ \A m \in Nodes \ {n} : payloads'[m] = payloads[m]
    BY <1>1, CollectedBrought, Zenon DEF IInv, InstallSnapshot
  <1>5. /\ snapshot \in [Nodes -> Snapshots] /\ pending \in [Nodes -> Seq(Keys)]
        /\ applied \in [Nodes -> Nat] /\ stored \in [Nodes -> Nat] /\ purged \in [Nodes -> Nat]
        /\ installing \in [Nodes -> Snapshots \cup {None}] /\ Len(log) \in Nat
        /\ \A m \in Nodes : stored[m] <= Len(log)
    BY DEF IInv, Types
  <1>6. n # Leader /\ building[n] = NotBuilding
    BY <1>1, Zenon DEF IInv, LeaderComplete, BuildsAlone
  <1>7. Types'
    <2>1. snapshot' \in [Nodes -> Snapshots] /\ installing' \in [Nodes -> Snapshots \cup {None}]
      BY <1>2, <1>3, <1>5, Zenon
    <2>2. pending' \in [Nodes -> Seq(Keys)]
      BY <1>2, <1>3, <1>5, Zenon
    <2>3. /\ applied' \in [Nodes -> Nat] /\ stored' \in [Nodes -> Nat] /\ purged' \in [Nodes -> Nat]
          /\ \A m \in Nodes : stored'[m] <= Len(log)
      BY <1>1, <1>3, <1>5, Zenon
    <2> QED BY <1>3, <1>4, <2>1, <2>2, <2>3, Zenon DEF IInv, Types
  <1>8. KeysUnique' /\ LeaderComplete'
    BY <1>3, <1>5, <1>6, ReplicationAssumption, Zenon DEF IInv, KeysUnique, LeaderComplete
  <1>9. BuildsAlone'
    BY <1>3, <1>5, <1>6, Zenon DEF IInv, BuildsAlone
  <1>10. \A m \in Nodes \ {n} : /\ snapshot'[m] = snapshot[m] /\ pending'[m] = pending[m]
                                /\ applied'[m] = applied[m] /\ stored'[m] = stored[m]
                                /\ purged'[m] = purged[m] /\ installing'[m] = installing[m]
    BY <1>3, <1>5, Zenon
  <1>11. /\ snapshot'[n] = installing[n] /\ pending'[n] = installing[n].pending
         /\ applied'[n] = last /\ stored'[n] = last /\ purged'[n] = last /\ installing'[n] = None
    BY <1>3, <1>5, Zenon
  <1>12. Bounded'
    <2> SUFFICES ASSUME NEW m \in Nodes
                 PROVE  (/\ applied[m] <= Len(log) /\ snapshot[m].last <= Len(log)
                         /\ installing[m] # None => installing[m].last <= Len(log))'
      BY Zenon DEF Bounded
    <2>1. CASE m = n
      BY <1>1, <1>3, <1>11, <2>1, Zenon
    <2>2. CASE m # n
      BY <1>3, <1>10, <2>2, Zenon DEF IInv, Bounded
    <2> QED BY <2>1, <2>2, Zenon
  <1>13. KeysBrought'
    <2>1. \A key, i : Brought(key, i) => Brought(key, i)'
      BY <1>3, Zenon DEF Brought
    <2> SUFFICES ASSUME NEW m \in Nodes PROVE BroughtAt(m)'
      BY Zenon DEF KeysBrought, BroughtAt
    <2>2. BroughtAt(m)
      BY Zenon DEF IInv, KeysBrought, BroughtAt
    <2>3. CASE m # n
      BY <1>4, <1>10, <2>1, <2>2, <2>3, Zenon DEF BroughtAt
    <2>4. CASE m = n
      BY <1>1, <1>4, <1>11, <2>1, <2>2, <2>4, Zenon DEF BroughtAt
    <2> QED BY <2>3, <2>4, Zenon
  <1>14. LoggedPayloadsStored'
    <2> SUFFICES ASSUME NEW m \in Nodes
                 PROVE  (KeysIn(purged[m] + 1, stored[m]) \subseteq payloads[m])'
      BY Zenon DEF LoggedPayloadsStored
    <2>1. CASE m # n
      BY <1>3, <1>4, <1>10, <2>1 DEF IInv, LoggedPayloadsStored, KeysIn
    <2>2. CASE m = n
      BY <1>11, <2>2 DEF KeysIn
    <2> QED BY <2>1, <2>2, Zenon
  <1> QED BY <1>7, <1>8, <1>9, <1>12, <1>13, <1>14, Zenon DEF IInv

\* A process restarts from its stored snapshot.
LEMMA RestartStep ==
  ASSUME IInv, NEW n \in Nodes, Restart(n)
  PROVE  IInv'
  <1>1. /\ UNCHANGED <<log, stored, purged, payloads, payload_gc, snapshot>>
        /\ applied' = [applied EXCEPT ![n] = snapshot[n].last]
        /\ pending' = [pending EXCEPT ![n] = snapshot[n].pending]
        /\ building' = [building EXCEPT ![n] = NotBuilding]
        /\ pushed' = [m \in Nodes |-> IF m = n \/ n = Leader THEN 0 ELSE pushed[m]]
        /\ installing' = [installing EXCEPT ![n] = None]
    BY Zenon DEF Restart, durable
  <1>2. /\ snapshot[n].last \in Nat /\ snapshot[n].pending \in Seq(Keys)
        /\ applied \in [Nodes -> Nat] /\ pending \in [Nodes -> Seq(Keys)]
        /\ building \in [Nodes -> Nat \cup {NotBuilding}]
        /\ installing \in [Nodes -> Snapshots \cup {None}]
        /\ pushed \in [Nodes -> Nat] /\ Len(log) \in Nat
        /\ \A m \in Nodes : pushed[m] <= Len(log)
    BY SMTT(30) DEF IInv, Types, Snapshots
  <1>3. Types'
    <2>1. /\ applied' \in [Nodes -> Nat] /\ pending' \in [Nodes -> Seq(Keys)]
          /\ building' \in [Nodes -> Nat \cup {NotBuilding}]
          /\ installing' \in [Nodes -> Snapshots \cup {None}]
      BY <1>1, <1>2, Zenon
    <2>2. pushed' \in [Nodes -> Nat] /\ \A m \in Nodes : pushed'[m] <= Len(log)
      BY <1>1, <1>2
    <2> QED BY <1>1, <2>1, <2>2, Zenon DEF IInv, Types
  <1>4. KeysUnique' /\ LoggedPayloadsStored'
    BY <1>1, Zenon DEF IInv, KeysUnique, LoggedPayloadsStored, KeysIn
  <1>5. LeaderComplete'
    BY <1>1, <1>2, ReplicationAssumption, Zenon DEF IInv, LeaderComplete
  <1>6. BuildsAlone' /\ Bounded'
    BY <1>1, <1>2, Zenon DEF IInv, BuildsAlone, Bounded
  <1>7. KeysBrought'
    <2>1. \A key, i : Brought(key, i) => Brought(key, i)'
      BY <1>1, Zenon DEF Brought
    <2> SUFFICES ASSUME NEW m \in Nodes PROVE BroughtAt(m)'
      BY Zenon DEF KeysBrought, BroughtAt
    <2>2. BroughtAt(m)
      BY Zenon DEF IInv, KeysBrought, BroughtAt
    <2>3. CASE m # n
      BY <1>1, <1>2, <2>1, <2>2, <2>3, Zenon DEF BroughtAt
    <2>4. CASE m = n
      BY <1>1, <1>2, <2>1, <2>2, <2>4, Zenon DEF BroughtAt
    <2> QED BY <2>3, <2>4, Zenon
  <1> QED BY <1>3, <1>4, <1>5, <1>6, <1>7, Zenon DEF IInv

\* Every step keeps the invariant.
LEMMA NextInv ==
  ASSUME IInv, MaxOverlap = 0, [Next]_vars
  PROVE  IInv'
  <1>1. CASE UNCHANGED vars
    <2>1. UNCHANGED <<log, stored, purged, payloads, payload_gc, snapshot, applied, pending, building, pushed, installing>>
      BY <1>1, Zenon DEF vars, durable, memory
    <2>2. Types' /\ LeaderComplete'
      BY <2>1, Zenon DEF IInv, Types, LeaderComplete
    <2> QED BY <2>1, <2>2, KeysFrame, PayloadsGrow, Zenon DEF IInv
  <1>2. CASE \E n \in Nodes, key \in Keys : StorePayload(n, key) \/ ForwardPayload(n, key)
    BY <1>2, StoreStep, Zenon
  <1>3. CASE \E entry \in Entries : ProposeEntry(entry)
    BY <1>3, ProposeStep, Zenon
  <1>4. ASSUME NEW n \in Nodes,
               \/ PushPayloads(n) \/ AppendLost(n) \/ AppendEntries(n)
               \/ ApplyEntry(n) \/ BeginSnapshot(n) \/ BuildSnapshot(n) \/ Purge(n)
               \/ BeginInstall(n) \/ SyncPayloads(n) \/ SyncFails(n) \/ InstallSnapshot(n)
               \/ PerformIntegrityCheck(n) \/ Restart(n)
        PROVE  IInv'
    BY <1>4, ReplicateStep, ApplyStep, SnapshotStep, PurgeStep, SendSnapshotStep, FetchStep,
       InstallStep, RestartStep, Zenon
  <1> QED BY <1>1, <1>2, <1>3, <1>4, Zenon DEF Next

\* As long as no replica applies an entry between get_snapshot_builder and
\* build_snapshot (store.rs), the payload of every entry a node still has in its
\* log is in the node's store: neither LogStore::purge nor the purge behind
\* install_snapshot ever collects it.
THEOREM LoggedPayloadsKept ==
  ASSUME MaxOverlap = 0
  PROVE  Spec => []LoggedPayloadsStored
  <1>1. IInv /\ [Next]_vars => IInv'
    BY NextInv, Zenon
  <1>2. IInv => LoggedPayloadsStored
    BY Zenon DEF IInv
  <1> QED BY InitInv, <1>1, <1>2, PTL DEF Spec

-------------------------------------------------------------------------------
\* What the queues hold.  The state machine is deterministic: there is one
\* queue f[i] for every length i of the log, and every replica, snapshot and
\* installation has the one of its index.

Effect(queue, entry) == IF entry.op = "append" THEN Append(queue, entry.key) ELSE Popped(queue)

\* f are the queues of the log: a key is in one only after its entry, and does
\* not come back once it is gone.
History(f) ==
  /\ f \in [0..Len(log) -> Seq(Keys)] /\ f[0] = <<>>
  /\ \A i \in 1..Len(log) : f[i] = Effect(f[i - 1], log[i])
  /\ \A i \in 0..Len(log) : \A key \in Range(f[i]) : Brought(key, i)
  /\ \A i, j \in 0..Len(log) : i <= j => \A key \in Range(f[j]) \ Range(f[i]) : ~Brought(key, i)

\* A payload that is due for deletion is in no queue any more.
FollowsAt(f, n) ==
  /\ pending[n] = f[applied[n]] /\ snapshot[n].pending = f[snapshot[n].last]
  /\ installing[n] # None => installing[n].pending = f[installing[n].last]
  /\ \A item \in payload_gc[n] :
       /\ item.delete_after_log_index <= Len(log)
       /\ \A j \in 0..Len(log) : item.delete_after_log_index <= j => item.key \notin Range(f[j])

\* A log is purged up to its snapshot, a snapshot has what was applied, and
\* only what is stored is applied.
OrderedAt(n) ==
  /\ purged[n] <= snapshot[n].last /\ snapshot[n].last <= applied[n] /\ applied[n] <= stored[n]
  /\ pushed[n] # 0 => stored[n] <= pushed[n]
  /\ installing[n] # None => installing[n].last <= snapshot[Leader].last /\ pushed[n] = 0

\* What a queue, a stored snapshot or a batch about to be appended needs is there.
StoredAt(n) ==
  /\ Range(pending[n]) \subseteq payloads[n] /\ Range(snapshot[n].pending) \subseteq payloads[n]
  /\ KeysIn(stored[n] + 1, pushed[n]) \subseteq payloads[n]

At(f, n) == FollowsAt(f, n) /\ OrderedAt(n) /\ StoredAt(n)

QInv == \E f : History(f) /\ \A n \in Nodes : At(f, n)

\* The queues hold initially.
LEMMA InitQueues == Init => QInv
  <1> SUFFICES ASSUME Init PROVE QInv
    BY Zenon
  <1> DEFINE f == [i \in 0..0 |-> <<>>]
  <1>1. History(f)
    BY DEF Init, History, Range
  <1>2. ASSUME NEW n \in Nodes PROVE At(f, n)
    <2>1. FollowsAt(f, n)
      BY DEF Init, FollowsAt
    <2>2. OrderedAt(n)
      BY DEF Init, OrderedAt
    <2>3. Range(<<>>) = {} /\ KeysIn(1, 0) = {}
      BY DEF Range, KeysIn
    <2>4. StoredAt(n)
      BY <2>3 DEF Init, StoredAt
    <2> QED BY <2>1, <2>2, <2>4, Zenon DEF At
  <1> QED BY <1>1, <1>2, Zenon DEF QInv

\* The queues do not change while the log does not.
LEMMA HistoryKept ==
  ASSUME NEW f, History(f), UNCHANGED log
  PROVE  History(f)'
  BY DEF History, Brought

\* What an entry does to a queue.
LEMMA EffectFacts ==
  ASSUME NEW q \in Seq(Keys), NEW entry \in Entries
  PROVE  /\ Effect(q, entry) \in Seq(Keys)
         /\ \A key \in Range(Effect(q, entry)) : key \in Range(q) \/ (key = entry.key /\ entry # Pop_)
  <1>1. CASE entry.op = "append"
    <2>1. entry.key \in Keys /\ entry # Pop_
      BY <1>1 DEF Entries, Append_, Pop_
    <2> QED BY <1>1, <2>1, QueueFacts, Zenon DEF Effect
  <1>2. CASE entry.op # "append"
    BY <1>2, QueueFacts, Zenon DEF Effect
  <1> QED BY <1>1, <1>2, Zenon

\* Steps that only add payloads.
LEMMA AddingQueues ==
  ASSUME NEW f, \A n \in Nodes : At(f, n), Types,
         UNCHANGED <<log, stored, purged, payload_gc, snapshot, applied, pending, pushed, installing>>,
         \A n \in Nodes : payloads[n] \subseteq payloads'[n]
  PROVE  \A n \in Nodes : At(f, n)'
  <1> SUFFICES ASSUME NEW n \in Nodes PROVE At(f, n)'
    BY Zenon
  <1>1. FollowsAt(f, n)' /\ OrderedAt(n)'
    BY Zenon DEF At, FollowsAt, OrderedAt
  <1>2. StoredAt(n)'
    BY Zenon DEF At, StoredAt, KeysIn
  <1> QED BY <1>1, <1>2, Zenon DEF At

\* A new entry adds a queue to the history.
LEMMA HistoryGrows ==
  ASSUME IInv, NEW f, History(f), NEW entry \in Entries, ProposeEntry(entry)
  PROVE  \E g : /\ History(g)'
                /\ \A i \in 0..Len(log) : g[i] = f[i]
                /\ \A key \in Range(g[Len(log) + 1]) : key \in Range(f[Len(log)]) \/ ~InLog(key)
  <1>1. /\ log' = Append(log, entry)
        /\ entry # Pop_ => ~InLog(entry.key)
    BY Zenon DEF ProposeEntry
  <1>2. /\ log' \in Seq(Entries) /\ Len(log') = Len(log) + 1 /\ Len(log) \in Nat
        /\ \A i \in 1..Len(log) : log'[i] = log[i]
        /\ log'[Len(log) + 1] = entry
    BY <1>1, LogGrows DEF IInv, Types
  <1> DEFINE len == Len(log)
             q == Effect(f[len], entry)
  <1>3. f \in [0..len -> Seq(Keys)] /\ f[len] \in Seq(Keys)
    BY <1>2 DEF History
  <1>4. /\ q \in Seq(Keys)
        /\ \A key \in Range(q) : key \in Range(f[len]) \/ (key = entry.key /\ entry # Pop_)
    BY <1>3, EffectFacts, Zenon
  <1>5. PICK g : /\ g \in [0..len + 1 -> Seq(Keys)] /\ g[len + 1] = q
                 /\ \A i \in 0..len : g[i] = f[i]
    <2> DEFINE h == [i \in 0..len + 1 |-> IF i = len + 1 THEN q ELSE f[i]]
    <2>1. /\ h \in [0..len + 1 -> Seq(Keys)] /\ h[len + 1] = q
          /\ \A i \in 0..len : h[i] = f[i]
      BY <1>2, <1>3, <1>4
    <2> QED BY <2>1, Zenon
  <1>6. /\ \A key : \A i \in 0..len : Brought(key, i)' <=> Brought(key, i)
        /\ \A k : k = len + 1 => /\ \A key : Brought(key, len) => Brought(key, k)'
                                 /\ Brought(entry.key, k)'
    BY <1>2 DEF Brought
  <1>7. \A key : \A i \in 0..len : ~InLog(key) => ~Brought(key, i)
    BY Zenon DEF InLog, Brought
  <1> HIDE DEF q
  <1>8. g[0] = <<>> /\ \A i \in 1..len + 1 : g[i] = Effect(g[i - 1], log'[i])
    <2>1. g[0] = <<>>
      BY <1>2, <1>5 DEF History
    <2>2. ASSUME NEW i \in 1..len PROVE g[i] = Effect(g[i - 1], log'[i])
      <3>1. g[i] = f[i] /\ g[i - 1] = f[i - 1] /\ log'[i] = log[i]
        BY <1>2, <1>5, SMTT(30)
      <3> QED BY <3>1, Zenon DEF History
    <2>3. g[len + 1] = Effect(g[len + 1 - 1], log'[len + 1])
      BY <1>2, <1>5 DEF q
    <2>4. \A i \in 1..len + 1 : i \in 1..len \/ i = len + 1
      BY <1>2
    <2> QED BY <2>1, <2>2, <2>3, <2>4
  <1>9. ASSUME NEW i \in 0..len + 1, NEW key \in Range(g[i]) PROVE Brought(key, i)'
    <2>1. CASE i \in 0..len
      BY <1>5, <1>6, <2>1, Zenon DEF History
    <2>2. CASE i = len + 1
      <3>1. \A k \in Range(f[len]) : Brought(k, len)
        BY <1>2 DEF History
      <3>2. key \in Range(q)
        BY <1>5, <2>2, Zenon
      <3> QED BY <1>4, <1>6, <2>2, <3>1, <3>2, Zenon
    <2> QED BY <1>2, <2>1, <2>2
  <1>10. ASSUME NEW i \in 0..len + 1, NEW j \in 0..len + 1, i <= j,
                NEW key \in Range(g[j]) \ Range(g[i])
         PROVE  ~Brought(key, i)'
    <2>1. CASE j \in 0..len
      <3>1. i \in 0..len
        BY <1>2, <1>10, <2>1
      <3> QED BY <1>5, <1>6, <1>10, <2>1, <3>1, Zenon DEF History
    <2>2. CASE j = len + 1
      <3>1. i \in 0..len
        BY <1>2, <1>10, <2>2
      <3>2. CASE key \in Range(f[len])
        <4>1. len \in 0..len /\ i <= len /\ key \in Range(f[len]) \ Range(f[i])
          BY <1>2, <1>5, <1>10, <3>1, <3>2
        <4> QED BY <1>6, <3>1, <4>1, Zenon DEF History
      <3>3. CASE key = entry.key /\ entry # Pop_
        BY <1>1, <1>6, <1>7, <3>1, <3>3, Zenon
      <3> QED BY <1>4, <1>5, <1>10, <2>2, <3>2, <3>3, Zenon
    <2> QED BY <1>2, <2>1, <2>2
  <1>11. History(g)'
    BY <1>2, <1>5, <1>8, <1>9, <1>10, Zenon DEF History
  <1> QED BY <1>1, <1>4, <1>5, <1>11, Zenon

\* A new entry leaves the queues of the replicas alone.
LEMMA ProposeQueues ==
  ASSUME IInv, QInv, NEW entry \in Entries, ProposeEntry(entry)
  PROVE  QInv'
  <1> PICK f : History(f) /\ \A n \in Nodes : At(f, n)
    BY Zenon DEF QInv
  <1>1. PICK g : /\ History(g)'
                 /\ \A i \in 0..Len(log) : g[i] = f[i]
                 /\ \A key \in Range(g[Len(log) + 1]) : key \in Range(f[Len(log)]) \/ ~InLog(key)
    BY HistoryGrows, Zenon
  <1>2. /\ log' = Append(log, entry) /\ stored' = [stored EXCEPT ![Leader] = Len(log) + 1]
        /\ UNCHANGED <<purged, payloads, payload_gc, snapshot, applied, pending, building, pushed, installing>>
    BY Zenon DEF ProposeEntry, memory
  <1>3. /\ Len(log') = Len(log) + 1 /\ Len(log) \in Nat
        /\ \A i \in 1..Len(log) : log'[i] = log[i]
    BY <1>2, LogGrows DEF IInv, Types
  <1>4. ASSUME NEW n \in Nodes PROVE At(g, n)'
    <2>1. /\ applied[n] \in 0..Len(log) /\ snapshot[n].last \in 0..Len(log)
          /\ installing[n] # None => installing[n].last \in 0..Len(log)
      BY DEF IInv, Types, Bounded, Snapshots
    <2>2. ASSUME NEW item \in payload_gc[n]
          PROVE  /\ item.delete_after_log_index <= Len(log) + 1
                 /\ \A j \in 0..Len(log) + 1 : item.delete_after_log_index <= j => item.key \notin Range(g[j])
      <3>1. /\ item.delete_after_log_index \in Nat /\ item.delete_after_log_index <= Len(log)
            /\ \A j \in 0..Len(log) : item.delete_after_log_index <= j => item.key \notin Range(f[j])
        BY DEF At, FollowsAt, IInv, Types
      <3>2. InLog(item.key)
        BY Zenon DEF IInv, KeysBrought, Brought, InLog
      <3>3. item.key \notin Range(f[Len(log)])
        BY <1>3, <3>1
      <3>4. item.key \notin Range(g[Len(log) + 1])
        BY <1>1, <3>2, <3>3, Zenon
      <3>5. \A j \in 0..Len(log) + 1 : j \in 0..Len(log) \/ j = Len(log) + 1
        BY <1>3
      <3> QED BY <1>1, <1>3, <3>1, <3>4, <3>5
    <2>3. FollowsAt(g, n)'
      BY <1>1, <1>2, <1>3, <2>1, <2>2, ZenonT(30) DEF At, FollowsAt
    <2>4. stored \in [Nodes -> Nat] /\ stored[n] <= Len(log) /\ pushed[Leader] = 0
          /\ (n = Leader => stored[n] = Len(log)) /\ applied[n] <= Len(log) /\ Leader \in Nodes
      BY ReplicationAssumption, Zenon DEF IInv, Types, LeaderComplete, Bounded
    <2>5. OrderedAt(n)'
      <3>1. n # Leader => stored'[n] = stored[n]
        BY <1>2, <2>4, Zenon
      <3>2. n = Leader => stored'[n] = Len(log) + 1
        BY <1>2, <2>4, Zenon
      <3> QED BY <1>2, <1>3, <2>1, <2>4, <3>1, <3>2 DEF At, OrderedAt
    <2>6. StoredAt(n)'
      <3>1. KeysIn(stored[n] + 1, pushed[n])' \subseteq KeysIn(stored[n] + 1, pushed[n])
        <4>1. pushed[n] \in Nat /\ pushed[n] <= Len(log) /\ (n = Leader => pushed[n] = 0)
          BY Zenon DEF IInv, Types, LeaderComplete
        <4>2. CASE n = Leader
          <5>1. pushed'[n] = 0 /\ stored'[n] \in Nat
            BY <1>2, <1>3, <2>4, <4>1, <4>2
          <5> QED BY <5>1 DEF KeysIn
        <4>3. CASE n # Leader
          <5>1. stored'[n] = stored[n] /\ pushed'[n] = pushed[n] /\ stored[n] \in Nat
            BY <1>2, <2>4, <4>3, Zenon
          <5>2. \A i \in stored[n] + 1 .. pushed[n] : log'[i] = log[i]
            BY <1>3, <4>1, <5>1
          <5> QED BY <5>1, <5>2, Zenon DEF KeysIn
        <4> QED BY <4>2, <4>3, Zenon
      <3> QED BY <1>2, <3>1, Zenon DEF At, StoredAt
    <2> QED BY <2>3, <2>5, <2>6, Zenon DEF At
  <1> QED BY <1>1, <1>4, Zenon DEF QInv

\* Steps that add payloads: to propose a message, to install a snapshot, or to
\* repair what is missing.
LEMMA PayloadQueues ==
  ASSUME IInv, NEW f, \A m \in Nodes : At(f, m), NEW n \in Nodes,
         \/ \E key \in Keys : StorePayload(n, key) \/ ForwardPayload(n, key)
         \/ SyncPayloads(n) \/ PerformIntegrityCheck(n)
  PROVE  \A m \in Nodes : At(f, m)'
  <1>1. UNCHANGED <<log, stored, purged, payload_gc, snapshot, applied, pending, pushed, installing>>
    BY Zenon DEF StorePayload, ForwardPayload, SyncPayloads, PerformIntegrityCheck, memory
  <1>2. \E m \in Nodes : \E more : payloads' = [payloads EXCEPT ![m] = @ \cup more]
    <2>1. payloads = [payloads EXCEPT ![n] = @ \cup {}]
      BY Zenon DEF IInv, Types
    <2>2. CASE PerformIntegrityCheck(n)
      BY <2>1, <2>2, Zenon DEF PerformIntegrityCheck
    <2>3. CASE SyncPayloads(n)
      BY <2>3, Zenon DEF SyncPayloads
    <2>4. CASE \E key \in Keys : StorePayload(n, key) \/ ForwardPayload(n, key)
      BY <2>4, ReplicationAssumption, Zenon DEF StorePayload, ForwardPayload
    <2> QED BY <2>2, <2>3, <2>4, Zenon
  <1>3. \A m \in Nodes : payloads[m] \subseteq payloads'[m]
    BY <1>2, Zenon DEF IInv, Types
  <1> QED BY <1>1, <1>3, AddingQueues, Zenon DEF IInv

\* Replication: the payloads of a batch are there before its entries.
LEMMA ReplicateQueues ==
  ASSUME IInv, NEW f, \A m \in Nodes : At(f, m), NEW n \in Nodes,
         PushPayloads(n) \/ AppendLost(n) \/ AppendEntries(n)
  PROVE  \A m \in Nodes : At(f, m)'
  <1>1. UNCHANGED <<log, purged, payload_gc, snapshot, applied, pending, installing>>
    BY Zenon DEF PushPayloads, AppendLost, AppendEntries, durable
  <1>2. /\ stored \in [Nodes -> Nat] /\ pushed \in [Nodes -> Nat] /\ applied \in [Nodes -> Nat]
        /\ payloads \in [Nodes -> SUBSET Keys]
    BY Zenon DEF IInv, Types
  <1> SUFFICES ASSUME NEW m \in Nodes PROVE At(f, m)'
    BY Zenon
  <1>3. FollowsAt(f, m) /\ OrderedAt(m) /\ StoredAt(m)
    BY Zenon DEF At
  <1>4. FollowsAt(f, m)'
    BY <1>1, <1>3, Zenon DEF FollowsAt
  <1>5. CASE PushPayloads(n)
    <2>1. PICK upto \in (stored[n] + 1)..Len(log) :
            /\ payloads' = [payloads EXCEPT ![n] = @ \cup KeysIn(stored[n] + 1, upto)]
            /\ pushed' = [pushed EXCEPT ![n] = upto]
      BY <1>5, Zenon DEF PushPayloads
    <2>2. UNCHANGED stored /\ installing[n] = None
      BY <1>5, Zenon DEF PushPayloads
    <2>3. OrderedAt(m)'
      <3>1. m = n => pushed'[m] = upto
        BY <1>2, <2>1, Zenon
      <3>2. m # n => pushed'[m] = pushed[m]
        BY <1>2, <2>1, Zenon
      <3> QED BY <1>1, <1>2, <1>3, <2>2, <3>1, <3>2 DEF OrderedAt
    <2>4. StoredAt(m)'
      <3>1. payloads[m] \subseteq payloads'[m]
        BY <1>2, <2>1, Zenon
      <3>2. KeysIn(stored[m] + 1, pushed[m])' \subseteq payloads'[m]
        <4>1. CASE m = n
          BY <1>1, <1>2, <2>1, <2>2, <4>1, ZenonT(30) DEF KeysIn
        <4>2. CASE m # n
          <5>1. pushed'[m] = pushed[m]
            BY <1>2, <2>1, <4>2, Zenon
          <5> QED BY <1>1, <1>3, <2>2, <3>1, <5>1, Zenon DEF KeysIn, StoredAt
        <4> QED BY <4>1, <4>2, Zenon
      <3> QED BY <1>1, <1>3, <3>1, <3>2, Zenon DEF StoredAt
    <2> QED BY <1>4, <2>3, <2>4, Zenon DEF At
  <1>6. CASE AppendLost(n) \/ AppendEntries(n)
    <2>1. /\ UNCHANGED payloads /\ pushed' = [pushed EXCEPT ![n] = 0] /\ pushed[n] # 0
          /\ stored' = stored \/ stored' = [stored EXCEPT ![n] = pushed[n]]
      BY <1>6, Zenon DEF AppendLost, AppendEntries, durable
    <2>2. CASE m = n
      <3>1. pushed'[m] = 0 /\ (stored'[m] = stored[m] \/ stored'[m] = pushed[m]) /\ pushed[m] # 0
        BY <1>2, <2>1, <2>2, Zenon
      <3>2. OrderedAt(m)'
        <4>1. purged[m] \in Nat /\ snapshot[m].last \in Nat
          BY Zenon DEF IInv, Types, Snapshots
        <4> QED BY <1>1, <1>2, <1>3, <3>1, <4>1 DEF OrderedAt
      <3>3. KeysIn(stored[m] + 1, pushed[m])' = {}
        <4>1. stored'[m] \in Nat
          BY <1>2, <3>1, Zenon
        <4> QED BY <3>1, <4>1 DEF KeysIn
      <3> QED BY <1>1, <1>3, <1>4, <2>1, <3>2, <3>3, Zenon DEF At, StoredAt
    <2>3. CASE m # n
      <3>1. pushed'[m] = pushed[m] /\ stored'[m] = stored[m]
        BY <1>2, <2>1, <2>3, Zenon
      <3>2. OrderedAt(m)'
        BY <1>1, <1>3, <3>1, Zenon DEF OrderedAt
      <3>3. StoredAt(m)'
        BY <1>1, <1>3, <2>1, <3>1, Zenon DEF StoredAt, KeysIn
      <3> QED BY <1>4, <3>2, <3>3, Zenon DEF At
    <2> QED BY <2>2, <2>3, Zenon
  <1> QED BY <1>5, <1>6, Zenon

\* Applying an entry takes a replica to the next queue of the history.
LEMMA ApplyQueues ==
  ASSUME IInv, NEW f, History(f), \A m \in Nodes : At(f, m), NEW n \in Nodes, ApplyEntry(n)
  PROVE  \A m \in Nodes : At(f, m)'
  <1>0. PICK index \in Nat : index = applied[n] + 1
    BY SMTT(30) DEF IInv, Types
  <1>1. /\ UNCHANGED <<log, stored, purged, payloads, snapshot, pushed, installing>>
        /\ applied' = [applied EXCEPT ![n] = index] /\ applied[n] < stored[n]
        /\ \/ /\ log[index].op = "append"
              /\ pending' = [pending EXCEPT ![n] = Append(@, log[index].key)]
              /\ UNCHANGED payload_gc
           \/ /\ log[index].op # "append"
              /\ pending' = [pending EXCEPT ![n] = Popped(@)]
              /\ payload_gc' = [payload_gc EXCEPT ![n] =
                   @ \cup {GcItem(index, key) : key \in Freed(pending[n])}]
    BY <1>0 DEF ApplyEntry
  <1>2. /\ applied[n] \in Nat /\ applied \in [Nodes -> Nat] /\ Len(log) \in Nat
        /\ pending \in [Nodes -> Seq(Keys)] /\ pending[n] \in Seq(Keys) /\ stored[n] \in Nat
        /\ stored[n] <= Len(log) /\ purged[n] \in Nat /\ snapshot[n].last \in Nat
        /\ payload_gc \in [Nodes -> SUBSET [delete_after_log_index : Nat, key : Keys]]
    BY SMTT(30) DEF IInv, Types, Snapshots
  <1>3. index \in 1..Len(log) /\ index <= stored[n] /\ index - 1 = applied[n] /\ index \in 0..Len(log)
    <2>1. applied[n] < stored[n]
      BY <1>1, Zenon
    <2>2. applied[n] \in Nat /\ stored[n] \in Nat /\ Len(log) \in Nat /\ stored[n] <= Len(log)
      BY <1>2, Zenon
    <2> QED BY <1>0, <2>1, <2>2
  <1>4. log[index] \in Entries
    BY <1>3 DEF IInv, Types
  <1>5. pending'[n] = f[index] /\ f[index] = Effect(pending[n], log[index])
    <2>1. f[index] = Effect(f[applied[n]], log[index])
      BY <1>3, Zenon DEF History
    <2>2. pending[n] = f[applied[n]]
      BY Zenon DEF At, FollowsAt
    <2> QED BY <1>1, <1>2, <2>1, <2>2, Zenon DEF Effect
  <1>6. log[index].op # "append" => f[index] = Popped(pending[n])
    BY <1>5, Zenon DEF Effect
  <1>7. ASSUME NEW key \in Freed(pending[n]), log[index].op # "append", NEW j \in 0..Len(log), index <= j
        PROVE  key \notin Range(f[j])
    <2>1. key \in Range(pending[n]) /\ key \notin Range(f[index])
      BY <1>6, <1>7, Zenon DEF Freed
    <2>2. Brought(key, index)
      BY <1>0, <1>2, <2>1 DEF IInv, KeysBrought, Brought
    <2> QED BY <1>3, <1>7, <2>1, <2>2, Zenon DEF History
  <1>8. ASSUME NEW item \in payload_gc'[n]
        PROVE  /\ item.delete_after_log_index <= Len(log)
               /\ \A j \in 0..Len(log) : item.delete_after_log_index <= j => item.key \notin Range(f[j])
    <2>1. CASE item \in payload_gc[n]
      BY <2>1, Zenon DEF At, FollowsAt
    <2>2. CASE item \notin payload_gc[n]
      <3>1. log[index].op # "append" /\ \E key \in Freed(pending[n]) : item = GcItem(index, key)
        BY <1>1, <1>2, <1>8, <2>2
      <3>2. PICK key \in Freed(pending[n]) : item = GcItem(index, key)
        BY <3>1, Zenon
      <3>3. item.delete_after_log_index = index /\ item.key = key
        BY <3>2, Zenon DEF GcItem
      <3> QED BY <1>3, <1>7, <3>1, <3>3, SMTT(30)
    <2> QED BY <2>1, <2>2, Zenon
  <1>9. Range(pending'[n]) \subseteq payloads[n]
    <2> SUFFICES ASSUME NEW key \in Range(f[index]) PROVE key \in payloads[n]
      BY <1>5, Zenon
    <2>1. key \in Range(pending[n]) \/ (key = log[index].key /\ log[index] # Pop_)
      BY <1>2, <1>4, <1>5, EffectFacts, Zenon
    <2>2. CASE key \in Range(pending[n])
      BY <2>2, Zenon DEF At, StoredAt
    <2>3. CASE key = log[index].key /\ log[index] # Pop_
      <3>1. key # NoKey
        BY <1>4, <2>3, ReplicationAssumption, SMTT(30) DEF Entries, Append_
      <3>2. index \in purged[n] + 1 .. stored[n]
        BY <1>0, <1>2, <1>3, SMTT(30) DEF At, OrderedAt
      <3> QED BY <2>3, <3>1, <3>2, Zenon DEF IInv, LoggedPayloadsStored, KeysIn
    <2> QED BY <2>1, <2>2, <2>3, Zenon
  <1> SUFFICES ASSUME NEW m \in Nodes PROVE At(f, m)'
    BY Zenon
  <1>10. FollowsAt(f, m) /\ OrderedAt(m) /\ StoredAt(m)
    BY Zenon DEF At
  <1>11. CASE m = n
    <2>1. applied'[m] = index
      BY <1>1, <1>2, <1>11, Zenon
    <2>2. FollowsAt(f, m)'
      BY <1>1, <1>5, <1>8, <1>10, <1>11, <2>1, Zenon DEF FollowsAt
    <2>3. OrderedAt(m)'
      BY <1>0, <1>1, <1>2, <1>3, <1>10, <1>11, <2>1 DEF OrderedAt
    <2>4. StoredAt(m)'
      <3>1. KeysIn(stored[m] + 1, pushed[m])' = KeysIn(stored[m] + 1, pushed[m])
        BY <1>1, Zenon DEF KeysIn
      <3>2. payloads' = payloads /\ snapshot' = snapshot
        BY <1>1, Zenon
      <3> QED BY <1>9, <1>10, <1>11, <3>1, <3>2, Zenon DEF StoredAt
    <2> QED BY <2>2, <2>3, <2>4, Zenon DEF At
  <1>12. CASE m # n
    <2>1. applied'[m] = applied[m] /\ pending'[m] = pending[m] /\ payload_gc'[m] = payload_gc[m]
      BY <1>1, <1>2, <1>12, Zenon
    <2>2. FollowsAt(f, m)' /\ OrderedAt(m)'
      BY <1>1, <1>10, <2>1, Zenon DEF FollowsAt, OrderedAt
    <2>3. StoredAt(m)'
      BY <1>1, <1>10, <2>1, ZenonT(30) DEF StoredAt, KeysIn
    <2> QED BY <2>2, <2>3, Zenon DEF At
  <1> QED BY <1>11, <1>12, Zenon

\* A snapshot that is built has the queue of its index.
LEMMA SnapshotQueues ==
  ASSUME IInv, NEW f, \A m \in Nodes : At(f, m), NEW n \in Nodes,
         BeginSnapshot(n) \/ BuildSnapshot(n)
  PROVE  \A m \in Nodes : At(f, m)'
  <1>1. UNCHANGED <<log, stored, purged, payloads, payload_gc, applied, pending, pushed, installing>>
    BY Zenon DEF BeginSnapshot, BuildSnapshot, durable
  <1>2. CASE UNCHANGED snapshot
    BY <1>1, <1>2, AddingQueues, Zenon DEF IInv
  <1>3. CASE BuildSnapshot(n)
    <2>1. building[n] = applied[n] /\ snapshot' = [snapshot EXCEPT ![n] = [last |-> building[n], pending |-> pending[n]]]
      BY <1>3, Zenon DEF BuildSnapshot, IInv, BuildsAlone
    <2>2. snapshot \in [Nodes -> Snapshots] /\ applied \in [Nodes -> Nat] /\ purged \in [Nodes -> Nat]
      BY Zenon DEF IInv, Types
    <2>3. /\ snapshot'[n].last = applied[n] /\ snapshot'[n].pending = pending[n]
          /\ \A m \in Nodes \ {n} : snapshot'[m] = snapshot[m]
      BY <2>1, <2>2, Zenon
    <2>4. snapshot[Leader].last <= snapshot'[Leader].last /\ Leader \in Nodes
      <3>1. Leader \in Nodes /\ snapshot[Leader].last \in Nat
        BY <2>2, ReplicationAssumption, Zenon DEF Snapshots
      <3>2. snapshot[n].last <= applied[n]
        BY Zenon DEF At, OrderedAt
      <3> QED BY <2>3, <3>1, <3>2
    <2> SUFFICES ASSUME NEW m \in Nodes PROVE At(f, m)'
      BY Zenon
    <2>5. FollowsAt(f, m) /\ OrderedAt(m) /\ StoredAt(m)
      BY Zenon DEF At
    <2>6. FollowsAt(f, m)'
      BY <1>1, <2>3, <2>5, Zenon DEF FollowsAt
    <2>7. OrderedAt(m)'
      <3>1. /\ snapshot[m].last \in Nat /\ snapshot[Leader].last \in Nat
            /\ applied[m] \in Nat /\ purged[m] \in Nat /\ applied[n] \in Nat
            /\ installing[m] # None => installing[m].last \in Nat
        BY <2>2, <2>4, ZenonT(30) DEF Snapshots, IInv, Types
      <3>2. snapshot'[Leader].last \in Nat /\ snapshot[m].last <= snapshot'[m].last /\ snapshot'[m].last <= applied[m]
        <4>1. snapshot[m].last <= applied[m]
          BY <2>5, Zenon DEF OrderedAt
        <4>2. snapshot'[m].last = snapshot[m].last \/ snapshot'[m].last = applied[m]
          BY <2>3, Zenon
        <4>3. snapshot'[Leader].last \in Nat
          BY <2>3, <2>4, <3>1, Zenon
        <4> QED BY <3>1, <4>1, <4>2, <4>3
      <3>3. snapshot'[m].last \in Nat
        BY <2>3, <3>1, Zenon
      <3>4. installing[m] # None => installing[m].last <= snapshot[Leader].last /\ pushed[m] = 0
        BY <2>5, Zenon DEF OrderedAt
      <3>5. installing[m] # None => installing[m].last <= snapshot'[Leader].last
        BY <2>4, <3>1, <3>2, <3>4
      <3>6. purged[m] <= snapshot'[m].last
        <4>1. purged[m] <= snapshot[m].last
          BY <2>5, Zenon DEF OrderedAt
        <4> QED BY <3>1, <3>2, <3>3, <4>1
      <3> QED BY <1>1, <2>5, <3>2, <3>4, <3>5, <3>6, Zenon DEF OrderedAt
    <2>8. StoredAt(m)'
      BY <1>1, <2>3, <2>5, Zenon DEF StoredAt, KeysIn
    <2> QED BY <2>6, <2>7, <2>8, Zenon DEF At
  <1> QED BY <1>2, <1>3, Zenon DEF BeginSnapshot, durable

\* What CollectPayloads deletes is in no queue from its index on.
LEMMA CollectedGone ==
  ASSUME Types, NEW f, \A m \in Nodes : At(f, m), NEW n \in Nodes, NEW upto \in Nat,
         CollectPayloads(n, upto)
  PROVE  \A key \in payloads[n] \ payloads'[n] :
           \A j \in 0..Len(log) : upto <= j => key \notin Range(f[j])
  <1> PICK done \in SUBSET {item \in payload_gc[n] : item.delete_after_log_index <= upto} :
        payloads' = [payloads EXCEPT ![n] = @ \ {item.key : item \in done}]
    BY Zenon DEF CollectPayloads
  <1> SUFFICES ASSUME NEW key \in payloads[n] \ payloads'[n], NEW j \in 0..Len(log), upto <= j
               PROVE  key \notin Range(f[j])
    BY Zenon
  <1>1. PICK item \in done : item.key = key
    BY Zenon DEF Types
  <1>2. /\ item \in payload_gc[n] /\ item.delete_after_log_index <= upto
        /\ item.delete_after_log_index \in Nat /\ Len(log) \in Nat
    BY SMTT(30) DEF Types
  <1>3. item.delete_after_log_index <= j
    BY <1>2
  <1> QED BY <1>1, <1>2, <1>3, Zenon DEF At, FollowsAt

\* A purge up to the stored snapshot deletes nothing that a queue holds, nor
\* what a batch brings.
LEMMA PurgeQueues ==
  ASSUME IInv, NEW f, \A m \in Nodes : At(f, m), NEW n \in Nodes, Purge(n)
  PROVE  \A m \in Nodes : At(f, m)'
  <1>1. PICK upto \in (purged[n] + 1)..snapshot[n].last :
          purged' = [purged EXCEPT ![n] = upto] /\ CollectPayloads(n, upto)
    BY Zenon DEF Purge
  <1>2. UNCHANGED <<log, stored, snapshot, applied, pending, pushed, installing>>
    BY Zenon DEF Purge, memory
  <1>3. /\ purged \in [Nodes -> Nat] /\ upto \in Nat /\ Len(log) \in Nat
        /\ snapshot[n].last \in Nat /\ applied[n] \in Nat /\ stored[n] \in Nat /\ pushed[n] \in Nat
        /\ upto <= snapshot[n].last /\ pushed[n] <= Len(log)
        /\ snapshot[n].last <= Len(log) /\ applied[n] <= Len(log)
    BY DEF IInv, Types, Snapshots, Bounded
  <1>4. snapshot[n].last <= applied[n] /\ applied[n] <= stored[n]
    BY Zenon DEF At, OrderedAt
  <1>5. /\ \A m \in Nodes : payload_gc'[m] \subseteq payload_gc[m]
        /\ \A m \in Nodes \ {n} : payloads'[m] = payloads[m]
        /\ \A key \in payloads[n] \ payloads'[n] : Brought(key, upto)
    BY <1>1, <1>3, CollectedBrought, Zenon DEF IInv
  <1>6. \A key \in payloads[n] \ payloads'[n] :
          \A j \in 0..Len(log) : upto <= j => key \notin Range(f[j])
    BY <1>1, <1>3, CollectedGone, Zenon DEF IInv
  <1> SUFFICES ASSUME NEW m \in Nodes PROVE At(f, m)'
    BY Zenon
  <1>7. FollowsAt(f, m) /\ OrderedAt(m) /\ StoredAt(m)
    BY Zenon DEF At
  <1>8. FollowsAt(f, m)'
    BY <1>2, <1>5, <1>7, Zenon DEF FollowsAt
  <1>9. OrderedAt(m)'
    <2>1. m = n => purged'[m] = upto
      BY <1>1, <1>3, Zenon
    <2>2. m # n => purged'[m] = purged[m]
      BY <1>1, <1>3, Zenon
    <2> QED BY <1>2, <1>3, <1>7, <2>1, <2>2, Zenon DEF OrderedAt
  <1>10. StoredAt(m)'
    <2>1. CASE m # n
      BY <1>2, <1>5, <1>7, <2>1, ZenonT(30) DEF StoredAt, KeysIn
    <2>2. CASE m = n
      <3>1. Range(pending[n]) \subseteq payloads'[n]
        <4>1. pending[n] = f[applied[n]] /\ applied[n] \in 0..Len(log) /\ upto <= applied[n]
          BY <1>3, <1>4, <1>7, <2>2 DEF FollowsAt
        <4> QED BY <1>6, <1>7, <2>2, <4>1, Zenon DEF StoredAt
      <3>2. Range(snapshot[n].pending) \subseteq payloads'[n]
        <4>1. snapshot[n].pending = f[snapshot[n].last] /\ snapshot[n].last \in 0..Len(log)
          BY <1>3, <1>7, <2>2 DEF FollowsAt
        <4> QED BY <1>3, <1>6, <1>7, <2>2, <4>1, Zenon DEF StoredAt
      <3>3. KeysIn(stored[n] + 1, pushed[n]) \subseteq payloads'[n]
        <4> SUFFICES ASSUME NEW i \in stored[n] + 1 .. pushed[n], log[i].key # NoKey
                     PROVE  log[i].key \in payloads'[n]
          BY Zenon DEF KeysIn
        <4>1. i \in 1..Len(log) /\ upto < i
          <5>1. /\ upto \in Nat /\ Len(log) \in Nat /\ snapshot[n].last \in Nat /\ applied[n] \in Nat
                /\ stored[n] \in Nat /\ pushed[n] \in Nat
                /\ upto <= snapshot[n].last /\ pushed[n] <= Len(log)
            BY <1>3, Zenon
          <5> QED BY <1>4, <5>1, SMTT(30)
        <4>2. ~Brought(log[i].key, upto)
          BY <1>3, <4>1, SMTT(30) DEF IInv, KeysUnique, Brought
        <4>3. log[i].key \in payloads[n]
          BY <1>7, <2>2, Zenon DEF StoredAt, KeysIn
        <4> QED BY <1>5, <4>2, <4>3, Zenon
      <3>4. KeysIn(stored[n] + 1, pushed[n])' = KeysIn(stored[n] + 1, pushed[n])
        BY <1>2, Zenon DEF KeysIn
      <3> QED BY <1>2, <2>2, <3>1, <3>2, <3>3, <3>4, Zenon DEF StoredAt
    <2> QED BY <2>1, <2>2, Zenon
  <1> QED BY <1>8, <1>9, <1>10, Zenon DEF At

\* A snapshot is sent with the queue of its index.
LEMMA SendQueues ==
  ASSUME IInv, NEW f, \A m \in Nodes : At(f, m), NEW n \in Nodes, BeginInstall(n) \/ SyncFails(n)
  PROVE  \A m \in Nodes : At(f, m)'
  <1>1. UNCHANGED <<log, stored, purged, payloads, payload_gc, snapshot, applied, pending, pushed>>
    BY Zenon DEF BeginInstall, SyncFails, durable
  <1>2. installing \in [Nodes -> Snapshots \cup {None}] /\ Leader \in Nodes /\ snapshot[Leader].last \in Nat
    BY ReplicationAssumption, Zenon DEF IInv, Types, Snapshots
  <1>3. \/ installing' = [installing EXCEPT ![n] = snapshot[Leader]] /\ pushed[n] = 0
        \/ installing' = [installing EXCEPT ![n] = None]
    BY Zenon DEF BeginInstall, SyncFails
  <1>4. /\ \A m \in Nodes \ {n} : installing'[m] = installing[m]
        /\ installing'[n] # None => installing'[n] = snapshot[Leader] /\ pushed[n] = 0
    BY <1>2, <1>3, Zenon
  <1> SUFFICES ASSUME NEW m \in Nodes PROVE At(f, m)'
    BY Zenon
  <1>5. FollowsAt(f, m) /\ OrderedAt(m) /\ StoredAt(m) /\ FollowsAt(f, Leader)
    BY <1>2, Zenon DEF At
  <1>6. FollowsAt(f, m)'
    BY <1>1, <1>4, <1>5, Zenon DEF FollowsAt
  <1>7. OrderedAt(m)'
    BY <1>1, <1>2, <1>4, <1>5 DEF OrderedAt
  <1>8. StoredAt(m)'
    BY <1>1, <1>5, Zenon DEF StoredAt, KeysIn
  <1> QED BY <1>6, <1>7, <1>8, Zenon DEF At

\* An installed snapshot has its payloads: they were fetched, and what the
\* purge behind the installation deletes it does not hold.
LEMMA InstallQueues ==
  ASSUME IInv, NEW f, \A m \in Nodes : At(f, m), NEW n \in Nodes, InstallSnapshot(n)
  PROVE  \A m \in Nodes : At(f, m)'
  <1>1. PICK last \in Nat : last = installing[n].last /\ installing[n] # None /\ last <= Len(log)
    BY Zenon DEF IInv, Types, Bounded, InstallSnapshot, Snapshots
  <1>2. /\ UNCHANGED <<log, pushed>>
        /\ snapshot' = [snapshot EXCEPT ![n] = installing[n]]
        /\ pending' = [pending EXCEPT ![n] = installing[n].pending]
        /\ applied' = [applied EXCEPT ![n] = last]
        /\ stored' = [stored EXCEPT ![n] = last]
        /\ purged' = [purged EXCEPT ![n] = last]
        /\ installing' = [installing EXCEPT ![n] = None]
        /\ MissingFor(n) = {} /\ CollectPayloads(n, last)
    BY <1>1, Zenon DEF InstallSnapshot
  <1>3. /\ snapshot \in [Nodes -> Snapshots] /\ pending \in [Nodes -> Seq(Keys)]
        /\ applied \in [Nodes -> Nat] /\ stored \in [Nodes -> Nat] /\ purged \in [Nodes -> Nat]
        /\ installing \in [Nodes -> Snapshots \cup {None}] /\ Len(log) \in Nat
    BY DEF IInv, Types
  <1>4. /\ \A m \in Nodes : payload_gc'[m] \subseteq payload_gc[m]
        /\ \A m \in Nodes \ {n} : payloads'[m] = payloads[m]
    BY <1>2, CollectedBrought, Zenon DEF IInv
  <1>5. \A key \in payloads[n] \ payloads'[n] :
          \A j \in 0..Len(log) : last <= j => key \notin Range(f[j])
    BY <1>2, CollectedGone, Zenon DEF IInv
  <1>6. \A m \in Nodes \ {n} : /\ snapshot'[m] = snapshot[m] /\ pending'[m] = pending[m]
                               /\ applied'[m] = applied[m] /\ stored'[m] = stored[m]
                               /\ purged'[m] = purged[m] /\ installing'[m] = installing[m]
    BY <1>2, <1>3, Zenon
  <1>7. /\ snapshot'[n] = installing[n] /\ pending'[n] = installing[n].pending
        /\ applied'[n] = last /\ stored'[n] = last /\ purged'[n] = last /\ installing'[n] = None
    BY <1>2, <1>3, Zenon
  <1>8. n # Leader /\ Leader \in Nodes /\ snapshot'[Leader] = snapshot[Leader]
    BY <1>1, <1>6, ReplicationAssumption, Zenon DEF IInv, LeaderComplete
  <1> SUFFICES ASSUME NEW m \in Nodes PROVE At(f, m)'
    BY Zenon
  <1>9. FollowsAt(f, m) /\ OrderedAt(m) /\ StoredAt(m)
    BY Zenon DEF At
  <1>10. CASE m # n
    <2>1. FollowsAt(f, m)'
      BY <1>2, <1>4, <1>6, <1>9, <1>10, Zenon DEF FollowsAt
    <2>2. OrderedAt(m)'
      BY <1>2, <1>6, <1>8, <1>9, <1>10, Zenon DEF OrderedAt
    <2>3. StoredAt(m)'
      <3>1. /\ stored'[m] = stored[m] /\ pending'[m] = pending[m] /\ snapshot'[m] = snapshot[m]
            /\ payloads'[m] = payloads[m]
        BY <1>4, <1>6, <1>10, Zenon
      <3>2. KeysIn(stored[m] + 1, pushed[m])' = KeysIn(stored[m] + 1, pushed[m])
        BY <1>2, <3>1, Zenon DEF KeysIn
      <3> QED BY <1>9, <3>1, <3>2, Zenon DEF StoredAt
    <2> QED BY <2>1, <2>2, <2>3, Zenon DEF At
  <1>11. CASE m = n
    <2>1. installing[n].pending = f[last] /\ pushed[n] = 0
      BY <1>1, <1>9, <1>11, Zenon DEF FollowsAt, OrderedAt
    <2>2. FollowsAt(f, m)'
      BY <1>1, <1>2, <1>4, <1>7, <1>9, <1>11, <2>1, ZenonT(30) DEF FollowsAt
    <2>3. OrderedAt(m)'
      BY <1>1, <1>2, <1>7, <1>11, <2>1 DEF OrderedAt
    <2>4. Range(f[last]) \subseteq payloads'[n]
      <3>1. Range(f[last]) \subseteq payloads[n]
        BY <1>2, <2>1, Zenon DEF MissingFor
      <3>2. last \in 0..Len(log) /\ last <= last
        BY <1>1, <1>3, SMTT(30)
      <3> QED BY <1>5, <3>1, <3>2, Zenon
    <2>5. KeysIn(stored[n] + 1, pushed[n])' = {}
      BY <1>2, <1>7, <2>1 DEF KeysIn
    <2>6. StoredAt(m)'
      BY <1>7, <1>11, <2>1, <2>4, <2>5, Zenon DEF StoredAt
    <2> QED BY <2>2, <2>3, <2>6, Zenon DEF At
  <1> QED BY <1>10, <1>11, Zenon

\* A restart goes back to the queue of the stored snapshot.
LEMMA RestartQueues ==
  ASSUME IInv, NEW f, \A m \in Nodes : At(f, m), NEW n \in Nodes, Restart(n)
  PROVE  \A m \in Nodes : At(f, m)'
  <1>1. /\ UNCHANGED <<log, stored, purged, payloads, payload_gc, snapshot>>
        /\ applied' = [applied EXCEPT ![n] = snapshot[n].last]
        /\ pending' = [pending EXCEPT ![n] = snapshot[n].pending]
        /\ pushed' = [m \in Nodes |-> IF m = n \/ n = Leader THEN 0 ELSE pushed[m]]
        /\ installing' = [installing EXCEPT ![n] = None]
    BY Zenon DEF Restart, durable
  <1>2. /\ snapshot[n].last \in Nat /\ applied \in [Nodes -> Nat] /\ pending \in [Nodes -> Seq(Keys)]
        /\ installing \in [Nodes -> Snapshots \cup {None}]
        /\ pushed \in [Nodes -> Nat] /\ stored \in [Nodes -> Nat]
    BY Zenon DEF IInv, Types, Snapshots
  <1> SUFFICES ASSUME NEW m \in Nodes PROVE At(f, m)'
    BY Zenon
  <1>3. FollowsAt(f, m) /\ OrderedAt(m) /\ StoredAt(m)
    BY Zenon DEF At
  <1>4. (applied'[m] = applied[m] /\ pending'[m] = pending[m])
          \/ (applied'[m] = snapshot[m].last /\ pending'[m] = snapshot[m].pending)
    BY <1>1, <1>2, Zenon
  <1>5. installing'[m] = installing[m] \/ installing'[m] = None
    BY <1>1, <1>2, Zenon
  <1>6. pushed'[m] = pushed[m] \/ pushed'[m] = 0
    BY <1>1, Zenon
  <1>7. FollowsAt(f, m)'
    BY <1>1, <1>3, <1>4, <1>5, ZenonT(30) DEF FollowsAt
  <1>8. OrderedAt(m)'
    <2>1. snapshot[m].last \in Nat /\ applied[m] \in Nat /\ stored[m] \in Nat
      BY Zenon DEF IInv, Types, Snapshots
    <2>2. /\ purged[m] <= snapshot[m].last /\ snapshot[m].last <= applied[m] /\ applied[m] <= stored[m]
          /\ snapshot[m].last <= snapshot[m].last /\ snapshot[m].last <= stored[m]
      <3>1. purged[m] <= snapshot[m].last /\ snapshot[m].last <= applied[m] /\ applied[m] <= stored[m]
        BY <1>3, Zenon DEF OrderedAt
      <3> QED BY <2>1, <3>1
    <2>3. (pushed[m] # 0 => stored[m] <= pushed[m])'
      BY <1>1, <1>3, <1>6, Zenon DEF OrderedAt
    <2>4. pushed[m] = 0 => pushed'[m] = 0
      BY <1>6, Zenon
    <2> QED BY <1>1, <1>3, <1>4, <1>5, <2>2, <2>3, <2>4, Zenon DEF OrderedAt
  <1>9. StoredAt(m)'
    <2>1. KeysIn(stored[m] + 1, 0) = {}
      <3>1. stored[m] \in Nat
        BY <1>2, Zenon
      <3>2. (stored[m] + 1)..0 = {}
        BY <3>1
      <3> QED BY <3>2, Zenon DEF KeysIn
    <2>2. KeysIn(stored[m] + 1, pushed[m])' \subseteq KeysIn(stored[m] + 1, pushed[m])
      <3>1. CASE pushed'[m] = pushed[m]
        BY <1>1, <3>1, Zenon DEF KeysIn
      <3>2. CASE pushed'[m] = 0
        BY <1>1, <1>2, <3>2 DEF KeysIn
      <3> QED BY <1>6, <3>1, <3>2, Zenon
    <2> QED BY <1>1, <1>3, <1>4, <2>2, ZenonT(30) DEF StoredAt
  <1> QED BY <1>7, <1>8, <1>9, Zenon DEF At

\* Every step keeps the queues.
LEMMA NextQueues ==
  ASSUME IInv, QInv, [Next]_vars
  PROVE  QInv'
  <1>1. CASE \E entry \in Entries : ProposeEntry(entry)
    BY <1>1, ProposeQueues, Zenon
  <1> PICK f : History(f) /\ \A n \in Nodes : At(f, n)
    BY Zenon DEF QInv
  <1>2. CASE UNCHANGED vars
    <2>1. \A n \in Nodes : At(f, n)'
      BY <1>2, AddingQueues, Zenon DEF IInv, vars, durable, memory
    <2>2. UNCHANGED log
      BY <1>2, Zenon DEF vars, durable
    <2> QED BY <2>1, <2>2, HistoryKept, Zenon DEF QInv
  <1>3. ASSUME NEW n \in Nodes,
               \/ \E key \in Keys : StorePayload(n, key) \/ ForwardPayload(n, key)
               \/ PushPayloads(n) \/ AppendLost(n) \/ AppendEntries(n)
               \/ ApplyEntry(n) \/ BeginSnapshot(n) \/ BuildSnapshot(n) \/ Purge(n)
               \/ BeginInstall(n) \/ SyncPayloads(n) \/ SyncFails(n) \/ InstallSnapshot(n)
               \/ PerformIntegrityCheck(n) \/ Restart(n)
        PROVE  QInv'
    <2>1. \A m \in Nodes : At(f, m)'
      BY <1>3, PayloadQueues, ReplicateQueues, ApplyQueues, SnapshotQueues, PurgeQueues, SendQueues,
         InstallQueues, RestartQueues, Zenon
    <2>2. UNCHANGED log
      BY <1>3, Zenon DEF StorePayload, ForwardPayload, PushPayloads, AppendLost, AppendEntries, ApplyEntry,
         BeginSnapshot, BuildSnapshot, Purge, BeginInstall, SyncPayloads, SyncFails, InstallSnapshot,
         PerformIntegrityCheck, Restart, durable
    <2> QED BY <2>1, <2>2, HistoryKept, Zenon DEF QInv
  <1> QED BY <1>1, <1>2, <1>3, Zenon DEF Next

\* A queue that is held, or sent in a snapshot, has its payloads where it is held.
LEMMA QueuesImplyStored ==
  ASSUME QInv
  PROVE  PendingPayloadsStored /\ ReplicasAgree
  <1> PICK f : History(f) /\ \A n \in Nodes : At(f, n)
    BY Zenon DEF QInv
  <1>1. PendingPayloadsStored
    BY Zenon DEF PendingPayloadsStored, At, StoredAt
  <1>2. ReplicasAgree
    BY DEF ReplicasAgree, At, FollowsAt
  <1> QED BY <1>1, <1>2, Zenon

\* The barrier in LogStore::append never fails, and an installation that does
\* has a snapshot older than the leader's.
LEMMA HaltsOnlyIfOutdated ==
  ASSUME IInv, QInv, [Next]_vars, NEW n \in Nodes, n \in halted' \ halted
  PROVE  installing[n] # None /\ snapshot[Leader].last > installing[n].last
  <1> PICK f : History(f) /\ \A m \in Nodes : At(f, m)
    BY Zenon DEF QInv
  <1>1. ASSUME NEW m \in Nodes, AppendEntries(m)
        PROVE  halted' = halted
    <2>1. KeysIn(stored[m] + 1, pushed[m]) \subseteq payloads[m]
      BY Zenon DEF At, StoredAt
    <2> QED BY <1>1, <2>1, Zenon DEF AppendEntries
  <1>2. \E m \in Nodes : SyncFails(m)
    <2>1. CASE UNCHANGED vars
      BY <2>1, Zenon DEF vars, memory
    <2>2. CASE \E m \in Nodes, key \in Keys : StorePayload(m, key) \/ ForwardPayload(m, key)
      BY <2>2, Zenon DEF StorePayload, ForwardPayload, memory
    <2>3. CASE \E entry \in Entries : ProposeEntry(entry)
      BY <2>3, Zenon DEF ProposeEntry, memory
    <2>4. CASE \E m \in Nodes : PushPayloads(m) \/ AppendLost(m) \/ ApplyEntry(m) \/ BeginSnapshot(m)
      BY <2>4, Zenon DEF PushPayloads, AppendLost, ApplyEntry, BeginSnapshot
    <2>5. CASE \E m \in Nodes : BuildSnapshot(m) \/ Purge(m) \/ BeginInstall(m) \/ SyncPayloads(m)
      BY <2>5, Zenon DEF BuildSnapshot, Purge, BeginInstall, SyncPayloads, memory
    <2>6. CASE \E m \in Nodes : InstallSnapshot(m) \/ PerformIntegrityCheck(m) \/ Restart(m)
      BY <2>6, Zenon DEF InstallSnapshot, PerformIntegrityCheck, Restart
    <2> QED BY <1>1, <2>1, <2>2, <2>3, <2>4, <2>5, <2>6, Zenon DEF Next
  <1>3. SyncFails(n)
    BY <1>2, Zenon DEF SyncFails
  <1>4. /\ installing[n] # None /\ n # Leader /\ Leader \in Nodes
        /\ ~(MissingFor(n) \subseteq payloads[Leader])
    BY <1>3, ReplicationAssumption, Zenon DEF SyncFails, IInv, LeaderComplete
  <1>5. /\ installing[n].last <= snapshot[Leader].last
        /\ installing[n].last \in Nat /\ snapshot[Leader].last \in Nat
    BY <1>4, Zenon DEF At, OrderedAt, IInv, Types, Snapshots
  <1>6. installing[n].last # snapshot[Leader].last
    <2> SUFFICES ASSUME installing[n].last = snapshot[Leader].last PROVE FALSE
      BY Zenon
    <2>1. installing[n].pending = snapshot[Leader].pending
      BY <1>4 DEF At, FollowsAt
    <2> QED BY <1>4, <2>1, Zenon DEF MissingFor, At, StoredAt
  <1> QED BY <1>4, <1>5, <1>6

\* What the invariant does not need: the flags and the counters.
Flags == /\ is_ready \in [Nodes -> BOOLEAN] /\ halted \subseteq Nodes
         /\ snapshots \in Nat /\ restarts \in Nat

\* The flags and the counters have their types.
LEMMA FlagsStep ==
  ASSUME Flags, [Next]_vars
  PROVE  Flags'
  <1>1. CASE UNCHANGED vars
    BY <1>1, Zenon DEF Flags, vars, memory
  <1>2. CASE \E n \in Nodes, key \in Keys : StorePayload(n, key) \/ ForwardPayload(n, key)
    BY <1>2, Zenon DEF Flags, StorePayload, ForwardPayload, memory
  <1>3. CASE \E entry \in Entries : ProposeEntry(entry)
    BY <1>3, Zenon DEF Flags, ProposeEntry, memory
  <1>4. ASSUME NEW n \in Nodes, PushPayloads(n) \/ AppendLost(n) \/ AppendEntries(n) \/ ApplyEntry(n)
        PROVE  Flags'
    BY <1>4, Zenon DEF Flags, PushPayloads, AppendLost, AppendEntries, ApplyEntry
  <1>5. ASSUME NEW n \in Nodes, BeginSnapshot(n) \/ BuildSnapshot(n) \/ Purge(n) \/ SyncPayloads(n)
        PROVE  Flags'
    <2>1. CASE BeginSnapshot(n)
      BY <2>1 DEF Flags, BeginSnapshot
    <2>2. CASE BuildSnapshot(n)
      BY <2>2, Zenon DEF Flags, BuildSnapshot
    <2>3. CASE Purge(n) \/ SyncPayloads(n)
      <3>1. UNCHANGED <<is_ready, halted, snapshots, restarts>>
        BY <2>3, Zenon DEF Purge, SyncPayloads, memory
      <3> QED BY <3>1, Zenon DEF Flags
    <2> QED BY <1>5, <2>1, <2>2, <2>3, Zenon
  <1>6. ASSUME NEW n \in Nodes, BeginInstall(n) \/ SyncFails(n) \/ InstallSnapshot(n) \/ Restart(n)
        PROVE  Flags'
    <2>1. CASE BeginInstall(n)
      BY <2>1, Zenon DEF Flags, BeginInstall
    <2>2. CASE SyncFails(n)
      BY <2>2, Zenon DEF Flags, SyncFails
    <2>3. CASE InstallSnapshot(n)
      BY <2>3, Zenon DEF Flags, InstallSnapshot
    <2>4. CASE Restart(n)
      BY <2>4 DEF Flags, Restart
    <2> QED BY <1>6, <2>1, <2>2, <2>3, <2>4, Zenon
  <1>7. ASSUME NEW n \in Nodes, PerformIntegrityCheck(n)
        PROVE  Flags'
    <2>1. is_ready' \in [Nodes -> BOOLEAN]
      BY <1>7, Zenon DEF Flags, PerformIntegrityCheck
    <2> QED BY <1>7, <2>1, Zenon DEF Flags, PerformIntegrityCheck
  <1> QED BY <1>1, <1>2, <1>3, <1>4, <1>5, <1>6, <1>7, Zenon DEF Next

\* The invariants give the types.
LEMMA TypesFollow ==
  ASSUME IInv, QInv, Flags
  PROVE  TypeOK
  <1> PICK f : History(f) /\ \A n \in Nodes : At(f, n)
    BY Zenon DEF QInv
  <1>1. ASSUME NEW n \in Nodes
        PROVE  /\ stored[n] \in 0..Len(log) /\ purged[n] \in 0..Len(log)
               /\ applied[n] \in 0..Len(log) /\ pushed[n] \in 0..Len(log)
    <2>1. purged[n] <= snapshot[n].last /\ snapshot[n].last <= Len(log) /\ applied[n] <= Len(log)
      BY Zenon DEF At, OrderedAt, IInv, Bounded
    <2>2. /\ Len(log) \in Nat /\ stored[n] \in Nat /\ purged[n] \in Nat /\ applied[n] \in Nat
          /\ pushed[n] \in Nat /\ stored[n] <= Len(log) /\ pushed[n] <= Len(log) /\ snapshot[n].last \in Nat
      BY DEF IInv, Types, Snapshots
    <2> QED BY <2>1, <2>2
  <1>2. /\ stored \in [Nodes -> 0..Len(log)] /\ purged \in [Nodes -> 0..Len(log)]
        /\ applied \in [Nodes -> 0..Len(log)] /\ pushed \in [Nodes -> 0..Len(log)]
    BY <1>1, Zenon DEF IInv, Types
  <1> QED BY <1>2, Zenon DEF TypeOK, IInv, Types, Flags

\* As long as no replica applies an entry between get_snapshot_builder and
\* build_snapshot, every payload that a pending queue refers to is in the store
\* of the node that has the queue, through every purge, restart and
\* installation.
THEOREM PendingPayloadsKept ==
  ASSUME MaxOverlap = 0
  PROVE  Spec => []PendingPayloadsStored
  <1>1. Init => IInv /\ QInv
    BY InitInv, InitQueues, Zenon
  <1>2. IInv /\ QInv /\ [Next]_vars => IInv' /\ QInv'
    BY NextInv, NextQueues, Zenon
  <1>3. QInv => PendingPayloadsStored
    BY QueuesImplyStored, Zenon
  <1> QED BY <1>1, <1>2, <1>3, PTL DEF Spec

\* Under the same condition replicas that have applied the same entries have the
\* same pending queue, whether StateMachineStore::apply, install_snapshot or a
\* restart from the stored snapshot brought them there.
THEOREM ReplicasConverge ==
  ASSUME MaxOverlap = 0
  PROVE  Spec => []ReplicasAgree
  <1>1. Init => IInv /\ QInv
    BY InitInv, InitQueues, Zenon
  <1>2. IInv /\ QInv /\ [Next]_vars => IInv' /\ QInv'
    BY NextInv, NextQueues, Zenon
  <1>3. QInv => ReplicasAgree
    BY QueuesImplyStored, Zenon
  <1> QED BY <1>1, <1>2, <1>3, PTL DEF Spec

\* Under the same condition the payload barrier of LogStore::append never stops
\* a replica, and install_snapshot does only when the leader has stored a newer
\* snapshot than the one being installed.
THEOREM InstallFailuresPass ==
  ASSUME MaxOverlap = 0
  PROVE  Spec => InstallFailsOnlyIfOutdated
  <1>1. Init => IInv /\ QInv
    BY InitInv, InitQueues, Zenon
  <1>2. IInv /\ QInv /\ [Next]_vars => IInv' /\ QInv'
    BY NextInv, NextQueues, Zenon
  <1>3. IInv /\ QInv /\ [Next]_vars =>
          [\A n \in Nodes :
             n \in halted' \ halted =>
               /\ installing[n] # None
               /\ snapshot[Leader].last > installing[n].last]_vars
    BY HaltsOnlyIfOutdated, Zenon
  <1> QED BY <1>1, <1>2, <1>3, PTL DEF Spec, InstallFailsOnlyIfOutdated

\* Under the same condition every variable keeps its type; no index runs past
\* the log.
THEOREM ReplicationTypeCorrect ==
  ASSUME MaxOverlap = 0
  PROVE  Spec => []TypeOK
  <1>1. Init => IInv /\ QInv /\ Flags
    BY InitInv, InitQueues DEF Init, Flags
  <1>2. IInv /\ QInv /\ Flags /\ [Next]_vars => IInv' /\ QInv' /\ Flags'
    BY NextInv, NextQueues, FlagsStep, Zenon
  <1>3. IInv /\ QInv /\ Flags => TypeOK
    BY TypesFollow, Zenon
  <1> QED BY <1>1, <1>2, <1>3, PTL DEF Spec
===============================================================================
