------------------------------ MODULE TopicStore ------------------------------
(***************************************************************************)
(* A replica of the topic Raft group: its RocksDB log store and its state  *)
(* machine, the topic storage (raft/topic/store.rs).  The log that the     *)
(* group decides on, and when OpenRaft calls the store, are external.      *)
(*                                                                         *)
(* All writes of the replica go to one write-ahead log.  A write is in the   *)
(* hands of the operating system at once and on the disk only after the    *)
(* next flush, so a killed process loses nothing, and a loss of power      *)
(* loses the writes of a suffix: unsynced holds the contents of the        *)
(* database at the last flush and after each write since.                  *)
(*                                                                         *)
(* The snapshot builder is a clone of the store whose last applied log id  *)
(* is its own while the topic storage is shared; the snapshot's data can   *)
(* be ahead of its log id.  reach is how far (no part of the program).     *)
(***************************************************************************)
EXTENDS TopicStorage, Integers, FiniteSets, FiniteSetsExt, TLC

CONSTANTS
  Scopes,    \* what a behaviour is about; it picks one at the start
  Topics,    \* topics that lookups are checked with
  Filters    \* filters that lookups of retained packets are checked with

VARIABLES
  scope,     \* the part of the system this behaviour exercises, and its limits
  log,       \* the entries the group has decided
  rep        \* the replica: its memory, its database and what runs in it

storeVars == <<scope, log, rep>>

(* A scope: script, for each entry the commands it may be; decided, how    *)
(* many are decided at the start; base, the storage in the first snapshot; *)
(* snapshots, whether there are any; crashes and dropped, how many crashes *)
(* and entries of replaced leaders there are.                              *)

-----------------------------------------------------------------------------
(* The state machine *)

\* What applying a command does to the storage.
Effect(s, c) ==
  CASE c.op = "subscribe" ->
         subscribe_with_options(IF c.tenant \in s.tenants THEN s ELSE create_tenant(s, c.tenant), c)
    [] c.op = "unsubscribe" -> unsubscribe(s, c)
    [] c.op = "retain" -> register_retain_publish_packet(s, c)
    [] c.op = "clean_retain" -> clean_retain_publish_packet(s, c)
    [] c.op = "create_tenant" -> create_tenant(s, c.tenant)
    [] c.op = "blank" -> s

\* The only error that apply hands to OpenRaft.
Fatal(s, c) == c.op = "retain" /\ RetainRefused(s, c)

\* The state machine after the entries from + 1 to upto, in order: it stops at
\* one that fails, with the id of that entry already noted.
RECURSIVE ApplyEntries(_, _, _)
ApplyEntries(m, entries, upto) ==
  IF m.halted \/ m.applied >= upto THEN m
  ELSE LET c == entries[m.applied + 1] IN
       ApplyEntries([m EXCEPT !.applied = @ + 1, !.halted = Fatal(m.data, c),
                              !.data = Effect(@, c)], entries, upto)

\* What a storage must be after the first n entries.
Replay(n) == ApplyEntries([applied |-> 0, data |-> from_serializable(scope.base), halted |-> FALSE],
                          log, n)

-----------------------------------------------------------------------------
(* The database of a replica: logs, an index to "decided" or to "dropped"  *)
(* (an entry of a leader that was replaced before it was decided), the     *)
(* last purged and the committed index, the snapshot.                      *)

Entries(db) == DOMAIN db.logs

\* get_log_state: the last entry of the column family, else the last purged.
LastLog(db) == IF Entries(db) = {} THEN db.last_purged ELSE Max(Entries(db))

\* A write without a flush, and one with it.
Written(x, db) == [x EXCEPT !.db = db, !.unsynced = Append(@, db)]
Flushed(x, db) == [x EXCEPT !.db = db, !.unsynced = <<db>>]

Memory(x) == [applied |-> x.applied, data |-> x.data, halted |-> x.halted]
WithMemory(x, m) == [x EXCEPT !.applied = m.applied, !.data = m.data, !.halted = m.halted]

\* The committed entries that the snapshot does not hold are in the log, and
\* the others may be purged.
Complete(db) ==
  /\ db.last_purged <= db.snap.index
  /\ \A k \in (db.snap.index + 1)..db.committed : k \in Entries(db) /\ db.logs[k] = "decided"

\* new_storage and StateMachineStore::new on what is on the disk; OpenRaft then
\* applies the committed entries that the snapshot does not hold.
Opened(db) ==
  ApplyEntries([applied |-> db.snap.index, data |-> from_serializable(db.snap.data), halted |-> FALSE],
               log, db.committed)

Init ==
  /\ scope \in Scopes
  /\ log \in {l \in [1..scope.decided -> UNION Range(scope.script)] :
               \A i \in DOMAIN l : l[i] \in scope.script[i]}
  /\ LET db == [logs |-> <<>>, last_purged |-> 0, committed |-> 0,
                snap |-> [index |-> 0, data |-> scope.base, reach |-> 0]]
     IN  rep = [up |-> TRUE, halted |-> FALSE, applied |-> 0, data |-> from_serializable(scope.base),
                db |-> db, unsynced |-> <<db>>, builder |-> <<>>, reach |-> 0,
                overtaken |-> FALSE, purging |-> FALSE, crashes |-> 0, dropped |-> 0]

Running == rep.up /\ ~rep.halted

-----------------------------------------------------------------------------
(* The log store *)

\* The group decides on one more entry.
Decide ==
  /\ Len(log) < Len(scope.script)
  /\ \E c \in scope.script[Len(log) + 1] : log' = Append(log, c)
  /\ UNCHANGED <<scope, rep>>

\* append: no flush before the callback.  The last entry of the script may also
\* come from a leader that is replaced before the group decides on it.
append ==
  /\ Running
  /\ LET db == rep.db  k == LastLog(db) + 1 IN
     /\ k > db.snap.index /\ \A i \in Entries(db) : db.logs[i] = "decided"
     /\ \E kind \in {"decided", "dropped"} :
          /\ IF kind = "decided" THEN k <= Len(log) ELSE rep.dropped < scope.dropped /\ k = Len(scope.script)
          /\ rep' = [Written(rep, [db EXCEPT !.logs = @ @@ (k :> kind)]) EXCEPT
                       !.dropped = IF kind = "dropped" THEN @ + 1 ELSE @]
  /\ UNCHANGED <<scope, log>>

\* truncate: the entries from one that was dropped on.
truncate ==
  /\ Running
  /\ LET db == rep.db  bad == {i \in Entries(db) : db.logs[i] = "dropped"} IN
     /\ bad # {}
     /\ rep' = Written(rep, [db EXCEPT !.logs =
                               [i \in {j \in Entries(db) : j < Min(bad)} |-> db.logs[i]]])
  /\ UNCHANGED <<scope, log>>

\* Mutant: the committed index is stored when the group has decided, whether or
\* not the entries below it are here.
save_committed_ahead ==
  /\ Running
  /\ \E k \in (rep.db.committed + 1)..Len(log) : rep' = Flushed(rep, [rep.db EXCEPT !.committed = k])
  /\ UNCHANGED <<scope, log>>

\* save_committed, before the entries are applied.  Its flush brings the
\* entries appended before to the disk too.
save_committed ==
  /\ Running
  /\ \E k \in {i \in Entries(rep.db) : rep.db.logs[i] = "decided"} :
       /\ k > rep.db.committed /\ k > rep.applied
       /\ rep' = Flushed(rep, [rep.db EXCEPT !.committed = k])
  /\ UNCHANGED <<scope, log>>

\* apply: one entry of those committed.
apply ==
  /\ Running /\ rep.applied < rep.db.committed
  /\ rep' = WithMemory(rep, ApplyEntries(Memory(rep), log, rep.applied + 1))
  /\ UNCHANGED <<scope, log>>

-----------------------------------------------------------------------------
(* Snapshots *)

\* get_snapshot_builder: the clone, which runs in a task of its own.
get_snapshot_builder ==
  /\ Running /\ scope.snapshots
  /\ rep.builder = <<>> /\ rep.applied > rep.db.snap.index
  /\ rep' = [rep EXCEPT !.builder = <<[index |-> rep.applied, data |-> rep.data]>>]
  /\ UNCHANGED <<scope, log>>

\* Mutant: the data is that of the clone and the log id is read at the end.
build_snapshot_lateid ==
  /\ Running /\ rep.builder # <<>>
  /\ LET snap == [index |-> rep.applied, data |-> to_serializable(rep.builder[1].data),
                  reach |-> rep.applied]
     IN  rep' = [Flushed(rep, [rep.db EXCEPT !.snap = snap]) EXCEPT !.builder = <<>>]
  /\ UNCHANGED <<scope, log>>

\* build_snapshot: the data as it is now, with the log id of the clone, stored
\* over whatever snapshot is there.  overtaken: that was a later one, installed
\* while this one was being built.
build_snapshot ==
  /\ Running /\ rep.builder # <<>>
  /\ LET snap == [index |-> rep.builder[1].index, data |-> to_serializable(rep.data),
                  reach |-> Max({rep.applied, rep.reach})]
     IN  rep' = [Flushed(rep, [rep.db EXCEPT !.snap = snap]) EXCEPT
                   !.builder = <<>>,
                   !.overtaken = snap.index < Max({rep.db.snap.index, rep.db.last_purged})]
  /\ UNCHANGED <<scope, log>>

\* OpenRaft purges up to its snapshot.
PurgeUpTo == rep.db.snap.index

\* purge: first the mark, flushed; then the entries, in a write of their own.
set_last_purged ==
  /\ Running /\ ~rep.purging /\ PurgeUpTo > rep.db.last_purged
  /\ rep' = [Flushed(rep, [rep.db EXCEPT !.last_purged = PurgeUpTo]) EXCEPT !.purging = TRUE]
  /\ UNCHANGED <<scope, log>>

purge ==
  /\ Running /\ rep.purging
  /\ LET db == rep.db IN
     rep' = [Written(rep, [db EXCEPT !.logs =
                             [i \in {j \in Entries(db) : j > db.last_purged} |-> db.logs[i]]])
             EXCEPT !.purging = FALSE]
  /\ UNCHANGED <<scope, log>>

\* install_snapshot: a snapshot of the leader replaces the state machine, and is
\* then stored.  It was built as here, so its data can be ahead of its index.
\* OpenRaft has removed the entries that conflict with it, and purges the log
\* up to it before it appends any more.
install_snapshot ==
  /\ Running /\ scope.snapshots
  /\ \A i \in Entries(rep.db) : rep.db.logs[i] = "decided"
  /\ \E reach \in 1..Len(log) : \E index \in (rep.applied + 1)..reach :
       LET snap == [index |-> index, data |-> Replay(reach).data, reach |-> reach] IN
       /\ ~Replay(reach).halted
       /\ rep' = [Flushed(rep, [rep.db EXCEPT !.snap = snap]) EXCEPT
                    !.applied = index, !.data = from_serializable(snap.data), !.reach = reach]
  /\ UNCHANGED <<scope, log>>

-----------------------------------------------------------------------------
(* Crashes *)

\* The process ends; or the power goes, and with it some of the writes that
\* were not flushed.
Crash ==
  /\ rep.up /\ rep.crashes < scope.crashes
  /\ \E i \in DOMAIN rep.unsynced :
       rep' = [rep EXCEPT !.up = FALSE, !.db = rep.unsynced[i], !.unsynced = <<rep.unsynced[i]>>,
                          !.builder = <<>>, !.purging = FALSE, !.crashes = @ + 1]
  /\ UNCHANGED <<scope, log>>

\* A purge that was cut short is done again by OpenRaft, which does not start
\* when committed entries are missing.
Restart ==
  /\ ~rep.up /\ Complete(rep.db)
  /\ rep' = [WithMemory(rep, Opened(rep.db)) EXCEPT
               !.up = TRUE, !.reach = rep.db.snap.reach,
               !.purging = \E i \in Entries(rep.db) : i <= rep.db.last_purged]
  /\ UNCHANGED <<scope, log>>

StoreStep ==
  \/ Decide \/ append \/ truncate \/ save_committed \/ apply
  \/ get_snapshot_builder \/ build_snapshot \/ set_last_purged \/ purge \/ install_snapshot
  \/ Crash \/ Restart

-----------------------------------------------------------------------------
(* Properties *)

\* Once the replica has applied as much as the data of the snapshot it started
\* from already held, it has exactly the subscriptions and retained packets that
\* the log says, whatever was crashed, purged, snapshotted and installed in
\* between (topic/store.rs apply, build_snapshot, install_snapshot).
ReplicaMatchesLog ==
  rep.up /\ rep.applied >= rep.reach => Memory(rep) = Replay(rep.applied)

\* What the replica needs to come back is on its disk: every committed entry that
\* its snapshot does not hold is in the log, and nothing is purged that the
\* snapshot does not hold.  The entries are appended without a flush and the
\* committed index with one (topic/store.rs append, set_committed_, purge).  The
\* exception is a snapshot that was stored over a later one.
RecoverableFromDisk ==
  rep.overtaken \/ \A i \in DOMAIN rep.unsynced : Complete(rep.unsynced[i])

\* Walking the tree finds what the filters match: the subscriptions of a topic,
\* where "a/#" does not match "a", and the retained packets of a filter, where it
\* does (topic_storage.rs recursion_get_subscriptions, recursion_get_retain_packet).
LookupsMatch ==
  LET s == rep.data IN
    /\ \A topic \in Topics : get_subscriptions(s, "public", topic)
          = {x \in s.subs : x.tenant = "public" /\ Matches(x.path, topic, FALSE)}
    /\ \A filter \in Filters : get_retain_publish_packet(s, "public", filter, {})
          = {x \in s.retained : x.tenant = "public" /\ Matches(filter, x.path, TRUE)}
=============================================================================
