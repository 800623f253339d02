----------------------- MODULE SessionStateStorageProofs -----------------------
(***************************************************************************)
(* Proofs about SessionStateStorage, for any sets of clients, keys, packet *)
(* identifiers, topics, times and intervals.                               *)
(***************************************************************************)
EXTENDS SessionStateStorage, SequenceTheorems, FiniteSetTheorems, TLAPS

-------------------------------------------------------------------------------
(* Counting: what adding or dropping references does to a finite count. *)

\* Taking a subset out of a finite set of references lowers the count by the
\* size of the subset, as the loop of dec_ref calls in delete_session_state
\* and inflight_clean_finished_items does.
LEMMA DropSubset ==
  ASSUME NEW S, IsFiniteSet(S), NEW T \in SUBSET S
  PROVE  /\ IsFiniteSet(T)
         /\ IsFiniteSet(S \ T)
         /\ Cardinality(T) \in Nat
         /\ Cardinality(S) \in Nat
         /\ Cardinality(S \ T) \in Nat
         /\ Cardinality(S) = Cardinality(S \ T) + Cardinality(T)
<1>1. IsFiniteSet(T) /\ IsFiniteSet(S \ T)
  BY FS_Subset, Zenon
<1>2. Cardinality(T) \in Nat /\ Cardinality(S \ T) \in Nat /\ Cardinality(S) \in Nat
  BY <1>1, FS_CardinalityType, Zenon
<1>3. (S \ T) \cup T = S /\ (S \ T) \cap T = {}
  BY Zenon
<1>4. Cardinality((S \ T) \cup T)
        = Cardinality(S \ T) + Cardinality(T) - Cardinality((S \ T) \cap T)
  BY <1>1, FS_Union, Zenon
<1>5. Cardinality({}) = 0
  BY FS_EmptySet, Zenon
<1>6. Cardinality(S) = Cardinality(S \ T) + Cardinality(T) - 0
  BY <1>3, <1>4, <1>5, Zenon
<1>7. Cardinality(S) = Cardinality(S \ T) + Cardinality(T)
  BY <1>2, <1>6
<1> QED
  BY <1>1, <1>2, <1>7, Zenon

-------------------------------------------------------------------------------
(* Type correctness *)

\* The items the two register functions write are items of the table.
LEMMA ItemTypes ==
  ASSUME NEW key \in Keys, NEW qos, NEW deferred \in BOOLEAN
  PROVE  /\ RxItem(qos, key) \in Items(Keys)
         /\ TxItem(qos, key, deferred) \in Items(Keys)
         /\ NoItem \in Items(Keys)
BY Zenon DEF RxItem, TxItem, NoItem, Items, InflightState, WaitingStates

\* An identifier that is not in the map holds no key.
LEMMA AbsentItem ==
  ASSUME NEW item \in Items(Keys), item.state = "Absent"
  PROVE  item = NoItem /\ item.packet_key = NoKey
BY DEF NoItem, Items, InflightState, WaitingStates

\* Advancing or starting an item keeps it an item.
LEMMA ItemSteps ==
  ASSUME NEW item \in Items(Keys), item.state # "Absent"
  PROVE  /\ [item EXCEPT !.state = to_next(item.state)] \in Items(Keys)
         /\ [item EXCEPT !.delivery_started = TRUE] \in Items(Keys)
         /\ item.packet_key \in Keys
         /\ [item EXCEPT !.state = to_next(item.state)].packet_key = item.packet_key
<1>1. item \in [state : InflightState, packet_key : Keys, delivery_started : BOOLEAN]
  BY DEF NoItem, Items
<1>2. to_next(item.state) \in InflightState
  BY <1>1, Zenon DEF InflightState, WaitingStates, to_next
<1> QED
  BY <1>1, <1>2, Zenon DEF Items

\* Every operation of Inflight returns a table.
LEMMA InflightTypes ==
  ASSUME NEW inner \in [PacketIds -> Items(Keys)], NEW id \in PacketIds,
         NEW key \in Keys, NEW qos, NEW deferred \in BOOLEAN
  PROVE  /\ register_with_rx_packet(inner, id, qos, key) \in [PacketIds -> Items(Keys)]
         /\ register_with_tx_packet(inner, id, qos, key, deferred) \in [PacketIds -> Items(Keys)]
         /\ mark_delivery_started(inner, id, key) \in [PacketIds -> Items(Keys)]
         /\ discard_unsent(inner, id, key) \in [PacketIds -> Items(Keys)]
         /\ packet_id_exists(inner, id) => next_state(inner, id) \in [PacketIds -> Items(Keys)]
         /\ clean_finished_items(inner) \in [PacketIds -> Items(Keys)]
<1>1. register_with_rx_packet(inner, id, qos, key) \in [PacketIds -> Items(Keys)]
  BY ItemTypes, Zenon DEF register_with_rx_packet
<1>2. register_with_tx_packet(inner, id, qos, key, deferred) \in [PacketIds -> Items(Keys)]
  BY ItemTypes, Zenon DEF register_with_tx_packet
<1>3. mark_delivery_started(inner, id, key) \in [PacketIds -> Items(Keys)]
  BY ItemSteps, Zenon DEF mark_delivery_started, CanMarkStarted, packet_id_exists
<1>4. discard_unsent(inner, id, key) \in [PacketIds -> Items(Keys)]
  BY ItemTypes, Zenon DEF discard_unsent
<1>5. packet_id_exists(inner, id) => next_state(inner, id) \in [PacketIds -> Items(Keys)]
  BY ItemSteps, Zenon DEF next_state, packet_id_exists
<1>6. clean_finished_items(inner) \in [PacketIds -> Items(Keys)]
  BY ItemTypes, Zenon DEF clean_finished_items
<1> QED
  BY <1>1, <1>2, <1>3, <1>4, <1>5, <1>6, Zenon

\* Dropping references keeps the counts natural numbers.
LEMMA DropTypes ==
  ASSUME NEW counts \in [Keys -> Nat], NEW dropped \in [Keys -> Nat],
         payload_gc \subseteq Keys, orphaned \in [Keys -> Nat],
         DropReferences(counts, dropped)
  PROVE  /\ ref_counts' \in [Keys -> Nat]
         /\ payload_gc' \subseteq Keys
         /\ orphaned' \in [Keys -> Nat]
BY DEF DropReferences, dec_refs

\* inc_ref and a single dec_ref are functions on the keys.
LEMMA CountTypes ==
  ASSUME NEW key \in Keys, ref_counts \in [Keys -> Nat]
  PROVE  inc_ref(key) \in [Keys -> Nat] /\ One(key) \in [Keys -> Nat]
BY DEF inc_ref, One

-------------------------------------------------------------------------------
(* Where the references to a key are *)

\* The references to every key are finite in number.
ReferencesFinite == \A k \in Keys : IsFiniteSet(References(k))

\* A place of session c holds k.
Holds(r, c, k) ==
  \/ \E i \in DOMAIN pending_messages[c] :
       pending_messages[c][i] = k /\ r = <<c, "pending", i>>
  \/ \E id \in PacketIds :
       inflight[c][id].packet_key = k /\ r = <<c, "inflight", id>>

\* A place is a reference to k exactly when some session holds k there.
LEMMA InReferences ==
  ASSUME NEW k, NEW r
  PROVE  /\ \A c : r \in SessionReferences(c, k) <=> Holds(r, c, k)
         /\ r \in References(k) <=> \E c \in sessions : Holds(r, c, k)
<1>1. \A c : r \in SessionReferences(c, k) <=> Holds(r, c, k)
  <2> SUFFICES ASSUME NEW c
               PROVE  r \in SessionReferences(c, k) <=> Holds(r, c, k)
    BY Zenon
  <2> DEFINE P == {j \in DOMAIN pending_messages[c] : pending_messages[c][j] = k}
             Q == {j \in PacketIds : inflight[c][j].packet_key = k}
  <2>1. r \in SessionReferences(c, k) <=>
          (\E i \in P : r = <<c, "pending", i>>) \/ (\E id \in Q : r = <<c, "inflight", id>>)
    BY Zenon DEF SessionReferences
  <2>2. (\E i \in P : r = <<c, "pending", i>>) <=>
          \E i \in DOMAIN pending_messages[c] :
            pending_messages[c][i] = k /\ r = <<c, "pending", i>>
    BY Zenon
  <2>3. (\E id \in Q : r = <<c, "inflight", id>>) <=>
          \E id \in PacketIds : inflight[c][id].packet_key = k /\ r = <<c, "inflight", id>>
    BY Zenon
  <2> QED
    BY <2>1, <2>2, <2>3, Zenon DEF Holds
<1>2. r \in References(k) <=> \E c \in sessions : r \in SessionReferences(c, k)
  BY Zenon DEF References
<1> QED
  BY <1>1, <1>2, Zenon

\* The same after the step.
LEMMA InReferencesNext ==
  ASSUME NEW k, NEW r
  PROVE  r \in References(k)' <=> \E c \in sessions' : Holds(r, c, k)'
<1> DEFINE Member == r \in References(k) <=> \E c \in sessions : Holds(r, c, k)
<1>1. Member
  BY InReferences, Zenon
<1> HIDE DEF Member
<1>2. Member'
  BY <1>1, PTL
<1> QED
  BY <1>2, Zenon DEF Member

\* Requests that move no key leave every set of references alone.
LEMMA SameReferences ==
  ASSUME UNCHANGED <<sessions, pending_messages>>,
         \A c \in sessions, id \in PacketIds :
           inflight'[c][id].packet_key = inflight[c][id].packet_key,
         NEW k
  PROVE  References(k)' = References(k)
<1> SUFFICES ASSUME NEW r
             PROVE  r \in References(k)' <=> r \in References(k)
  BY Zenon
<1>1. \A c \in sessions : Holds(r, c, k)' <=> Holds(r, c, k)
  BY Zenon DEF Holds
<1> QED
  BY <1>1, InReferences, InReferencesNext, Zenon

-------------------------------------------------------------------------------
(* Bookkeeping: counts stay exact when a reference is added or dropped *)

\* With TypeOK, the inductive invariant: finitely many references, exact counts,
\* and no count left on a key that has been scheduled for deletion.
CountInv ==
  /\ ReferencesFinite
  /\ RefCountsExact
  /\ \A k \in payload_gc : ref_counts[k] = 0

\* A request that neither moves keys nor counts keeps the counts exact.
LEMMA CountsUntouched ==
  ASSUME CountInv, UNCHANGED payloadVars,
         \A k \in Keys : References(k)' = References(k)
  PROVE  CountInv'
BY Zenon DEF CountInv, payloadVars, ReferencesFinite, RefCountsExact

\* inc_ref for one new place keeps the counts exact.
LEMMA AddReference ==
  ASSUME TypeOK, CountInv, NEW key \in Keys, NEW r,
         r \notin References(key),
         References(key)' = References(key) \cup {r},
         \A k \in Keys \ {key} : References(k)' = References(k),
         Registrable(key),
         ref_counts' = inc_ref(key),
         UNCHANGED <<payload_gc, orphaned>>
  PROVE  CountInv'
<1>1. /\ IsFiniteSet(References(key)')
      /\ Cardinality(References(key)') = Cardinality(References(key)) + 1
      /\ Cardinality(References(key)) \in Nat
  BY FS_AddElement, FS_CardinalityType DEF CountInv, ReferencesFinite
<1>2. ReferencesFinite'
  BY <1>1, Zenon DEF CountInv, ReferencesFinite
<1>3. RefCountsExact'
  <2> SUFFICES ASSUME NEW k \in Keys
               PROVE  ref_counts'[k] = Cardinality(References(k)') + orphaned'[k]
    BY Zenon DEF RefCountsExact
  <2>1. ref_counts[k] = Cardinality(References(k)) + orphaned[k] /\ orphaned[k] \in Nat
    BY Zenon DEF CountInv, RefCountsExact, TypeOK
  <2>2. CASE k = key
    <3>1. ref_counts'[k] = ref_counts[k] + 1
      BY <2>2, Zenon DEF inc_ref, TypeOK
    <3> QED
      BY <1>1, <2>1, <2>2, <3>1
  <2>3. CASE k # key
    <3>1. References(k)' = References(k) /\ ref_counts'[k] = ref_counts[k]
      BY <2>3, Zenon DEF inc_ref, TypeOK
    <3> QED
      BY <3>1, <2>1, Zenon
  <2> QED
    BY <2>2, <2>3, Zenon
<1>4. \A k \in payload_gc' : ref_counts'[k] = 0
  BY Zenon DEF CountInv, Registrable, inc_ref, TypeOK
<1> QED
  BY <1>2, <1>3, <1>4, Zenon DEF CountInv

\* counts is exact for the sets of references S; dropping T leaves the counts
\* exact for what remains, and schedules only keys with nothing left.
LEMMA DropCounts ==
  ASSUME TypeOK, NEW S, NEW T, NEW counts \in [Keys -> Nat], NEW dropped \in [Keys -> Nat],
         \A k \in Keys : /\ IsFiniteSet(S[k])
                         /\ T[k] \subseteq S[k]
                         /\ counts[k] = Cardinality(S[k]) + orphaned[k]
                         /\ dropped[k] = Cardinality(T[k])
                         /\ References(k)' = S[k] \ T[k],
         \A k \in payload_gc : counts[k] = 0,
         DropReferences(counts, dropped)
  PROVE  CountInv'
<1>1. \A k \in Keys : /\ IsFiniteSet(References(k)')
                      /\ Cardinality(References(k)') \in Nat
                      /\ counts[k] = Cardinality(References(k)') + dropped[k] + orphaned[k]
                      /\ orphaned[k] \in Nat
  <2> SUFFICES ASSUME NEW k \in Keys
               PROVE  /\ IsFiniteSet(References(k)')
                      /\ Cardinality(References(k)') \in Nat
                      /\ counts[k] = Cardinality(References(k)') + dropped[k] + orphaned[k]
                      /\ orphaned[k] \in Nat
    BY Zenon
  <2>1. /\ IsFiniteSet(S[k] \ T[k])
        /\ Cardinality(T[k]) \in Nat
        /\ Cardinality(S[k] \ T[k]) \in Nat
        /\ Cardinality(S[k]) = Cardinality(S[k] \ T[k]) + Cardinality(T[k])
    BY DropSubset, Zenon
  <2>2. orphaned[k] \in Nat
    BY Zenon DEF TypeOK
  <2>3. /\ References(k)' = S[k] \ T[k]
        /\ counts[k] = Cardinality(S[k]) + orphaned[k]
        /\ dropped[k] = Cardinality(T[k])
    BY Zenon
  <2>4. IsFiniteSet(References(k)') /\ Cardinality(References(k)') \in Nat
    BY <2>1, <2>3, Zenon
  <2>5. Cardinality(References(k)') = Cardinality(S[k] \ T[k])
    BY <2>3, Zenon
  <2> QED
    BY <2>1, <2>2, <2>3, <2>4, <2>5, Zenon
<1>2. ReferencesFinite'
  BY <1>1, Zenon DEF ReferencesFinite
<1>3. RefCountsExact'
  <2> SUFFICES ASSUME NEW k \in Keys
               PROVE  ref_counts'[k] = Cardinality(References(k)') + orphaned'[k]
    BY Zenon DEF RefCountsExact
  <2>1. /\ Cardinality(References(k)') \in Nat
        /\ counts[k] = Cardinality(References(k)') + dropped[k] + orphaned[k]
        /\ orphaned[k] \in Nat
    BY <1>1, Zenon
  <2>2. orphaned' = orphaned /\ ref_counts'[k] = IF dropped[k] >= counts[k] THEN 0
                                                  ELSE counts[k] - dropped[k]
    BY Zenon DEF DropReferences, dec_refs
  <2> QED
    BY <2>1, <2>2
<1>4. \A k \in payload_gc' : ref_counts'[k] = 0
  BY DEF DropReferences, dec_refs, TypeOK
<1> QED
  BY <1>2, <1>3, <1>4, Zenon DEF CountInv

\* Dropping places T[k] that hold k keeps the counts exact.
LEMMA DropPlaces ==
  ASSUME TypeOK, CountInv, NEW T, NEW dropped \in [Keys -> Nat],
         \A k \in Keys : /\ T[k] \subseteq References(k)
                         /\ dropped[k] = Cardinality(T[k])
                         /\ References(k)' = References(k) \ T[k],
         DropReferences(ref_counts, dropped)
  PROVE  CountInv'
<1> DEFINE S == [k \in Keys |-> References(k)]
<1>1. \A k \in Keys : /\ IsFiniteSet(S[k])
                      /\ ref_counts[k] = Cardinality(S[k]) + orphaned[k]
  BY Zenon DEF CountInv, ReferencesFinite, RefCountsExact
<1>2. \A k \in Keys : T[k] \subseteq S[k] /\ References(k)' = S[k] \ T[k]
  BY Zenon
<1>3. ref_counts \in [Keys -> Nat]
  BY Zenon DEF TypeOK
<1>4. \A k \in payload_gc : ref_counts[k] = 0
  BY Zenon DEF CountInv
<1> HIDE DEF S
<1> QED
  BY <1>1, <1>2, <1>3, <1>4, DropCounts

\* Dropping the one place r that holds key keeps the counts exact.
LEMMA DropReference ==
  ASSUME TypeOK, CountInv, NEW key \in Keys, NEW r,
         r \in References(key),
         References(key)' = References(key) \ {r},
         \A k \in Keys \ {key} : References(k)' = References(k),
         DropReferences(ref_counts, One(key))
  PROVE  CountInv'
<1> DEFINE T == [k \in Keys |-> IF k = key THEN {r} ELSE {}]
           dropped == One(key)
<1>1. dropped \in [Keys -> Nat]
  BY CountTypes, Zenon DEF TypeOK
<1>2. \A k \in Keys : /\ T[k] \subseteq References(k)
                      /\ References(k)' = References(k) \ T[k]
  BY Zenon
<1>3. \A k \in Keys : dropped[k] = Cardinality(T[k])
  BY FS_Singleton, FS_EmptySet, Zenon DEF One
<1>4. DropReferences(ref_counts, dropped)
  BY Zenon
<1> HIDE DEF T, dropped
<1> QED
  BY <1>1, <1>2, <1>3, <1>4, DropPlaces, Zenon

-------------------------------------------------------------------------------
(* One lemma per request *)

\* append_to_pending_queue: the new queue slot is the one new reference.
LEMMA AppendStep ==
  ASSUME TypeOK, CountInv, NEW c \in Clients, NEW key \in Keys, AppendToPendingQueue(c, key)
  PROVE  TypeOK' /\ CountInv'
<1> DEFINE q == pending_messages[c]
           r == <<c, "pending", Len(q) + 1>>
<1>1. /\ q \in Seq(Keys)
      /\ Len(q) \in Nat
      /\ DOMAIN q = 1..Len(q)
      /\ pending_messages' = [pending_messages EXCEPT ![c] = Append(q, key)]
      /\ Append(q, key) \in Seq(Keys)
      /\ DOMAIN Append(q, key) = 1..(Len(q) + 1)
      /\ \A i \in 1..Len(q) : Append(q, key)[i] = q[i]
      /\ Append(q, key)[Len(q) + 1] = key
  BY AppendProperties, LenProperties DEF AppendToPendingQueue, TypeOK
<1>2. TypeOK'
  <2>1. pending_messages' \in [Clients -> Seq(Keys)]
    BY <1>1, Zenon DEF TypeOK
  <2>2. ref_counts' \in [Keys -> Nat]
    BY CountTypes, Zenon DEF TypeOK, AppendToPendingQueue
  <2> QED
    BY <2>1, <2>2, Zenon DEF TypeOK, AppendToPendingQueue, connectionVars
<1>3. c \in sessions /\ sessions' = sessions /\ inflight' = inflight
  BY Zenon DEF AppendToPendingQueue
<1>4. \A x \in Clients \ {c} : pending_messages'[x] = pending_messages[x]
  BY <1>1, Zenon DEF TypeOK
<1>5. pending_messages'[c] = Append(q, key)
  BY <1>1, Zenon DEF TypeOK
<1>6. \A p : \A k \in Keys, x \in sessions :
        Holds(p, x, k)' <=> Holds(p, x, k) \/ (x = c /\ k = key /\ p = r)
  <2> SUFFICES ASSUME NEW k \in Keys, NEW x \in sessions, NEW p
               PROVE  Holds(p, x, k)' <=> Holds(p, x, k) \/ (x = c /\ k = key /\ p = r)
    BY Zenon
  <2>1. CASE x # c
    BY <2>1, <1>3, <1>4, Zenon DEF Holds, TypeOK
  <2>2. CASE x = c
    <3>1. (\E i \in DOMAIN pending_messages'[c] :
             pending_messages'[c][i] = k /\ p = <<c, "pending", i>>)
          <=> \/ \E i \in DOMAIN q : q[i] = k /\ p = <<c, "pending", i>>
              \/ k = key /\ p = r
      BY <1>1, <1>5
    <3> QED
      BY <3>1, <2>2, <1>3, Zenon DEF Holds
  <2> QED
    BY <2>1, <2>2, Zenon
<1>7. r \notin References(key)
  <2>1. ASSUME NEW x \in sessions, Holds(r, x, key) PROVE FALSE
    BY <2>1, <1>1 DEF Holds
  <2> QED
    BY <2>1, InReferences, Zenon
<1>8. \A k \in Keys \ {key} : References(k)' = References(k)
  <2> SUFFICES ASSUME NEW k \in Keys, k # key, NEW p
               PROVE  p \in References(k)' <=> p \in References(k)
    BY Zenon
  <2> QED
    BY <1>3, <1>6, InReferences, InReferencesNext, Zenon
<1>9. References(key)' = References(key) \cup {r}
  BY <1>3, <1>6, InReferences, InReferencesNext, Zenon
<1> HIDE DEF r
<1> QED
  BY <1>2, <1>7, <1>8, <1>9, AddReference, Zenon DEF AppendToPendingQueue

\* A request that touches one inflight item moves at most that one reference.
LEMMA OneItemChanges ==
  ASSUME TypeOK, NEW c \in sessions, NEW id \in PacketIds, NEW k,
         UNCHANGED <<sessions, pending_messages>>,
         \A x \in sessions, i \in PacketIds :
           <<x, i>> # <<c, id>> => inflight'[x][i].packet_key = inflight[x][i].packet_key
  PROVE  LET r == <<c, "inflight", id>> IN
         /\ r \in References(k) <=> inflight[c][id].packet_key = k
         /\ References(k)' = IF inflight'[c][id].packet_key = k
                               THEN References(k) \cup {r} ELSE References(k) \ {r}
<1> DEFINE r == <<c, "inflight", id>>
<1>1. \A x \in sessions : Holds(r, x, k) <=> x = c /\ inflight[c][id].packet_key = k
  BY Zenon DEF Holds
<1>2. r \in References(k) <=> inflight[c][id].packet_key = k
  BY <1>1, InReferences, Zenon
<1>3. \A x \in sessions : Holds(r, x, k)' <=> x = c /\ inflight'[c][id].packet_key = k
  BY Zenon DEF Holds
<1>4. r \in References(k)' <=> inflight'[c][id].packet_key = k
  BY <1>3, InReferencesNext, Zenon
<1>5. \A p : \A x \in sessions : p # r => (Holds(p, x, k)' <=> Holds(p, x, k))
  BY Zenon DEF Holds
<1>6. \A p : p # r => (p \in References(k)' <=> p \in References(k))
  <2> SUFFICES ASSUME NEW p, p # r
               PROVE  p \in References(k)' <=> p \in References(k)
    BY Zenon
  <2>1. \A x \in sessions : Holds(p, x, k)' <=> Holds(p, x, k)
    BY <1>5, Zenon
  <2>2. sessions' = sessions
    BY Zenon
  <2> QED
    BY <2>1, <2>2, InReferences, InReferencesNext, Zenon
<1>7. References(k)' = IF inflight'[c][id].packet_key = k
                         THEN References(k) \cup {r} ELSE References(k) \ {r}
  <2> HIDE DEF r
  <2> QED
    BY <1>4, <1>6, Zenon
<1> QED
  BY <1>2, <1>7, Zenon

\* inflight_register_tx_packet: the free identifier becomes a reference.
LEMMA RegisterTxStep ==
  ASSUME TypeOK, CountInv, NEW c \in Clients, NEW id \in PacketIds, NEW qos \in {1, 2},
         NEW key \in Keys, NEW deferred \in BOOLEAN,
         InflightRegisterTxPacket(c, id, qos, key, deferred)
  PROVE  TypeOK' /\ CountInv'
<1> DEFINE r == <<c, "inflight", id>>
<1>1. /\ c \in sessions
      /\ inflight[c][id].packet_key = NoKey
      /\ UNCHANGED <<sessions, pending_messages, payload_gc, orphaned>>
      /\ ref_counts' = inc_ref(key)
      /\ Registrable(key)
  <2>1. inflight[c][id] \in Items(Keys) /\ inflight[c][id].state = "Absent"
    BY Zenon DEF InflightRegisterTxPacket, packet_id_exists, TypeOK
  <2>2. inflight[c][id].packet_key = NoKey
    BY <2>1, AbsentItem, Zenon
  <2> QED
    BY <2>2, Zenon DEF InflightRegisterTxPacket
<1>2. inflight' = [inflight EXCEPT ![c][id] = TxItem(qos, key, deferred)]
  BY Zenon DEF InflightRegisterTxPacket, register_with_tx_packet, TypeOK
<1>3. TypeOK'
  <2>1. inflight' \in [Clients -> [PacketIds -> Items(Keys)]]
    BY <1>2, ItemTypes, Zenon DEF TypeOK
  <2>2. ref_counts' \in [Keys -> Nat]
    BY <1>1, CountTypes, Zenon DEF TypeOK
  <2> QED
    BY <2>1, <2>2, Zenon DEF TypeOK, InflightRegisterTxPacket, connectionVars
<1>4. inflight'[c][id].packet_key = key
  BY <1>2, Zenon DEF TypeOK, TxItem
<1>5. \A x \in sessions, i \in PacketIds :
        <<x, i>> # <<c, id>> => inflight'[x][i].packet_key = inflight[x][i].packet_key
  BY <1>2, Zenon DEF TypeOK
<1>6. \A k : /\ r \in References(k) <=> inflight[c][id].packet_key = k
             /\ References(k)' = IF inflight'[c][id].packet_key = k
                                   THEN References(k) \cup {r} ELSE References(k) \ {r}
  BY <1>1, <1>5, OneItemChanges, Zenon
<1> HIDE DEF r
<1>7. \A k \in Keys : k # NoKey
  BY StorageAssumption, Zenon
<1>8. r \notin References(key) /\ References(key)' = References(key) \cup {r}
  BY <1>1, <1>4, <1>6, <1>7, Zenon
<1>9. \A k \in Keys \ {key} : References(k)' = References(k)
  BY <1>1, <1>4, <1>6, <1>7, Zenon
<1> QED
  BY <1>1, <1>3, <1>8, <1>9, AddReference, Zenon

\* Requests that keep every key where it is.
LEMMA NextStateStep ==
  ASSUME TypeOK, CountInv, NEW c \in Clients, NEW id \in PacketIds, InflightNextState(c, id)
  PROVE  TypeOK' /\ CountInv'
<1>1. /\ c \in sessions
      /\ inflight[c][id].state # "Absent"
      /\ inflight[c][id] \in Items(Keys)
      /\ UNCHANGED <<sessions, pending_messages, payloadVars>>
  BY Zenon DEF InflightNextState, packet_id_exists, TypeOK
<1> DEFINE advanced == [inflight[c][id] EXCEPT !.state = to_next(inflight[c][id].state)]
<1>2. inflight' = [inflight EXCEPT ![c][id] = advanced]
  BY Zenon DEF InflightNextState, next_state, TypeOK
<1>3. advanced \in Items(Keys) /\ advanced.packet_key = inflight[c][id].packet_key
  BY <1>1, ItemSteps, Zenon
<1> HIDE DEF advanced
<1>4. inflight' \in [Clients -> [PacketIds -> Items(Keys)]]
  BY <1>2, <1>3, Zenon DEF TypeOK
<1>5. TypeOK'
  BY <1>4, Zenon DEF TypeOK, InflightNextState, connectionVars, payloadVars
<1>6. \A x \in sessions, i \in PacketIds :
        inflight'[x][i].packet_key = inflight[x][i].packet_key
  BY <1>2, <1>3, Zenon DEF TypeOK
<1>7. \A k : References(k)' = References(k)
  BY <1>1, <1>6, SameReferences, Zenon
<1> QED
  BY <1>1, <1>5, <1>7, CountsUntouched, Zenon

\* inflight_start_delivery: the item keeps its key.
LEMMA StartDeliveryStep ==
  ASSUME TypeOK, CountInv, NEW c \in Clients, NEW id \in PacketIds, NEW key \in Keys,
         InflightStartDelivery(c, id, key)
  PROVE  TypeOK' /\ CountInv'
<1>1. /\ c \in sessions
      /\ inflight[c] \in [PacketIds -> Items(Keys)]
      /\ UNCHANGED <<sessions, pending_messages, payloadVars>>
      /\ inflight' = [inflight EXCEPT ![c] = mark_delivery_started(inflight[c], id, key)]
  BY Zenon DEF InflightStartDelivery, TypeOK
<1>2. mark_delivery_started(inflight[c], id, key) \in [PacketIds -> Items(Keys)]
  BY <1>1, InflightTypes, Zenon
<1>3. \A i \in PacketIds : mark_delivery_started(inflight[c], id, key)[i].packet_key
                             = inflight[c][i].packet_key
  BY <1>1 DEF mark_delivery_started
<1>4. inflight' \in [Clients -> [PacketIds -> Items(Keys)]]
  BY <1>1, <1>2, Zenon DEF TypeOK
<1>5. TypeOK'
  BY <1>4, Zenon DEF TypeOK, InflightStartDelivery, connectionVars, payloadVars
<1>6. \A x \in sessions, i \in PacketIds :
        inflight'[x][i].packet_key = inflight[x][i].packet_key
  BY <1>1, <1>3, Zenon DEF TypeOK
<1>7. \A k : References(k)' = References(k)
  BY <1>1, <1>6, SameReferences, Zenon
<1> QED
  BY <1>1, <1>5, <1>7, CountsUntouched, Zenon

\* inflight_discard_unsent: the discarded item was a reference to its key.
LEMMA DiscardStep ==
  ASSUME TypeOK, CountInv, NEW c \in Clients, NEW id \in PacketIds, NEW key \in Keys,
         InflightDiscardUnsent(c, id, key)
  PROVE  TypeOK' /\ CountInv'
<1> DEFINE r == <<c, "inflight", id>>
<1>1. /\ c \in sessions
      /\ inflight[c][id].packet_key = key
      /\ UNCHANGED <<sessions, pending_messages>>
      /\ DropReferences(ref_counts, One(key))
  BY Zenon DEF InflightDiscardUnsent, CanDiscardUnsent
<1>2. inflight' = [inflight EXCEPT ![c][id] = NoItem]
  BY Zenon DEF InflightDiscardUnsent, discard_unsent, TypeOK
<1>3. TypeOK'
  <2>1. inflight' \in [Clients -> [PacketIds -> Items(Keys)]]
    BY <1>2, ItemTypes, Zenon DEF TypeOK
  <2>2. One(key) \in [Keys -> Nat] /\ ref_counts \in [Keys -> Nat]
    BY CountTypes, Zenon DEF TypeOK
  <2>3. ref_counts' \in [Keys -> Nat] /\ payload_gc' \subseteq Keys /\ orphaned' \in [Keys -> Nat]
    BY <1>1, <2>2, DropTypes, Zenon DEF TypeOK
  <2> QED
    BY <2>1, <2>3, Zenon DEF TypeOK, InflightDiscardUnsent, connectionVars
<1>4. inflight'[c][id].packet_key = NoKey
  BY <1>2, Zenon DEF TypeOK, NoItem
<1>5. \A x \in sessions, i \in PacketIds :
        <<x, i>> # <<c, id>> => inflight'[x][i].packet_key = inflight[x][i].packet_key
  BY <1>2, Zenon DEF TypeOK
<1>6. \A k : /\ r \in References(k) <=> inflight[c][id].packet_key = k
             /\ References(k)' = IF inflight'[c][id].packet_key = k
                                   THEN References(k) \cup {r} ELSE References(k) \ {r}
  BY <1>1, <1>5, OneItemChanges, Zenon
<1> HIDE DEF r
<1>7. /\ r \in References(key)
      /\ \A k \in Keys : References(k)' = References(k) \ {r}
      /\ \A k \in Keys \ {key} : r \notin References(k)
  BY <1>1, <1>4, <1>6, StorageAssumption, Zenon
<1>8. CountInv'
  BY <1>1, <1>7, DropReference
<1> QED
  BY <1>3, <1>8, Zenon

\* pop_from_pending_queue: the last slot was a reference to its key.
LEMMA PopStep ==
  ASSUME TypeOK, CountInv, NEW c \in Clients, PopFromPendingQueue(c)
  PROVE  TypeOK' /\ CountInv'
<1>0. PICK q \in Seq(Keys), n \in Nat \ {0} : q = pending_messages[c] /\ n = Len(q)
  BY LenProperties, EmptySeq DEF PopFromPendingQueue, TypeOK
<1> DEFINE shorter == SubSeq(q, 1, n - 1)
           r == <<c, "pending", n>>
           key == q[n]
<1>1. DOMAIN q = 1..n /\ key \in Keys
  BY <1>0, LenProperties
<1>2. /\ shorter \in Seq(Keys)
      /\ DOMAIN shorter = 1..(n - 1)
      /\ \A i \in 1..(n - 1) : shorter[i] = q[i]
  BY <1>0, <1>1, SubSeqProperties
<1>3. /\ c \in sessions
      /\ UNCHANGED <<sessions, inflight>>
      /\ pending_messages' = [pending_messages EXCEPT ![c] = shorter]
      /\ DropReferences(ref_counts, One(key))
  BY <1>0, Zenon DEF PopFromPendingQueue
<1>4. TypeOK'
  <2>1. pending_messages' \in [Clients -> Seq(Keys)]
    BY <1>2, <1>3, Zenon DEF TypeOK
  <2>2. One(key) \in [Keys -> Nat] /\ ref_counts \in [Keys -> Nat]
    BY <1>1, CountTypes, Zenon DEF TypeOK
  <2>3. ref_counts' \in [Keys -> Nat] /\ payload_gc' \subseteq Keys /\ orphaned' \in [Keys -> Nat]
    BY <1>3, <2>2, DropTypes, Zenon DEF TypeOK
  <2> QED
    BY <2>1, <2>3, Zenon DEF TypeOK, PopFromPendingQueue, connectionVars
<1>5. pending_messages'[c] = shorter
      /\ \A x \in Clients \ {c} : pending_messages'[x] = pending_messages[x]
  BY <1>3, Zenon DEF TypeOK
<1>6. \A p : \A k \in Keys, x \in sessions :
        Holds(p, x, k)' <=> Holds(p, x, k) /\ ~(x = c /\ k = key /\ p = r)
  <2> SUFFICES ASSUME NEW p, NEW k \in Keys, NEW x \in sessions
               PROVE  Holds(p, x, k)' <=> Holds(p, x, k) /\ ~(x = c /\ k = key /\ p = r)
    BY Zenon
  <2>1. CASE x # c
    BY <2>1, <1>3, <1>5, Zenon DEF Holds, TypeOK
  <2>2. CASE x = c
    <3>1. (\E i \in 1..(n - 1) : q[i] = k /\ p = <<c, "pending", i>>)
          <=> /\ \E i \in 1..n : q[i] = k /\ p = <<c, "pending", i>>
              /\ ~(k = key /\ p = r)
      BY <1>1
    <3>2. (\E i \in DOMAIN pending_messages'[c] :
             pending_messages'[c][i] = k /\ p = <<c, "pending", i>>)
          <=> \E i \in 1..(n - 1) : q[i] = k /\ p = <<c, "pending", i>>
      BY <1>2, <1>5, Zenon
    <3>3. \A id \in PacketIds : p = <<c, "inflight", id>> => p # r
      OBVIOUS
    <3> QED
      BY <3>1, <3>2, <3>3, <2>2, <1>0, <1>1, <1>3, Zenon DEF Holds
  <2> QED
    BY <2>1, <2>2, Zenon
<1>7. \A k \in Keys, x \in sessions : Holds(r, x, k) <=> x = c /\ k = key
  BY <1>0, <1>1 DEF Holds
<1>8. r \in References(key)
  BY <1>1, <1>3, <1>7, InReferences, Zenon
<1> HIDE DEF r, key
<1>9. \A k \in Keys : References(k)' = References(k) \ (IF k = key THEN {r} ELSE {})
  <2> SUFFICES ASSUME NEW k \in Keys, NEW p
               PROVE  p \in References(k)' <=>
                        p \in References(k) /\ ~(k = key /\ p = r)
    BY Zenon
  <2>1. p \in References(k)' <=> \E x \in sessions : Holds(p, x, k)'
    BY <1>3, InReferencesNext, Zenon
  <2>2. p \in References(k) <=> \E x \in sessions : Holds(p, x, k)
    BY InReferences, Zenon
  <2> QED
    BY <2>1, <2>2, <1>6, <1>7, Zenon
<1>10. /\ References(key)' = References(key) \ {r}
       /\ \A k \in Keys \ {key} : References(k)' = References(k)
  BY <1>1, <1>9, Zenon
<1>11. CountInv'
  BY <1>1, <1>3, <1>8, <1>10, DropReference, Zenon
<1> QED
  BY <1>4, <1>11, Zenon

\* inflight_clean_finished_items: one dec_ref per finished item.
LEMMA CleanStep ==
  ASSUME TypeOK, CountInv, NEW c \in Clients, InflightCleanFinishItems(c)
  PROVE  TypeOK' /\ CountInv'
<1> DEFINE T == [k \in Keys |-> FinishedReferences(c, k)]
           dropped == [k \in Keys |-> Cardinality(FinishedReferences(c, k))]
<1>1. /\ c \in sessions
      /\ UNCHANGED <<sessions, pending_messages>>
      /\ DropReferences(ref_counts, dropped)
      /\ inflight' = [inflight EXCEPT ![c] = clean_finished_items(inflight[c])]
  BY Zenon DEF InflightCleanFinishItems
<1>2. /\ \A x \in Clients \ {c} : inflight'[x] = inflight[x]
      /\ \A id \in PacketIds :
           inflight'[c][id] = IF inflight[c][id].state = "Finish" THEN NoItem ELSE inflight[c][id]
  BY <1>1, Zenon DEF TypeOK, clean_finished_items
<1>3. ASSUME NEW k \in Keys
      PROVE  /\ FinishedReferences(c, k) \subseteq References(k)
             /\ References(k)' = References(k) \ FinishedReferences(c, k)
  <2>0. k # NoKey
    BY StorageAssumption, Zenon
  <2>1. ASSUME NEW p
        PROVE  p \in FinishedReferences(c, k) <=>
                 \E id \in PacketIds : /\ inflight[c][id].state = "Finish"
                                       /\ inflight[c][id].packet_key = k
                                       /\ p = <<c, "inflight", id>>
    BY Zenon DEF FinishedReferences
  <2>2. ASSUME NEW p PROVE p \in FinishedReferences(c, k) => p \in References(k)
    <3>1. p \in FinishedReferences(c, k) => Holds(p, c, k)
      BY <2>1, Zenon DEF Holds
    <3> QED
      BY <1>1, <3>1, InReferences, Zenon
  <2>3. ASSUME NEW p, NEW x \in sessions
        PROVE  Holds(p, x, k)' <=> Holds(p, x, k) /\ p \notin FinishedReferences(c, k)
    <3>1. CASE x # c
      <4>1. inflight'[x] = inflight[x] /\ pending_messages'[x] = pending_messages[x]
        BY <3>1, <1>1, <1>2, Zenon DEF TypeOK
      <4>2. Holds(p, x, k)' <=> Holds(p, x, k)
        BY <4>1, Zenon DEF Holds
      <4>3. Holds(p, x, k) => p[1] = x
        BY DEF Holds
      <4>4. p \in FinishedReferences(c, k) => p[1] = c
        BY <2>1
      <4> QED
        BY <4>2, <4>3, <4>4, <3>1, Zenon
    <3>2. CASE x = c
      <4>1. \A id \in PacketIds :
              inflight'[c][id].packet_key = k <=>
                inflight[c][id].packet_key = k /\ inflight[c][id].state # "Finish"
        BY <1>2, <2>0 DEF NoItem
      <4>2. (\E id \in PacketIds : inflight'[c][id].packet_key = k /\ p = <<c, "inflight", id>>)
            <=> /\ \E id \in PacketIds : inflight[c][id].packet_key = k /\ p = <<c, "inflight", id>>
                /\ p \notin FinishedReferences(c, k)
        <5>1. \A i, j : <<c, "inflight", i>> = <<c, "inflight", j>> => i = j
          BY Zenon
        <5> QED
          BY <4>1, <2>1, <5>1, Zenon
      <4>3. \A i : <<c, "pending", i>> \notin FinishedReferences(c, k)
        BY <2>1
      <4> QED
        BY <4>2, <4>3, <3>2, <1>1, Zenon DEF Holds
    <3> QED
      BY <3>1, <3>2, Zenon
  <2>4. ASSUME NEW p
        PROVE  p \in References(k)' <=> p \in References(k) /\ p \notin FinishedReferences(c, k)
    BY <2>3, <1>1, InReferences, InReferencesNext, Zenon
  <2> QED
    BY <2>2, <2>4, Zenon
<1>4. dropped \in [Keys -> Nat]
  BY <1>3, DropSubset, Zenon DEF CountInv, ReferencesFinite
<1>5. TypeOK'
  <2>1. inflight' \in [Clients -> [PacketIds -> Items(Keys)]]
    <3>1. NoItem \in Items(Keys)
      BY Zenon DEF Items
    <3>2. inflight[c] \in [PacketIds -> Items(Keys)]
      BY Zenon DEF TypeOK
    <3>3. clean_finished_items(inflight[c]) \in [PacketIds -> Items(Keys)]
      BY <3>1, <3>2, Zenon DEF clean_finished_items
    <3> QED
      BY <1>1, <3>3, Zenon DEF TypeOK
  <2>2. ref_counts' \in [Keys -> Nat] /\ payload_gc' \subseteq Keys /\ orphaned' \in [Keys -> Nat]
    BY <1>1, <1>4, DropTypes, Zenon DEF TypeOK
  <2> QED
    BY <2>1, <2>2, Zenon DEF TypeOK, InflightCleanFinishItems, connectionVars
<1>6. \A k \in Keys : /\ T[k] \subseteq References(k)
                      /\ dropped[k] = Cardinality(T[k])
                      /\ References(k)' = References(k) \ T[k]
  BY <1>3, Zenon
<1> HIDE DEF T, dropped
<1>7. CountInv'
  BY <1>1, <1>4, <1>6, DropPlaces, Zenon
<1> QED
  BY <1>5, <1>7, Zenon

\* Emptying a session removes its places and no others, whether the session
\* then exists (create) or not (delete).
LEMMA SessionEmptied ==
  ASSUME TypeOK, NEW c \in Clients, NEW k \in Keys,
         sessions' \ {c} = sessions \ {c},
         pending_messages' = [pending_messages EXCEPT ![c] = <<>>],
         inflight' = [inflight EXCEPT ![c] = EmptyInflight]
  PROVE  /\ c \in sessions => SessionReferences(c, k) \subseteq References(k)
         /\ References(k)' = References(k) \ (IF c \in sessions THEN SessionReferences(c, k) ELSE {})
<1>0. k # NoKey
  BY StorageAssumption, Zenon
<1>1. /\ pending_messages'[c] = <<>>
      /\ inflight'[c] = EmptyInflight
      /\ \A x \in Clients \ {c} : inflight'[x] = inflight[x] /\ pending_messages'[x] = pending_messages[x]
  BY Zenon DEF TypeOK
<1>2. \A p : ~Holds(p, c, k)'
  BY <1>0, <1>1 DEF Holds, EmptyInflight, NoItem
<1>3. \A p : \A x \in Clients \ {c} : Holds(p, x, k)' <=> Holds(p, x, k)
  BY <1>1, Zenon DEF Holds
<1>4. \A p : \A x : Holds(p, x, k) => p[1] = x
  BY DEF Holds
<1>5. c \in sessions => SessionReferences(c, k) \subseteq References(k)
  BY InReferences, Zenon
<1>6. ASSUME NEW p
      PROVE  p \in References(k)' <=>
               p \in References(k) /\ ~(c \in sessions /\ p \in SessionReferences(c, k))
  <2>1. p \in References(k)' <=> \E x \in sessions' : Holds(p, x, k)'
    BY InReferencesNext, Zenon
  <2>2. p \in References(k) <=> \E x \in sessions : Holds(p, x, k)
    BY InReferences, Zenon
  <2>3. p \in SessionReferences(c, k) <=> Holds(p, c, k)
    BY InReferences, Zenon
  <2>4. \A x : x # c => (x \in sessions' <=> x \in sessions)
    BY Zenon
  <2>5. \A x \in sessions : x # c => x \in Clients \ {c}
    BY Zenon DEF TypeOK
  <2> QED
    BY <2>1, <2>2, <2>3, <2>4, <2>5, <1>2, <1>3, <1>4, ZenonT(30)
<1> QED
  BY <1>5, <1>6, Zenon

\* delete_session_state: one dec_ref per place the session held.
LEMMA DeleteStep ==
  ASSUME TypeOK, CountInv, NEW c \in Clients, NEW expected, DeleteSessionState(c, expected)
  PROVE  TypeOK' /\ CountInv'
<1> DEFINE T == [k \in Keys |-> SessionReferences(c, k)]
           dropped == [k \in Keys |-> Cardinality(SessionReferences(c, k))]
<1>1. /\ c \in sessions
      /\ sessions' = sessions \ {c}
      /\ pending_messages' = [pending_messages EXCEPT ![c] = <<>>]
      /\ inflight' = [inflight EXCEPT ![c] = EmptyInflight]
      /\ DropReferences(ref_counts, dropped)
  BY Zenon DEF DeleteSessionState
<1>2. \A k \in Keys : /\ SessionReferences(c, k) \subseteq References(k)
                      /\ References(k)' = References(k) \ SessionReferences(c, k)
  BY <1>1, SessionEmptied, Zenon
<1>3. dropped \in [Keys -> Nat]
  BY <1>2, DropSubset, Zenon DEF CountInv, ReferencesFinite
<1>4. TypeOK'
  <2>1. ref_counts' \in [Keys -> Nat] /\ payload_gc' \subseteq Keys /\ orphaned' \in [Keys -> Nat]
    BY <1>1, <1>3, DropTypes, Zenon DEF TypeOK
  <2>2. /\ sessions' \subseteq Clients
        /\ pending_messages' \in [Clients -> Seq(Keys)]
        /\ inflight' \in [Clients -> [PacketIds -> Items(Keys)]]
    BY <1>1 DEF TypeOK, EmptyInflight, Items
  <2> QED
    BY <2>1, <2>2, Zenon DEF TypeOK, DeleteSessionState, NoSubscriptions
<1>5. \A k \in Keys : /\ T[k] \subseteq References(k)
                      /\ dropped[k] = Cardinality(T[k])
                      /\ References(k)' = References(k) \ T[k]
  BY <1>2, Zenon
<1> HIDE DEF T, dropped
<1>6. CountInv'
  BY <1>1, <1>3, <1>5, DropPlaces, Zenon
<1> QED
  BY <1>4, <1>6, Zenon

\* create_session_state: an overwritten session leaves its counts behind.
LEMMA CreateStep ==
  ASSUME TypeOK, CountInv, NEW c \in Clients, NEW interval \in Intervals \cup {None},
         CreateSessionState(c, interval)
  PROVE  TypeOK' /\ CountInv'
<1> DEFINE Lost(k) == IF c \in sessions THEN SessionReferences(c, k) ELSE {}
<1>1. /\ sessions' = sessions \cup {c}
      /\ pending_messages' = [pending_messages EXCEPT ![c] = <<>>]
      /\ inflight' = [inflight EXCEPT ![c] = EmptyInflight]
      /\ UNCHANGED <<ref_counts, payload_gc>>
  BY Zenon DEF CreateSessionState
<1>2. ASSUME NEW k \in Keys
      PROVE  /\ Lost(k) \subseteq References(k)
             /\ References(k)' = References(k) \ Lost(k)
  <2>1. sessions' \ {c} = sessions \ {c}
    BY <1>1, Zenon
  <2> QED
    BY <1>1, <2>1, SessionEmptied, Zenon
<1>3. ASSUME NEW k \in Keys
      PROVE  orphaned'[k] = orphaned[k] + Cardinality(Lost(k))
  BY FS_EmptySet, Zenon DEF CreateSessionState
<1>4. ASSUME NEW k \in Keys
      PROVE  /\ IsFiniteSet(References(k)')
             /\ Cardinality(Lost(k)) \in Nat
             /\ ref_counts[k] = Cardinality(References(k)') + orphaned'[k]
  <2>1. IsFiniteSet(References(k)) /\ Lost(k) \in SUBSET References(k)
    BY <1>2, Zenon DEF CountInv, ReferencesFinite
  <2> HIDE DEF Lost
  <2>2. /\ IsFiniteSet(References(k) \ Lost(k))
        /\ Cardinality(Lost(k)) \in Nat
        /\ Cardinality(References(k) \ Lost(k)) \in Nat
        /\ Cardinality(References(k)) = Cardinality(References(k) \ Lost(k)) + Cardinality(Lost(k))
    BY <2>1, DropSubset, Zenon
  <2>3. ref_counts[k] = Cardinality(References(k)) + orphaned[k] /\ orphaned[k] \in Nat
    BY Zenon DEF CountInv, RefCountsExact, TypeOK
  <2>4. ref_counts[k] = Cardinality(References(k) \ Lost(k)) + orphaned'[k]
    BY <2>2, <2>3, <1>3, SMTT(30)
  <2>5. References(k)' = References(k) \ Lost(k)
    BY <1>2, Zenon
  <2> QED
    BY <2>2, <2>4, <2>5, Zenon
<1>5. TypeOK'
  <2>1. orphaned' \in [Keys -> Nat]
    <3>1. \A k \in Keys : orphaned'[k] \in Nat
      BY <1>3, <1>4 DEF TypeOK
    <3>2. orphaned' = [k \in Keys |-> orphaned'[k]]
      BY Zenon DEF CreateSessionState
    <3> QED
      BY <3>1, <3>2, Zenon
  <2>2. /\ sessions' \subseteq Clients
        /\ pending_messages' \in [Clients -> Seq(Keys)]
        /\ inflight' \in [Clients -> [PacketIds -> Items(Keys)]]
    BY <1>1 DEF TypeOK, EmptyInflight, Items
  <2> QED
    BY <2>1, <2>2, Zenon DEF TypeOK, CreateSessionState, NoSubscriptions
<1>6. CountInv'
  <2>1. ReferencesFinite'
    BY <1>4, Zenon DEF ReferencesFinite
  <2>2. RefCountsExact'
    BY <1>1, <1>4, Zenon DEF RefCountsExact
  <2> QED
    BY <2>1, <2>2, <1>1, Zenon DEF CountInv
<1> QED
  BY <1>5, <1>6, Zenon

\* subscribe_topic, unsubscribe_topic and update_connection_state touch no key.
LEMMA OtherSteps ==
  ASSUME TypeOK, CountInv, NEW c \in Clients, SubscriptionStep(c) \/ ConnectionStep(c)
  PROVE  TypeOK' /\ CountInv'
<1>1. UNCHANGED <<sessions, pending_messages, inflight>> /\ UNCHANGED payloadVars
  BY Zenon DEF SubscriptionStep, SubscribeTopic, UnsubscribeTopic, ConnectionStep,
         UpdateSessionConnectionState
<1>2. \A k \in Keys : References(k)' = References(k)
  BY <1>1, SameReferences, Zenon
<1>3. CountInv'
  BY <1>1, <1>2, CountsUntouched, Zenon
<1>4. CASE SubscriptionStep(c)
  <2>1. subscriptions' \in [Clients -> [Topics -> SubscriptionOptions \cup {NoSubscription}]]
    <3>1. PICK topic \in Topics, value \in SubscriptionOptions \cup {NoSubscription} :
            subscriptions' = [subscriptions EXCEPT ![c][topic] = value]
      BY <1>4, Zenon DEF SubscriptionStep, SubscribeTopic, UnsubscribeTopic
    <3> QED
      BY <3>1, Zenon DEF TypeOK
  <2>2. UNCHANGED connectionVars
    BY <1>4, Zenon DEF SubscriptionStep, SubscribeTopic, UnsubscribeTopic
  <2> QED
    BY <1>1, <1>3, <2>1, <2>2, Zenon DEF TypeOK, connectionVars, payloadVars
<1>5. CASE ConnectionStep(c)
  <2>1. PICK disconnected \in Times \cup {None}, update \in Intervals \cup {None} :
          UpdateSessionConnectionState(c, disconnected, update)
    BY <1>5, Zenon DEF ConnectionStep
  <2> DEFINE interval == IF update # None THEN update ELSE session_expiry_interval[c]
             deadline == IF disconnected # None /\ interval # None
                           THEN expiry_deadline(disconnected, interval) ELSE None
  <2>2. /\ interval \in Intervals \cup {None}
        /\ deadline \in Nat \cup {None}
    <3>1. interval \in Intervals \cup {None}
      BY Zenon DEF TypeOK
    <3> HIDE DEF interval
    <3>2. deadline \in Nat \cup {None}
      BY <3>1, StorageAssumption DEF expiry_deadline
    <3> QED
      BY <3>1, <3>2, Zenon
  <2>3. /\ session_expiry_interval' = [session_expiry_interval EXCEPT ![c] = interval]
        /\ disconnected_at' = [disconnected_at EXCEPT ![c] = disconnected]
        /\ expires_at' = [expires_at EXCEPT ![c] = deadline]
        /\ subscriptions' = subscriptions
    BY <2>1, Zenon DEF UpdateSessionConnectionState
  <2> HIDE DEF interval, deadline
  <2> QED
    BY <1>1, <1>3, <2>2, <2>3, Zenon DEF TypeOK, payloadVars
<1> QED
  BY <1>4, <1>5, Zenon

\* inflight_register_rx_packet: a fresh identifier adds one reference; a used
\* one adds a reference and then drops the one of the replaced item.
LEMMA RegisterRxStep ==
  ASSUME TypeOK, CountInv, NEW c \in Clients, NEW id \in PacketIds, NEW qos,
         NEW key \in Keys, InflightRegisterRxPacket(c, id, qos, key)
  PROVE  TypeOK' /\ CountInv'
<1> DEFINE r == <<c, "inflight", id>>
<1>1. /\ c \in sessions
      /\ Registrable(key)
      /\ UNCHANGED <<sessions, pending_messages>>
      /\ inflight' = [inflight EXCEPT ![c][id] = RxItem(qos, key)]
  BY Zenon DEF InflightRegisterRxPacket, register_with_rx_packet, TypeOK
<1>2. inflight' \in [Clients -> [PacketIds -> Items(Keys)]]
  BY <1>1, ItemTypes, Zenon DEF TypeOK
<1>3. inflight'[c][id].packet_key = key
  BY <1>1, Zenon DEF TypeOK, RxItem
<1>4. \A x \in sessions, i \in PacketIds :
        <<x, i>> # <<c, id>> => inflight'[x][i].packet_key = inflight[x][i].packet_key
  BY <1>1, Zenon DEF TypeOK
<1>5. \A k : /\ r \in References(k) <=> inflight[c][id].packet_key = k
             /\ References(k)' = IF inflight'[c][id].packet_key = k
                                   THEN References(k) \cup {r} ELSE References(k) \ {r}
  BY <1>1, <1>4, OneItemChanges, Zenon
<1>6. /\ inc_ref(key) \in [Keys -> Nat]
      /\ inflight[c][id] \in Items(Keys)
  BY CountTypes, Zenon DEF TypeOK
<1> HIDE DEF r
<1>7. CASE ~packet_id_exists(inflight[c], id)
  <2>1. inflight[c][id].packet_key = NoKey
    BY <1>6, <1>7, AbsentItem, Zenon DEF packet_id_exists
  <2>2. ref_counts' = inc_ref(key) /\ UNCHANGED <<payload_gc, orphaned>>
    BY <1>7, Zenon DEF InflightRegisterRxPacket
  <2>3. /\ r \notin References(key)
        /\ References(key)' = References(key) \cup {r}
        /\ \A k \in Keys \ {key} : References(k)' = References(k)
    <3>1. \A k \in Keys : r \notin References(k)
      BY <1>5, <2>1, StorageAssumption
    <3>2. \A k \in Keys : References(k)' = IF key = k THEN References(k) \cup {r}
                                                   ELSE References(k) \ {r}
      BY <1>3, <1>5, Zenon
    <3> QED
      BY <3>1, <3>2, Zenon
  <2>4. CountInv'
    BY <1>1, <2>2, <2>3, AddReference, Zenon
  <2>5. TypeOK'
    BY <1>2, <1>6, <2>2, Zenon DEF TypeOK, InflightRegisterRxPacket, connectionVars
  <2> QED
    BY <2>4, <2>5, Zenon
<1>8. CASE packet_id_exists(inflight[c], id)
  <2>1. PICK old \in Keys : old = inflight[c][id].packet_key
    BY <1>6, <1>8, ItemSteps, Zenon DEF packet_id_exists
  <2>2. DropReferences(inc_ref(key), One(old))
    BY <1>8, <2>1, Zenon DEF InflightRegisterRxPacket
  <2>3. One(old) \in [Keys -> Nat]
    BY CountTypes, Zenon DEF TypeOK
  <2>4. TypeOK'
    <3>1. ref_counts' \in [Keys -> Nat] /\ payload_gc' \subseteq Keys /\ orphaned' \in [Keys -> Nat]
      BY <1>6, <2>2, <2>3, DropTypes, Zenon DEF TypeOK
    <3> QED
      BY <1>2, <3>1, Zenon DEF TypeOK, InflightRegisterRxPacket, connectionVars
  <2> DEFINE new == IF old = key THEN <<c, "replacement", id>> ELSE r
             S == [k \in Keys |-> References(k) \cup (IF k = key THEN {new} ELSE {})]
             T == [k \in Keys |-> IF k = old THEN {new} ELSE {}]
             dropped == One(old)
  <2>5. /\ new \notin References(key)
        /\ old # key => new = r
        /\ old = key => \A k \in Keys : new \notin References(k)
    <3>1. \A k \in Keys, x \in sessions : ~Holds(<<c, "replacement", id>>, x, k)
      BY Zenon DEF Holds
    <3>2. \A k \in Keys : <<c, "replacement", id>> \notin References(k)
      BY <3>1, InReferences, Zenon
    <3> QED
      BY <3>2, <1>5, <2>1, Zenon
  <2> HIDE DEF new
  <2>6. \A k \in Keys : T[k] \subseteq S[k] /\ References(k)' = S[k] \ T[k]
    <3> SUFFICES ASSUME NEW k \in Keys, NEW p
                 PROVE  /\ p \in T[k] => p \in S[k]
                        /\ p \in References(k)' <=> p \in S[k] /\ p \notin T[k]
      BY Zenon
    <3>1. /\ r \in References(k) <=> old = k
          /\ p \in References(k)' <=> IF key = k THEN p \in References(k) \/ p = r
                                               ELSE p \in References(k) /\ p # r
      BY <1>3, <1>5, <2>1, Zenon
    <3> QED
      BY <3>1, <2>5, Zenon
  <2>7. \A k \in Keys : dropped[k] = Cardinality(T[k])
    BY FS_Singleton, FS_EmptySet, Zenon DEF One
  <2>8. ASSUME NEW k \in Keys
        PROVE  /\ IsFiniteSet(S[k])
               /\ inc_ref(key)[k] = Cardinality(S[k]) + orphaned[k]
    <3>1. /\ IsFiniteSet(References(k))
          /\ ref_counts[k] = Cardinality(References(k)) + orphaned[k]
          /\ orphaned[k] \in Nat
      BY Zenon DEF CountInv, ReferencesFinite, RefCountsExact, TypeOK
    <3>2. Cardinality(References(k)) \in Nat
      BY <3>1, FS_CardinalityType, Zenon
    <3>3. CASE k = key
      <4>1. S[k] = References(k) \cup {new}
        BY <3>3, Zenon
      <4>2. /\ IsFiniteSet(References(k) \cup {new})
            /\ Cardinality(References(k) \cup {new}) = Cardinality(References(k)) + 1
        <5>1. new \notin References(k)
          BY <2>5, <3>3, Zenon
        <5> QED
          BY <5>1, <3>1, FS_AddElement, Zenon
      <4>3. inc_ref(key)[k] = ref_counts[k] + 1
        BY <3>3, Zenon DEF inc_ref, TypeOK
      <4>4. ref_counts[k] + 1 = (Cardinality(References(k)) + 1) + orphaned[k]
        BY <3>1, <3>2
      <4> HIDE DEF S
      <4> QED
        BY <4>1, <4>2, <4>3, <4>4, Zenon
    <3>4. CASE k # key
      <4>1. S[k] = References(k)
        BY <3>4, Zenon
      <4>2. inc_ref(key)[k] = ref_counts[k]
        BY <3>4, Zenon DEF inc_ref, TypeOK
      <4> HIDE DEF S
      <4> QED
        BY <4>1, <4>2, <3>1, Zenon
    <3> QED
      BY <3>3, <3>4, Zenon
  <2>9. \A k \in payload_gc : inc_ref(key)[k] = 0
    BY <1>1, Zenon DEF CountInv, Registrable, inc_ref, TypeOK
  <2>10. DropReferences(inc_ref(key), dropped) /\ dropped \in [Keys -> Nat]
    BY <2>2, <2>3, Zenon
  <2> HIDE DEF S, T, dropped
  <2>11. CountInv'
    BY <1>6, <2>6, <2>7, <2>8, <2>9, <2>10, DropCounts, SMTT(30)
  <2> QED
    BY <2>4, <2>11, Zenon
<1> QED
  BY <1>7, <1>8, Zenon

-------------------------------------------------------------------------------
(* Theorems *)

\* The empty storage satisfies the invariant.
LEMMA InitInv == Init => TypeOK /\ CountInv
<1> SUFFICES ASSUME Init PROVE TypeOK /\ CountInv
  BY Zenon
<1>1. TypeOK
  BY DEF Init, TypeOK, EmptyInflight, NoSubscriptions, Items
<1>2. \A k \in Keys : References(k) = {}
  BY Zenon DEF Init, References
<1>3. CountInv
  <2>1. Cardinality({}) = 0 /\ IsFiniteSet({})
    BY FS_EmptySet, Zenon
  <2>2. \A k \in Keys : IsFiniteSet(References(k)) /\ Cardinality(References(k)) = 0
    BY <1>2, <2>1, Zenon
  <2> QED
    BY <2>2 DEF CountInv, ReferencesFinite, RefCountsExact, Init
<1> QED
  BY <1>1, <1>3, Zenon

\* Every request keeps the inductive invariant.
LEMMA StepInv == TypeOK /\ CountInv /\ [Next]_storageVars => TypeOK' /\ CountInv'
<1> SUFFICES ASSUME TypeOK, CountInv, [Next]_storageVars PROVE TypeOK' /\ CountInv'
  BY Zenon
<1>1. CASE UNCHANGED storageVars
  <2>1. TypeOK'
    BY <1>1, Zenon DEF TypeOK, storageVars, connectionVars, payloadVars
  <2>2. UNCHANGED <<sessions, pending_messages, inflight>> /\ UNCHANGED payloadVars
    BY <1>1, Zenon DEF storageVars
  <2>3. \A k \in Keys : References(k)' = References(k)
    BY <2>2, SameReferences, Zenon
  <2> QED
    BY <2>1, <2>2, <2>3, CountsUntouched, Zenon
<1>2. CASE Next
  <2>1. PICK c \in Clients : \/ SessionEnds(c) \/ InflightStep(c) \/ PendingStep(c)
                            \/ SubscriptionStep(c) \/ ConnectionStep(c)
    BY <1>2, Zenon DEF Next
  <2>2. CASE SessionEnds(c)
    BY <2>2, CreateStep, DeleteStep, Zenon DEF SessionEnds
  <2>3. CASE InflightStep(c)
    <3>1. ASSUME NEW id \in PacketIds, NEW qos \in {1, 2}, NEW key \in Keys,
                 InflightRegisterRxPacket(c, id, qos, key)
          PROVE  TypeOK' /\ CountInv'
      BY <3>1, RegisterRxStep, Zenon
    <3>2. ASSUME NEW id \in PacketIds, NEW qos \in {1, 2}, NEW key \in Keys,
                 NEW deferred \in BOOLEAN, InflightRegisterTxPacket(c, id, qos, key, deferred)
          PROVE  TypeOK' /\ CountInv'
      BY <3>2, RegisterTxStep, Zenon
    <3>3. ASSUME NEW id \in PacketIds, NEW key \in Keys,
                 InflightStartDelivery(c, id, key) \/ InflightDiscardUnsent(c, id, key)
          PROVE  TypeOK' /\ CountInv'
      BY <3>3, StartDeliveryStep, DiscardStep, Zenon
    <3>4. ASSUME NEW id \in PacketIds, InflightNextState(c, id)
          PROVE  TypeOK' /\ CountInv'
      BY <3>4, NextStateStep, Zenon
    <3>5. ASSUME InflightCleanFinishItems(c)
          PROVE  TypeOK' /\ CountInv'
      BY <3>5, CleanStep, Zenon
    <3> QED
      BY <2>3, <3>1, <3>2, <3>3, <3>4, <3>5, Zenon DEF InflightStep
  <2>4. CASE PendingStep(c)
    BY <2>4, AppendStep, PopStep, Zenon DEF PendingStep
  <2>5. CASE SubscriptionStep(c) \/ ConnectionStep(c)
    BY <2>5, OtherSteps, Zenon
  <2> QED
    BY <2>1, <2>2, <2>3, <2>4, <2>5, Zenon
<1> QED
  BY <1>1, <1>2, Zenon

\* The numbers of places that a delete and a clean drop are natural numbers.
LEMMA DroppedTypes ==
  ASSUME CountInv, NEW c \in sessions
  PROVE  /\ [k \in Keys |-> Cardinality(SessionReferences(c, k))] \in [Keys -> Nat]
         /\ [k \in Keys |-> Cardinality(FinishedReferences(c, k))] \in [Keys -> Nat]
<1> SUFFICES ASSUME NEW k \in Keys
             PROVE  /\ Cardinality(SessionReferences(c, k)) \in Nat
                    /\ Cardinality(FinishedReferences(c, k)) \in Nat
  BY Zenon
<1>1. SessionReferences(c, k) \subseteq References(k)
  BY InReferences, Zenon
<1>2. FinishedReferences(c, k) \subseteq SessionReferences(c, k)
  BY Zenon DEF FinishedReferences, SessionReferences
<1>3. IsFiniteSet(References(k))
  BY Zenon DEF CountInv, ReferencesFinite
<1> QED
  BY <1>1, <1>2, <1>3, DropSubset, Zenon

\* Every reachable state of the session_state state machine is well typed.
THEOREM TypeCorrect == Spec => []TypeOK
<1>1. Spec => [](TypeOK /\ CountInv)
  BY InitInv, StepInv, PTL DEF Spec
<1> QED
  BY <1>1, PTL

\* inc_ref and dec_ref balance over any number of sessions, keys and requests:
\* a count is exactly the number of places that hold the key plus those that
\* create_session_state abandoned.
THEOREM RefCountsCorrect == Spec => []RefCountsExact
<1>1. Spec => [](TypeOK /\ CountInv)
  BY InitInv, StepInv, PTL DEF Spec
<1>2. CountInv => RefCountsExact
  BY Zenon DEF CountInv
<1> QED
  BY <1>1, <1>2, PTL

\* No payload a session still holds is ever handed to schedule_payload_gc.
THEOREM ScheduledPayloadsSafe == Spec => []ScheduledPayloadUnreferenced
<1>1. Spec => [](TypeOK /\ CountInv)
  BY InitInv, StepInv, PTL DEF Spec
<1>2. TypeOK /\ CountInv => ScheduledPayloadUnreferenced
  <2> SUFFICES ASSUME TypeOK, CountInv, NEW k \in payload_gc
               PROVE  ref_counts[k] = 0 /\ References(k) = {}
    BY Zenon DEF ScheduledPayloadUnreferenced
  <2>1. /\ k \in Keys
        /\ ref_counts[k] = 0
        /\ ref_counts[k] = Cardinality(References(k)) + orphaned[k]
        /\ IsFiniteSet(References(k))
        /\ orphaned[k] \in Nat
    BY Zenon DEF TypeOK, CountInv, RefCountsExact, ReferencesFinite
  <2>2. Cardinality(References(k)) \in Nat
    BY <2>1, FS_CardinalityType, Zenon
  <2>3. Cardinality(References(k)) = 0
    BY <2>1, <2>2
  <2>4. References(k) = {}
    BY <2>1, <2>3, FS_EmptySet, Zenon
  <2> QED
    BY <2>1, <2>4, Zenon
<1> QED
  BY <1>1, <1>2, PTL

\* No request loses the key its last dec_ref returned: the count of a key goes
\* from positive to zero only in a request that schedules its deletion.
THEOREM LastReferenceCollected == Spec => LastReferenceSchedulesGc
<1> DEFINE Collected == \A k \in Keys : ref_counts[k] > 0 /\ ref_counts'[k] = 0 => k \in payload_gc'
<1>1. Spec => [](TypeOK /\ CountInv)
  BY InitInv, StepInv, PTL DEF Spec
<1>2. TypeOK /\ CountInv /\ [Next]_storageVars => [Collected]_storageVars
  <2> SUFFICES ASSUME TypeOK, CountInv, Next PROVE Collected
    BY Zenon
  <2>1. ASSUME NEW counts \in [Keys -> Nat], NEW dropped \in [Keys -> Nat],
               DropReferences(counts, dropped),
               \A k \in Keys : counts[k] >= ref_counts[k]
        PROVE  Collected
    BY <2>1 DEF DropReferences, dec_refs, TypeOK
  <2>2. ASSUME NEW dropped \in [Keys -> Nat], DropReferences(ref_counts, dropped)
        PROVE  Collected
    <3>1. ref_counts \in [Keys -> Nat] /\ \A k \in Keys : ref_counts[k] >= ref_counts[k]
      BY DEF TypeOK
    <3> HIDE DEF Collected
    <3> QED
      BY <2>1, <2>2, <3>1, Zenon
  <2>3. ASSUME NEW key \in Keys, NEW dropped \in [Keys -> Nat],
               DropReferences(inc_ref(key), dropped)
        PROVE  Collected
    <3>1. inc_ref(key) \in [Keys -> Nat] /\ \A k \in Keys : inc_ref(key)[k] >= ref_counts[k]
      BY DEF inc_ref, TypeOK
    <3> HIDE DEF Collected
    <3> QED
      BY <2>1, <2>3, <3>1, Zenon
  <2>4. ASSUME NEW key \in Keys, ref_counts' = inc_ref(key)
        PROVE  Collected
    BY <2>4 DEF inc_ref, TypeOK
  <2>5. ASSUME ref_counts' = ref_counts
        PROVE  Collected
    BY <2>5
  <2> HIDE DEF Collected
  <2>6. PICK c \in Clients : \/ SessionEnds(c) \/ InflightStep(c) \/ PendingStep(c)
                            \/ SubscriptionStep(c) \/ ConnectionStep(c)
    BY Zenon DEF Next
  <2>7. CASE SessionEnds(c)
    BY <2>7, <2>2, <2>5, DroppedTypes, Zenon DEF SessionEnds, CreateSessionState, DeleteSessionState
  <2>8. CASE InflightStep(c)
    <3>1. ASSUME NEW id \in PacketIds, NEW qos \in {1, 2}, NEW key \in Keys,
                 \/ InflightRegisterRxPacket(c, id, qos, key)
                 \/ \E deferred \in BOOLEAN : InflightRegisterTxPacket(c, id, qos, key, deferred)
          PROVE  Collected
      <4>1. \A k : One(k) \in [Keys -> Nat]
        BY Zenon DEF One
      <4> QED
        BY <3>1, <2>3, <2>4, <4>1, Zenon DEF InflightRegisterRxPacket, InflightRegisterTxPacket
    <3>2. ASSUME NEW id \in PacketIds, NEW key \in Keys,
                 InflightStartDelivery(c, id, key) \/ InflightDiscardUnsent(c, id, key)
          PROVE  Collected
      BY <3>2, <2>2, <2>5, CountTypes, ZenonT(30) DEF TypeOK, InflightStartDelivery, InflightDiscardUnsent, payloadVars
    <3>3. ASSUME NEW id \in PacketIds, InflightNextState(c, id)
          PROVE  Collected
      BY <3>3, <2>5, Zenon DEF InflightNextState, payloadVars
    <3>4. ASSUME InflightCleanFinishItems(c)
          PROVE  Collected
      BY <3>4, <2>2, DroppedTypes, Zenon DEF InflightCleanFinishItems
    <3> QED
      BY <2>8, <3>1, <3>2, <3>3, <3>4, Zenon DEF InflightStep
  <2>9. CASE PendingStep(c)
    <3>1. \A k : One(k) \in [Keys -> Nat]
      BY Zenon DEF One
    <3> QED
      BY <2>9, <2>2, <2>4, <3>1, Zenon DEF PendingStep, AppendToPendingQueue, PopFromPendingQueue
  <2>10. CASE SubscriptionStep(c) \/ ConnectionStep(c)
    BY <2>10, <2>5, Zenon DEF SubscriptionStep, SubscribeTopic, UnsubscribeTopic, ConnectionStep,
         UpdateSessionConnectionState, payloadVars
  <2> QED
    BY <2>6, <2>7, <2>8, <2>9, <2>10, Zenon
<1> QED
  BY <1>1, <1>2, PTL DEF Spec, LastReferenceSchedulesGc

\* The deadline the expiry sweep compares with the clock is the one that follows
\* from the stored disconnect time and interval, after any sequence of requests.
THEOREM DeadlinesCorrect == Spec => []DeadlineMatchesDisconnect
<1>1. Spec => []TypeOK
  BY TypeCorrect, Zenon
<1>2. Init => DeadlineMatchesDisconnect
  BY Zenon DEF Init, DeadlineMatchesDisconnect
<1>3. TypeOK /\ DeadlineMatchesDisconnect /\ [Next]_storageVars => DeadlineMatchesDisconnect'
  <2> SUFFICES ASSUME TypeOK, DeadlineMatchesDisconnect, [Next]_storageVars
               PROVE  DeadlineMatchesDisconnect'
    BY Zenon
  <2>1. ASSUME UNCHANGED <<sessions, connectionVars>>
        PROVE  DeadlineMatchesDisconnect'
    BY <2>1, Zenon DEF DeadlineMatchesDisconnect, connectionVars
  <2>2. CASE UNCHANGED storageVars
    BY <2>1, <2>2, Zenon DEF storageVars
  <2>3. ASSUME NEW c \in Clients, InflightStep(c) \/ PendingStep(c) \/ SubscriptionStep(c)
        PROVE  DeadlineMatchesDisconnect'
    <3>1. UNCHANGED <<sessions, connectionVars>>
      BY <2>3, Zenon DEF InflightStep, InflightRegisterRxPacket, InflightRegisterTxPacket,
           InflightStartDelivery, InflightDiscardUnsent, InflightNextState,
           InflightCleanFinishItems, PendingStep, AppendToPendingQueue, PopFromPendingQueue,
           SubscriptionStep, SubscribeTopic, UnsubscribeTopic
    <3> QED
      BY <2>1, <3>1, Zenon
  <2>4. ASSUME NEW c \in Clients, SessionEnds(c)
        PROVE  DeadlineMatchesDisconnect'
    <3>1. /\ sessions' \ {c} = sessions \ {c}
          /\ expires_at' = [expires_at EXCEPT ![c] = None]
          /\ disconnected_at' = [disconnected_at EXCEPT ![c] = None]
          /\ \A x \in Clients \ {c} : session_expiry_interval'[x] = session_expiry_interval[x]
      BY <2>4, Zenon DEF SessionEnds, CreateSessionState, DeleteSessionState, TypeOK
    <3> QED
      BY <3>1, Zenon DEF TypeOK, DeadlineMatchesDisconnect
  <2>5. ASSUME NEW c \in Clients, ConnectionStep(c)
        PROVE  DeadlineMatchesDisconnect'
    <3>1. PICK disconnected \in Times \cup {None}, update \in Intervals \cup {None} :
            UpdateSessionConnectionState(c, disconnected, update)
      BY <2>5, Zenon DEF ConnectionStep
    <3> DEFINE interval == IF update # None THEN update ELSE session_expiry_interval[c]
               deadline == IF disconnected # None /\ interval # None
                             THEN expiry_deadline(disconnected, interval) ELSE None
    <3>2. /\ session_expiry_interval' = [session_expiry_interval EXCEPT ![c] = interval]
          /\ disconnected_at' = [disconnected_at EXCEPT ![c] = disconnected]
          /\ expires_at' = [expires_at EXCEPT ![c] = deadline]
          /\ sessions' = sessions
      BY <3>1, Zenon DEF UpdateSessionConnectionState
    <3>3. deadline = IF disconnected = None \/ interval \in {None, NeverExpires}
                       THEN None ELSE disconnected + interval
      BY Zenon DEF expiry_deadline
    <3> HIDE DEF interval, deadline
    <3> QED
      BY <3>2, <3>3, Zenon DEF TypeOK, DeadlineMatchesDisconnect
  <2>6. CASE Next
    BY <2>3, <2>4, <2>5, <2>6, Zenon DEF Next
  <2> QED
    BY <2>2, <2>6, Zenon
<1> QED
  BY <1>1, <1>2, <1>3, PTL DEF Spec

\* What the operations on one table do to an item that waits for the client and has been sent.
LEMMA StartedItemStays ==
  ASSUME NEW inner \in [PacketIds -> Items(Keys)], NEW id \in PacketIds,
         inner[id].state \in WaitingStates, inner[id].delivery_started,
         NEW x \in PacketIds, NEW key \in Keys, NEW qos, NEW deferred \in BOOLEAN
  PROVE  /\ inner[id] # NoItem
         /\ register_with_tx_packet(inner, x, qos, key, deferred)[id] # NoItem
         /\ mark_delivery_started(inner, x, key)[id] # NoItem
         /\ discard_unsent(inner, x, key)[id] # NoItem
         /\ next_state(inner, x)[id] # NoItem
<1>1. inner[id].state # "Absent" /\ inner[id] # NoItem
  BY DEF WaitingStates, NoItem
<1>2. NoItem.state = "Absent" /\ TxItem(qos, key, deferred).state # "Absent"
  BY Zenon DEF NoItem, TxItem
<1>3. register_with_tx_packet(inner, x, qos, key, deferred)[id] \in {inner[id], TxItem(qos, key, deferred)}
  BY Zenon DEF register_with_tx_packet
<1>4. inner[id] \in [state : InflightState, packet_key : Keys, delivery_started : BOOLEAN]
  BY <1>1, Zenon DEF Items
<1>5. /\ [inner[id] EXCEPT !.delivery_started = TRUE].state = inner[id].state
      /\ [inner[id] EXCEPT !.state = to_next(inner[id].state)].state = to_next(inner[id].state)
      /\ to_next(inner[id].state) # "Absent"
  BY <1>4, Zenon DEF to_next, WaitingStates
<1>6. mark_delivery_started(inner, x, key)[id] \in {inner[id], [inner[id] EXCEPT !.delivery_started = TRUE]}
  BY Zenon DEF mark_delivery_started
<1>7. discard_unsent(inner, x, key)[id] = inner[id]
  BY Zenon DEF discard_unsent, CanDiscardUnsent
<1>8. next_state(inner, x)[id] \in {inner[id], [inner[id] EXCEPT !.state = to_next(inner[id].state)]}
  BY Zenon DEF next_state
<1> QED
  BY <1>1, <1>2, <1>3, <1>5, <1>6, <1>7, <1>8, ZenonT(30)

\* discard_unsent and clean_finished_items never drop a handshake that has begun and
\* is not finished: it leaves the table only when the session is deleted or overwritten.
THEOREM HandshakesKept == Spec => StartedHandshakeKept
<1> DEFINE Kept == \A c \in sessions, id \in PacketIds :
                     /\ inflight[c][id].state \in WaitingStates
                     /\ inflight[c][id].delivery_started
                     /\ inflight'[c][id] = NoItem
                     => SessionEnds(c)
<1>1. TypeOK /\ [Next]_storageVars => [Kept]_storageVars
  <2> SUFFICES ASSUME TypeOK, Next,
                      NEW c \in sessions, NEW id \in PacketIds,
                      inflight[c][id].state \in WaitingStates, inflight[c][id].delivery_started,
                      ~SessionEnds(c)
               PROVE  inflight'[c][id] # NoItem
    BY Zenon
  <2>1. inflight \in [Clients -> [PacketIds -> Items(Keys)]] /\ c \in Clients
    BY Zenon DEF TypeOK
  <2>2. inflight[c][id] # NoItem
    BY DEF WaitingStates, NoItem
  <2>3. ASSUME inflight'[c] = inflight[c] PROVE inflight'[c][id] # NoItem
    BY <2>2, <2>3, Zenon
  <2>4. ASSUME NEW x \in Clients, NEW table, inflight' = [inflight EXCEPT ![x] = table],
               x = c => table[id] # NoItem
        PROVE  inflight'[c][id] # NoItem
    BY <2>1, <2>2, <2>4, Zenon
  <2>5. PICK x \in Clients : \/ SessionEnds(x) \/ InflightStep(x) \/ PendingStep(x)
                            \/ SubscriptionStep(x) \/ ConnectionStep(x)
    BY Zenon DEF Next
  <2>6. CASE SessionEnds(x)
    <3>1. x # c /\ inflight' = [inflight EXCEPT ![x] = EmptyInflight]
      BY <2>6 DEF SessionEnds, CreateSessionState, DeleteSessionState
    <3> QED
      BY <2>4, <3>1, Zenon
  <2>7. CASE InflightStep(x)
    <3>1. ASSUME NEW y \in PacketIds, NEW qos \in {1, 2}, NEW key \in Keys, InflightRegisterRxPacket(x, y, qos, key)
          PROVE  inflight'[c][id] # NoItem
      <4>1. RxItem(qos, key) # NoItem
        BY Zenon DEF RxItem, NoItem
      <4>2. x = c => register_with_rx_packet(inflight[x], y, qos, key)[id] # NoItem
        BY <2>1, <2>2, <4>1, Zenon DEF register_with_rx_packet
      <4> QED
        BY <2>1, <2>4, <3>1, <4>2, Zenon DEF InflightRegisterRxPacket
    <3>2. ASSUME NEW y \in PacketIds, NEW qos \in {1, 2}, NEW key \in Keys, NEW deferred \in BOOLEAN,
                 InflightRegisterTxPacket(x, y, qos, key, deferred)
          PROVE  inflight'[c][id] # NoItem
      <4>1. x = c => register_with_tx_packet(inflight[x], y, qos, key, deferred)[id] # NoItem
        BY <2>1, StartedItemStays
      <4> QED
        BY <2>1, <2>4, <3>2, <4>1, Zenon DEF InflightRegisterTxPacket
    <3>3. ASSUME NEW y \in PacketIds, NEW key \in Keys, InflightStartDelivery(x, y, key)
          PROVE  inflight'[c][id] # NoItem
      <4>1. x = c => mark_delivery_started(inflight[x], y, key)[id] # NoItem
        BY <2>1, StartedItemStays, Zenon
      <4> QED
        BY <2>1, <2>4, <3>3, <4>1, Zenon DEF InflightStartDelivery
    <3>4. ASSUME NEW y \in PacketIds, NEW key \in Keys, InflightDiscardUnsent(x, y, key)
          PROVE  inflight'[c][id] # NoItem
      <4>1. x = c => discard_unsent(inflight[x], y, key)[id] # NoItem
        BY <2>1, StartedItemStays, Zenon
      <4> QED
        BY <2>1, <2>4, <3>4, <4>1, Zenon DEF InflightDiscardUnsent
    <3>5. ASSUME NEW y \in PacketIds, InflightNextState(x, y)
          PROVE  inflight'[c][id] # NoItem
      <4>1. inflight[c][id].packet_key \in Keys
        BY <2>1, <2>2, Zenon DEF Items
      <4>2. x = c => next_state(inflight[x], y)[id] # NoItem
        BY <2>1, <4>1, StartedItemStays, Zenon
      <4> QED
        BY <2>1, <2>4, <3>5, <4>2, Zenon DEF InflightNextState
    <3>6. ASSUME InflightCleanFinishItems(x)
          PROVE  inflight'[c][id] # NoItem
      <4>1. x = c => clean_finished_items(inflight[x])[id] = inflight[c][id]
        BY <2>1, Zenon DEF clean_finished_items, WaitingStates
      <4> QED
        BY <2>1, <2>2, <2>4, <3>6, <4>1, Zenon DEF InflightCleanFinishItems
    <3> QED
      BY <2>7, <3>1, <3>2, <3>3, <3>4, <3>5, <3>6, Zenon DEF InflightStep
  <2>8. CASE PendingStep(x) \/ SubscriptionStep(x) \/ ConnectionStep(x)
    <3>1. inflight' = inflight
      BY <2>8, Zenon DEF PendingStep, AppendToPendingQueue, PopFromPendingQueue, SubscriptionStep, SubscribeTopic,
         UnsubscribeTopic, ConnectionStep, UpdateSessionConnectionState
    <3> QED
      BY <2>3, <3>1, Zenon
  <2> QED
    BY <2>5, <2>6, <2>7, <2>8, Zenon
<1> QED
  BY <1>1, TypeCorrect, PTL DEF Spec, StartedHandshakeKept
===============================================================================
