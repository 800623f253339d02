------------------------------- MODULE Inflight -------------------------------
(***************************************************************************)
(* The QoS 1 / QoS 2 handshake table of one session (broker/src/inflight.rs). *)
(* `inner: HashMap<u16, InflightItem>` is a total function from packet     *)
(* identifiers to items; an identifier missing from the map holds NoItem.  *)
(* ONE table serves both directions: packets received from the client      *)
(* (rx) and packets sent to it (tx).  The retry timestamp last_modified is *)
(* left out: it decides when a packet is retransmitted, never its state.   *)
(***************************************************************************)
EXTENDS Naturals

\* Stands for an absent `packet_key`; never a payload key.
CONSTANT NoKey

WaitingStates == {"WaitPubrel", "WaitPubcomp", "WaitPubrec", "WaitPuback"}

InflightState == WaitingStates \cup {"Finish"}

NoItem == [state |-> "Absent", packet_key |-> NoKey, delivery_started |-> FALSE]

Items(Keys) ==
  {NoItem} \cup [state : InflightState, packet_key : Keys, delivery_started : BOOLEAN]

\* Mutant: an identifier may be handed out while its last message is unfinished.
allocate_packet_id_Finished(inner) ==
  LET free == {id \in DOMAIN inner : inner[id].state \in {"Absent", "WaitPuback"}}
  IN  {id \in free : \A other \in free : id <= other}

\* The lowest free identifier, as a set: empty when all are taken.
allocate_packet_id(inner) ==
  LET free == {id \in DOMAIN inner : inner[id].state = "Absent"}
  IN  {id \in free : \A other \in free : id <= other}

packet_id_exists(inner, id) == inner[id].state # "Absent"

\* The item a PUBLISH received from the client leaves behind.
RxItem(qos, key) ==
  [state |-> IF qos = 2 THEN "WaitPubrel" ELSE "Finish",
   packet_key |-> key, delivery_started |-> TRUE]

\* Unconditional: an item already held under the identifier is replaced.
register_with_rx_packet(inner, id, qos, key) ==
  [inner EXCEPT ![id] = RxItem(qos, key)]

\* The item a PUBLISH sent to the client leaves behind; the caller has checked
\* that the identifier is free.  `deferred` postpones its first transmission.
TxItem(qos, key, deferred) ==
  [state |-> IF qos = 2 THEN "WaitPubrec" ELSE "WaitPuback",
   packet_key |-> key, delivery_started |-> ~deferred]

register_with_tx_packet(inner, id, qos, key, deferred) ==
  [inner EXCEPT ![id] = TxItem(qos, key, deferred)]

CanMarkStarted(inner, id, key) ==
  packet_id_exists(inner, id) /\ inner[id].packet_key = key

mark_delivery_started(inner, id, key) ==
  IF CanMarkStarted(inner, id, key)
    THEN [inner EXCEPT ![id].delivery_started = TRUE]
    ELSE inner

\* Mutant: a delivery that has started may be discarded too.
CanDiscardUnsent_Started(inner, id, key) ==
  inner[id].state \in {"WaitPuback", "WaitPubrec"} /\ inner[id].packet_key = key

CanDiscardUnsent(inner, id, key) ==
  /\ inner[id].state \in {"WaitPuback", "WaitPubrec"}
  /\ inner[id].packet_key = key
  /\ ~inner[id].delivery_started

discard_unsent(inner, id, key) ==
  IF CanDiscardUnsent(inner, id, key) THEN [inner EXCEPT ![id] = NoItem] ELSE inner

\* InflightItem::to_next, on the state alone.
to_next(state) ==
  CASE state = "WaitPubrec" -> "WaitPubcomp"
    [] state \in {"WaitPubrel", "WaitPubcomp", "WaitPuback", "Finish"} -> "Finish"
    [] OTHER -> "Absent"

next_state(inner, id) == [inner EXCEPT ![id].state = to_next(inner[id].state)]

clean_finished_items(inner) ==
  [id \in DOMAIN inner |-> IF inner[id].state = "Finish" THEN NoItem ELSE inner[id]]
===============================================================================
