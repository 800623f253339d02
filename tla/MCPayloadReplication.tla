------------------------- MODULE MCPayloadReplication -------------------------
(* A finite instance of PayloadReplication for TLC: a leader and two          *)
(* followers.  Short histories of one message are explored with all three,    *)
(* longer ones of two messages while one follower is out of reach.            *)
EXTENDS PayloadReplication, TLC

CONSTANTS l, f1, f2, k1, k2

MCNodes == {l, f1, f2}
MCKeys == {k1, k2}
MCSymmetry == Permutations({f1, f2}) \cup Permutations({k1, k2})

OutOfReach(n) ==
  /\ n # Leader /\ stored[n] = 0 /\ payloads[n] = {} /\ installing[n] = None /\ pushed[n] = 0
  /\ n \notin halted

Short == Len(log) <= 2 /\ \E key \in Keys : ~InLog(key) /\ \A n \in Nodes : key \notin payloads[n]
Long == snapshots <= 2 /\ \E n \in Nodes : OutOfReach(n)

MCSpec == Init /\ [][Next /\ (Short \/ Long)']_vars
===============================================================================
