--------------------------- MODULE SessionOwnership ---------------------------
(***************************************************************************)
(* What the cluster promises about one MQTT client: at any time at most    *)
(* one session instance owns the client, a later CONNECT always wins over  *)
(* an earlier one, and an owner loses the client only to a later CONNECT   *)
(* or after its own session has ended.                                     *)
(***************************************************************************)
EXTENDS Naturals

VARIABLES
  issued,   \* instance ids handed out so far
  owner,    \* the instance that owns the client, 0 for none
  live,     \* instances whose session is running
  ended     \* instances whose session has run and is over

abstractVars == <<issued, owner, live, ended>>

Init == issued = {} /\ owner = 0 /\ live = {} /\ ended = {}

\* A CONNECT takes the client over with an id greater than all before it.
Claim ==
  /\ owner' \in Nat \ {0}
  /\ \A i \in issued : i < owner'
  /\ issued' = issued \cup {owner'}
  /\ UNCHANGED <<live, ended>>

\* A session runs at most once, and only under an id that was issued.
Start(i) ==
  /\ i \in issued \ (live \cup ended)
  /\ live' = live \cup {i}
  /\ UNCHANGED <<issued, owner, ended>>

End(S) ==
  /\ S \subseteq live
  /\ live' = live \ S
  /\ ended' = ended \cup S
  /\ UNCHANGED <<issued, owner>>

Release ==
  /\ owner \in ended
  /\ owner' = 0
  /\ UNCHANGED <<issued, live, ended>>

Next ==
  \/ Claim
  \/ \E i \in issued : Start(i)
  \/ \E S \in SUBSET live : End(S)
  \/ Release

Spec == Init /\ [][Next]_abstractVars
===============================================================================
