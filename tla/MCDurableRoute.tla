---------------------------- MODULE MCDurableRoute ----------------------------
(* A finite instance of DurableRoute for TLC.  Behaviours in which tasks      *)
(* overlap are followed for one retry and without crashes: DurableRouteProofs *)
(* proves what is claimed of them for any number of tasks and crashes.        *)
EXTENDS DurableRoute, TLC

CONSTANTS d1, d2, p1

\* A new task takes the first place if both are free: which one makes no difference.
FirstFree == dispatch[d1] = Idle /\ dispatch[d2] = Idle => dispatch'[d2] = Idle

Followed == overlapped => now <= 1 /\ crashes = 0 /\ ~packet_expires

MCSpec == Init /\ [][Next /\ FirstFree /\ Followed']_vars /\ Fairness
===============================================================================
