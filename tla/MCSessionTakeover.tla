-------------------------- MODULE MCSessionTakeover --------------------------
\* An instance of SessionTakeover for TLC.  Node 1 leads the raft groups; one
\* CONNECT resumes a session at a follower, the other starts a persistent or a
\* clean one at the leader.  With two persistent sessions one request fails
\* and the follower crashes, or either, or neither.
EXTENDS SessionTakeover

\* Every CONNECT arrives at a node of its own.
SpreadHome == [a \in Connects |-> IF a = "a" THEN 2 ELSE 1]

ResumeAndOther ==
  {[a \in Connects |-> IF a = "a" THEN "resume" ELSE other] : other \in {"fresh", "clean"}}

MCSpec == Init /\ [][Next /\ (Disturbed => kind["b"] = "fresh")']_vars /\ Fairness
===============================================================================
