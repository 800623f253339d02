--------------------------- MODULE MCRaftGateway ---------------------------
(* A cluster of three nodes and two requests. *)
EXTENDS RaftGateway

CONSTANTS n1, n2, n3
MCNodes == {n1, n2, n3}
MCStarting == {n3}
=============================================================================
