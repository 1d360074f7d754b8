----------------------------- MODULE MCWsPeers ------------------------------
(***************************************************************************)
(* Bounds for checking WsPeers: the connections are those of one user, so   *)
(* that every one of them meets the others' peers.                          *)
(***************************************************************************)
EXTENDS WsPeers

CONSTANTS c1, c2, u1

AllOfOne == [c \in Conns |-> u1]
=============================================================================
