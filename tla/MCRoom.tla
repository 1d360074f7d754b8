------------------------------- MODULE MCRoom -------------------------------
(***************************************************************************)
(* Bounds for checking the room: two users with several connections, one    *)
(* more than there are seats.                                               *)
(***************************************************************************)
EXTENDS Room

CONSTANTS u1, u2, c1, c2, c3, c4, c5

TwoOfOne == [c \in Conns |-> IF c \in {c1, c2} THEN u1 ELSE u2]
=============================================================================
