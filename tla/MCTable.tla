------------------------------ MODULE MCTable -------------------------------
(***************************************************************************)
(* Bounds for checking a table with its loop and its callers: two users,    *)
(* one of whom has not enough chips, each with a goroutine.                 *)
(***************************************************************************)
EXTENDS TableLoop

CONSTANTS u1, u2

OneEach == [c \in Callers |-> c]
=============================================================================
