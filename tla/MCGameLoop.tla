----------------------------- MODULE MCGameLoop -----------------------------
(***************************************************************************)
(* Bounds for checking GameLoop: turns of two players in one round, the     *)
(* first of whom has the third turn too.                                    *)
(***************************************************************************)
EXTENDS GameLoop

TurnKeys == <<"a", "b", "a">>
=============================================================================
