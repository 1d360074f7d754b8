----------------------------- MODULE MCChipPool -----------------------------
(***************************************************************************)
(* Model values and symmetry for checking ChipPool.                         *)
(***************************************************************************)
EXTENDS ChipPool, TLC

Symmetry == Permutations(Players)

\* Bound: three rounds of betting.  What a bet does to the pools depends on the
\* round only through its highest bet.
ThreeRounds == round <= 3
=============================================================================
