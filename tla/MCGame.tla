------------------------------- MODULE MCGame -------------------------------
(***************************************************************************)
(* Bounds for checking Game.                                               *)
(***************************************************************************)
EXTENDS Game

\* Bound of the runs that keep all stacks: chips are bet before the flop and on
\* the river, on the flop and the turn players check, discard or time out.
BetsFirstAndLast == roundMax[2] = 0 /\ roundMax[3] = 0

\* Bound of the run that follows a hand to its end: one chip at most is bet on the
\* river, and only hands the property is about are followed: of the others its
\* premise is false.
SmallLastBets == BetsFirstAndLast /\ roundMax[4] <= 1 /\ allInned = {} /\ OpenerIn
=============================================================================
