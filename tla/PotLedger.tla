----------------------------- MODULE PotLedger -----------------------------
(***************************************************************************)
(* What a chip pool promises, whatever pools it keeps inside: a ledger of   *)
(* what every player has put into the pot.  A stake raises the account of   *)
(* one player; nothing else ever changes an account.                        *)
(***************************************************************************)
EXTENDS Naturals

CONSTANTS Players,      \* the seats of the hand
          MaxBringIn    \* the largest stack a player can bring to the table

VARIABLE pot

Init == pot = [p \in Players |-> 0]

Stake(p, amount) == pot' = [pot EXCEPT ![p] = @ + amount]

Next == \E p \in Players, amount \in 1..MaxBringIn : Stake(p, amount)

Spec == Init /\ [][Next]_pot
=============================================================================
