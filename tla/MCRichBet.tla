----------------------------- MODULE MCRichBet ------------------------------
(***************************************************************************)
(* Bounds for checking RichBet: transactions with different bets, the third *)
(* of them of nothing.                                                      *)
(***************************************************************************)
EXTENDS RichBet, TLC

CONSTANTS t1, t2, t3

Chips == [tx \in Txs |-> IF tx = t1 THEN 50 ELSE IF tx = t2 THEN 60 ELSE 0]

\* The bet of nothing is made alone and early: beside another it is the other that
\* decides.
NothingAlone ==
  /\ block[t3] = 1 /\ betOn[t3] = 0 /\ t3 \notin invalidBet
  /\ (\E b \in betting \cup betInfo : b.tx = t3) =>
       \A b \in betting \cup betInfo : b.tx = t3
=============================================================================
