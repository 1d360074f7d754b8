----------------------------- MODULE MCHandRank -----------------------------
(* Deals for HandRank: seven cards from a deck rich in straights and        *)
(* flushes, at the two ends of the faces, and from one rich in cards of the *)
(* same face; six and seven of them with the wild card; and five, with it   *)
(* and without.  The hands of four players are ranked beside it.            *)
EXTENDS FirstAnalyst, Ranking

Cards(faces, colors) == {[face |-> f, color |-> c] : f \in faces, c \in colors}

\* 23456 and TJQKA in spades, 345A in hearts too.
Rows == Cards({1, 2, 3, 4, 5, 9, 10, 11, 12, 13}, {"s"}) \union Cards({2, 3, 4, 13}, {"h"})

\* 2 in four colors, K and A in three, and two 8s.
Sames == Cards({1}, Colors) \union Cards({12, 13}, {"s", "h", "c"})
           \union Cards({7}, {"s", "h"})

\* Gaps in two colors for the wild card to fill.
Gaps == Cards({1, 2, 4, 5, 10, 12, 13}, {"s"}) \union Cards({3, 4, 13}, {"h"})
          \union {LaiZi}

\* Pairs, triples and 2 in four colors for the wild card to join.
Joins == Cards({1}, Colors) \union Cards({8, 13}, {"s", "h", "c"}) \union Cards({6}, {"d"})
           \union {LaiZi}

\* Every kind of hand of five cards, with the wild card and without.
Fives == Cards({1, 2, 3, 4, 13}, {"s"}) \union Cards({1, 13}, {"h", "d"})
           \union Cards({5}, {"s", "h"}) \union Cards({13}, {"c"})
           \union {LaiZi}

SomeDeals == {[cards |-> Rows, total |-> 7], [cards |-> Sames, total |-> 7],
              [cards |-> Gaps, total |-> 6], [cards |-> Joins, total |-> 7],
              [cards |-> Fives, total |-> 5]}

\* What the players to rank hold: two hands of one kind, and one of a larger kind
\* that weighs no more than either.
FewHands == {[type |-> YD, weight |-> 1], [type |-> YD, weight |-> 2],
             [type |-> LD, weight |-> 1]}

\* The analysis of a hand and the ranking of the players share no variable, so
\* each is walked through from one state of the other.
OneTable == unseen = Players /\ folded = {} /\ \A p \in Players : hands[p].type = LD
OneDeal  == originPokers = {} /\ deal.total = 6

ShowdownInit == Init /\ RankInit /\ (OneTable \/ OneDeal)

ShowdownNext == \/ OneTable /\ Next /\ UNCHANGED rankVars
                \/ OneDeal /\ RankNext /\ UNCHANGED vars
                \/ OneDeal /\ ranked /\ UNCHANGED <<vars, rankVars>>

Showdown == ShowdownInit /\ [][ShowdownNext]_<<vars, rankVars>>
=============================================================================
