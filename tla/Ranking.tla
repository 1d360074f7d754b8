------------------------------ MODULE Ranking -------------------------------
(***************************************************************************)
(* How a hand ranks its players (rankPlayers of texas/core/game.go): those  *)
(* who have not discarded are put into groups of equal hands, in the order  *)
(* in which Go happens to range over the map of players, and the groups are *)
(* sorted by Cmp of their first members.                                    *)
(*                                                                         *)
(* Game leaves the ranking open (HandRanks) and HandMatcher compares two    *)
(* hands; this module is what lies between them.                            *)
(***************************************************************************)
EXTENDS ChipPoolOps, HandMatcher

CONSTANT Hands      \* what the players may hold

ASSUME HandsAssumption == Hands \subseteq HandOf

VARIABLES hands,    \* GetHand of every player
          folded,   \* the players with Player.discarded
          unseen,     \* the players the range over g.players has not come to
          groups,   \* notDiscardedPlayers
          ranked    \* the groups are sorted and returned

rankVars == <<hands, folded, unseen, groups, ranked>>

StillIn == Players \ folded

\* A hand with one player left ends in allDiscardedEnd and ranks nobody.
RankInit ==
  /\ hands \in [Players -> Hands]
  /\ folded \in SUBSET Players
  /\ Cardinality(folded) + 1 < Cardinality(Players)
  /\ unseen = Players
  /\ groups = <<>>
  /\ ranked = FALSE

\* Only the first member of a group is compared.
SameHand(group, p) == Cmp(hands[group[1]], hands[p]) = 0

\* The player goes to the first group of his hand, or opens one.
Placed(p) ==
  LET same == {i \in DOMAIN groups : SameHand(groups[i], p)}
  IN  IF same = {} THEN Append(groups, <<p>>)
      ELSE [groups EXCEPT ![CHOOSE i \in same : \A j \in same : i <= j] = Append(@, p)]

\* One turn of the loop over g.players.
Visit(p) ==
  /\ p \in unseen
  /\ unseen' = unseen \ {p}
  /\ groups' = IF p \in folded THEN groups ELSE Placed(p)
  /\ UNCHANGED <<hands, folded, ranked>>

\* (an error to look for: the largest hand goes last)
BeforeWhenSmaller(group, other) == Cmp(hands[group[1]], hands[other[1]]) = -1

\* The order given to sort.Slice.
Before(group, other) == Cmp(hands[group[1]], hands[other[1]]) = 1

\* sort.Slice: any order of the groups in which none stands behind one it is before.
Sort ==
  /\ unseen = {}
  /\ ~ranked
  /\ \E order \in Bijection(DOMAIN groups, DOMAIN groups) :
       /\ groups' = [i \in DOMAIN groups |-> groups[order[i]]]
       /\ \A i, j \in DOMAIN groups : i < j => ~Before(groups[order[j]], groups[order[i]])
  /\ ranked' = TRUE
  /\ UNCHANGED <<hands, folded, unseen>>

RankNext == (\E p \in Players : Visit(p)) \/ Sort

RankSpec == RankInit /\ [][RankNext]_rankVars

\* The place of a player in what rankPlayers returns, 0 if he is in no group.
PlaceOf(p) ==
  LET with == {i \in DOMAIN groups : p \in Range(groups[i])}
  IN  IF with = {} THEN 0 ELSE CHOOSE i \in with : TRUE

-----------------------------------------------------------------------------
\* Every variable has its type; the groups hold players who are still in and whom
\* the range has come to, each once.
RankTypeOK ==
  /\ hands \in [Players -> HandOf]
  /\ folded \subseteq Players /\ unseen \subseteq Players
  /\ groups \in Seq(Seq(StillIn \ unseen) \ {<<>>})
  /\ \A i \in DOMAIN groups : IsInjective(groups[i])
  /\ ranked \in BOOLEAN

\* Whatever the order in which the map is ranged over, the ranking that comes out
\* is one Game chooses from, and ranks two players by Cmp of their hands, though
\* only the first of a group was ever compared: no two groups have equal hands,
\* and no player is in two of them (rankPlayers).
RanksFollowHands ==
  ranked =>
    LET place == [p \in Players |-> PlaceOf(p)]
    IN  /\ place \in HandRanks(StillIn)
        /\ \A i, j \in DOMAIN groups : i # j => Range(groups[i]) \cap Range(groups[j]) = {}
        /\ \A p, q \in StillIn : /\ place[p] < place[q] <=> Cmp(hands[p], hands[q]) = 1
                                 /\ place[p] = place[q] <=> Cmp(hands[p], hands[q]) = 0
=============================================================================
