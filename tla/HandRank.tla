------------------------------ MODULE HandRank ------------------------------
(***************************************************************************)
(* The analyst that tells what a hand of five to seven cards is worth:     *)
(* texas/core/hand_processor (hand_analyst2.go, poker.go, hand.go), called *)
(* by Player.GetHand when the game ranks its players.                      *)
(*                                                                         *)
(* The analyst is handed the cards one by one and keeps them sorted in     *)
(* several ways; at the last card it lays out a chain of checks, from the  *)
(* largest hand the counts allow downwards, and runs it until a check      *)
(* succeeds.  An action stands for one card or for one check.              *)
(*                                                                         *)
(* The code adds up weights of faces multiplied by 10, 10^3, 10^6, 10^10    *)
(* and 10^15; here a weight is the tuple of what stands before each        *)
(* multiplier, the largest first, with the multiplier 1 of a straight at   *)
(* the end.  WeightsCompare of OperatorProofs shows that the sums compare  *)
(* as the tuples do.                                                       *)
(*                                                                         *)
(* One of the cards may be the wild card ("Xn", HandStrToHand refuses a    *)
(* second): it stands for the card that makes the hand best.  A holdem     *)
(* game never deals it (MakeDeckOfCards(false), game.go:263); the hands    *)
(* that the command line compares have it.                                 *)
(***************************************************************************)
EXTENDS PokerRules, HandMatcher

CONSTANT
  Deals     \* the hands to deal: from which cards, and how many (totalPokerCount)

Ace == 13
Colors == {"s", "h", "d", "c"}
Card == [face : Faces, color : Colors]
LaiZi == [face |-> 0, color |-> "z"]

ASSUME DealsAssumption ==
  \A d \in Deals : /\ d.cards \subseteq Card \union {LaiZi}
                   /\ d.total \in 5..7 /\ Cardinality(d.cards) >= d.total

NoMore == -1   \* what "next" is once a hand is found

VARIABLES
  deal,           \* what this hand is dealt from
  originPokers,   \* the cards touched so far
  tmpPokers,      \* the same cards, sorted
  th,             \* th[c]: the cards of color c, sorted (sTH hTH dTH cTH)
  shunZi,         \* one card of each face, sorted
  seems,          \* moreThanOnes: how often a face was seen, 0 unless twice
  playChain,      \* the checks to make
  next,           \* the check to make now
  handType,       \* the result: what kind of hand it is,
  handWeight,     \* how it compares with others of its kind,
  checkedPokers   \* and its five cards

vars == <<deal, originPokers, tmpPokers, th, shunZi, seems, playChain, next,
          handType, handWeight, checkedPokers>>

dealing == <<deal, originPokers, tmpPokers, th, shunZi, seems>>

NoWeight == <<0, 0, 0, 0, 0, 0>>

Total == deal.total
HaveLz == LaiZi \in originPokers

\* The card the wild one stands for: it takes the color of another card.
BornALaiZi(face, color) == [face |-> face, color |-> color, bornByLz |-> TRUE]
IsBorn(p) == "bornByLz" \in DOMAIN p

-----------------------------------------------------------------------------
(* Touching a card                                                         *)

\* (an error to look for: the new card always goes last)
SortAppendPokerLast(pokers, new) == Append(pokers, new)

\* A card goes before the first that is larger, or to the end.
SortAppendPoker(pokers, new) ==
  LET larger == {i \in DOMAIN pokers : new.face < pokers[i].face}
  IN  InsertAt(pokers, Min(larger \union {Len(pokers) + 1}), new)

SortAppendPokerWithoutSeem(pokers, new) ==
  IF \E i \in DOMAIN pokers : pokers[i].face = new.face
  THEN pokers
  ELSE SortAppendPoker(pokers, new)

FacesOf(pokers) == [i \in DOMAIN pokers |-> pokers[i].face]

\* How often a face occurs once the new card is among the others; a face that
\* is alone is not in the table.
RefreshSeems(table, pokers, face) ==
  LET zhang == Cardinality({i \in DOMAIN pokers : pokers[i].face = face}) + 1
  IN  IF zhang = 1 THEN table ELSE [table EXCEPT ![face] = zhang]

-----------------------------------------------------------------------------
(* Laying out the chain.  The sorted lists of pairs, triples and quadruples *)
(* are sets here, read at their largest.                                   *)

Seen(table, n) == {f \in Faces : table[f] = n}

\* (an error to look for: the wild card is forgotten)
PreCheckHaveHLWithoutLz(table, lz) ==
  /\ Seen(table, 4) = {}
  /\ \/ Seen(table, 2) # {} /\ Seen(table, 3) # {}
     \/ Seen(table, 2) = {} /\ Cardinality(Seen(table, 3)) > 1

\* With the wild card three of a kind become four, so two pairs make a full house.
PreCheckHaveHL(table, lz) ==
  /\ Seen(table, 4) = {}
  /\ IF lz
     THEN Cardinality(Seen(table, 2)) > 1 /\ Seen(table, 3) = {}
     ELSE \/ Seen(table, 2) # {} /\ Seen(table, 3) # {}
          \/ Seen(table, 2) = {} /\ Cardinality(Seen(table, 3)) > 1

PreCheckHaveTZ4(table, lz) == Seen(table, 4) # {} \/ (lz /\ Seen(table, 3) # {})

Link(there, check) == IF there THEN <<check>> ELSE <<>>

PlayChainForTH(table, lz) ==
  <<TH>> \o Link(PreCheckHaveTZ4(table, lz), ST4) \o Link(PreCheckHaveHL(table, lz), HL)

PlayCForUnderTH(table) ==
  Link(Seen(table, 4) # {}, ST4) \o Link(PreCheckHaveHL(table, FALSE), HL) \o <<SZ>>
    \o Link(Seen(table, 3) # {}, ST3)
    \o Link(Cardinality(Seen(table, 2)) > 1, LD)
    \o Link(Seen(table, 2) # {}, YD) \o <<DZ>>

\* With the wild card two pairs never stay two pairs, and a pair there is always.
PlayCForUnderTHWithLZ(table) ==
  Link(PreCheckHaveTZ4(table, TRUE), ST4) \o Link(PreCheckHaveHL(table, TRUE), HL) \o <<SZ>>
    \o Link(Seen(table, 3) = {} /\ Seen(table, 2) # {}, ST3) \o <<YD>>

ChangePlayChain(table, byColor, lz) ==
  IF \E c \in Colors : Len(byColor[c]) >= (IF lz THEN 4 ELSE 5)
  THEN PlayChainForTH(table, lz)
  ELSE IF lz THEN PlayCForUnderTHWithLZ(table) ELSE PlayCForUnderTH(table)

\* Where the chain goes on when a check leaves "next" alone.
DefaultNext ==
  LET at == CHOOSE i \in DOMAIN playChain : playChain[i] = next
  IN  IF at < Len(playChain) THEN playChain[at + 1] ELSE NoMore

-----------------------------------------------------------------------------
(* Straights                                                               *)

\* What a look at some sorted cards finds: a row, or where they break.
InRow(cards) == [row |-> cards, break |-> 0]
Broken(at) == [row |-> <<>>, break |-> at]

CheckIsSZ2(five) ==
  LET broken == {i \in 1..4 : five[i + 1].face # five[i].face + 1}
  IN  IF broken = {} THEN InRow(five) ELSE Broken(Min(broken))

\* From the last of four sorted cards down: the wild card fills one gap of one
\* face, a second gap or a wider one breaks the row.  Without a gap it goes
\* after the last card, or to the T of TJQKA.
CheckIsSZ2WithLz(four) ==
  LET dis(i) == four[i + 1].face - four[i].face
      gaps   == {i \in 1..3 : dis(i) = 2}
      breaks == {i \in 1..3 : dis(i) > 2 \/ (i \in gaps /\ \E j \in gaps : j > i)}
      face   == IF gaps # {} THEN four[Max(gaps)].face + 1
                ELSE IF four[4].face = Ace THEN Ace - 4 ELSE four[4].face + 1
  IN  IF breaks = {}
      THEN InRow(SortAppendPokerWithoutSeem(four, BornALaiZi(face, four[4].color)))
      ELSE Broken(IF dis(Max(breaks)) > 2 THEN Max(breaks) ELSE Max(gaps))

\* The largest row that five cards make in a sorted list, or four and the wild
\* card; <<>> if there is none.  After a break the search goes on with the card
\* before it as the last.
CutSZForCheck(pokers, n) ==
  LET Check(cards) == IF n = 5 THEN CheckIsSZ2(cards) ELSE CheckIsSZ2WithLz(cards)
      found == [last \in n..Len(pokers) |-> Check(SubSeq(pokers, last - n + 1, last))]
      upTo[last \in 0..Len(pokers)] ==
        IF last < n THEN <<>>
        ELSE IF found[last].break = 0 THEN found[last].row
        ELSE upTo[last - n + found[last].break]
  IN  upTo[Len(pokers)]

\* A2345, the 5 last.
Smallest == <<Ace, 1, 2, 3, 4>>

\* A2345 of a list, the wild card in at most so many of its places.
SmallestSZ(pokers, mayLack) ==
  LET at(f) == {i \in DOMAIN pokers : pokers[i].face = f}
      lack  == {k \in 1..5 : at(Smallest[k]) = {}}
  IN  IF Cardinality(lack) > mayLack THEN <<>>
      ELSE [k \in 1..5 |-> IF k \in lack
                           THEN BornALaiZi(Smallest[k], pokers[1].color)
                           ELSE pokers[Max(at(Smallest[k]))]]

HaveSmallestSZ(pokers) == SmallestSZ(pokers, 0)
HaveSmallestSZWithLz(pokers) == SmallestSZ(pokers, 1)

HaveA == \E p \in originPokers : p.face = Ace

CheckSZNotFormat(pokers) ==
  LET row == CutSZForCheck(pokers, 5)
  IN  IF row = <<>> /\ HaveA /\ Len(pokers) > 4 THEN HaveSmallestSZ(pokers) ELSE row

CheckSZNotFormatWithLz(pokers) ==
  LET row == CutSZForCheck(pokers, 4)
  IN  IF row = <<>> /\ Len(pokers) > 3 THEN HaveSmallestSZWithLz(pokers) ELSE row

RowIn(pokers) == IF HaveLz THEN CheckSZNotFormatWithLz(pokers) ELSE CheckSZNotFormat(pokers)

\* The weight of a straight is its last card; of A2345 it is 0, provided that
\* all the cards of the hand are those five.
WeightOfSZ(pokers) ==
  IF HaveA /\ FacesOf(tmpPokers) = <<1, 2, 3, 4, Ace>>
  THEN NoWeight
  ELSE [NoWeight EXCEPT ![6] = pokers[Len(pokers)].face]

IsBiggestSZ(pokers) == pokers # <<>> /\ pokers[5].face = Ace /\ pokers[4].face = Ace - 1

BiggerSZ(first, second) ==
  IF first = <<>> \/ (second # <<>> /\ Last(first).face < Last(second).face)
  THEN second
  ELSE first

\* The straight of one color, searched in the order of the code: the largest
\* there can be ends the search.
SearchColor(row, c) == IF IsBiggestSZ(row) THEN row ELSE BiggerSZ(row, RowIn(th[c]))

RowOfColor ==
  SearchColor(SearchColor(SearchColor(SearchColor(<<>>, "s"), "h"), "c"), "d")

-----------------------------------------------------------------------------
(* Picking the cards of a hand                                             *)

\* The places, from the last down, of the cards of the given faces and of the
\* n largest others.
PlacesOf(faces, n) ==
  LET Other(i) == tmpPokers[i].face \notin faces
  IN  {i \in DOMAIN tmpPokers :
         Other(i) => Cardinality({j \in DOMAIN tmpPokers : j > i /\ Other(j)}) < n}

Upwards(places) == AtPlaces(tmpPokers, places)

Downwards(places) == Reverse(Upwards(places))

\* The first five of the cards at these places, from the last down; the wild
\* card comes right before the first of the face it makes one more of.
FiveDownwards(places, lzFace) ==
  LET pokers == Downwards(places)
      first  == CHOOSE i \in DOMAIN pokers :
                  pokers[i].face = lzFace /\ \A j \in 1..(i - 1) : pokers[j].face # lzFace
      all    == IF HaveLz
                THEN InsertAt(pokers, first, BornALaiZi(lzFace, pokers[first].color))
                ELSE pokers
  IN  SubSeq(all, 1, 5)

\* The faces of the cards that have none of the given ones.
Singles(pokers, faces) ==
  FacesOf(AtPlaces(pokers, {i \in DOMAIN pokers : pokers[i].face \notin faces}))

Found(kind, weight, pokers) ==
  /\ handType' = kind
  /\ handWeight' = weight
  /\ checkedPokers' = pokers
  /\ UNCHANGED <<dealing, playChain>>

\* The largest cards weigh most.
WeightOfDZ(pokers) == Reverse(FacesOf(pokers)) \o <<0>>

-----------------------------------------------------------------------------

Init ==
  /\ deal \in Deals
  /\ originPokers = {}
  /\ tmpPokers = <<>>
  /\ th = [c \in Colors |-> <<>>]
  /\ shunZi = <<>>
  /\ seems = [f \in Faces |-> 0]
  /\ playChain = <<>>
  /\ next = NoMore
  /\ handType = DZ
  /\ handWeight = NoWeight
  /\ checkedPokers = <<>>

\* doAnalysis of one card; the last one also lays out the chain.
TouchAPoker(poker) ==
  /\ Cardinality(originPokers) < Total
  /\ originPokers' = originPokers \union {poker}
  /\ IF poker = LaiZi
     THEN UNCHANGED <<tmpPokers, th, shunZi, seems>>
     ELSE /\ tmpPokers' = SortAppendPoker(tmpPokers, poker)
          /\ th' = [th EXCEPT ![poker.color] = SortAppendPoker(@, poker)]
          /\ shunZi' = SortAppendPokerWithoutSeem(shunZi, poker)
          /\ seems' = RefreshSeems(seems, tmpPokers, poker.face)
  /\ IF Cardinality(originPokers) + 1 = Total
     THEN playChain' = ChangePlayChain(seems', th', HaveLz') /\ next' = playChain'[1]
     ELSE UNCHANGED <<playChain, next>>
  /\ UNCHANGED <<deal, handType, handWeight, checkedPokers>>

IsDZ ==
  LET pokers == SubSeq(tmpPokers, Total - 4, Total)
  IN  /\ next = DZ
      /\ next' = NoMore
      /\ Found(DZ, WeightOfDZ(pokers), pokers)

\* The first of moreThanOnes: there is one pair only when this check is made.
\* With the wild card there is none, and it makes one with the largest card.
CheckYD ==
  LET dz == IF HaveLz THEN Last(tmpPokers).face ELSE Max(Seen(seems, 2))
      pokers == IF HaveLz
                THEN Append(SubSeq(tmpPokers, Total - 4, Total - 1),
                            BornALaiZi(dz, Last(tmpPokers).color))
                ELSE Upwards(PlacesOf({dz}, 3))
      singles == Singles(pokers, {dz})
  IN  /\ next = YD
      /\ next' = NoMore
      /\ Found(YD, <<dz, singles[3], singles[2], singles[1], 0, 0>>, pokers)

CheckLD ==
  LET bigger == Max(Seen(seems, 2))
      smaller == Max(Seen(seems, 2) \ {bigger})
      pokers == Downwards(PlacesOf({bigger, smaller}, 1))
  IN  /\ next = LD
      /\ next' = NoMore
      /\ Found(LD, <<bigger, smaller, Singles(pokers, {bigger, smaller})[1], 0, 0, 0>>, pokers)

CheckTZ3 ==
  LET dz == Max(Seen(seems, IF HaveLz THEN 2 ELSE 3))
      pokers == Reverse(FiveDownwards(PlacesOf({dz}, 2), dz))
      singles == Singles(pokers, {dz})
  IN  /\ next = ST3
      /\ next' = NoMore
      /\ Found(ST3, <<dz, 0, singles[2], singles[1], 0, 0>>, pokers)

CheckSZ ==
  LET row == RowIn(shunZi)
  IN  /\ next = SZ
      /\ IF row # <<>>
         THEN next' = NoMore /\ Found(SZ, WeightOfSZ(row), row)
         ELSE /\ next' = DefaultNext
              /\ UNCHANGED <<dealing, playChain, handType, handWeight, checkedPokers>>

\* The n largest of the color that has so many.
LargestOfTH(n) ==
  LET color == CHOOSE c \in Colors : Len(th[c]) >= n
  IN  SubSeq(th[color], Len(th[color]) - n + 1, Len(th[color]))

\* (an error to look for: the wild card takes the color of the largest card)
ResultPokersForTHWithLzAnyColor ==
  LET four == LargestOfTH(4)
  IN  SortAppendPokerWithoutSeem(four,
        BornALaiZi(Max(Faces \ ToSet(FacesOf(four))), Last(tmpPokers).color))

\* With the four largest of the color the wild card is its largest card that is
\* not among them.
ResultPokersForTHWithLz ==
  LET four == LargestOfTH(4)
  IN  SortAppendPokerWithoutSeem(four,
        BornALaiZi(Max(Faces \ ToSet(FacesOf(four))), four[4].color))

\* The chain goes on after a mere flush.
CheckTH ==
  /\ next = TH
  /\ IF RowOfColor # <<>>
     THEN /\ next' = NoMore
          /\ IF IsBiggestSZ(RowOfColor)
             THEN Found(HJTHS, NoWeight, RowOfColor)
             ELSE Found(THS, WeightOfSZ(RowOfColor), RowOfColor)
     ELSE LET pokers == IF HaveLz THEN ResultPokersForTHWithLz ELSE LargestOfTH(5)
          IN  next' = DefaultNext /\ Found(TH, WeightOfDZ(pokers), pokers)

\* (an error to look for: all the cards of the smaller face are taken)
CheckHLUncounted ==
  LET dzB == Max(Seen(seems, IF HaveLz THEN 2 ELSE 3))
      dzS == Max((Seen(seems, 2) \union Seen(seems, 3)) \ {dzB})
  IN  /\ next = HL
      /\ next' = NoMore
      /\ Found(HL, <<dzB, dzS, 0, 0, 0, 0>>, Downwards(PlacesOf({dzB, dzS}, 0)))

CheckHL ==
  LET dzB == Max(Seen(seems, IF HaveLz THEN 2 ELSE 3))
      dzS == Max((Seen(seems, 2) \union Seen(seems, 3)) \ {dzB})
      Of(f) == PlacesOf({f}, 0)
      two == {i \in Of(dzS) : Cardinality({j \in Of(dzS) : j > i}) < 2}
  IN  /\ next = HL
      /\ next' = NoMore
      /\ Found(HL, <<dzB, dzS, 0, 0, 0, 0>>, FiveDownwards(Of(dzB) \union two, dzB))

\* Four of a kind and the wild card may leave no place for a fifth face.
CheckTZ4 ==
  LET big == Max(Seen(seems, 4) \union (IF HaveLz THEN Seen(seems, 3) ELSE {}))
      pokers == FiveDownwards(PlacesOf({big}, 1), big)
      singles == Singles(pokers, {big})
  IN  /\ next = ST4
      /\ next' = NoMore
      /\ Found(ST4, <<big, IF singles = <<>> THEN 0 ELSE singles[1], 0, 0, 0, 0>>, pokers)

Finished == Cardinality(originPokers) = Total /\ next = NoMore

Next ==
  \/ \E poker \in deal.cards \ originPokers : TouchAPoker(poker)
  \/ IsDZ \/ CheckYD \/ CheckLD \/ CheckTZ3 \/ CheckSZ \/ CheckTH \/ CheckHL \/ CheckTZ4
  \/ Finished /\ UNCHANGED vars

Spec == Init /\ [][Next]_vars

-----------------------------------------------------------------------------
(* Properties                                                              *)

\* ExportHand: the wild card itself is shown for the one it stands for.
ExportHand == [i \in DOMAIN checkedPokers |->
                 IF IsBorn(checkedPokers[i]) THEN LaiZi ELSE checkedPokers[i]]

\* The type invariant: every list is sorted, the cards touched are in
\* tmpPokers once each, the next check is one of the chain's (defaultNext
\* panics otherwise), and hands of one kind weigh on one scale (OneScale).
TypeOK ==
  LET Sorted(s) == \A i \in 1..(Len(s) - 1) : s[i].face <= s[i + 1].face
  IN  /\ deal \in Deals
      /\ originPokers \subseteq deal.cards
      /\ Sorted(tmpPokers) /\ Sorted(shunZi) /\ \A c \in Colors : Sorted(th[c])
      /\ ToSet(tmpPokers) = originPokers \ {LaiZi}
      /\ Len(tmpPokers) = Cardinality(originPokers \ {LaiZi})
      /\ seems \in [Faces -> 0..4]
      /\ ToSet(playChain) \subseteq HandType
      /\ next \in ToSet(playChain) \union {NoMore}
      /\ handType \in HandType
      /\ Len(handWeight) = 6 /\ ToSet(handWeight) \subseteq 0..Ace
      /\ IF handType \in {SZ, THS}
         THEN \A i \in 1..5 : handWeight[i] = 0
         ELSE handWeight[6] = 0

\* What a weight tells about a hand of its kind: its places, the empty ones
\* left out.  The straight A2345 is told in two ways, by the weight of its 5 or
\* by none; RankIsRight says when by which.
Told ==
  IF handType \in {SZ, THS} /\ handWeight = NoWeight
  THEN <<4>>
  ELSE AtPlaces(handWeight, {i \in DOMAIN handWeight : handWeight[i] # 0})

\* Two hands with the wild card the analyst weighs wrong: four of a kind, where
\* it makes five of them and takes the place of the best fifth card; and 2345A,
\* where it makes the row 23456, which is taken for A2345.
FourAndLz == HaveLz /\ Seen(seems, 4) # {}
LzLiftsSmallest == HaveLz /\ FacesOf(tmpPokers) = <<1, 2, 3, 4, Ace>>

\* Kind and weight of the hand are those of its best five cards by the rules
\* of poker, the wild card standing for whatever makes it best, for any cards
\* touched in any order: the chain never stops at a smaller hand, never leaves
\* a larger one out, and no weight takes the wrong card for a kicker
\* (doAnalysis and its checks).  A straight A2345 weighs nothing if it is all
\* the cards of a hand without the wild card, and as a straight to the 5 in any
\* other hand (getWeightOfSZ).  So Match says of two hands of as many cards,
\* neither of them one of the two above, what the rules say, with one
\* exception: of five cards, A2345 made with the wild card weighs more than
\* A2345 without it, where the rules see a tie.
RankIsRight ==
  Finished /\ ~FourAndLz /\ ~LzLiftsSmallest =>
    /\ [kind |-> handType, ranks |-> Told] =
         IF HaveLz THEN BestValueWithLz(originPokers \ {LaiZi}) ELSE BestValue(originPokers)
    /\ handType \in {SZ, THS} /\ Told = <<4>> =>
         (handWeight = NoWeight <=> Total = 5 /\ ~HaveLz)

\* Whatever check ends the chain, what is shown as the hand (exportHand) are five
\* different cards of the player or the board, the wild card among them at most
\* once and only if the player has it: no check picks a place twice or runs out
\* of cards.
HandIsOfFiveCards ==
  Finished => /\ ToSet(ExportHand) \subseteq originPokers
              /\ Len(ExportHand) = 5
              /\ Cardinality(ToSet(ExportHand)) = 5

\* The five cards shown are by themselves worth what the hand was found to be
\* worth, the wild card as what it stands for (checkedPokers and the weight are
\* put together apart from each other).
CheckedMakeTheHand ==
  Finished /\ ~FourAndLz /\ ~LzLiftsSmallest =>
    Value(ToSet(checkedPokers)) = [kind |-> handType, ranks |-> Told]

\* What hand_analyst2.go:654 says of the straight A2345: it is the smallest,
\* so its weight is 0.
SmallestWeighsNothing ==
  (Finished /\ FacesOf(checkedPokers) = Smallest) => handWeight = NoWeight

=============================================================================
