---------------------------- MODULE FirstAnalyst ----------------------------
(***************************************************************************)
(* The analyst of five cards that was there before the one of HandRank     *)
(* (hand_processor/hand_analyst.go; Hand.analysis runs it).  It is the one  *)
(* whose chain the other took over, and has no wild card and nothing to    *)
(* choose: the five cards are the hand.  Here it is a function of the      *)
(* cards in the order they are touched, set beside what HandRank finds.    *)
(***************************************************************************)
EXTENDS HandRank

\* A new Analyst: its cards sorted (checkedPokers), moreThanOnes, notTH, haveA
\* and the first color.
DefaultAnalyst ==
  [pokers |-> <<>>, seems |-> [f \in Faces |-> 0], notTH |-> FALSE, haveA |-> FALSE]

\* touchAPoker, with checkTH and checkHaveA.
Touched(a, poker, firstColor) ==
  [pokers |-> SortAppendPoker(a.pokers, poker),
   seems  |-> RefreshSeems(a.seems, a.pokers, poker.face),
   notTH  |-> a.notTH \/ poker.color # firstColor,
   haveA  |-> a.haveA \/ poker.face = Ace]

AfterTouching(cards) ==
  FoldLeft(LAMBDA a, poker : Touched(a, poker, cards[1].color), DefaultAnalyst, cards)

MoreThanOnes(a) == {f \in Faces : a.seems[f] > 0}

FirstPlayChain(a) ==
  IF ~a.notTH THEN <<TH>>
  ELSE CASE Cardinality(MoreThanOnes(a)) = 0 -> <<SZ, DZ>>
         [] Cardinality(MoreThanOnes(a)) = 1 -> <<YD, ST3, ST4>>
         [] OTHER -> <<LD, ST3>>

-----------------------------------------------------------------------------
(* Weights.  Those of equal cards come first, the single cards after them,  *)
(* the largest first.                                                       *)

FirstSingles(a) == Reverse(Singles(a.pokers, MoreThanOnes(a)))

FirstWeightOfYD(a, dz) ==
  LET singles == FirstSingles(a) IN <<dz, singles[1], singles[2], singles[3], 0, 0>>

FirstWeightOfLD(a) ==
  <<Max(MoreThanOnes(a)), Min(MoreThanOnes(a)), FirstSingles(a)[1], 0, 0, 0>>

FirstWeightOfST3(a, dz) == LET singles == FirstSingles(a) IN <<dz, 0, singles[1], singles[2], 0, 0>>

FirstWeightOfHL(a) == <<Max(Seen(a.seems, 3)), Max(Seen(a.seems, 2)), 0, 0, 0, 0>>

FirstWeightOfST4(a, tz) == <<tz, FirstSingles(a)[1], 0, 0, 0, 0>>

FirstWeightOfSZ(a) ==
  IF a.haveA /\ FacesOf(a.pokers) = <<1, 2, 3, 4, Ace>>
  THEN NoWeight
  ELSE [NoWeight EXCEPT ![6] = Last(a.pokers).face]

-----------------------------------------------------------------------------
(* The checks: what each finds, {} if the chain is to go on                  *)

Is(kind, weight) == {[kind |-> kind, weight |-> weight]}

\* (an error to look for: A2345 is no row)
FirstCheckIsSZInRow(pokers) == \A i \in 1..4 : pokers[i + 1].face = pokers[i].face + 1

\* With an ace, only A2345 and TJQKA.
FirstCheckIsSZ(pokers) ==
  IF Last(pokers).face = Ace
  THEN FacesOf(pokers) \in {<<1, 2, 3, 4, 13>>, <<9, 10, 11, 12, 13>>}
  ELSE \A i \in 1..4 : pokers[i + 1].face = pokers[i].face + 1

FirstIsSZ(a) == IF FirstCheckIsSZ(a.pokers) THEN Is(SZ, FirstWeightOfSZ(a)) ELSE {}

FirstIsYD(a) ==
  IF Seen(a.seems, 2) = MoreThanOnes(a)
  THEN Is(YD, FirstWeightOfYD(a, Max(MoreThanOnes(a)))) ELSE {}

\* Two faces more than once: a full house if one of them is there three times.
FirstIsLD(a) ==
  IF Seen(a.seems, 3) # {} THEN Is(HL, FirstWeightOfHL(a)) ELSE Is(LD, FirstWeightOfLD(a))

FirstIsST3(a) ==
  CASE Seen(a.seems, 3) = {}                        -> {}
    [] Seen(a.seems, 3) # {} /\ Seen(a.seems, 2) # {} -> Is(HL, FirstWeightOfHL(a))
    [] OTHER -> Is(ST3, FirstWeightOfST3(a, Max(Seen(a.seems, 3))))

FirstIsST4(a) ==
  IF Seen(a.seems, 4) # {} THEN Is(ST4, FirstWeightOfST4(a, Max(Seen(a.seems, 4)))) ELSE {}

\* A straight with an ace is taken for the royal one.
FirstIsTHS(a) == IF a.haveA THEN HJTHS ELSE THS

\* isTHS sets a kind and a weight, and says that it did not: the weight of the
\* flush takes its place.
FirstIsTH(a) ==
  Is(IF FirstCheckIsSZ(a.pokers) THEN FirstIsTHS(a) ELSE TH, WeightOfDZ(a.pokers))

FirstFinds(a, check) ==
  CASE check = TH  -> FirstIsTH(a)
    [] check = SZ  -> FirstIsSZ(a)
    [] check = DZ  -> Is(DZ, WeightOfDZ(a.pokers))
    [] check = YD  -> FirstIsYD(a)
    [] check = LD  -> FirstIsLD(a)
    [] check = ST3 -> FirstIsST3(a)
    [] check = ST4 -> FirstIsST4(a)

\* doAnalysis of the last card: the first check of the chain that finds something.
FirstAnalysis(cards) ==
  LET a     == AfterTouching(cards)
      chain == FirstPlayChain(a)
      found == {i \in DOMAIN chain : FirstFinds(a, chain[i]) # {}}
  IN  CHOOSE hand \in FirstFinds(a, chain[Min(found)]) : TRUE

-----------------------------------------------------------------------------
\* Both analysts say the same of five cards, in whatever order they come: the
\* same kind, but for A2345 of one color, which the first takes for the royal
\* straight, and the same weight, but for the straights of one color, which the
\* first weighs as flushes.
AnalystsAgree ==
  Finished /\ Total = 5 /\ ~HaveLz =>
    \A order \in Permutations(1..5) :
      LET hand == FirstAnalysis([i \in 1..5 |-> tmpPokers[order[i]]])
      IN  /\ hand.kind = handType
             \/ (handType = THS /\ FacesOf(checkedPokers) = Smallest /\ hand.kind = HJTHS)
          /\ hand.weight = IF handType \in {THS, HJTHS} THEN WeightOfDZ(tmpPokers) ELSE handWeight
=============================================================================
