----------------------------- MODULE PokerRules -----------------------------
(***************************************************************************)
(* What a hand of cards is worth by the rules of poker: the best five of   *)
(* its cards, told from their faces and colors without any order of        *)
(* checks.  This is what the analyst of HandRank is held against.          *)
(***************************************************************************)
EXTENDS Integers, FiniteSetsExt, SequencesExt

FacesIn(five) == {p.face : p \in five}

Times(five, f) == Cardinality({p \in five : p.face = f})

MoreOften(five, f, g) ==
  Times(five, f) > Times(five, g) \/ (Times(five, f) = Times(five, g) /\ f > g)

\* The faces, those seen most often first and the larger first among equals.
ByTimes(five) ==
  LET faces == FacesIn(five)
  IN  [k \in 1..Cardinality(faces) |->
         CHOOSE f \in faces : Cardinality({g \in faces : MoreOften(five, g, f)}) = k - 1]

IsWheel(five) == FacesIn(five) = {13, 1, 2, 3, 4}

InARow(five) ==
  /\ Cardinality(FacesIn(five)) = 5
  /\ IsWheel(five) \/ Max(FacesIn(five)) - Min(FacesIn(five)) = 4

OneColor(five) == Cardinality({p.color : p \in five}) = 1

\* The top of a row; an ace counts as one below the 2 in A2345.
Top(five) == IF IsWheel(five) THEN 4 ELSE Max(FacesIn(five))

KindBySeen(five) ==
  LET seen == ByTimes(five)
      first == Times(five, seen[1])
      second == Times(five, seen[2])
  IN  CASE first = 4 -> 7
        [] first = 3 /\ second = 2 -> 6
        [] first = 3 /\ second = 1 -> 3
        [] first = 2 /\ second = 2 -> 2
        [] first = 2 /\ second = 1 -> 1
        [] OTHER -> 0

\* Kind and ranks of five cards.  The kinds are those of hand.go, and the
\* ranks decide between hands of one kind.
Value(five) ==
  IF InARow(five)
  THEN IF ~OneColor(five) THEN [kind |-> 4, ranks |-> <<Top(five)>>]
       ELSE IF Top(five) = 13 THEN [kind |-> 9, ranks |-> <<>>]
       ELSE [kind |-> 8, ranks |-> <<Top(five)>>]
  ELSE [kind |-> IF OneColor(five) THEN 5 ELSE KindBySeen(five),
        ranks |-> ByTimes(five)]

\* The first place where two sequences of the same length differ decides.
RanksAbove(r, s) ==
  \E i \in DOMAIN r : r[i] > s[i] /\ \A j \in 1..(i - 1) : r[j] = s[j]

Beats(v, w) == v.kind > w.kind \/ (v.kind = w.kind /\ RanksAbove(v.ranks, w.ranks))

BestOf(values) == CHOOSE v \in values : \A w \in values : ~Beats(w, v)

BestValue(cards) == BestOf({Value(five) : five \in kSubset(5, cards)})

\* What a wild card may stand for beside four cards: any face, in their color if
\* they have one color, or as a card whose color does not matter.
StandIns(four) ==
  {lz \in [face : 1..13, color : {"z"} \union (IF OneColor(four) THEN {p.color : p \in four} ELSE {})] :
     lz \notin four /\ Times(four, lz.face) < 4}

BestValueWithLz(cards) ==
  BestOf(UNION {{Value(four \union {lz}) : lz \in StandIns(four)} : four \in kSubset(4, cards)})
=============================================================================
