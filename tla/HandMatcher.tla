---------------------------- MODULE HandMatcher -----------------------------
(***************************************************************************)
(* Kinds and weights of hands, and the three ways the code compares two    *)
(* hands: EqualsTo, BiggerThan and Match of Hand (hand_processor/hand.go)   *)
(* and HMatcher.Cmp (hand_matcher.go), by which a game ranks its            *)
(* players.                                                                *)
(***************************************************************************)
EXTENDS Integers, FiniteSets

\* A face is its weight, 1 for "2" to 13 for "A" (facesStr).
Faces == 1..13

DZ == 0
YD == 1
LD == 2
ST3 == 3
SZ == 4
TH == 5
HL == 6
ST4 == 7
THS == 8
HJTHS == 9
HandType == DZ..HJTHS

\* The first place where two weights differ decides.
Above(v, w) == \E i \in 1..6 : v[i] > w[i] /\ \A j \in 1..(i - 1) : v[j] = w[j]

\* A straight weighs by its last place alone, any other hand leaves it empty.
OneScale(v, w) ==
  \/ v[6] = 0 /\ w[6] = 0
  \/ \A i \in 1..5 : v[i] = 0 /\ w[i] = 0

\* The k-th of some places, and what is at them in a sequence, in its order.
NthOf(places, k) == CHOOSE i \in places : Cardinality({j \in places : j < i}) = k - 1

AtPlaces(s, places) == [k \in 1..Cardinality(places) |-> s[NthOf(places, k)]]

-----------------------------------------------------------------------------
\* What two hands are compared by.
HandOf == [type : HandType, weight : Nat]

\* Hand.EqualsTo and Hand.BiggerThan
EqualsTo(h, other) == h.weight = other.weight /\ h.type = other.type
BiggerThan(h, other) ==
  IF h.type = other.type THEN h.weight > other.weight ELSE h.type > other.type

\* Hand.Match of the command line: 1 if the hand is larger, 2 if the other is.
Match(h, other) ==
  IF h.type = other.type
  THEN IF h.weight = other.weight THEN 0 ELSE IF h.weight > other.weight THEN 1 ELSE 2
  ELSE IF h.type > other.type THEN 1 ELSE 2

\* HMatcher.Cmp, by which a game ranks its players
Cmp(h1, h2) ==
  IF h1.type = h2.type
  THEN IF h1.weight = h2.weight THEN 0 ELSE IF h1.weight > h2.weight THEN 1 ELSE -1
  ELSE IF h1.type > h2.type THEN 1 ELSE -1
=============================================================================
