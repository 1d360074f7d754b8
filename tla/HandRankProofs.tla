--------------------------- MODULE HandRankProofs ---------------------------
(***************************************************************************)
(* What holds of the analyst of hands whatever cards it is handed, in       *)
(* whatever order: no check reads past its lists, what it shows are five    *)
(* cards of the player worth what it says, hands of one kind weigh on one   *)
(* scale, and without the wild card no other five of his cards are worth    *)
(* more.                                                                    *)
(***************************************************************************)
EXTENDS HandRank, OperatorProofs

-----------------------------------------------------------------------------
(* What the operators of the analyst return.                                 *)

\* The single cards of a hand are those of its cards that have none of the faces.
LEMMA SinglesFacts ==
  ASSUME NEW X, NEW s \in Seq(X), \A i \in 1..Len(s) : s[i].face \in Faces, NEW F
  PROVE  /\ Singles(s, F) \in Seq(Faces)
         /\ Len(Singles(s, F)) = Len(s) - Cardinality(Spots(s, F))
<1> DEFINE S == {i \in DOMAIN s : s[i].face \notin F}
           t == AtPlaces(s, S)
<1>1. /\ Len(s) \in Nat /\ DOMAIN s = 1..Len(s) /\ IsFiniteSet(1..Len(s))
      /\ Cardinality(1..Len(s)) = Len(s)
      /\ Spots(s, F) \in SUBSET (1..Len(s)) /\ Cardinality(Spots(s, F)) \in Nat
  <2>1. /\ Len(s) \in Nat /\ DOMAIN s = 1..Len(s)
        /\ Spots(s, F) \in SUBSET (1..Len(s)) /\ Cardinality(Spots(s, F)) \in 0..Len(s)
    BY SpotsType
  <2> QED BY <2>1, SizeOfPlaces
<1>2. S = (1..Len(s)) \ Spots(s, F) /\ S \in SUBSET (1..Len(s))
  BY <1>1 DEF Spots
<1>3. Cardinality(S) = Len(s) - Cardinality(Spots(s, F))
  <2>1. Cardinality((1..Len(s)) \ Spots(s, F)) =
          Cardinality(1..Len(s)) - Cardinality((1..Len(s)) \intersect Spots(s, F))
    BY <1>1, FS_Difference
  <2>2. (1..Len(s)) \intersect Spots(s, F) = Spots(s, F)
    BY <1>1
  <2> QED BY <1>1, <1>2, <2>1, <2>2
<1> HIDE DEF S
<1>4. /\ t \in Seq(X) /\ Len(t) = Cardinality(S) /\ Len(t) \in Nat
      /\ \A k \in 1..Len(t) : \E i \in S : t[k] = s[i]
  <2>1. Picks(t, s, S)
    BY <1>2, AtPlacesPicks
  <2> HIDE DEF t
  <2>2. /\ t \in Seq(X) /\ Len(t) = Cardinality(S) /\ Cardinality(S) \in Nat
        /\ \A k \in 1..Len(t) : \E i \in S : t[k] = s[i]
    <3>1. S \in SUBSET (1..Len(s))
      BY <1>2
    <3> QED BY <2>1, <3>1, PicksFacts DEF Among
  <2> QED BY <2>2
<1> HIDE DEF t
<1>5. \A k \in 1..Len(t) : t[k].face \in Faces
  BY <1>2, <1>4
<1>6. Singles(s, F) = [k \in 1..Len(t) |-> t[k].face]
  BY <1>4, LenProperties DEF Singles, FacesOf, S, t
<1> QED BY <1>3, <1>4, <1>5, <1>6

-----------------------------------------------------------------------------
(* Cards.                                                                    *)

Poker == Card \union [face : Faces, color : Colors, bornByLz : {TRUE}]

\* What exportHand makes of a card.
Shown(p) == IF IsBorn(p) THEN LaiZi ELSE p

\* A list of different cards of the player, and one from which a hand can be
\* shown: the wild card may be among them once.
Own(s) ==
  /\ s \in Seq(Card)
  /\ \A i \in 1..Len(s) : s[i] \in originPokers
  /\ \A i, j \in 1..Len(s) : i # j => s[i] # s[j]

Made(s) ==
  /\ s \in Seq(Poker)
  /\ \A i \in 1..Len(s) : Shown(s[i]) \in originPokers
  /\ \A i, j \in 1..Len(s) : i # j => Shown(s[i]) # Shown(s[j])

LEMMA CardFacts ==
  ASSUME NEW p \in Card
  PROVE  /\ p \in Poker /\ p.face \in Faces /\ p.color \in Colors
         /\ ~IsBorn(p) /\ Shown(p) = p /\ p # LaiZi
<1>1. DOMAIN p = {"face", "color"} /\ p.face \in Faces /\ p.color \in Colors
  BY DEF Card
<1>2. ~IsBorn(p)
  BY <1>1 DEF IsBorn
<1>3. p # LaiZi
  BY <1>1 DEF LaiZi, Faces
<1> QED BY <1>1, <1>2, <1>3 DEF Poker, Shown

LEMMA PokerFacts ==
  ASSUME NEW p \in Poker
  PROVE  p.face \in Faces /\ p.color \in Colors
BY DEF Poker, Card

LEMMA BornFacts ==
  ASSUME NEW f \in Faces, NEW c \in Colors
  PROVE  LET p == BornALaiZi(f, c)
         IN  p \in Poker /\ p.face = f /\ IsBorn(p) /\ Shown(p) = LaiZi
BY DEF BornALaiZi, Poker, IsBorn, Shown

LEMMA OwnIsMade ==
  ASSUME NEW s, Own(s)
  PROVE  Made(s) /\ s \in Seq(Poker) /\ Len(s) \in Nat
<1>1. s \in Seq(Card) /\ Len(s) \in Nat
  BY LenProperties DEF Own
<1>2. \A i \in 1..Len(s) : s[i] \in Card /\ Shown(s[i]) = s[i]
  BY <1>1, ElementOfSeq, CardFacts
<1>3. s \in Seq(Poker)
  <2>1. Card \subseteq Poker
    BY DEF Poker
  <2> QED BY <1>1, <2>1, SeqMonotonic
<1> QED BY <1>1, <1>2, <1>3 DEF Own, Made

LEMMA PicksOfOwn ==
  ASSUME NEW s, Own(s), NEW S \in SUBSET (1..Len(s)), NEW t, Picks(t, s, S)
  PROVE  Own(t) /\ Len(t) = Cardinality(S)
<1>1. s \in Seq(Card)
  BY DEF Own
<1>2. /\ t \in Seq(Card) /\ Len(t) = Cardinality(S)
      /\ Among(t, s, S)
  BY <1>1, PicksFacts
<1>3. \A k \in 1..Len(t) : t[k] \in originPokers
  BY <1>2 DEF Own, Among
<1>4. ASSUME NEW k \in 1..Len(t), NEW l \in 1..Len(t), k # l
      PROVE  t[k] # t[l]
  <2>1. PICK i \in S, j \in S : i # j /\ t[k] = s[i] /\ t[l] = s[j]
    BY <1>2, <1>4 DEF Among
  <2>2. i \in 1..Len(s) /\ j \in 1..Len(s)
    OBVIOUS
  <2> QED BY <2>1, <2>2 DEF Own
<1> QED BY <1>2, <1>3, <1>4 DEF Own

LEMMA PicksOfMade ==
  ASSUME NEW s, Made(s), NEW S \in SUBSET (1..Len(s)), NEW t, Picks(t, s, S)
  PROVE  Made(t) /\ Len(t) = Cardinality(S)
<1>1. s \in Seq(Poker)
  BY DEF Made
<1>2. /\ t \in Seq(Poker) /\ Len(t) = Cardinality(S)
      /\ Among(t, s, S)
  BY <1>1, PicksFacts
<1>3. \A k \in 1..Len(t) : Shown(t[k]) \in originPokers
  BY <1>2 DEF Made, Among
<1>4. ASSUME NEW k \in 1..Len(t), NEW l \in 1..Len(t), k # l
      PROVE  Shown(t[k]) # Shown(t[l])
  <2>1. PICK i \in S, j \in S : i # j /\ t[k] = s[i] /\ t[l] = s[j]
    BY <1>2, <1>4 DEF Among
  <2>2. i \in 1..Len(s) /\ j \in 1..Len(s)
    OBVIOUS
  <2>3. Shown(s[i]) # Shown(s[j])
    BY <2>1, <2>2 DEF Made
  <2> QED BY <2>1, <2>3
<1> QED BY <1>2, <1>3, <1>4 DEF Made

\* The wild card, as whatever it stands for, is one more card of the player.
LEMMA BornIsMade ==
  ASSUME NEW s, Own(s), HaveLz, NEW f \in Faces, NEW c \in Colors, NEW n \in 1..Len(s) + 1
  PROVE  LET b == BornALaiZi(f, c)
             t == InsertAt(s, n, b)
         IN  IsInserted(Poker, s, n, b, t) /\ Made(t) /\ Len(t) = Len(s) + 1
<1> DEFINE b == BornALaiZi(f, c)
           t == InsertAt(s, n, b)
<1>1. b \in Poker /\ Shown(b) = LaiZi
  BY BornFacts
<1>2. s \in Seq(Poker) /\ Len(s) \in Nat /\ Made(s)
  BY OwnIsMade
<1>3. IsInserted(Poker, s, n, b, t)
  BY <1>1, <1>2, InsertFacts
<1>4. \A i \in 1..Len(s) : Shown(s[i]) \in originPokers /\ Shown(s[i]) # LaiZi
  <2>1. ASSUME NEW i \in 1..Len(s) PROVE Shown(s[i]) \in originPokers /\ Shown(s[i]) # LaiZi
    <3>1. s[i] \in Card /\ s[i] \in originPokers
      BY ElementOfSeq DEF Own
    <3> QED BY <3>1, CardFacts
  <2> QED BY <2>1
<1> HIDE DEF b, t
<1>5. /\ t \in Seq(Poker) /\ Len(t) = Len(s) + 1 /\ t[n] = b
      /\ \A k \in 1..n - 1 : t[k] = s[k]
      /\ \A k \in n..Len(s) : t[k + 1] = s[k]
  BY <1>3 DEF IsInserted
<1>6. ASSUME NEW i \in 1..Len(t), i # n
      PROVE  \E k \in 1..Len(s) : t[i] = s[k] /\ k = IF i < n THEN i ELSE i - 1
  <2>1. CASE i < n
    BY <1>2, <1>5, <2>1
  <2>2. CASE ~(i < n)
    <3>1. i - 1 \in n..Len(s) /\ i - 1 \in 1..Len(s) /\ (i - 1) + 1 = i
      BY <1>2, <1>5, <1>6, <2>2
    <3> QED BY <1>5, <2>2, <3>1
  <2> QED BY <2>1, <2>2
<1>7. \A i \in 1..Len(t) : Shown(t[i]) \in originPokers
  BY <1>1, <1>4, <1>5, <1>6 DEF HaveLz
<1>8. ASSUME NEW i \in 1..Len(t), NEW j \in 1..Len(t), i # j
      PROVE  Shown(t[i]) # Shown(t[j])
  <2>1. CASE i = n
    BY <1>1, <1>4, <1>5, <1>6, <1>8, <2>1
  <2>2. CASE j = n
    BY <1>1, <1>4, <1>5, <1>6, <1>8, <2>2
  <2>3. CASE i # n /\ j # n
    <3>1. PICK k \in 1..Len(s) : t[i] = s[k] /\ k = IF i < n THEN i ELSE i - 1
      BY <1>6, <2>3
    <3>2. PICK l \in 1..Len(s) : t[j] = s[l] /\ l = IF j < n THEN j ELSE j - 1
      BY <1>6, <2>3
    <3>3. k # l
      BY <1>2, <1>5, <1>8, <2>3, <3>1, <3>2
    <3> QED BY <1>2, <3>1, <3>2, <3>3 DEF Made
  <2> QED BY <2>1, <2>2, <2>3
<1>9. Made(t)
  BY <1>5, <1>7, <1>8 DEF Made
<1> QED BY <1>3, <1>5, <1>9 DEF b, t

LEMMA SortAppendFacts ==
  ASSUME NEW X, \A p \in X : p.face \in Faces, NEW s \in Seq(X), Rising(s), NEW new \in X
  PROVE  \E n \in 1..Len(s) + 1 : GoesTo(X, s, n, new, SortAppendPoker(s, new))
<1> DEFINE larger == {i \in DOMAIN s : new.face < s[i].face}
           T == larger \union {Len(s) + 1}
           n == Min(T)
<1>1. /\ Len(s) \in Nat /\ DOMAIN s = 1..Len(s) /\ new.face \in Int
      /\ \A i \in 1..Len(s) : s[i] \in X /\ s[i].face \in Int
  <2>1. Len(s) \in Nat /\ DOMAIN s = 1..Len(s)
    BY LenProperties
  <2>2. \A i \in 1..Len(s) : s[i] \in X
    BY ElementOfSeq
  <2>3. \A p \in X : p.face \in Int
    BY DEF Faces
  <2> QED BY <2>1, <2>2, <2>3
<1>2. n \in T /\ \A i \in T : n <= i
  <2>1. T \in SUBSET Nat /\ T # {}
    BY <1>1
  <2> HIDE DEF T
  <2> QED BY <2>1, MinOfPlaces
<1>3. n \in 1..Len(s) + 1
  <2> HIDE DEF n
  <2> QED BY <1>1, <1>2
<1>4. SortAppendPoker(s, new) = InsertAt(s, n, new)
  BY DEF SortAppendPoker
<1> HIDE DEF n
<1>5. IsInserted(X, s, n, new, SortAppendPoker(s, new))
  BY <1>3, <1>4, InsertFacts
<1>6. ASSUME NEW i \in 1..n - 1 PROVE s[i].face <= new.face
  <2>1. i \in 1..Len(s) /\ i < n
    BY <1>1, <1>3
  <2>2. i \notin T
    BY <1>2, <2>1
  <2>3. ~(new.face < s[i].face)
    BY <1>1, <2>1, <2>2
  <2> QED BY <1>1, <2>1, <2>3
<1>7. ASSUME NEW i \in n..Len(s) PROVE new.face < s[i].face
  <2>1. n \in 1..Len(s) /\ i \in 1..Len(s) /\ n <= i
    BY <1>1, <1>3
  <2>2. new.face < s[n].face
    BY <1>1, <1>2, <2>1
  <2>3. n = i \/ s[n].face <= s[i].face
    BY <2>1 DEF Rising
  <2> QED BY <1>1, <2>1, <2>2, <2>3
<1> QED BY <1>3, <1>4, <1>5, <1>6, <1>7 DEF GoesTo

-----------------------------------------------------------------------------
(* The cards of a hand, picked by their faces.                               *)

\* How many of the sorted cards have a face of F.
Count(F) == Cardinality(Spots(tmpPokers, F))

LEMMA PlacesOfFacts ==
  ASSUME Own(tmpPokers), NEW F, NEW n \in Nat
  PROVE  /\ PlacesOf(F, n) \in SUBSET (1..Len(tmpPokers))
         /\ PlacesOf(F, n) \intersect Spots(tmpPokers, F) = Spots(tmpPokers, F)
         /\ Len(tmpPokers) \in Nat /\ Count(F) \in 0..Len(tmpPokers)
         /\ Cardinality(PlacesOf(F, n)) =
              Count(F) + IF n <= Len(tmpPokers) - Count(F) THEN n ELSE Len(tmpPokers) - Count(F)
<1> DEFINE L == Len(tmpPokers)
           here == Spots(tmpPokers, F)
           others == (1..L) \ here
           after(i) == Cardinality({j \in others : j > i})
           largest == {i \in others : after(i) < n}
<1>1. /\ L \in Nat /\ DOMAIN tmpPokers = 1..L /\ here \in SUBSET (1..L) /\ IsFiniteSet(here)
      /\ Cardinality(here) \in 0..L
  BY SpotsType DEF Own
<1>2. IsFiniteSet(1..L) /\ Cardinality(1..L) = L
  BY <1>1, SizeOfPlaces
<1>3. IsFiniteSet(others) /\ Cardinality(others) = L - Cardinality(here)
  <2>1. IsFiniteSet((1..L) \ here)
        /\ Cardinality((1..L) \ here) = Cardinality(1..L) - Cardinality((1..L) \intersect here)
    BY <1>2, FS_Difference
  <2>2. (1..L) \intersect here = here
    BY <1>1
  <2> QED BY <1>2, <2>1, <2>2
<1>4. /\ IsFiniteSet(largest)
      /\ Cardinality(largest) = IF n <= Cardinality(others) THEN n ELSE Cardinality(others)
  <2>1. others \in SUBSET (1..L)
    OBVIOUS
  <2> HIDE DEF others
  <2> QED BY <1>1, <2>1, LargestAreCounted
<1>5. PlacesOf(F, n) = here \union largest
  <2>1. \A i \in 1..L : i \in others <=> tmpPokers[i].face \notin F
    BY <1>1 DEF Spots
  <2>2. ASSUME NEW i \in 1..L
        PROVE  Cardinality({j \in DOMAIN tmpPokers : j > i /\ tmpPokers[j].face \notin F}) = after(i)
    <3>1. {j \in DOMAIN tmpPokers : j > i /\ tmpPokers[j].face \notin F} = {j \in others : j > i}
      BY <1>1, <2>1
    <3> QED BY <3>1
  <2>3. \A i : i \in PlacesOf(F, n) <=>
                 i \in 1..L /\ (tmpPokers[i].face \notin F => after(i) < n)
    <3> HIDE DEF after, others
    <3> QED BY <1>1, <2>2 DEF PlacesOf
  <2>4. \A i : i \in here <=> i \in 1..L /\ i \notin others
    BY <1>1
  <2>5. \A i : i \in others => i \in 1..L
    OBVIOUS
  <2> HIDE DEF here, others, after, L
  <2>6. \A i : i \in PlacesOf(F, n) <=> i \in here \union largest
    BY <2>1, <2>3, <2>4, <2>5
  <2> QED BY <2>6
<1>6. here \intersect largest = {} /\ largest \in SUBSET (1..L)
  OBVIOUS
<1>7. Cardinality(here \union largest) = Cardinality(here) + Cardinality(largest)
  <2>1. Cardinality(here \union largest) =
          Cardinality(here) + Cardinality(largest) - Cardinality(here \intersect largest)
    <3> HIDE DEF here, largest
    <3> QED BY <1>1, <1>4, FS_Union
  <2>2. Cardinality(here \intersect largest) = 0
    BY <1>6, FS_EmptySet, Zenon
  <2>3. Cardinality(largest) \in Int
    BY <1>4, FS_CardinalityType
  <2> HIDE DEF here, largest, others
  <2> QED BY <1>1, <2>1, <2>2, <2>3
<1>8. PlacesOf(F, n) \in SUBSET (1..L) /\ PlacesOf(F, n) \intersect here = here
  <2> HIDE DEF here, largest, others
  <2> QED BY <1>1, <1>5, <1>6
<1>9. Cardinality(PlacesOf(F, n)) =
        Cardinality(here) + IF n <= L - Cardinality(here) THEN n ELSE L - Cardinality(here)
  <2> HIDE DEF here, largest, others
  <2> QED BY <1>3, <1>4, <1>5, <1>7
<1> QED BY <1>1, <1>8, <1>9 DEF Count

LEMMA DownwardsFacts ==
  ASSUME Own(tmpPokers), NEW S \in SUBSET (1..Len(tmpPokers))
  PROVE  /\ Own(Upwards(S)) /\ Len(Upwards(S)) = Cardinality(S)
         /\ Own(Downwards(S)) /\ Len(Downwards(S)) = Cardinality(S)
         /\ Picks(Upwards(S), tmpPokers, S) /\ Picks(Downwards(S), tmpPokers, S)
<1>1. tmpPokers \in Seq(Card)
  BY DEF Own
<1>2. Picks(Upwards(S), tmpPokers, S)
  BY <1>1, AtPlacesPicks DEF Upwards
<1>3. Picks(Downwards(S), tmpPokers, S)
  BY <1>1, <1>2, ReversePicks DEF Downwards
<1> QED BY <1>2, <1>3, PicksOfOwn

\* Five cards from which a hand can be shown.
Five(s) == Made(s) /\ Len(s) = 5

WithLz == IF HaveLz THEN 1 ELSE 0

\* The cards FiveDownwards chooses from: those at the places, and the wild card
\* right before the first of the face it makes one more of.
AllDown(all, pokers, f) ==
  IF HaveLz
  THEN \E n \in 1..Len(pokers), b \in Poker :
         /\ pokers[n].face = f /\ b.face = f
         /\ \A j \in 1..n - 1 : pokers[j].face # f
         /\ IsInserted(Poker, pokers, n, b, all)
  ELSE all = pokers

LEMMA AllDownThere ==
  ASSUME Own(tmpPokers), NEW S \in SUBSET (1..Len(tmpPokers)), NEW f \in Faces,
         S \intersect Spots(tmpPokers, {f}) # {}
  PROVE  \E all : /\ FiveDownwards(S, f) = SubSeq(all, 1, 5)
                  /\ Made(all) /\ Len(all) = Cardinality(S) + WithLz
                  /\ AllDown(all, Downwards(S), f)
<1> DEFINE pokers == Downwards(S)
           is(i) == pokers[i].face = f /\ \A j \in 1..(i - 1) : pokers[j].face # f
           first == CHOOSE i \in DOMAIN pokers : is(i)
           b == BornALaiZi(f, pokers[first].color)
           all == IF HaveLz THEN InsertAt(pokers, first, b) ELSE pokers
           here == S \intersect Spots(tmpPokers, {f})
<1>1. /\ Own(pokers) /\ Len(pokers) = Cardinality(S) /\ Picks(pokers, tmpPokers, S)
      /\ pokers \in Seq(Card) /\ pokers \in Seq(Poker) /\ Len(pokers) \in Nat
      /\ DOMAIN pokers = 1..Len(pokers) /\ Made(pokers)
  <2>1. Own(pokers) /\ Len(pokers) = Cardinality(S) /\ Picks(pokers, tmpPokers, S)
    BY DownwardsFacts
  <2> HIDE DEF pokers
  <2> QED BY <2>1, OwnIsMade, LenProperties DEF Own
<1>2. Cardinality(Spots(pokers, {f})) = Cardinality(here)
  <2>1. tmpPokers \in Seq(Card)
    BY DEF Own
  <2> DEFINE F == {f}
  <2> HIDE DEF pokers, F
  <2>2. Cardinality(Spots(pokers, F)) = Cardinality(S \intersect Spots(tmpPokers, F))
    BY <1>1, <2>1, PicksCount
  <2> QED BY <2>2 DEF F
<1>3. Cardinality(here) \in Nat \ {0}
  <2>1. here \in SUBSET (1..Len(tmpPokers)) /\ Len(tmpPokers) \in Nat
    BY LenProperties DEF Own
  <2>2. IsFiniteSet(here)
    BY <2>1, SizeOfPlaces, FS_Subset
  <2> QED BY <2>2, FS_EmptySet, FS_CardinalityType
<1> HIDE DEF pokers, here
<1>4. first \in 1..Len(pokers) /\ is(first)
  <2> DEFINE T == {i \in 1..Len(pokers) : pokers[i].face = f}
  <2>1. T # {}
    <3>1. T = Spots(pokers, {f})
      BY <1>1 DEF Spots
    <3> QED BY <1>2, <1>3, <3>1, FS_EmptySet
  <2>2. PICK i \in T : \A j \in T : i <= j
    <3>1. T \in SUBSET Nat
      OBVIOUS
    <3> HIDE DEF T
    <3> QED BY <2>1, <3>1, LeastElement
  <2>3. is(i) /\ i \in DOMAIN pokers
    BY <1>1, <2>2
  <2> HIDE DEF is
  <2> QED BY <1>1, <2>3
<1>5. pokers[first].color \in Colors
  BY <1>1, <1>4, ElementOfSeq, CardFacts
<1> HIDE DEF first
<1>6. Made(all) /\ Len(all) = Cardinality(S) + WithLz /\ AllDown(all, pokers, f)
  <2>1. CASE HaveLz
    <3>1. /\ IsInserted(Poker, pokers, first, b, all) /\ Made(all) /\ Len(all) = Len(pokers) + 1
      BY <1>1, <1>4, <1>5, <2>1, BornIsMade
    <3>2. b \in Poker /\ b.face = f
      BY <1>5, BornFacts
    <3> HIDE DEF all, b
    <3>3. AllDown(all, pokers, f)
      BY <1>4, <2>1, <3>1, <3>2 DEF AllDown
    <3> QED BY <1>1, <2>1, <3>1, <3>3 DEF WithLz
  <2>2. CASE ~HaveLz
    <3>1. all = pokers
      BY <2>2
    <3> QED BY <1>1, <2>2, <3>1 DEF WithLz, AllDown
  <2> QED BY <2>1, <2>2
<1>7. FiveDownwards(S, f) = SubSeq(all, 1, 5)
  BY DEF FiveDownwards, first, pokers
<1> HIDE DEF all
<1> QED BY <1>6, <1>7 DEF pokers

\* The wild card is one more card of its face, and leaves the cards in order.
LEMMA AllDownFacts ==
  ASSUME NEW pokers \in Seq(Poker), NEW f \in Faces, NEW all, AllDown(all, pokers, f)
  PROVE  /\ \A F : Cardinality(Spots(all, F)) =
                     Cardinality(Spots(pokers, F)) + IF f \in F THEN WithLz ELSE 0
         /\ Falling(pokers) => Falling(all)
<1>0. /\ Len(pokers) \in Nat /\ f \in Int
      /\ \A i \in 1..Len(pokers) : pokers[i].face \in Int
  <2>1. \A i \in 1..Len(pokers) : pokers[i].face \in Faces
    BY ElementOfSeq, PokerFacts
  <2> QED BY <2>1, LenProperties DEF Faces
<1>1. CASE HaveLz
  <2>1. PICK n \in 1..Len(pokers), b \in Poker :
          /\ pokers[n].face = f /\ b.face = f
          /\ \A j \in 1..n - 1 : pokers[j].face # f
          /\ IsInserted(Poker, pokers, n, b, all)
    BY <1>1 DEF AllDown
  <2>2. n \in 1..Len(pokers) + 1
    BY <1>0
  <2>3. ASSUME NEW F
        PROVE  Cardinality(Spots(all, F)) =
                 Cardinality(Spots(pokers, F)) + IF f \in F THEN WithLz ELSE 0
    <3>1. Cardinality(Spots(all, F)) =
            Cardinality(Spots(pokers, F)) + IF b.face \in F THEN 1 ELSE 0
      BY <2>1, <2>2, InsertCounts
    <3> QED BY <1>1, <2>1, <3>1 DEF WithLz
  <2>4. ASSUME Falling(pokers), NEW i \in 1..Len(all), NEW j \in 1..Len(all), i < j
        PROVE  all[i].face >= all[j].face
    <3>1. /\ Len(all) = Len(pokers) + 1
          /\ \A k \in 1..n - 1 : all[k] = pokers[k]
          /\ all[n].face = f
          /\ \A k \in n..Len(pokers) : all[k + 1] = pokers[k]
      BY <2>1 DEF IsInserted
    <3>2. /\ \A k \in 1..n : pokers[k].face >= f
          /\ \A k \in n..Len(pokers) : f >= pokers[k].face
      <4>1. ASSUME NEW k \in 1..n PROVE pokers[k].face >= f
        <5>1. k \in 1..Len(pokers) /\ (k < n \/ k = n)
          BY <1>0, <2>1
        <5> QED BY <1>0, <2>1, <2>4, <5>1 DEF Falling
      <4>2. ASSUME NEW k \in n..Len(pokers) PROVE f >= pokers[k].face
        <5>1. k \in 1..Len(pokers) /\ (k > n \/ k = n)
          BY <1>0, <2>1
        <5> QED BY <1>0, <2>1, <2>4, <5>1 DEF Falling
      <4> QED BY <4>1, <4>2
    <3> DEFINE from(k) == IF k <= n THEN k ELSE k - 1
    <3>3. \A k \in 1..Len(all) : from(k) \in 1..Len(pokers) /\ all[k].face = pokers[from(k)].face
      <4> TAKE k \in 1..Len(all)
      <4>1. CASE k < n
        BY <1>0, <2>1, <3>1, <4>1
      <4>2. CASE k = n
        BY <1>0, <2>1, <3>1, <4>2
      <4>3. CASE k > n
        <5>1. k - 1 \in n..Len(pokers) /\ (k - 1) + 1 = k /\ k - 1 \in 1..Len(pokers)
          BY <1>0, <3>1, <4>3
        <5>2. all[k] = pokers[k - 1]
          BY <3>1, <5>1
        <5> QED BY <4>3, <5>1, <5>2
      <4> QED BY <1>0, <3>1, <4>1, <4>2, <4>3
    <3>4. from(i) <= from(j)
      BY <1>0, <2>4, <3>1
    <3> HIDE DEF from
    <3>5. pokers[from(i)].face >= pokers[from(j)].face
      BY <1>0, <2>4, <3>3, <3>4 DEF Falling
    <3> QED BY <3>3, <3>5
  <2> QED BY <2>3, <2>4 DEF Falling
<1>2. CASE ~HaveLz
  <2>1. all = pokers
    BY <1>2 DEF AllDown
  <2>2. ASSUME NEW F PROVE Cardinality(Spots(pokers, F)) \in Nat
    BY SpotsType
  <2> QED BY <1>2, <2>1, <2>2 DEF WithLz
<1> QED BY <1>1, <1>2

\* Upside down, rising cards fall and falling ones rise.
LEMMA ReverseOrder ==
  ASSUME NEW s \in Seq(Poker)
  PROVE  /\ Reverse(s) \in Seq(Poker) /\ Len(Reverse(s)) = Len(s)
         /\ Rising(s) => Falling(Reverse(s))
         /\ Falling(s) => Rising(Reverse(s))
<1> DEFINE t == Reverse(s)
           n == Len(s)
<1>1. /\ n \in Nat /\ t = [i \in 1..n |-> s[n - i + 1]]
      /\ \A i \in 1..n : s[i] \in Poker /\ s[i].face \in Int
  <2>1. \A i \in 1..n : s[i] \in Poker /\ s[i].face \in Faces
    BY ElementOfSeq, PokerFacts
  <2> QED BY <2>1, LenProperties DEF Reverse, Faces
<1> HIDE DEF t, n
<1>2. \A i \in 1..n : n - i + 1 \in 1..n
  BY <1>1
<1>3. t \in Seq(Poker) /\ Len(t) = n
  BY <1>1, <1>2
<1>4. \A i, j \in 1..n : i < j => n - j + 1 < n - i + 1
  BY <1>1
<1>5. \A i \in 1..n : t[i] = s[n - i + 1]
  BY <1>1
<1>6. ASSUME NEW i \in 1..n, NEW j \in 1..n, i < j
      PROVE  /\ Rising(s) => t[i].face >= t[j].face
             /\ Falling(s) => t[i].face <= t[j].face
  <2>1. PICK k \in 1..n, l \in 1..n : l < k /\ t[i] = s[k] /\ t[j] = s[l]
    BY <1>2, <1>4, <1>5, <1>6
  <2> QED BY <1>1, <2>1 DEF Rising, Falling, n
<1> QED BY <1>3, <1>6 DEF Rising, Falling, t, n

LEMMA DownwardsOrder ==
  ASSUME Own(tmpPokers), Rising(tmpPokers), NEW S \in SUBSET (1..Len(tmpPokers))
  PROVE  Rising(Upwards(S)) /\ Falling(Downwards(S))
<1>1. Own(Upwards(S)) /\ Len(Upwards(S)) = Cardinality(S)
  BY DownwardsFacts
<1>2. Upwards(S) \in Seq(Poker)
  BY <1>1, OwnIsMade
<1>3. Len(tmpPokers) \in Nat
  BY LenProperties DEF Own
<1>4. Rising(Upwards(S))
  <2> DEFINE m == Cardinality(S)
             at(k) == NthOf(S, k)
  <2>1. Upwards(S) = [k \in 1..m |-> tmpPokers[at(k)]]
    BY DEF Upwards, AtPlaces
  <2>2. \A k \in 1..m : at(k) \in S
    BY <1>3, NthFacts
  <2>3. ASSUME NEW k \in 1..m, NEW l \in 1..m, k < l
        PROVE  Upwards(S)[k].face <= Upwards(S)[l].face
    <3>1. at(k) < at(l)
      BY <1>3, <2>3, NthRises
    <3> HIDE DEF at
    <3>2. at(k) \in 1..Len(tmpPokers) /\ at(l) \in 1..Len(tmpPokers)
      BY <2>2
    <3> QED BY <2>1, <3>1, <3>2 DEF Rising
  <2> QED BY <1>1, <2>3 DEF Rising
<1> QED BY <1>2, <1>4, ReverseOrder DEF Downwards

LEMMA FiveDownwardsFacts ==
  ASSUME Own(tmpPokers), NEW S \in SUBSET (1..Len(tmpPokers)), NEW f \in Faces,
         S \intersect Spots(tmpPokers, {f}) # {}, Cardinality(S) + WithLz >= 5
  PROVE  LET five == FiveDownwards(S, f)
         IN  /\ Five(five)
             /\ Cardinality(S) + WithLz = 5 =>
                  /\ \A F : Cardinality(Spots(five, F)) =
                        Cardinality(S \intersect Spots(tmpPokers, F)) + IF f \in F THEN WithLz ELSE 0
                  /\ Rising(tmpPokers) => Rising(Reverse(five))
<1> DEFINE pokers == Downwards(S)
<1>1. PICK all : /\ FiveDownwards(S, f) = SubSeq(all, 1, 5)
                 /\ Made(all) /\ Len(all) = Cardinality(S) + WithLz
                 /\ AllDown(all, Downwards(S), f)
  BY AllDownThere
<1>2. /\ Own(pokers) /\ Picks(pokers, tmpPokers, S) /\ pokers \in Seq(Poker)
      /\ tmpPokers \in Seq(Card)
  BY DownwardsFacts, OwnIsMade DEF Own
<1>3. Rising(tmpPokers) => Falling(pokers)
  BY DownwardsOrder
<1> HIDE DEF pokers
<1>4. /\ \A F : Cardinality(Spots(all, F)) =
                  Cardinality(Spots(pokers, F)) + IF f \in F THEN WithLz ELSE 0
      /\ Falling(pokers) => Falling(all)
  BY <1>1, <1>2, AllDownFacts DEF pokers
<1>5. \A F : Cardinality(Spots(pokers, F)) = Cardinality(S \intersect Spots(tmpPokers, F))
  BY <1>2, PicksCount
<1>6. /\ all \in Seq(Poker) /\ Len(all) \in Nat /\ DOMAIN all = 1..Len(all) /\ 5 <= Len(all)
      /\ 1..5 \in SUBSET (1..Len(all)) /\ Cardinality(1..5) = 5
      /\ Picks(SubSeq(all, 1, 5), all, 1..5)
  <2>1. all \in Seq(Poker)
    BY <1>1 DEF Made
  <2>2. Len(all) \in Nat /\ DOMAIN all = 1..Len(all)
    BY <2>1, LenProperties
  <2>3. 5 <= Len(all)
    BY <1>1, <2>2
  <2>4. /\ 1..5 \in SUBSET (1..Len(all)) /\ Cardinality(1..5) = 5
        /\ Picks(SubSeq(all, 1, 5), all, 1..5)
    BY <2>1, <2>3, FirstFivePicks
  <2> QED BY <2>1, <2>2, <2>3, <2>4
<1>7. Five(SubSeq(all, 1, 5))
  BY <1>1, <1>6, PicksOfMade DEF Five
<1>8. ASSUME Cardinality(S) + WithLz = 5
      PROVE  SubSeq(all, 1, 5) = all
  <2>1. Len(all) = 5
    BY <1>1, <1>8
  <2> QED BY <1>6, <2>1
<1>9. Falling(all) => Rising(Reverse(all))
  BY <1>6, ReverseOrder
<1> QED BY <1>1, <1>3, <1>4, <1>5, <1>7, <1>8, <1>9

-----------------------------------------------------------------------------
(* The chain.                                                                *)

LEMMA LinkType ==
  ASSUME NEW there \in BOOLEAN, NEW check \in HandType
  PROVE  /\ Link(there, check) \in Seq(HandType) /\ <<check>> \in Seq(HandType)
         /\ check # SZ => \A i \in 1..Len(Link(there, check)) : Link(there, check)[i] # SZ
<1>1. <<check>> \in Seq(HandType) /\ <<>> \in Seq(HandType) /\ Len(<<check>>) = 1
  OBVIOUS
<1> QED BY <1>1 DEF Link

\* Which checks the three chains begin with; what goes on is in it once.
LEMMA ChainOfTH ==
  ASSUME NEW a \in BOOLEAN, NEW b \in BOOLEAN
  PROVE  LET chain == <<TH>> \o Link(a, ST4) \o Link(b, HL)
         IN  /\ chain \in Seq(HandType) /\ Len(chain) > 0 /\ chain[1] = TH
             /\ Len(chain) > 1 => chain[2] = IF a THEN ST4 ELSE HL
             /\ Len(chain) > 1 => a \/ b
             /\ \A i \in 1..Len(chain) : chain[i] = TH => i = 1
<1> USE DEF Link, HandType, TH, ST4, HL, DZ, HJTHS
<1>1. CASE a /\ b
  BY <1>1
<1>2. CASE a /\ ~b
  BY <1>2
<1>3. CASE ~a /\ b
  BY <1>3
<1>4. CASE ~a /\ ~b
  BY <1>4
<1> QED BY <1>1, <1>2, <1>3, <1>4

\* A chain that begins with these two checks; if the first is the straight, there
\* is a second.
GoesOn(chain, first, second) ==
  /\ chain \in Seq(HandType) /\ Len(chain) > 0 /\ chain[1] = first
  /\ first = SZ => /\ Len(chain) > 1 /\ chain[2] = second
                  /\ \A i \in 1..Len(chain) : chain[i] = SZ => i = 1

LEMMA ChainUnderTH ==
  ASSUME NEW a \in BOOLEAN, NEW b \in BOOLEAN, NEW c \in BOOLEAN, NEW d \in BOOLEAN,
         NEW e \in BOOLEAN
  PROVE  LET chain == Link(a, ST4) \o Link(b, HL) \o <<SZ>> \o Link(c, ST3)
                        \o Link(d, LD) \o Link(e, YD) \o <<DZ>>
         IN  GoesOn(chain, IF a THEN ST4 ELSE IF b THEN HL ELSE SZ,
                    IF c THEN ST3 ELSE IF d THEN LD ELSE IF e THEN YD ELSE DZ)
<1> DEFINE l1 == Link(a, ST4)
           l2 == Link(b, HL)
           l3 == <<SZ>>
           l4 == Link(c, ST3)
           l5 == Link(d, LD)
           l6 == Link(e, YD)
           l7 == <<DZ>>
           chain == l1 \o l2 \o l3 \o l4 \o l5 \o l6 \o l7
           second == IF c THEN ST3 ELSE IF d THEN LD ELSE IF e THEN YD ELSE DZ
           Goal(ch) == GoesOn(ch, IF a THEN ST4 ELSE IF b THEN HL ELSE SZ, second)
<1>0. /\ l1 \in Seq(HandType) /\ l2 \in Seq(HandType) /\ l3 \in Seq(HandType)
      /\ l4 \in Seq(HandType) /\ l5 \in Seq(HandType) /\ l6 \in Seq(HandType)
      /\ l7 \in Seq(HandType)
      /\ \A i \in 1..Len(l4) : l4[i] # SZ
      /\ \A i \in 1..Len(l5) : l5[i] # SZ
      /\ \A i \in 1..Len(l6) : l6[i] # SZ
      /\ \A i \in 1..Len(l7) : l7[i] # SZ
  <2>1. /\ ST4 \in HandType /\ HL \in HandType /\ SZ \in HandType /\ ST3 \in HandType
        /\ LD \in HandType /\ YD \in HandType /\ DZ \in HandType
    BY DEF HandType, DZ, YD, LD, ST3, SZ, HL, ST4, HJTHS
  <2>2. ST3 # SZ /\ LD # SZ /\ YD # SZ /\ DZ # SZ
    BY DEF DZ, YD, LD, ST3, SZ
  <2>3. \A i \in 1..Len(l7) : l7[i] # SZ
    BY <2>2
  <2> QED BY <2>1, <2>2, <2>3, LinkType
<1> USE DEF HandType, DZ, YD, LD, ST3, SZ, HL, ST4, HJTHS
<1>1. ASSUME NEW s \in Seq(HandType), Begins(s, l1 \o l2 \o l3 \o l4) PROVE Begins(s, chain)
  <2> HIDE DEF l1, l2, l3, l4, l5, l6, l7
  <2>1. Begins(s, l1 \o l2 \o l3 \o l4 \o l5)
    BY <1>0, <1>1, BeginsOn
  <2>2. Begins(s, l1 \o l2 \o l3 \o l4 \o l5 \o l6)
    BY <1>0, <2>1, BeginsOn
  <2> QED BY <1>0, <2>2, BeginsOn
<1>2. CASE a
  <2> DEFINE s == <<ST4>>
  <2>1. s \in Seq(HandType) /\ s[1] = ST4 /\ s[1] # SZ /\ Len(s) = 1 /\ Begins(s, l1)
    BY <1>2 DEF Link, Begins
  <2>2. Begins(s, l1 \o l2 \o l3 \o l4)
    <3> HIDE DEF s, l1, l2, l3, l4
    <3>1. Begins(s, l1 \o l2)
      BY <1>0, <2>1, BeginsOn
    <3>2. Begins(s, l1 \o l2 \o l3)
      BY <1>0, <2>1, <3>1, BeginsOn
    <3> QED BY <1>0, <2>1, <3>2, BeginsOn
  <2>3. Begins(s, chain)
    BY <1>1, <2>1, <2>2
  <2> HIDE DEF chain, s
  <2>4. chain \in Seq(HandType) /\ Len(chain) >= 1 /\ chain[1] = ST4
    BY <2>1, <2>3 DEF Begins
  <2>5. Goal(chain)
    BY <1>2, <2>4, LenProperties DEF GoesOn
  <2> QED BY <2>5 DEF chain
<1>3. CASE ~a /\ b
  <2> DEFINE s == <<HL>>
  <2>1. s \in Seq(HandType) /\ s[1] = HL /\ s[1] # SZ /\ Len(s) = 1 /\ Begins(s, l1 \o l2)
    BY <1>3 DEF Link, Begins
  <2>2. Begins(s, l1 \o l2 \o l3 \o l4)
    <3> HIDE DEF s, l1, l2, l3, l4
    <3>2. Begins(s, l1 \o l2 \o l3)
      BY <1>0, <2>1, BeginsOn
    <3> QED BY <1>0, <2>1, <3>2, BeginsOn
  <2>3. Begins(s, chain)
    BY <1>1, <2>1, <2>2
  <2> HIDE DEF chain, s
  <2>4. chain \in Seq(HandType) /\ Len(chain) >= 1 /\ chain[1] = HL
    BY <2>1, <2>3 DEF Begins
  <2>5. Goal(chain)
    BY <1>3, <2>4, LenProperties DEF GoesOn
  <2> QED BY <2>5 DEF chain
<1>4. CASE ~a /\ ~b
  <2> DEFINE s == <<SZ, second>>
  <2>1. s \in Seq(HandType) /\ Len(s) = 2 /\ s[1] = SZ /\ s[2] = second
    OBVIOUS
  <2>2. l1 \o l2 \o l3 = <<SZ>>
    BY <1>4 DEF Link
  <2>3. Begins(s, chain)
    <3>1. CASE c
      <4>1. Begins(s, <<SZ>> \o l4)
        BY <3>1 DEF Link, Begins
      <4> HIDE DEF s, l1, l2, l3, l4, chain
      <4> QED BY <1>1, <2>1, <2>2, <4>1
    <3>2. CASE ~c
      <4>1. <<SZ>> \o l4 = <<SZ>>
        BY <3>2 DEF Link
      <4>2. Begins(s, <<SZ>> \o l5 \o l6 \o l7)
        <5>1. CASE d
          <6>1. Begins(s, <<SZ>> \o l5)
            BY <3>2, <5>1 DEF Link, Begins
          <6> HIDE DEF s, l5, l6, l7
          <6>2. Begins(s, <<SZ>> \o l5 \o l6)
            BY <1>0, <2>1, <6>1, BeginsOn
          <6> QED BY <1>0, <2>1, <6>2, BeginsOn
        <5>2. CASE ~d /\ e
          BY <3>2, <5>2 DEF Link, Begins
        <5>3. CASE ~d /\ ~e
          BY <3>2, <5>3 DEF Link, Begins
        <5> QED BY <5>1, <5>2, <5>3
      <4>3. chain = <<SZ>> \o l5 \o l6 \o l7
        <5> HIDE DEF l1, l2, l3, l4, l5, l6, l7
        <5>1. l1 \o l2 \o l3 \o l4 = <<SZ>>
          BY <2>2, <4>1
        <5> QED BY <5>1
      <4> QED BY <4>2, <4>3
    <3> QED BY <3>1, <3>2
  <2> HIDE DEF chain, s
  <2>4. /\ chain \in Seq(HandType) /\ Len(chain) >= 2 /\ chain[1] = SZ /\ chain[2] = second
        /\ \A i \in 1..Len(chain) : chain[i] = SZ => i = 1
    <3>1. /\ Len(s) <= Len(chain) /\ chain \in Seq(HandType)
          /\ \A i \in 1..2 : chain[i] = s[i]
          /\ \A i \in 1..Len(chain) : chain[i] = SZ => i <= 2
      BY <2>1, <2>3 DEF Begins
    <3>2. chain[1] = SZ /\ chain[2] = second /\ second # SZ
      BY <2>1, <3>1
    <3>3. ASSUME NEW i \in 1..Len(chain), chain[i] = SZ PROVE i = 1
      <4>1. i = 1 \/ i = 2
        BY <3>1, <3>3
      <4> QED BY <3>2, <3>3, <4>1
    <3> QED BY <2>1, <3>1, <3>2, <3>3
  <2>5. Goal(chain)
    BY <1>4, <2>4, LenProperties DEF GoesOn
  <2> QED BY <2>5 DEF chain
<1> QED BY <1>2, <1>3, <1>4

LEMMA ChainWithLz ==
  ASSUME NEW a \in BOOLEAN, NEW b \in BOOLEAN, NEW c \in BOOLEAN
  PROVE  LET chain == Link(a, ST4) \o Link(b, HL) \o <<SZ>> \o Link(c, ST3) \o <<YD>>
         IN  GoesOn(chain, IF a THEN ST4 ELSE IF b THEN HL ELSE SZ, IF c THEN ST3 ELSE YD)
<1> USE DEF GoesOn, Link, HandType, DZ, YD, ST3, SZ, HL, ST4, HJTHS
<1>1. CASE a /\ b /\ c
  BY <1>1
<1>2. CASE a /\ b /\ ~c
  BY <1>2
<1>3. CASE a /\ ~b /\ c
  BY <1>3
<1>4. CASE a /\ ~b /\ ~c
  BY <1>4
<1>5. CASE ~a /\ b /\ c
  BY <1>5
<1>6. CASE ~a /\ b /\ ~c
  BY <1>6
<1>7. CASE ~a /\ ~b /\ c
  BY <1>7
<1>8. CASE ~a /\ ~b /\ ~c
  BY <1>8
<1> QED BY <1>1, <1>2, <1>3, <1>4, <1>5, <1>6, <1>7, <1>8

-----------------------------------------------------------------------------
(* Straights.                                                                *)

\* The card is put where it belongs.
Placed(X, s, new, t) == \E n \in 1..Len(s) + 1 : GoesTo(X, s, n, new, t)

\* A list with one card of each face stays one, and takes every face it has not.
LEMMA WithoutSeemFacts ==
  ASSUME NEW X, \A p \in X : p.face \in Faces, NEW s \in Seq(X), Strict(s), NEW new \in X
  PROVE  LET t == SortAppendPokerWithoutSeem(s, new)
         IN  /\ Strict(t)
             /\ t = s \/ Placed(X, s, new, t)
             /\ (\A i \in 1..Len(s) : s[i].face # new.face) => Placed(X, s, new, t)
<1> DEFINE t == SortAppendPokerWithoutSeem(s, new)
<1>1. /\ Len(s) \in Nat /\ DOMAIN s = 1..Len(s)
      /\ \A i \in 1..Len(s) : s[i].face \in Int
  <2>1. \A i \in 1..Len(s) : s[i] \in X
    BY ElementOfSeq
  <2>2. \A p \in X : p.face \in Int
    BY DEF Faces
  <2> QED BY <2>1, <2>2, LenProperties
<1>2. CASE \E i \in 1..Len(s) : s[i].face = new.face
  <2>1. t = s
    BY <1>1, <1>2 DEF SortAppendPokerWithoutSeem
  <2> QED BY <1>2, <2>1
<1>3. CASE \A i \in 1..Len(s) : s[i].face # new.face
  <2>1. t = SortAppendPoker(s, new)
    BY <1>1, <1>3 DEF SortAppendPokerWithoutSeem
  <2>2. Rising(s)
    <3>1. \A i, j \in 1..Len(s) : s[i].face < s[j].face => s[i].face <= s[j].face
      BY <1>1
    <3> QED BY <3>1 DEF Rising, Strict
  <2>3. PICK n \in 1..Len(s) + 1 : GoesTo(X, s, n, new, SortAppendPoker(s, new))
    BY <2>2, SortAppendFacts
  <2>4. Strict(SortAppendPoker(s, new))
    BY <1>3, <2>2, <2>3, SortedStays
  <2> QED BY <2>1, <2>3, <2>4 DEF Placed
<1> QED BY <1>2, <1>3

\* The wild card makes five of four cards when it takes a face they have not.
LEMMA FourAndBorn ==
  ASSUME NEW four, Own(four), Strict(four), Len(four) = 4, HaveLz, NEW f \in Faces,
         NEW c \in Colors, \A i \in 1..4 : four[i].face # f
  PROVE  LET b == BornALaiZi(f, c)
             t == SortAppendPokerWithoutSeem(four, b)
         IN  Five(t) /\ Strict(t) /\ \E n \in 1..5 : GoesTo(Poker, four, n, b, t)
<1> DEFINE b == BornALaiZi(f, c)
           t == SortAppendPokerWithoutSeem(four, b)
<1>1. b \in Poker /\ b.face = f
  BY BornFacts
<1>2. four \in Seq(Poker) /\ \A p \in Poker : p.face \in Faces
  BY OwnIsMade, PokerFacts
<1> HIDE DEF b
<1>3. Placed(Poker, four, b, t) /\ Strict(t)
  BY <1>1, <1>2, WithoutSeemFacts
<1>4. PICK n \in 1..5 : GoesTo(Poker, four, n, b, t) /\ t = InsertAt(four, n, b) /\ n \in 1..Len(four) + 1
  BY <1>3 DEF Placed, GoesTo
<1>5. Made(InsertAt(four, n, b)) /\ Len(InsertAt(four, n, b)) = Len(four) + 1
  BY <1>4, BornIsMade DEF b
<1> QED BY <1>3, <1>4, <1>5 DEF Five, b

\* Five cards from which a hand can be shown, in a row or A2345, of some colors.
Consecutive(P) == \A i \in 1..4 : P[i + 1].face = P[i].face + 1
Wheel(P) == FacesOf(P) = Smallest
ColoredIn(s, K) == \A i \in 1..Len(s) : s[i].color \in K
Straight(P, K) == Five(P) /\ (Consecutive(P) \/ Wheel(P)) /\ ColoredIn(P, K)

\* The card that fills the one gap of four sorted cards, or goes before or after
\* them, makes a row of them.
LEMMA FilledIsConsecutive ==
  ASSUME NEW four, \A i \in 1..4 : four[i].face \in Int, Len(four) = 4,
         NEW b, b.face \in Int, NEW t, NEW n \in 1..5, GoesTo(Poker, four, n, b, t),
         \/ \E g \in 1..3 :
              /\ b.face = four[g].face + 1
              /\ \A i \in 1..3 : four[i + 1].face = four[i].face + IF i = g THEN 2 ELSE 1
         \/ /\ \A i \in 1..3 : four[i + 1].face = four[i].face + 1
            /\ b.face = four[4].face + 1 \/ b.face = four[1].face - 1
  PROVE  Consecutive(t)
<1> DEFINE a == four[1].face
<1>1. /\ \A k \in 1..n - 1 : t[k] = four[k] /\ four[k].face <= b.face
      /\ t[n] = b
      /\ \A k \in n..4 : t[k + 1] = four[k] /\ b.face < four[k].face
  BY DEF GoesTo, IsInserted
<1>2. a \in Int
  OBVIOUS
<1>3. ASSUME NEW g \in 1..3, b.face = four[g].face + 1,
             \A i \in 1..3 : four[i + 1].face = four[i].face + IF i = g THEN 2 ELSE 1
      PROVE  /\ b.face = a + g /\ n = g + 1
             /\ \A i \in 1..4 : four[i].face = a + i - IF i > g THEN 0 ELSE 1
  <2>1. /\ four[2].face = four[1].face + IF 1 = g THEN 2 ELSE 1
        /\ four[3].face = four[2].face + IF 2 = g THEN 2 ELSE 1
        /\ four[4].face = four[3].face + IF 3 = g THEN 2 ELSE 1
    BY <1>3
  <2>2. \A i \in 1..4 : four[i].face = a + i - IF i > g THEN 0 ELSE 1
    BY <1>2, <2>1
  <2>3. b.face = a + g
    BY <1>2, <1>3, <2>2
  <2>4. n > g
    <3>1. SUFFICES ASSUME n <= g PROVE FALSE
      OBVIOUS
    <3>2. g \in n..4 /\ b.face < four[g].face
      BY <1>1, <3>1
    <3> QED BY <1>3, <3>2
  <2>5. n <= g + 1
    <3>1. SUFFICES ASSUME n > g + 1 PROVE FALSE
      OBVIOUS
    <3>2. g + 1 \in 1..n - 1 /\ g + 1 \in 1..4 /\ four[g + 1].face <= b.face
      BY <1>1, <3>1
    <3>3. four[g + 1].face = a + (g + 1)
      BY <2>2, <3>2
    <3> HIDE DEF a
    <3> QED BY <1>2, <2>3, <3>2, <3>3
  <2> QED BY <2>2, <2>3, <2>4, <2>5
<1>4. CASE \E g \in 1..3 :
              /\ b.face = four[g].face + 1
              /\ \A i \in 1..3 : four[i + 1].face = four[i].face + IF i = g THEN 2 ELSE 1
  <2>1. PICK g \in 1..3 :
              /\ b.face = four[g].face + 1
              /\ \A i \in 1..3 : four[i + 1].face = four[i].face + IF i = g THEN 2 ELSE 1
    BY <1>4
  <2>2. /\ b.face = a + g /\ n = g + 1
        /\ \A i \in 1..4 : four[i].face = a + i - IF i > g THEN 0 ELSE 1
    BY <1>3, <2>1
  <2> HIDE DEF a
  <2>3. \A k \in 1..5 : t[k].face = a + k - 1
    <3>1. ASSUME NEW k \in 1..5 PROVE t[k].face = a + k - 1
      <4>1. CASE k < n
        <5>1. t[k] = four[k] /\ k \in 1..4 /\ ~(k > g)
          BY <1>1, <2>2, <4>1
        <5> QED BY <1>2, <2>2, <5>1
      <4>2. CASE k = n
        BY <1>1, <1>2, <2>2, <4>2
      <4>3. CASE k > n
        <5>1. k - 1 \in n..4 /\ k - 1 \in 1..4 /\ k - 1 > g /\ (k - 1) + 1 = k
          BY <2>2, <4>3
        <5>2. t[k] = four[k - 1] /\ four[k - 1].face = a + (k - 1) - 0
          BY <1>1, <2>2, <5>1
        <5> QED BY <1>2, <5>2
      <4> QED BY <4>1, <4>2, <4>3
    <3> QED BY <3>1
  <2>4. ASSUME NEW i \in 1..4 PROVE t[i + 1].face = t[i].face + 1
    <3>1. t[i + 1].face = a + (i + 1) - 1 /\ t[i].face = a + i - 1
      BY <2>3
    <3> QED BY <1>2, <3>1
  <2> QED BY <2>4 DEF Consecutive
<1>5. CASE /\ \A i \in 1..3 : four[i + 1].face = four[i].face + 1
           /\ b.face = four[4].face + 1 \/ b.face = four[1].face - 1
  <2>1. four[1].face = a /\ four[2].face = a + 1 /\ four[3].face = a + 2 /\ four[4].face = a + 3
    <3>1. /\ four[2].face = four[1].face + 1
          /\ four[3].face = four[2].face + 1
          /\ four[4].face = four[3].face + 1
      BY <1>5
    <3> QED BY <1>2, <3>1
  <2> HIDE DEF a
  <2>2. CASE b.face = a + 4
    <3>1. n = 5
      <4>1. SUFFICES ASSUME n # 5 PROVE FALSE
        OBVIOUS
      <4>2. 4 \in n..4 /\ b.face < four[4].face
        BY <1>1, <4>1
      <4> QED BY <1>2, <2>1, <2>2, <4>2
    <3>2. t[1] = four[1] /\ t[2] = four[2] /\ t[3] = four[3] /\ t[4] = four[4] /\ t[5] = b
      BY <1>1, <3>1
    <3>3. /\ t[1].face = a /\ t[2].face = a + 1 /\ t[3].face = a + 2 /\ t[4].face = a + 3
          /\ t[5].face = a + 4
      BY <2>1, <2>2, <3>2
    <3> QED BY <1>2, <3>3 DEF Consecutive
  <2>3. CASE b.face = a - 1
    <3>1. n = 1
      <4>1. SUFFICES ASSUME n # 1 PROVE FALSE
        OBVIOUS
      <4>2. 1 \in 1..n - 1 /\ four[1].face <= b.face
        BY <1>1, <4>1
      <4> QED BY <1>2, <2>1, <2>3, <4>2
    <3>2. t[1] = b /\ t[1 + 1] = four[1] /\ t[2 + 1] = four[2] /\ t[3 + 1] = four[3] /\ t[4 + 1] = four[4]
      BY <1>1, <3>1
    <3>3. /\ t[1].face = a - 1 /\ t[2].face = a /\ t[3].face = a + 1 /\ t[4].face = a + 2
          /\ t[5].face = a + 3
      BY <2>1, <2>3, <3>2
    <3> QED BY <1>2, <3>3 DEF Consecutive
  <2>4. b.face = a + 4 \/ b.face = a - 1
    BY <1>2, <1>5, <2>1
  <2> QED BY <2>2, <2>3, <2>4
<1> QED BY <1>4, <1>5

\* A look at n sorted cards finds a straight, or a break between two of them.
Looked(r, n, K) == IF r.break = 0 THEN Straight(r.row, K) ELSE r.break \in 1..n - 1

LEMMA LookAtFive ==
  ASSUME NEW five, Own(five), Len(five) = 5, NEW K, ColoredIn(five, K)
  PROVE  /\ Looked(CheckIsSZ2(five), 5, K)
         /\ Consecutive(five) => CheckIsSZ2(five).break = 0
<1> DEFINE broken == {i \in 1..4 : five[i + 1].face # five[i].face + 1}
<1>1. CASE broken = {}
  <2>1. CheckIsSZ2(five) = InRow(five)
    BY <1>1 DEF CheckIsSZ2
  <2>2. Five(five)
    BY OwnIsMade DEF Five
  <2>3. Consecutive(five)
    BY <1>1 DEF Consecutive
  <2> QED BY <2>1, <2>2, <2>3 DEF InRow, Looked, Straight
<1>2. CASE broken # {}
  <2>1. CheckIsSZ2(five) = Broken(Min(broken))
    BY <1>2 DEF CheckIsSZ2
  <2>2. Min(broken) \in broken
    <3>1. broken \in SUBSET Nat
      OBVIOUS
    <3> HIDE DEF broken
    <3> QED BY <1>2, <3>1, MinOfPlaces
  <2>3. Min(broken) \in 1..4
    BY <2>2
  <2>4. ~Consecutive(five)
    BY <1>2 DEF Consecutive
  <2> HIDE DEF broken
  <2> QED BY <2>1, <2>3, <2>4 DEF Broken, Looked
<1> QED BY <1>1, <1>2

\* Four cards that are in a row but for one gap of one face at most.
OneGap(four) ==
  \E g \in 0..3 : \A i \in 1..3 : four[i + 1].face = four[i].face + IF i = g THEN 2 ELSE 1

LEMMA LookAtFour ==
  ASSUME NEW four, Own(four), Strict(four), Len(four) = 4, HaveLz, NEW K, ColoredIn(four, K)
  PROVE  /\ Looked(CheckIsSZ2WithLz(four), 4, K)
         /\ OneGap(four) => CheckIsSZ2WithLz(four).break = 0
<1> DEFINE dis(i) == four[i + 1].face - four[i].face
           gaps   == {i \in 1..3 : dis(i) = 2}
           breaks == {i \in 1..3 : dis(i) > 2 \/ (i \in gaps /\ \E j \in gaps : j > i)}
           face   == IF gaps # {} THEN four[Max(gaps)].face + 1
                     ELSE IF four[4].face = Ace THEN Ace - 4 ELSE four[4].face + 1
           last   == IF dis(Max(breaks)) > 2 THEN Max(breaks) ELSE Max(gaps)
<1>1. /\ \A i \in 1..4 : four[i].face \in 1..13 /\ four[i].color \in Colors
      /\ \A i, j \in 1..4 : i < j => four[i].face < four[j].face
  <2>1. \A i \in 1..4 : four[i] \in Card
    BY ElementOfSeq DEF Own
  <2>2. \A i \in 1..4 : four[i].face \in 1..13 /\ four[i].color \in Colors
    BY <2>1, CardFacts DEF Faces
  <2> QED BY <2>2 DEF Strict
<1>2. \A S \in SUBSET (1..3) : S # {} => Max(S) \in S /\ \A y \in S : y <= Max(S)
  <2>1. ASSUME NEW S \in SUBSET (1..3), S # {} PROVE Max(S) \in S /\ \A y \in S : y <= Max(S)
    <3>1. PICK n \in Nat : n = 3
      OBVIOUS
    <3>2. S \in SUBSET (0..n)
      BY <3>1
    <3> QED BY <2>1, <3>2, MaxOfPlaces
  <2> QED BY <2>1
<1>3. CASE breaks = {}
  <2>1. CheckIsSZ2WithLz(four) = InRow(SortAppendPokerWithoutSeem(four, BornALaiZi(face, four[4].color)))
    BY <1>3 DEF CheckIsSZ2WithLz
  <2>2. /\ face \in Faces /\ \A i \in 1..4 : four[i].face # face
        /\ \/ \E g \in 1..3 :
                /\ face = four[g].face + 1
                /\ \A i \in 1..3 : four[i + 1].face = four[i].face + IF i = g THEN 2 ELSE 1
           \/ /\ \A i \in 1..3 : four[i + 1].face = four[i].face + 1
              /\ face = four[4].face + 1 \/ face = four[1].face - 1
    <3>0. ASSUME NEW i \in 1..3 PROVE dis(i) > 0 /\ dis(i) \in Int /\ ~(dis(i) > 2)
      <4>1. i \in 1..4 /\ i + 1 \in 1..4 /\ i < i + 1
        OBVIOUS
      <4>2. four[i].face \in Int /\ four[i + 1].face \in Int /\ four[i].face < four[i + 1].face
        BY <1>1, <4>1
      <4>3. ~(dis(i) > 2)
        <5> HIDE DEF dis
        <5> QED BY <1>3
      <4> QED BY <4>2, <4>3
    <3>1. CASE gaps # {}
      <4> DEFINE g == Max(gaps)
      <4>1. g \in gaps /\ \A i \in gaps : i <= g
        <5>1. gaps \in SUBSET (1..3)
          OBVIOUS
        <5> HIDE DEF gaps
        <5> QED BY <1>2, <3>1, <5>1
      <4>5. ASSUME NEW i \in 1..3, i # g
            PROVE  four[i + 1].face = four[i].face + 1
        <5>1. g \in 1..3
          BY <4>1
        <5>2. i \notin gaps
          <6>1. SUFFICES ASSUME i \in gaps PROVE FALSE
            OBVIOUS
          <6> HIDE DEF dis
          <6>2. g > i
            <7> HIDE DEF gaps, g
            <7> QED BY <4>1, <4>5, <5>1, <6>1
          <6>3. i \in breaks
            <7> HIDE DEF gaps, g
            <7> QED BY <4>1, <6>1, <6>2
          <6> QED BY <1>3, <6>3
        <5>3. dis(i) # 2
          BY <5>2
        <5>4. dis(i) = 1
          <6> HIDE DEF dis
          <6> QED BY <3>0, <5>3
        <5> QED BY <1>1, <5>4
      <4>2. g \in 1..3 /\ four[g + 1].face = four[g].face + 2 /\ g + 1 \in 1..4 /\ g \in 1..4
        <5>1. g \in 1..3 /\ dis(g) = 2
          BY <4>1
        <5> HIDE DEF g
        <5> QED BY <1>1, <5>1
      <4>3. face = four[g].face + 1
        BY <3>1
      <4> HIDE DEF g, face
      <4>4. \A i \in 1..4 : four[i].face # face
        <5>1. ASSUME NEW i \in 1..4 PROVE four[i].face # face
          <6>1. i < g \/ i = g \/ i = g + 1 \/ i > g + 1
            BY <4>2
          <6> QED BY <1>1, <4>2, <4>3, <6>1
        <5> QED BY <5>1
      <4>6. face \in Faces
        BY <1>1, <4>2, <4>3 DEF Faces
      <4>7. \A i \in 1..3 : four[i + 1].face = four[i].face + IF i = g THEN 2 ELSE 1
        BY <4>2, <4>5
      <4> QED BY <4>2, <4>3, <4>4, <4>6, <4>7
    <3>2. CASE gaps = {}
      <4>1. \A i \in 1..3 : dis(i) = 1
        <5>1. \A i \in 1..3 : ~(dis(i) = 2)
          <6> HIDE DEF dis
          <6> QED BY <3>2
        <5> HIDE DEF dis
        <5> QED BY <3>0, <5>1
      <4>2. /\ four[2].face = four[1].face + 1 /\ four[3].face = four[2].face + 1
            /\ four[4].face = four[3].face + 1
        <5>1. dis(1) = 1 /\ dis(2) = 1 /\ dis(3) = 1
          BY <4>1
        <5> QED BY <1>1, <5>1
      <4>3. face = IF four[4].face = 13 THEN 9 ELSE four[4].face + 1
        BY <3>2 DEF Ace
      <4> HIDE DEF face
      <4>4. face # four[1].face /\ face # four[2].face /\ face # four[3].face /\ face # four[4].face
        BY <1>1, <4>2, <4>3
      <4>5. face \in 1..13
        BY <1>1, <4>2, <4>3
      <4>6. face = four[4].face + 1 \/ face = four[1].face - 1
        BY <1>1, <4>2, <4>3
      <4>7. \A i \in 1..4 : four[i].face # face
        <5>1. \A i \in 1..4 : i = 1 \/ i = 2 \/ i = 3 \/ i = 4
          OBVIOUS
        <5> QED BY <4>4, <5>1
      <4>8. \A i \in 1..3 : four[i + 1].face = four[i].face + 1
        <5>1. \A i \in 1..3 : i = 1 \/ i = 2 \/ i = 3
          OBVIOUS
        <5> QED BY <4>2, <5>1
      <4> QED BY <4>5, <4>6, <4>7, <4>8 DEF Faces
    <3> HIDE DEF gaps, face, dis
    <3> QED BY <3>1, <3>2
  <2> DEFINE b == BornALaiZi(face, four[4].color)
             t == SortAppendPokerWithoutSeem(four, b)
  <2>3. Five(t) /\ b.face = face /\ b.color = four[4].color /\ \E n \in 1..5 : GoesTo(Poker, four, n, b, t)
    <3> HIDE DEF face
    <3>1. four[4].color \in Colors
      BY <1>1
    <3>2. b.face = face /\ b.color = four[4].color
      BY DEF BornALaiZi
    <3> QED BY <1>1, <2>2, <3>1, <3>2, FourAndBorn
  <2> HIDE DEF face, t, b
  <2>4. PICK n \in 1..5 : GoesTo(Poker, four, n, b, t)
    BY <2>3
  <2>5. Consecutive(t)
    <3>1. (\A i \in 1..4 : four[i].face \in Int) /\ b.face \in Int
      BY <1>1, <2>2, <2>3 DEF Faces
    <3> QED BY <2>2, <2>3, <2>4, <3>1, FilledIsConsecutive
  <2>6. ColoredIn(t, K)
    <3>1. /\ \A k \in 1..n - 1 : t[k] = four[k]
          /\ t[n] = b /\ \A k \in n..4 : t[k + 1] = four[k]
      BY <2>4 DEF GoesTo, IsInserted
    <3>2. Len(t) = 5
      BY <2>3 DEF Five
    <3>3. \A i \in 1..4 : four[i].color \in K
      BY DEF ColoredIn
    <3>4. ASSUME NEW k \in 1..5 PROVE t[k].color \in K
      <4>1. CASE k < n
        <5>1. k \in 1..n - 1 /\ k \in 1..4
          BY <4>1
        <5> QED BY <3>1, <3>3, <5>1
      <4>2. CASE k = n
        BY <2>3, <3>1, <3>3, <4>2
      <4>3. CASE k > n
        <5>1. k - 1 \in n..4 /\ k - 1 \in 1..4 /\ (k - 1) + 1 = k
          BY <4>3
        <5> QED BY <3>1, <3>3, <5>1
      <4> QED BY <4>1, <4>2, <4>3
    <3> QED BY <3>2, <3>4 DEF ColoredIn
  <2> QED BY <2>1, <2>3, <2>5, <2>6 DEF InRow, Looked, Straight, t, b
<1>4. CASE breaks # {}
  <2>1. CheckIsSZ2WithLz(four) = Broken(last)
    BY <1>4 DEF CheckIsSZ2WithLz
  <2>2. Max(breaks) \in breaks
    <3>1. breaks \in SUBSET (1..3)
      OBVIOUS
    <3> HIDE DEF breaks
    <3> QED BY <1>2, <1>4, <3>1
  <2>3. ~(dis(Max(breaks)) > 2) => gaps # {}
    BY <2>2
  <2>4. gaps # {} => Max(gaps) \in 1..3
    <3>1. gaps \in SUBSET (1..3)
      OBVIOUS
    <3> HIDE DEF gaps
    <3> QED BY <1>2, <3>1
  <2>5. last \in 1..3
    <3>1. Max(breaks) \in 1..3
      BY <2>2
    <3> HIDE DEF breaks, gaps, dis
    <3> QED BY <2>3, <2>4, <3>1
  <2>6. ~OneGap(four)
    <3>1. SUFFICES ASSUME OneGap(four) PROVE FALSE
      OBVIOUS
    <3>2. PICK g \in 0..3 :
            \A i \in 1..3 : four[i + 1].face = four[i].face + IF i = g THEN 2 ELSE 1
      BY <3>1 DEF OneGap
    <3>3. ASSUME NEW i \in 1..3 PROVE dis(i) = IF i = g THEN 2 ELSE 1
      <4>1. four[i].face \in Int /\ four[i + 1].face = four[i].face + IF i = g THEN 2 ELSE 1
        BY <1>1, <3>2
      <4> QED BY <4>1
    <3> DEFINE m == Max(breaks)
    <3>4. m \in breaks
      BY <2>2
    <3> HIDE DEF dis, m
    <3>5. m \in 1..3 /\ (dis(m) > 2 \/ (dis(m) = 2 /\ \E j \in 1..3 : dis(j) = 2 /\ j > m))
      BY <3>4
    <3> QED BY <3>3, <3>5
  <2> HIDE DEF last
  <2> QED BY <2>1, <2>5, <2>6 DEF Broken, Looked
<1> QED BY <1>3, <1>4

\* Where it ends there are five cards, or there is none.
LEMMA SearchFinds ==
  ASSUME NEW l \in Nat, NEW n \in Nat \ {0}, NEW found, NEW K,
         \A k \in n..l : Looked(found[k], n, K), NEW f, IsSearch(f, found, n, l)
  PROVE  f[l] = <<>> \/ Straight(f[l], K)
<1> DEFINE bad == {i \in 0..l : f[i] # <<>> /\ ~Straight(f[i], K)}
<1>1. SUFFICES ASSUME bad # {} PROVE FALSE
  <2>1. l \in 0..l
    OBVIOUS
  <2> QED BY <1>1, <2>1
<1>2. PICK i \in bad : \A y \in bad : i <= y
  <2>1. bad \in SUBSET Nat
    OBVIOUS
  <2> HIDE DEF bad
  <2> QED BY <1>1, <2>1, LeastElement
<1>3. i \in 0..l /\ f[i] = LookedUpTo(f, found, n, i) /\ f[i] # <<>> /\ ~Straight(f[i], K)
  BY DEF IsSearch
<1>4. ~(i < n) /\ f[i] = IF found[i].break = 0 THEN found[i].row ELSE f[i - n + found[i].break]
  BY <1>3 DEF LookedUpTo
<1>5. Looked(found[i], n, K)
  <2>1. i \in n..l
    BY <1>3, <1>4
  <2> QED BY <2>1
<1>6. found[i].break # 0 /\ found[i].break \in 1..n - 1
  BY <1>3, <1>4, <1>5 DEF Looked
<1> DEFINE j == i - n + found[i].break
<1>7. j \in 0..l /\ ~(i <= j)
  BY <1>3, <1>4, <1>6
<1>8. f[i] = f[j]
  BY <1>4, <1>6
<1> HIDE DEF j
<1> QED BY <1>2, <1>3, <1>7, <1>8

\* How many cards a straight is looked for in.
CanLook(n) == n = 5 \/ (n = 4 /\ HaveLz)

LEMMA StrictPart ==
  ASSUME NEW s, Own(s), Strict(s), NEW a \in Nat \ {0}, NEW b \in Nat, a <= b, b <= Len(s)
  PROVE  LET t == SubSeq(s, a, b) 
         IN  /\ Own(t) /\ Strict(t) /\ Len(t) = b - a + 1
             /\ \A i \in 1..b - a + 1 : t[i] = s[a + i - 1] /\ a + i - 1 \in 1..Len(s)
<1> DEFINE t == SubSeq(s, a, b)
<1>1. s \in Seq(Card) /\ Len(s) \in Nat
  BY LenProperties DEF Own
<1>2. a..b \in SUBSET (1..Len(s)) /\ Cardinality(a..b) = b - a + 1 /\ Picks(t, s, a..b)
  BY <1>1, SubSeqPicks
<1>3. Own(t) /\ Len(t) = b - a + 1
  <2> HIDE DEF t
  <2> QED BY <1>2, PicksOfOwn
<1>4. \A i \in 1..b - a + 1 : t[i] = s[a + i - 1] /\ a + i - 1 \in 1..Len(s)
  <2>1. \A i \in a..b : s[i] \in Card
    BY <1>1, ElementOfSeq
  <2>2. \A i \in 1..b - a + 1 : t[i] = s[a + i - 1]
    BY <2>1, SubSeqProperties
  <2> QED BY <1>1, <2>2
<1> HIDE DEF t
<1>5. ASSUME NEW i \in 1..Len(t), NEW j \in 1..Len(t), i < j PROVE t[i].face < t[j].face
  <2>1. /\ t[i] = s[a + i - 1] /\ a + i - 1 \in 1..Len(s)
        /\ t[j] = s[a + j - 1] /\ a + j - 1 \in 1..Len(s) /\ a + i - 1 < a + j - 1
    BY <1>3, <1>4, <1>5
  <2> QED BY <2>1 DEF Strict
<1>6. Strict(t)
  BY <1>5 DEF Strict
<1> QED BY <1>3, <1>4, <1>6 DEF t

LEMMA CutFacts ==
  ASSUME NEW s, Own(s), Strict(s), NEW n \in {4, 5}, CanLook(n), NEW K, ColoredIn(s, K)
  PROVE  LET row == CutSZForCheck(s, n)
             last == SubSeq(s, Len(s) - n + 1, Len(s))
         IN  /\ row = <<>> \/ Straight(row, K)
             /\ Len(s) >= n /\ (IF n = 5 THEN Consecutive(last) ELSE OneGap(last)) => row # <<>>
<1> DEFINE Check(cards) == IF n = 5 THEN CheckIsSZ2(cards) ELSE CheckIsSZ2WithLz(cards)
           l == Len(s)
           found == [last \in n..l |-> Check(SubSeq(s, last - n + 1, last))]
           f == CHOOSE g : IsSearch(g, found, n, l)
<1>1. l \in Nat
  BY LenProperties DEF Own
<1>2. ASSUME NEW k \in n..l
      PROVE  LET cards == SubSeq(s, k - n + 1, k)
             IN  /\ Looked(found[k], n, K)
                 /\ (IF n = 5 THEN Consecutive(cards) ELSE OneGap(cards)) => found[k].break = 0
  <2> DEFINE cards == SubSeq(s, k - n + 1, k)
  <2>1. Own(cards) /\ Strict(cards) /\ Len(cards) = n /\ ColoredIn(cards, K)
    <3>1. PICK a \in Nat \ {0}, b \in Nat : a = k - n + 1 /\ b = k
      BY <1>1
    <3>2. a <= b /\ b <= Len(s) /\ b - a + 1 = n
      BY <1>1, <3>1
    <3> DEFINE t == SubSeq(s, a, b)
    <3>3. /\ Own(t) /\ Strict(t) /\ Len(t) = b - a + 1
          /\ \A i \in 1..b - a + 1 : t[i] = s[a + i - 1] /\ a + i - 1 \in 1..Len(s)
      BY <3>2, StrictPart
    <3>4. t = cards
      BY <3>1
    <3> HIDE DEF t, cards
    <3>5. ColoredIn(t, K)
      BY <3>3 DEF ColoredIn
    <3> QED BY <3>2, <3>3, <3>4, <3>5
  <2>2. found[k] = Check(cards)
    OBVIOUS
  <2> HIDE DEF cards, found
  <2>3. /\ Looked(found[k], n, K)
        /\ (IF n = 5 THEN Consecutive(cards) ELSE OneGap(cards)) => found[k].break = 0
    <3>1. CASE n = 5
      BY <2>1, <2>2, <3>1, LookAtFive
    <3>2. CASE n = 4
      BY <2>1, <2>2, <3>2, LookAtFour DEF CanLook
    <3> QED BY <3>1, <3>2
  <2> QED BY <2>3 DEF cards
<1>3. CutSZForCheck(s, n) = f[l]
  BY DEF CutSZForCheck, IsSearch, LookedUpTo
<1>4. n \in Nat \ {0}
  OBVIOUS
<1> HIDE DEF found, l
<1>5. IsSearch(f, found, n, l)
  <2>1. \E g : IsSearch(g, found, n, l)
    <3>1. \A k \in n..l : found[k].break = 0 \/ found[k].break \in 1..n - 1
      BY <1>2 DEF Looked
    <3> QED BY <1>1, <1>4, <3>1, SearchExists
  <2> QED BY <2>1
<1> HIDE DEF f
<1>6. f[l] = <<>> \/ Straight(f[l], K)
  BY <1>1, <1>2, <1>4, <1>5, SearchFinds
<1>7. ASSUME l >= n, IF n = 5 THEN Consecutive(SubSeq(s, l - n + 1, l)) ELSE OneGap(SubSeq(s, l - n + 1, l))
      PROVE  f[l] # <<>>
  <2>1. l \in n..l /\ l \in 0..l /\ ~(l < n)
    BY <1>1, <1>7
  <2>2. found[l].break = 0 /\ Looked(found[l], n, K)
    BY <1>2, <1>7, <2>1
  <2>3. f[l] = found[l].row
    BY <1>5, <2>1, <2>2 DEF IsSearch, LookedUpTo
  <2>4. Len(f[l]) = 5
    BY <2>2, <2>3 DEF Looked, Straight, Five
  <2>5. Len(<<>>) = 0
    OBVIOUS
  <2> QED BY <2>4, <2>5
<1> QED BY <1>3, <1>6, <1>7 DEF l

LEMMA SmallestFacts ==
  ASSUME NEW s, Own(s), Len(s) > 0, NEW mayLack \in {0, 1}, mayLack = 1 => HaveLz,
         NEW K, ColoredIn(s, K)
  PROVE  LET row == SmallestSZ(s, mayLack) IN row = <<>> \/ Straight(row, K)
<1> DEFINE at(f) == {i \in DOMAIN s : s[i].face = f}
           lack  == {k \in 1..5 : at(Smallest[k]) = {}}
           row == [k \in 1..5 |-> IF k \in lack THEN BornALaiZi(Smallest[k], s[1].color)
                                  ELSE s[Max(at(Smallest[k]))]]
<1>1. /\ Len(s) \in Nat /\ DOMAIN s = 1..Len(s)
      /\ \A i \in 1..Len(s) : s[i] \in Card /\ s[i] \in originPokers
      /\ s[1].color \in Colors
  <2>1. s \in Seq(Card)
    BY DEF Own
  <2>2. Len(s) \in Nat /\ DOMAIN s = 1..Len(s) /\ \A i \in 1..Len(s) : s[i] \in Card
    BY <2>1, LenProperties, ElementOfSeq
  <2>3. 1 \in 1..Len(s)
    BY <2>2
  <2>4. s[1].color \in Colors
    BY <2>2, <2>3, CardFacts
  <2> QED BY <2>2, <2>4 DEF Own
<1>2. /\ \A k \in 1..5 : Smallest[k] \in Faces
      /\ \A k, m \in 1..5 : k # m => Smallest[k] # Smallest[m]
  <2>1. Smallest = <<13, 1, 2, 3, 4>>
    BY DEF Smallest, Ace
  <2> QED BY <2>1 DEF Faces
<1>3. SUFFICES ASSUME ~(Cardinality(lack) > mayLack) PROVE Straight(row, K)
  <2>1. SmallestSZ(s, mayLack) = IF Cardinality(lack) > mayLack THEN <<>> ELSE row
    BY DEF SmallestSZ
  <2> HIDE DEF row, lack
  <2> QED BY <1>3, <2>1
<1>4. IsFiniteSet(lack) /\ Cardinality(lack) \in Nat
  <2>1. lack \in SUBSET (1..5)
    OBVIOUS
  <2>2. IsFiniteSet(1..5)
    <3>1. PICK n \in Nat : n = 5
      OBVIOUS
    <3>2. IsFiniteSet(1..n)
      BY SizeOfPlaces
    <3> QED BY <3>1, <3>2
  <2> HIDE DEF lack
  <2> QED BY <2>1, <2>2, FS_Subset, FS_CardinalityType
<1>5. /\ lack # {} => HaveLz
      /\ \A k, m \in lack : k = m
  <2> HIDE DEF lack
  <2>1. Cardinality(lack) <= 1
    BY <1>3, <1>4
  <2>2. lack # {} => mayLack = 1
    BY <1>3, <1>4, FS_EmptySet
  <2> QED BY <1>4, <2>1, <2>2, MostOne
<1>6. ASSUME NEW k \in 1..5
      PROVE  IF k \in lack
             THEN /\ row[k] \in Poker /\ Shown(row[k]) = LaiZi /\ HaveLz
                  /\ row[k].face = Smallest[k] /\ row[k].color \in K
             ELSE /\ row[k] \in Poker /\ row[k] \in originPokers /\ row[k] \in Card
                  /\ Shown(row[k]) = row[k] /\ row[k].face = Smallest[k] /\ row[k].color \in K
  <2>1. CASE k \in lack
    <3>1. row[k] = BornALaiZi(Smallest[k], s[1].color)
      BY <2>1
    <3>2. row[k].color = s[1].color
      BY <3>1 DEF BornALaiZi
    <3>3. 1 \in 1..Len(s)
      BY <1>1
    <3> HIDE DEF row, lack
    <3>4. s[1].color \in K
      BY <3>3 DEF ColoredIn
    <3> QED BY <1>1, <1>2, <1>5, <2>1, <3>1, <3>2, <3>4, BornFacts
  <2>2. CASE k \notin lack
    <3> DEFINE T == at(Smallest[k])
    <3>1. row[k] = s[Max(T)]
      BY <2>2
    <3>2. T # {} /\ T \in SUBSET (0..Len(s))
      BY <1>1, <2>2
    <3>3. Max(T) \in T
      <4> HIDE DEF T
      <4> QED BY <1>1, <3>2, MaxOfPlaces
    <3>4. Max(T) \in 1..Len(s) /\ s[Max(T)].face = Smallest[k]
      BY <1>1, <3>3
    <3> HIDE DEF T, row, lack
    <3>5. s[Max(T)].color \in K
      BY <3>4 DEF ColoredIn
    <3> QED BY <1>1, <2>2, <3>1, <3>4, <3>5, CardFacts
  <2> QED BY <2>1, <2>2
<1>7. row \in Seq(Poker) /\ Len(row) = 5
  <2>1. \A k \in 1..5 : row[k] \in Poker
    BY <1>6
  <2>2. row \in [1..5 -> Poker]
    <3>1. row = [k \in 1..5 |-> row[k]]
      OBVIOUS
    <3> HIDE DEF row
    <3> QED BY <2>1, <3>1
  <2>3. PICK n \in Nat : n = 5
    OBVIOUS
  <2> HIDE DEF row
  <2>4. row \in [1..n -> Poker]
    BY <2>2, <2>3
  <2>5. row \in Seq(Poker) /\ Len(row) = n
    BY <2>4
  <2> QED BY <2>3, <2>5
<1> HIDE DEF row
<1>8. \A k \in 1..5 : Shown(row[k]) \in originPokers
  BY <1>6 DEF HaveLz
<1>9. ASSUME NEW k \in 1..5, NEW m \in 1..5, k # m PROVE Shown(row[k]) # Shown(row[m])
  <2> HIDE DEF lack
  <2>1. LaiZi \notin Card
    BY CardFacts
  <2>2. ~(k \in lack /\ m \in lack)
    BY <1>5, <1>9
  <2>3. CASE k \in lack /\ m \notin lack
    BY <1>6, <2>1, <2>3
  <2>4. CASE m \in lack /\ k \notin lack
    BY <1>6, <2>1, <2>4
  <2>5. CASE k \notin lack /\ m \notin lack
    <3>1. row[k].face # row[m].face /\ Shown(row[k]) = row[k] /\ Shown(row[m]) = row[m]
      BY <1>2, <1>6, <1>9, <2>5
    <3> QED BY <3>1
  <2> QED BY <2>2, <2>3, <2>4, <2>5
<1>10. Wheel(row)
  <2>1. DOMAIN row = 1..5
    <3>1. row \in Seq(Poker) /\ Len(row) = 5
      BY <1>7
    <3> QED BY <3>1, LenProperties
  <2> HIDE DEF lack
  <2>2. \A k \in 1..5 : row[k].face = Smallest[k]
    BY <1>6
  <2>3. FacesOf(row) = [k \in 1..5 |-> Smallest[k]]
    BY <2>1, <2>2 DEF FacesOf
  <2>4. Smallest = [k \in 1..5 |-> Smallest[k]]
    BY DEF Smallest
  <2> QED BY <2>3, <2>4 DEF Wheel
<1>11. ColoredIn(row, K)
  <2> HIDE DEF lack
  <2> QED BY <1>6, <1>7 DEF ColoredIn
<1> QED BY <1>7, <1>8, <1>9, <1>10, <1>11 DEF Five, Made, Straight

\* Where a straight is looked for, one is found or none.
LEMMA RowFacts ==
  ASSUME NEW s, Own(s), Strict(s), NEW K, ColoredIn(s, K)
  PROVE  RowIn(s) = <<>> \/ Straight(RowIn(s), K)
<1>1. Len(s) \in Nat
  BY LenProperties DEF Own
<1>2. CASE HaveLz
  <2>1. CutSZForCheck(s, 4) = <<>> \/ Straight(CutSZForCheck(s, 4), K)
    BY <1>2, CutFacts DEF CanLook
  <2>2. Len(s) > 3 => LET row == SmallestSZ(s, 1) IN row = <<>> \/ Straight(row, K)
    BY <1>1, <1>2, SmallestFacts
  <2> QED BY <1>2, <2>1, <2>2 DEF RowIn, CheckSZNotFormatWithLz, HaveSmallestSZWithLz
<1>3. CASE ~HaveLz
  <2>1. CutSZForCheck(s, 5) = <<>> \/ Straight(CutSZForCheck(s, 5), K)
    BY <1>3, CutFacts DEF CanLook
  <2>2. Len(s) > 4 => LET row == SmallestSZ(s, 0) IN row = <<>> \/ Straight(row, K)
    BY <1>1, SmallestFacts
  <2> QED BY <1>3, <2>1, <2>2 DEF RowIn, CheckSZNotFormat, HaveSmallestSZ
<1> QED BY <1>2, <1>3

\* A straight of one color, or none in any color.
OfOneColor(row) == \E c \in Colors : Straight(row, {c})

LEMMA RowOfColorFacts ==
  ASSUME \A c \in Colors : Own(th[c]) /\ Strict(th[c]) /\ ColoredIn(th[c], {c})
  PROVE  /\ RowOfColor = <<>> \/ OfOneColor(RowOfColor)
         /\ RowOfColor = <<>> => \A c \in Colors : RowIn(th[c]) = <<>>
<1>1. ASSUME NEW row, row = <<>> \/ OfOneColor(row), NEW c \in Colors
      PROVE  /\ SearchColor(row, c) = <<>> \/ OfOneColor(SearchColor(row, c))
             /\ SearchColor(row, c) = <<>> => row = <<>> /\ RowIn(th[c]) = <<>>
  <2>1. RowIn(th[c]) = <<>> \/ OfOneColor(RowIn(th[c]))
    <3>1. RowIn(th[c]) = <<>> \/ Straight(RowIn(th[c]), {c})
      BY RowFacts
    <3> QED BY <3>1 DEF OfOneColor
  <2>2. /\ BiggerSZ(row, RowIn(th[c])) = <<>> \/ OfOneColor(BiggerSZ(row, RowIn(th[c])))
        /\ BiggerSZ(row, RowIn(th[c])) = <<>> => row = <<>> /\ RowIn(th[c]) = <<>>
    BY <1>1, <2>1 DEF BiggerSZ
  <2>3. IsBiggestSZ(row) => row # <<>>
    BY DEF IsBiggestSZ
  <2> QED BY <1>1, <2>2, <2>3 DEF SearchColor
<1> DEFINE s == SearchColor(<<>>, "s")
           h == SearchColor(s, "h")
           c == SearchColor(h, "c")
           d == SearchColor(c, "d")
<1>2. (s = <<>> \/ OfOneColor(s)) /\ (s = <<>> => RowIn(th["s"]) = <<>>)
  BY <1>1 DEF Colors
<1> HIDE DEF s
<1>3. (h = <<>> \/ OfOneColor(h)) /\ (h = <<>> => s = <<>> /\ RowIn(th["h"]) = <<>>)
  BY <1>1, <1>2 DEF Colors
<1> HIDE DEF h
<1>4. (c = <<>> \/ OfOneColor(c)) /\ (c = <<>> => h = <<>> /\ RowIn(th["c"]) = <<>>)
  BY <1>1, <1>3 DEF Colors
<1> HIDE DEF c
<1>5. (d = <<>> \/ OfOneColor(d)) /\ (d = <<>> => c = <<>> /\ RowIn(th["d"]) = <<>>)
  BY <1>1, <1>4 DEF Colors
<1> HIDE DEF d
<1>6. RowOfColor = d
  BY DEF RowOfColor, d, c, h, s
<1> QED BY <1>2, <1>3, <1>4, <1>5, <1>6 DEF Colors

-----------------------------------------------------------------------------
(* The inductive invariant.                                                  *)

Dealt ==
  /\ deal \in Deals
  /\ originPokers \subseteq deal.cards /\ IsFiniteSet(originPokers)
  /\ Cardinality(originPokers) <= Total

InColor(list, c) ==
  Own(list) /\ Strict(list) /\ \A i \in 1..Len(list) : list[i].color = c

\* The lists of the cards touched.
Listed ==
  /\ Own(tmpPokers) /\ Rising(tmpPokers)
  /\ ToSet(tmpPokers) = originPokers \ {LaiZi}
  /\ Len(tmpPokers) = Cardinality(originPokers \ {LaiZi})
  /\ th \in [Colors -> Seq(Card)] /\ \A c \in Colors : InColor(th[c], c)
  /\ Own(shunZi) /\ Strict(shunZi)
  /\ seems \in [Faces -> 0..4]
  /\ \A f \in Faces : seems[f] = IF Count({f}) = 1 THEN 0 ELSE Count({f})

None(table, n) == Seen(table, n) = {}
One(table, n) == Seen(table, n) # {} /\ Cardinality(Seen(table, n)) <= 1
Flush(byColor, n) == \E c \in Colors : Len(byColor[c]) >= n

\* When a check can be made: it finds the faces it asks for, and there are none
\* that would make a larger hand.
Fits(check, table, byColor, lz, chain) ==
  /\ check = DZ => ~lz /\ None(table, 2) /\ None(table, 3) /\ None(table, 4)
  /\ check = YD => /\ lz => None(table, 2)
                   /\ ~lz => One(table, 2)
                   /\ None(table, 3) /\ None(table, 4)
  /\ check = LD => ~lz /\ Cardinality(Seen(table, 2)) > 1
  /\ check = ST3 => /\ lz => One(table, 2) /\ None(table, 3)
                    /\ ~lz => One(table, 3) /\ None(table, 2)
                    /\ None(table, 4)
  /\ check \in {DZ, SZ} => chain[1] = SZ
  /\ check = TH => chain[1] = TH /\ Flush(byColor, IF lz THEN 4 ELSE 5)
  /\ check = HL => PreCheckHaveHL(table, lz)
  /\ check = ST4 => PreCheckHaveTZ4(table, lz)
  /\ check \in {SZ, ST3, LD, YD, DZ} => ~Flush(byColor, IF lz THEN 4 ELSE 5)

\* The chain is laid out when all cards are touched, and only then is there a
\* check to make.
Chained ==
  /\ playChain \in Seq(HandType)
  /\ next \in ToSet(playChain) \union {NoMore}
  /\ IF Cardinality(originPokers) = Total
     THEN /\ playChain = ChangePlayChain(seems, th, HaveLz)
          /\ next # NoMore => Fits(next, seems, th, HaveLz, playChain)
     ELSE playChain = <<>> /\ next = NoMore

\* What a check leaves behind.
Scaled(kind, weight) ==
  IF kind \in {SZ, THS} THEN \A i \in 1..5 : weight[i] = 0 ELSE weight[6] = 0

Judged ==
  /\ handType \in HandType /\ handWeight \in [1..6 -> 0..Ace]
  /\ Scaled(handType, handWeight)
  /\ Finished => Five(checkedPokers)

AnalystInv == Dealt /\ Listed /\ Chained /\ Judged

\* The chain that is laid out begins with a check that can be made, and goes on
\* from a straight or a flush to one that can be made too.
ChainFits(chain, table, byColor, lz) ==
  /\ chain \in Seq(HandType) /\ Len(chain) > 0
  /\ Fits(chain[1], table, byColor, lz, chain)
  /\ chain[1] \in {SZ, TH} /\ Len(chain) > 1 =>
       chain[2] \notin {SZ, TH} /\ Fits(chain[2], table, byColor, lz, chain)
  /\ chain[1] = SZ => Len(chain) > 1
  /\ chain[1] \in {SZ, TH} => \A i \in 1..Len(chain) : chain[i] = chain[1] => i = 1

LEMMA ChainFacts ==
  ASSUME NEW table, NEW byColor, NEW lz \in BOOLEAN
  PROVE  ChainFits(ChangePlayChain(table, byColor, lz), table, byColor, lz)
<1> DEFINE chain == ChangePlayChain(table, byColor, lz)
           flush == Flush(byColor, IF lz THEN 4 ELSE 5)
           four == PreCheckHaveTZ4(table, lz)
           full == PreCheckHaveHL(table, lz)
<1>0. four \in BOOLEAN /\ full \in BOOLEAN
  BY DEF PreCheckHaveTZ4, PreCheckHaveHL
<1>9. /\ SZ # TH /\ ST4 # SZ /\ ST4 # TH /\ HL # SZ /\ HL # TH /\ ST3 # SZ /\ ST3 # TH
      /\ LD # SZ /\ LD # TH /\ YD # SZ /\ YD # TH /\ DZ # SZ /\ DZ # TH
  BY DEF DZ, YD, LD, ST3, SZ, TH, HL, ST4
<1>8. ASSUME NEW n PROVE ~(Cardinality(Seen(table, n)) > 1) => Cardinality(Seen(table, n)) <= 1
  <2>0. PICK last \in Nat : last = 13
    OBVIOUS
  <2>1. IsFiniteSet(Faces)
    BY <2>0, SizeOfPlaces DEF Faces
  <2>2. Seen(table, n) \in SUBSET Faces
    BY DEF Seen
  <2>3. Cardinality(Seen(table, n)) \in Nat
    BY <2>1, <2>2, FS_Subset, FS_CardinalityType
  <2> QED BY <2>3
<1>1. CASE flush
  <2>1. chain = <<TH>> \o Link(four, ST4) \o Link(full, HL)
    BY <1>1 DEF ChangePlayChain, PlayChainForTH, Flush
  <2> HIDE DEF chain, four, full
  <2>2. /\ chain \in Seq(HandType) /\ Len(chain) > 0 /\ chain[1] = TH
        /\ Len(chain) > 1 => chain[2] = IF four THEN ST4 ELSE HL
        /\ Len(chain) > 1 => four \/ full
        /\ \A i \in 1..Len(chain) : chain[i] = TH => i = 1
    BY <1>0, <2>1, ChainOfTH
  <2>3. Fits(chain[1], table, byColor, lz, chain)
    BY <1>1, <1>9, <2>2 DEF Fits, HandType, DZ, YD, LD, ST3, SZ, TH, HL, ST4
  <2>4. Len(chain) > 1 => Fits(chain[2], table, byColor, lz, chain)
    BY <1>9, <2>2 DEF Fits, four, full, DZ, YD, LD, ST3, SZ, TH, HL, ST4
  <2>5. ChainFits(chain, table, byColor, lz)
    BY <1>9, <2>2, <2>3, <2>4 DEF ChainFits
  <2> QED BY <2>5 DEF chain
<1>2. CASE ~flush /\ lz
  <2> DEFINE a == Seen(table, 3) = {} /\ Seen(table, 2) # {}
  <2>1. chain = Link(four, ST4) \o Link(full, HL) \o <<SZ>> \o Link(a, ST3) \o <<YD>>
    BY <1>2 DEF ChangePlayChain, PlayCForUnderTHWithLZ, Flush
  <2>2. a \in BOOLEAN
    OBVIOUS
  <2> HIDE DEF chain, four, full, a
  <2>3. /\ chain \in Seq(HandType) /\ Len(chain) > 0
        /\ chain[1] = IF four THEN ST4 ELSE IF full THEN HL ELSE SZ
        /\ chain[1] = SZ => Len(chain) > 1
        /\ chain[1] = SZ => chain[2] = IF a THEN ST3 ELSE YD
        /\ chain[1] = SZ => \A i \in 1..Len(chain) : chain[i] = SZ => i = 1
    <3>1. GoesOn(chain, IF four THEN ST4 ELSE IF full THEN HL ELSE SZ, IF a THEN ST3 ELSE YD)
      BY <1>0, <2>1, <2>2, ChainWithLz
    <3> QED BY <3>1 DEF GoesOn
  <2>4. Fits(chain[1], table, byColor, lz, chain)
    <3>1. CASE four
      BY <2>3, <3>1 DEF Fits, four, DZ, YD, LD, ST3, SZ, TH, HL, ST4
    <3>2. CASE ~four /\ full
      BY <2>3, <3>2 DEF Fits, full, DZ, YD, LD, ST3, SZ, TH, HL, ST4
    <3>3. CASE ~four /\ ~full
      BY <1>2, <2>3, <3>3 DEF Fits, DZ, YD, LD, ST3, SZ, TH, HL, ST4
    <3> QED BY <3>1, <3>2, <3>3
  <2>5. ASSUME chain[1] = SZ PROVE Fits(chain[2], table, byColor, lz, chain)
    <3>1. ~four /\ ~full
      BY <1>9, <2>3, <2>5
    <3>2. None(table, 3) /\ None(table, 4)
      BY <1>2, <3>1 DEF four, PreCheckHaveTZ4, None
    <3>3. CASE a
      <4>1. chain[2] = ST3
        BY <2>3, <2>5, <3>3
      <4>2. One(table, 2)
        BY <1>2, <1>8, <3>1, <3>2, <3>3 DEF a, full, PreCheckHaveHL, One, None
      <4> QED BY <1>2, <3>2, <4>1, <4>2 DEF Fits, DZ, YD, LD, ST3, SZ, TH, HL, ST4
    <3>4. CASE ~a
      <4>1. chain[2] = YD /\ None(table, 2)
        BY <2>3, <2>5, <3>2, <3>4 DEF a, None
      <4> QED BY <1>2, <3>2, <4>1 DEF Fits, DZ, YD, LD, ST3, SZ, TH, HL, ST4
    <3> QED BY <3>3, <3>4
  <2>6. ChainFits(chain, table, byColor, lz)
    BY <1>9, <2>3, <2>4, <2>5 DEF ChainFits
  <2> QED BY <2>6 DEF chain
<1>3. CASE ~flush /\ ~lz
  <2> DEFINE a == Seen(table, 3) # {}
             b == Cardinality(Seen(table, 2)) > 1
             c == Seen(table, 2) # {}
  <2>1. chain = Link(four, ST4) \o Link(full, HL) \o <<SZ>> \o Link(a, ST3)
                  \o Link(b, LD) \o Link(c, YD) \o <<DZ>>
    <3>1. four = (Seen(table, 4) # {}) /\ full = PreCheckHaveHL(table, FALSE)
      BY <1>3 DEF PreCheckHaveTZ4
    <3> HIDE DEF four, full
    <3> QED BY <1>3, <3>1 DEF ChangePlayChain, PlayCForUnderTH, Flush
  <2>2. a \in BOOLEAN /\ b \in BOOLEAN /\ c \in BOOLEAN
    OBVIOUS
  <2> HIDE DEF chain, four, full, a, b, c
  <2>3. /\ chain \in Seq(HandType) /\ Len(chain) > 0
        /\ chain[1] = IF four THEN ST4 ELSE IF full THEN HL ELSE SZ
        /\ chain[1] = SZ => Len(chain) > 1
        /\ chain[1] = SZ => chain[2] = IF a THEN ST3 ELSE IF b THEN LD ELSE IF c THEN YD ELSE DZ
        /\ chain[1] = SZ => \A i \in 1..Len(chain) : chain[i] = SZ => i = 1
    <3>1. GoesOn(chain, IF four THEN ST4 ELSE IF full THEN HL ELSE SZ,
                 IF a THEN ST3 ELSE IF b THEN LD ELSE IF c THEN YD ELSE DZ)
      BY <1>0, <2>1, <2>2, ChainUnderTH
    <3> QED BY <3>1 DEF GoesOn
  <2>4. Fits(chain[1], table, byColor, lz, chain)
    BY <1>3, <2>3 DEF Fits, four, full, DZ, YD, LD, ST3, SZ, TH, HL, ST4
  <2>5. ASSUME chain[1] = SZ PROVE Fits(chain[2], table, byColor, lz, chain)
    <3>1. ~four /\ ~full
      BY <1>9, <2>3, <2>5
    <3>2. None(table, 4)
      BY <3>1 DEF four, PreCheckHaveTZ4, None
    <3>3. /\ ~(Seen(table, 2) # {} /\ Seen(table, 3) # {})
          /\ ~(Seen(table, 2) = {} /\ Cardinality(Seen(table, 3)) > 1)
      BY <1>3, <3>1, <3>2 DEF full, PreCheckHaveHL, None
    <3>4. CASE a
      <4>1. chain[2] = ST3
        BY <2>3, <2>5, <3>4
      <4>2. None(table, 2) /\ One(table, 3)
        BY <1>8, <3>3, <3>4 DEF a, None, One
      <4> QED BY <1>3, <3>2, <4>1, <4>2 DEF Fits, DZ, YD, LD, ST3, SZ, TH, HL, ST4
    <3>5. CASE ~a /\ b
      <4>1. chain[2] = LD
        BY <2>3, <2>5, <3>5
      <4> QED BY <1>3, <3>5, <4>1 DEF Fits, b, DZ, YD, LD, ST3, SZ, TH, HL, ST4
    <3>6. CASE ~a /\ ~b
      <4>1. None(table, 3) /\ Cardinality(Seen(table, 2)) <= 1
        BY <1>8, <3>6 DEF a, b, None
      <4>2. CASE c
        <5>1. chain[2] = YD /\ One(table, 2)
          BY <2>3, <2>5, <3>6, <4>1, <4>2 DEF c, One
        <5> QED BY <1>3, <3>2, <4>1, <5>1 DEF Fits, DZ, YD, LD, ST3, SZ, TH, HL, ST4
      <4>3. CASE ~c
        <5>1. chain[2] = DZ /\ None(table, 2)
          BY <2>3, <2>5, <3>6, <4>3 DEF c, None
        <5> QED BY <1>3, <2>5, <3>2, <4>1, <5>1 DEF Fits, DZ, YD, LD, ST3, SZ, TH, HL, ST4
      <4> QED BY <4>2, <4>3
    <3> QED BY <3>4, <3>5, <3>6
  <2>6. ChainFits(chain, table, byColor, lz)
    BY <1>9, <2>3, <2>4, <2>5 DEF ChainFits
  <2> QED BY <2>6 DEF chain
<1> QED BY <1>1, <1>2, <1>3

\* Where the chain goes on.
LEMMA DefaultNextFacts ==
  ASSUME Chained, Cardinality(originPokers) = Total, next \in {SZ, TH}
  PROVE  /\ DefaultNext \in ToSet(playChain) \union {NoMore}
         /\ DefaultNext # NoMore => Fits(DefaultNext, seems, th, HaveLz, playChain)
         /\ next = SZ => DefaultNext # NoMore
         /\ playChain[1] = next
         /\ DefaultNext = IF 1 < Len(playChain) THEN playChain[2] ELSE NoMore
<1> DEFINE at == CHOOSE i \in DOMAIN playChain : playChain[i] = next
<1>1. ChainFits(playChain, seems, th, HaveLz)
  <2>1. HaveLz \in BOOLEAN
    BY DEF HaveLz
  <2> QED BY <2>1, ChainFacts DEF Chained
<1>2. playChain[1] = next /\ NoMore \notin HandType
  BY DEF Chained, Fits, SZ, TH, NoMore, HandType, DZ, HJTHS
<1>3. /\ Len(playChain) \in Nat /\ Len(playChain) > 0 /\ DOMAIN playChain = 1..Len(playChain)
      /\ \A i \in 1..Len(playChain) : playChain[i] \in HandType /\ playChain[i] \in ToSet(playChain)
  <2>1. playChain \in Seq(HandType)
    BY DEF Chained
  <2>2. Len(playChain) \in Nat /\ DOMAIN playChain = 1..Len(playChain)
        /\ \A i \in 1..Len(playChain) : playChain[i] \in HandType
    BY <2>1, LenProperties, ElementOfSeq
  <2> QED BY <1>1, <2>2 DEF ToSet, ChainFits
<1>4. at = 1
  <2>1. 1 \in DOMAIN playChain /\ playChain[1] = next
    BY <1>2, <1>3
  <2>2. at \in DOMAIN playChain /\ playChain[at] = next
    BY <2>1
  <2> HIDE DEF at
  <2> QED BY <1>1, <1>2, <1>3, <2>2 DEF ChainFits
<1>5. DefaultNext = IF 1 < Len(playChain) THEN playChain[2] ELSE NoMore
  <2>1. DefaultNext = IF at < Len(playChain) THEN playChain[at + 1] ELSE NoMore
    BY DEF DefaultNext
  <2> HIDE DEF at
  <2> QED BY <1>4, <2>1
<1>6. 1 < Len(playChain) => playChain[2] \in ToSet(playChain) /\ playChain[2] \in HandType
  BY <1>3
<1> QED BY <1>1, <1>2, <1>3, <1>5, <1>6 DEF ChainFits

-----------------------------------------------------------------------------
(* What each check shows.                                                    *)

LEMMA WithinTotal ==
  ASSUME Dealt
  PROVE  Total \in 5..7
BY DealsAssumption DEF Dealt, Total

\* While there is a check to make all cards are touched; the wild card is not
\* among the sorted ones.
LEMMA AtACheck ==
  ASSUME AnalystInv, next # NoMore
  PROVE  /\ Cardinality(originPokers) = Total /\ Total \in 5..7 /\ WithLz \in 0..1
         /\ Len(tmpPokers) = Total - WithLz /\ Own(tmpPokers)
         /\ next \in HandType /\ Fits(next, seems, th, HaveLz, playChain)
<1>1. Cardinality(originPokers) = Total /\ Total \in 5..7
  BY WithinTotal DEF AnalystInv, Chained
<1>2. Len(tmpPokers) = Total - WithLz
  <2>1. Cardinality(originPokers \ {LaiZi}) =
          IF LaiZi \in originPokers THEN Cardinality(originPokers) - 1 ELSE Cardinality(originPokers)
    BY FS_RemoveElement DEF AnalystInv, Dealt
  <2> QED BY <1>1, <2>1 DEF AnalystInv, Listed, WithLz, HaveLz
<1>3. next \in HandType
  <2>1. \A i \in DOMAIN playChain : playChain[i] \in HandType
    BY LenProperties, ElementOfSeq DEF AnalystInv, Chained
  <2> QED BY <2>1 DEF AnalystInv, Chained, ToSet
<1> QED BY <1>1, <1>2, <1>3 DEF AnalystInv, Listed, Chained, WithLz

\* The table of faces seen more than once tells how often.
LEMMA SeenFacts ==
  ASSUME Listed
  PROVE  /\ \A n \in 2..4 : Seen(seems, n) \in SUBSET Faces
         /\ \A n \in 2..4 : \A f \in Seen(seems, n) : Count({f}) = n
         /\ \A f \in Faces : Count({f}) \in 0..4
         /\ Seen(seems, 2) = {} /\ Seen(seems, 3) = {} /\ Seen(seems, 4) = {} =>
              \A f \in Faces : Count({f}) \in 0..1
<1>1. ASSUME NEW f \in Faces
      PROVE  /\ Count({f}) \in 0..4
             /\ \A n \in 2..4 : f \in Seen(seems, n) <=> Count({f}) = n
  <2> DEFINE c == Count({f})
  <2>1. seems[f] = (IF c = 1 THEN 0 ELSE c) /\ seems[f] \in 0..4
    BY DEF Listed
  <2>2. \A n \in 2..4 : f \in Seen(seems, n) <=> seems[f] = n
    BY DEF Seen
  <2> HIDE DEF c
  <2> QED BY <2>1, <2>2 DEF c
<1>2. \A n \in 2..4 : Seen(seems, n) \in SUBSET Faces
  BY DEF Seen
<1>3. ASSUME Seen(seems, 2) = {}, Seen(seems, 3) = {}, Seen(seems, 4) = {}, NEW f \in Faces
      PROVE  Count({f}) \in 0..1
  BY <1>1, <1>3
<1> QED BY <1>1, <1>2, <1>3

\* Of cards picked by their faces, how many are of those and how many are not.
LEMMA PickedFacts ==
  ASSUME Own(tmpPokers), NEW F, NEW n \in Nat, NEW t, Picks(t, tmpPokers, PlacesOf(F, n))
  PROVE  /\ Own(t) /\ Len(t) = Cardinality(PlacesOf(F, n))
         /\ Singles(t, F) \in Seq(Faces) /\ Len(Singles(t, F)) = Len(t) - Count(F)
<1> DEFINE S == PlacesOf(F, n)
<1>1. /\ S \in SUBSET (1..Len(tmpPokers))
      /\ S \intersect Spots(tmpPokers, F) = Spots(tmpPokers, F)
      /\ tmpPokers \in Seq(Card)
  BY PlacesOfFacts DEF Own
<1> HIDE DEF S
<1>2. Own(t) /\ Len(t) = Cardinality(S)
  BY <1>1, PicksOfOwn DEF S
<1>3. Cardinality(Spots(t, F)) = Count(F)
  <2>1. Cardinality(Spots(t, F)) = Cardinality(S \intersect Spots(tmpPokers, F))
    BY <1>1, PicksCount DEF S
  <2> QED BY <1>1, <2>1 DEF Count
<1>4. t \in Seq(Card) /\ \A i \in 1..Len(t) : t[i].face \in Faces
  <2>1. t \in Seq(Card)
    BY <1>2 DEF Own
  <2>2. \A i \in 1..Len(t) : t[i] \in Card
    BY <2>1, ElementOfSeq
  <2> QED BY <2>1, <2>2, CardFacts
<1>5. Singles(t, F) \in Seq(Faces) /\ Len(Singles(t, F)) = Len(t) - Cardinality(Spots(t, F))
  BY <1>4, SinglesFacts
<1> QED BY <1>2, <1>3, <1>5 DEF S

\* The same of any five cards of a hand.
LEMMA SinglesOfMade ==
  ASSUME NEW t, Made(t), NEW F
  PROVE  Singles(t, F) \in Seq(Faces) /\ Len(Singles(t, F)) = Len(t) - Cardinality(Spots(t, F))
<1>1. t \in Seq(Poker) /\ \A i \in 1..Len(t) : t[i].face \in Faces
  <2>1. t \in Seq(Poker)
    BY DEF Made
  <2>2. \A i \in 1..Len(t) : t[i] \in Poker
    BY <2>1, ElementOfSeq
  <2> QED BY <2>1, <2>2, PokerFacts
<1> QED BY <1>1, SinglesFacts

LEMMA FacesOfFive ==
  ASSUME NEW t, Five(t)
  PROVE  /\ \A i \in 1..5 : t[i] \in Poker /\ t[i].face \in Faces /\ t[i].face \in 0..Ace
         /\ WeightOfDZ(t) \in [1..6 -> 0..Ace] /\ WeightOfDZ(t)[6] = 0
<1>1. t \in Seq(Poker) /\ Len(t) = 5 /\ DOMAIN t = 1..5
  BY LenProperties DEF Five, Made
<1>2. \A i \in 1..5 : t[i] \in Poker /\ t[i].face \in Faces /\ t[i].face \in 0..Ace
  <2>1. \A i \in 1..5 : t[i] \in Poker
    BY <1>1, ElementOfSeq
  <2> QED BY <2>1, PokerFacts DEF Faces, Ace
<1> DEFINE s == FacesOf(t)
           r == Reverse(s)
           w == r \o <<0>>
<1>3. s = [i \in 1..5 |-> t[i].face]
  BY <1>1 DEF FacesOf
<1> HIDE DEF s
<1>4. s \in Seq(0..Ace) /\ Len(s) = 5
  <2>1. PICK n \in Nat : n = 5
    OBVIOUS
  <2>2. s \in [1..n -> 0..Ace]
    BY <1>2, <1>3, <2>1
  <2>3. s \in Seq(0..Ace) /\ Len(s) = n
    BY <2>2, SeqOfFunction
  <2> QED BY <2>1, <2>3
<1>5. r \in Seq(0..Ace) /\ Len(r) = 5
  <2>1. Picks(r, s, 1..Len(s)) /\ Cardinality(1..Len(s)) = Len(s)
    BY <1>4, ReverseFacts
  <2>2. 1..Len(s) \in SUBSET (1..Len(s))
    OBVIOUS
  <2> HIDE DEF r
  <2> QED BY <1>4, <2>1, <2>2, PicksFacts
<1> HIDE DEF r
<1>6. w \in Seq(0..Ace) /\ Len(w) = 6 /\ w[6] = 0
  <2>1. <<0>> \in Seq(0..Ace) /\ Len(<<0>>) = 1 /\ <<0>>[1] = 0
    BY DEF Ace
  <2> DEFINE z == <<0>>
  <2> HIDE DEF z
  <2>2. z \in Seq(0..Ace) /\ Len(z) = 1 /\ z[1] = 0
    BY <2>1 DEF z
  <2>3. /\ r \o z \in Seq(0..Ace) /\ Len(r \o z) = Len(r) + Len(z)
        /\ \A i \in 1..Len(r) + Len(z) : (r \o z)[i] = IF i <= Len(r) THEN r[i] ELSE z[i - Len(r)]
    BY <1>5, <2>2, ConcatProperties
  <2>4. Len(r \o z) = 6 /\ (r \o z)[6] = z[1]
    BY <1>5, <2>2, <2>3
  <2> QED BY <2>2, <2>3, <2>4 DEF z
<1>7. w \in [1..6 -> 0..Ace]
  <2> HIDE DEF w
  <2> QED BY <1>6, LenProperties
<1> QED BY <1>2, <1>6, <1>7 DEF WeightOfDZ, w, r, s

\* Single cards, that many of them, are faces.
Kickers(singles, n) == Len(singles) >= n /\ \A i \in 1..n : singles[i] \in 0..Ace

LEMMA KickersFacts ==
  ASSUME NEW singles \in Seq(Faces), NEW n \in Nat, Len(singles) >= n
  PROVE  Kickers(singles, n)
<1>1. \A i \in 1..n : i \in 1..Len(singles)
  BY LenProperties
<1>2. \A i \in 1..n : singles[i] \in Faces
  BY <1>1, ElementOfSeq
<1> QED BY <1>2 DEF Kickers, Faces, Ace

LEMMA DZShown ==
  ASSUME AnalystInv, next = DZ
  PROVE  Five(SubSeq(tmpPokers, Total - 4, Total))
<1>1. /\ Len(tmpPokers) = Total /\ Own(tmpPokers) /\ Total \in 5..7
  <2>1. next # NoMore
    BY DEF DZ, NoMore
  <2>2. ~HaveLz
    BY <2>1, AtACheck DEF Fits
  <2> QED BY <2>1, <2>2, AtACheck DEF WithLz
<1>2. PICK a \in Nat \ {0}, b \in Nat : a = Total - 4 /\ b = Total
  BY <1>1
<1>3. a <= b /\ b <= Len(tmpPokers) /\ b - a + 1 = 5
  BY <1>1, <1>2
<1>4. tmpPokers \in Seq(Card)
  BY <1>1 DEF Own
<1>5. a..b \in SUBSET (1..Len(tmpPokers)) /\ Cardinality(a..b) = 5
      /\ Picks(SubSeq(tmpPokers, a, b), tmpPokers, a..b)
  BY <1>3, <1>4, SubSeqPicks
<1>6. Own(SubSeq(tmpPokers, a, b)) /\ Len(SubSeq(tmpPokers, a, b)) = 5
  BY <1>1, <1>5, PicksOfOwn
<1> QED BY <1>2, <1>6, OwnIsMade DEF Five

\* How often a face is among the picked cards.
LEMMA PickedCount ==
  ASSUME Own(tmpPokers), NEW S \in SUBSET (1..Len(tmpPokers)), NEW g
  PROVE  LET n == Cardinality(S \intersect Spots(tmpPokers, {g}))
         IN  /\ n \in Nat /\ n <= Count({g})
             /\ Spots(tmpPokers, {g}) \in SUBSET S => n = Count({g})
<1> DEFINE T == Spots(tmpPokers, {g})
<1>1. IsFiniteSet(T)
  BY SpotsType DEF Own
<1>2. Count({g}) = Cardinality(T)
  BY DEF Count
<1>3. S \intersect T \in SUBSET T /\ (T \in SUBSET S => S \intersect T = T)
  OBVIOUS
<1> HIDE DEF T
<1>4. IsFiniteSet(S \intersect T) /\ Cardinality(S \intersect T) <= Cardinality(T)
  BY <1>1, <1>3, FS_Subset
<1> QED BY <1>2, <1>3, <1>4, FS_CardinalityType DEF T

LEMMA PicksCountOne ==
  ASSUME Own(tmpPokers), NEW S \in SUBSET (1..Len(tmpPokers)), NEW t, Picks(t, tmpPokers, S)
  PROVE  \A g : CountIn(t, g) = Cardinality(S \intersect Spots(tmpPokers, {g}))
<1>1. tmpPokers \in Seq(Card)
  BY DEF Own
<1>2. ASSUME NEW g
      PROVE  CountIn(t, g) = Cardinality(S \intersect Spots(tmpPokers, {g}))
  <2> DEFINE F == {g}
  <2> HIDE DEF F
  <2>1. Cardinality(Spots(t, F)) = Cardinality(S \intersect Spots(tmpPokers, F))
    BY <1>1, PicksCount
  <2> QED BY <2>1 DEF F, CountIn
<1> QED BY <1>2

\* Cards picked of the sorted ones, with some faces as often as they are there.
LEMMA PickedOften ==
  ASSUME Own(tmpPokers), NEW S \in SUBSET (1..Len(tmpPokers)), NEW t, Picks(t, tmpPokers, S),
         NEW f \in Faces, Spots(tmpPokers, {f}) \in SUBSET S
  PROVE  /\ CountIn(t, f) = Count({f})
         /\ \A g : CountIn(t, g) \in Nat /\ CountIn(t, g) <= Count({g})
<1>1. \A g : CountIn(t, g) = Cardinality(S \intersect Spots(tmpPokers, {g}))
  BY PicksCountOne
<1>2. Cardinality(S \intersect Spots(tmpPokers, {f})) = Count({f})
  BY PickedCount
<1>3. \A g : /\ Cardinality(S \intersect Spots(tmpPokers, {g})) \in Nat
             /\ Cardinality(S \intersect Spots(tmpPokers, {g})) <= Count({g})
  BY PickedCount
<1> QED BY <1>1, <1>2, <1>3

\* The wild card after the last card of some.
LEMMA BornLast ==
  ASSUME NEW s, Own(s), HaveLz, NEW f \in Faces, NEW c \in Colors
  PROVE  LET t == Append(s, BornALaiZi(f, c))
         IN  /\ Made(t) /\ Len(t) = Len(s) + 1
             /\ \A g : CountIn(t, g) = CountIn(s, g) + IF g = f THEN 1 ELSE 0
<1> DEFINE b == BornALaiZi(f, c)
           t == Append(s, b)
           n == Len(s) + 1
           u == InsertAt(s, n, b)
<1>1. b \in Poker /\ b.face = f
  BY BornFacts
<1>2. s \in Seq(Poker) /\ Len(s) \in Nat /\ n \in 1..Len(s) + 1
  BY OwnIsMade
<1>3. IsInserted(Poker, s, n, b, u) /\ Made(u) /\ Len(u) = n
  BY <1>2, BornIsMade
<1> HIDE DEF b
<1>4. t \in Seq(Poker) /\ Len(t) = n /\ t[n] = b /\ \A i \in 1..Len(s) : t[i] = s[i]
  BY <1>1, <1>2, AppendProperties
<1>5. t = u
  <2>1. u \in Seq(Poker) /\ u[n] = b /\ \A i \in 1..Len(s) : u[i] = s[i]
    BY <1>2, <1>3 DEF IsInserted
  <2>2. \A i \in 1..Len(t) : t[i] = u[i]
    <3> HIDE DEF t, u
    <3>1. \A i \in 1..Len(t) : i \in 1..Len(s) \/ i = n
      BY <1>2, <1>4
    <3> QED BY <1>4, <2>1, <3>1
  <2> HIDE DEF t, u
  <2> QED BY <1>3, <1>4, <2>1, <2>2, SeqEqual
<1> HIDE DEF t, u, n
<1>6. ASSUME NEW g
      PROVE  CountIn(u, g) = CountIn(s, g) + IF g = f THEN 1 ELSE 0
  <2> DEFINE F == {g}
  <2>1. b.face \in F <=> g = f
    BY <1>1
  <2> HIDE DEF F
  <2>2. Cardinality(Spots(u, F)) = Cardinality(Spots(s, F)) + IF b.face \in F THEN 1 ELSE 0
    BY <1>1, <1>2, <1>3, InsertCounts
  <2> QED BY <2>1, <2>2 DEF F, CountIn
<1> QED BY <1>3, <1>5, <1>6 DEF t, b, n

YDPokers(dz) ==
  IF HaveLz
  THEN Append(SubSeq(tmpPokers, Total - 4, Total - 1), BornALaiZi(dz, Last(tmpPokers).color))
  ELSE Upwards(PlacesOf({dz}, 3))

YDFace == IF HaveLz THEN Last(tmpPokers).face ELSE Max(Seen(seems, 2))

LEMMA YDShown ==
  ASSUME AnalystInv, next = YD
  PROVE  YDFace \in Faces /\ Five(YDPokers(YDFace)) /\ Kickers(Singles(YDPokers(YDFace), {YDFace}), 3)
<1> DEFINE f == YDFace
           t == YDPokers(f)
<1>1. /\ Total \in 5..7 /\ WithLz \in 0..1 /\ Len(tmpPokers) = Total - WithLz
      /\ Own(tmpPokers) /\ Fits(YD, seems, th, HaveLz, playChain) /\ Listed
  <2>1. next # NoMore
    BY DEF YD, NoMore
  <2> QED BY <2>1, AtACheck DEF AnalystInv
<1>2. CASE HaveLz
  <2> DEFINE l == Len(tmpPokers)
             s == SubSeq(tmpPokers, Total - 4, Total - 1)
             c == Last(tmpPokers).color
  <2>1. l = Total - 1 /\ l \in 4..6
    BY <1>1, <1>2 DEF WithLz
  <2>2. f = tmpPokers[l].face /\ tmpPokers[l] \in Card /\ f \in Faces /\ c \in Colors
    <3>1. Last(tmpPokers) = tmpPokers[l]
      BY DEF Last
    <3>2. l \in 1..Len(tmpPokers)
      BY <2>1
    <3>3. tmpPokers[l] \in Card
      BY <1>1, <3>2, ElementOfSeq DEF Own
    <3> QED BY <1>2, <3>1, <3>3, CardFacts DEF YDFace
  <2>3. Count({f}) \in 0..1
    BY <1>1, <1>2, <2>2, SeenFacts DEF Fits, None, YD, DZ, LD, ST3, SZ, TH, HL, ST4
  <2>4. /\ Own(s) /\ Len(s) = 4
        /\ Cardinality(Spots(s, {f})) \in 0..1
    <3>1. PICK a \in Nat \ {0}, b \in Nat : a = Total - 4 /\ b = Total - 1
      BY <1>1
    <3>2. a <= b /\ b <= Len(tmpPokers) /\ b - a + 1 = 4
      BY <1>1, <2>1, <3>1
    <3>3. tmpPokers \in Seq(Card)
      BY <1>1 DEF Own
    <3> DEFINE P == a..b
               F == {f}
    <3>4. P \in SUBSET (1..Len(tmpPokers)) /\ Cardinality(P) = 4
          /\ Picks(SubSeq(tmpPokers, a, b), tmpPokers, P)
      BY <3>2, <3>3, SubSeqPicks
    <3>5. Own(SubSeq(tmpPokers, a, b)) /\ Len(SubSeq(tmpPokers, a, b)) = 4
      <4> HIDE DEF P
      <4> QED BY <1>1, <3>4, PicksOfOwn
    <3>6. Cardinality(Spots(SubSeq(tmpPokers, a, b), F)) = Cardinality(P \intersect Spots(tmpPokers, F))
      <4> HIDE DEF P, F
      <4> QED BY <3>3, <3>4, PicksCount
    <3>7. /\ Cardinality(P \intersect Spots(tmpPokers, F)) \in Nat
          /\ Cardinality(P \intersect Spots(tmpPokers, F)) <= Cardinality(Spots(tmpPokers, F))
      <4>1. IsFiniteSet(Spots(tmpPokers, F))
        BY <3>3, SpotsType
      <4>2. P \intersect Spots(tmpPokers, F) \in SUBSET Spots(tmpPokers, F)
        OBVIOUS
      <4> HIDE DEF P, F
      <4> QED BY <4>1, <4>2, FS_Subset, FS_CardinalityType
    <3>8. Cardinality(Spots(tmpPokers, F)) \in 0..1
      BY <2>3 DEF Count
    <3>9. Cardinality(Spots(SubSeq(tmpPokers, a, b), F)) \in 0..1
      <4> HIDE DEF P, F
      <4> QED BY <3>6, <3>7, <3>8
    <3> QED BY <3>1, <3>5, <3>9
  <2>5. t = Append(s, BornALaiZi(f, c))
    BY <1>2 DEF YDPokers
  <2> HIDE DEF s, c, f, t, l
  <2>6. Made(t) /\ Len(t) = 5 /\ CountIn(t, f) = CountIn(s, f) + 1
    <3>1. Own(s) /\ f \in Faces /\ c \in Colors
      BY <2>2, <2>4
    <3> DEFINE u == Append(s, BornALaiZi(f, c))
    <3>2. Made(u) /\ Len(u) = Len(s) + 1 /\ CountIn(u, f) = CountIn(s, f) + 1
      BY <1>2, <3>1, BornLast
    <3> HIDE DEF u
    <3>3. t = u
      BY <2>5 DEF u
    <3> QED BY <2>4, <3>2, <3>3
  <2>7. Singles(t, {f}) \in Seq(Faces) /\ Len(Singles(t, {f})) = 5 - Cardinality(Spots(t, {f}))
    BY <2>6, SinglesOfMade
  <2>8. Len(Singles(t, {f})) >= 3
    BY <2>4, <2>6, <2>7 DEF CountIn
  <2>9. Kickers(Singles(t, {f}), 3)
    BY <2>7, <2>8, KickersFacts
  <2> QED BY <2>2, <2>6, <2>9 DEF Five, t, f
<1>3. CASE ~HaveLz
  <2>1. f = Max(Seen(seems, 2)) /\ Seen(seems, 2) # {}
    BY <1>1, <1>3 DEF YDFace, Fits, One, YD, DZ, LD, ST3, SZ, TH, HL, ST4
  <2>2. f \in Faces /\ Count({f}) = 2
    <3>1. Seen(seems, 2) \in SUBSET Faces /\ \A g \in Seen(seems, 2) : Count({g}) = 2
      BY <1>1, SeenFacts
    <3> HIDE DEF f
    <3> QED BY <2>1, <3>1, MaxFace
  <2>3. t = Upwards(PlacesOf({f}, 3))
    BY <1>3 DEF YDPokers
  <2> HIDE DEF t, f
  <2> DEFINE F == {f}
             S == PlacesOf(F, 3)
  <2>4. S \in SUBSET (1..Len(tmpPokers)) /\ Cardinality(S) = 5
    <3> HIDE DEF F
    <3>1. Count(F) = 2
      BY <2>2 DEF F
    <3> QED BY <1>1, <1>3, <3>1, PlacesOfFacts DEF WithLz
  <2>5. Picks(t, tmpPokers, S)
    <3> HIDE DEF S
    <3> QED BY <1>1, <2>3, <2>4, DownwardsFacts DEF S
  <2>6. Own(t) /\ Len(t) = 5 /\ Singles(t, F) \in Seq(Faces) /\ Len(Singles(t, F)) = 3
    <3>1. Count(F) = 2
      BY <2>2
    <3> HIDE DEF F
    <3>2. /\ Own(t) /\ Len(t) = Cardinality(S)
          /\ Singles(t, F) \in Seq(Faces) /\ Len(Singles(t, F)) = Len(t) - Count(F)
      BY <1>1, <2>5, PickedFacts
    <3> QED BY <2>4, <3>1, <3>2
  <2>7. Kickers(Singles(t, F), 3)
    <3> HIDE DEF F
    <3> QED BY <2>6, KickersFacts
  <2> QED BY <2>2, <2>6, <2>7, OwnIsMade DEF Five, t, f
<1> QED BY <1>2, <1>3

\* The cards of two faces.
LEMMA CountOfTwo ==
  ASSUME Own(tmpPokers), NEW f, NEW g, f # g
  PROVE  Count({f, g}) = Count({f}) + Count({g})
<1> DEFINE a == Spots(tmpPokers, {f})
           b == Spots(tmpPokers, {g})
<1>1. IsFiniteSet(a) /\ Cardinality(a) \in Nat /\ IsFiniteSet(b) /\ Cardinality(b) \in Nat
  <2>1. tmpPokers \in Seq(Card)
    BY DEF Own
  <2>2. IsFiniteSet(a) /\ IsFiniteSet(b)
    BY <2>1, SpotsType
  <2> HIDE DEF a, b
  <2> QED BY <2>2, FS_CardinalityType
<1>2. a \intersect b = {} /\ Spots(tmpPokers, {f, g}) = a \union b
  BY DEF Spots
<1> HIDE DEF a, b
<1>3. Cardinality(a \union b) = Cardinality(a) + Cardinality(b) - Cardinality(a \intersect b)
  BY <1>1, FS_Union
<1>4. Cardinality(a \intersect b) = 0
  BY <1>2, FS_EmptySet, Zenon
<1>5. Cardinality(Spots(tmpPokers, {f, g})) = Cardinality(a \union b)
  BY <1>2, Zenon
<1>6. Cardinality(Spots(tmpPokers, {f, g})) = Cardinality(a) + Cardinality(b)
  BY <1>1, <1>3, <1>4, <1>5
<1> QED BY <1>6 DEF Count, a, b

LDBigger == Max(Seen(seems, 2))
LDSmaller == Max(Seen(seems, 2) \ {LDBigger})
LDPokers(bigger, smaller) == Downwards(PlacesOf({bigger, smaller}, 1))

LEMMA LDShown ==
  ASSUME AnalystInv, next = LD
  PROVE  LET t == LDPokers(LDBigger, LDSmaller)
         IN  /\ LDBigger \in Faces /\ LDSmaller \in Faces /\ Five(t) /\ LDBigger > LDSmaller
             /\ CountIn(t, LDBigger) = 2 /\ CountIn(t, LDSmaller) = 2
             /\ Kickers(Singles(t, {LDBigger, LDSmaller}), 1)
<1>1. /\ Total \in 5..7 /\ Len(tmpPokers) = Total /\ Own(tmpPokers) /\ Listed
      /\ Cardinality(Seen(seems, 2)) > 1
  <2>1. next # NoMore
    BY DEF LD, NoMore
  <2>2. ~HaveLz /\ Cardinality(Seen(seems, 2)) > 1
    BY <2>1, AtACheck DEF Fits
  <2> QED BY <2>1, <2>2, AtACheck DEF WithLz, AnalystInv
<1> DEFINE T == Seen(seems, 2)
           F == {LDBigger, LDSmaller}
           S == PlacesOf(F, 1)
           t == LDPokers(LDBigger, LDSmaller)
<1>2. T \in SUBSET Faces /\ \A f \in T : Count({f}) = 2
  BY <1>1, SeenFacts
<1>3. T # {} /\ \A f \in T : T \ {f} # {}
  BY <1>1, <1>2, OthersThere
<1>4. LDBigger \in T /\ LDBigger \in Faces /\ \A f \in T : f <= LDBigger
  BY <1>2, <1>3, MaxFace DEF LDBigger
<1>5. LDSmaller \in T /\ LDSmaller \in Faces /\ LDSmaller < LDBigger /\ LDSmaller # LDBigger
  <2> DEFINE R == T \ {LDBigger}
  <2>1. R \in SUBSET Faces /\ R # {}
    BY <1>2, <1>3, <1>4
  <2>2. LDSmaller = Max(R)
    BY DEF LDSmaller
  <2>3. LDSmaller \in R /\ LDSmaller \in Faces
    <3> HIDE DEF R
    <3> QED BY <2>1, <2>2, MaxFace
  <2>4. LDSmaller \in Int /\ LDBigger \in Int
    BY <1>4, <2>3 DEF Faces
  <2> QED BY <1>4, <2>3, <2>4
<1>6. Count(F) = 4
  <2>1. Count({LDBigger}) = 2 /\ Count({LDSmaller}) = 2
    BY <1>2, <1>4, <1>5
  <2>2. Count({LDBigger, LDSmaller}) = Count({LDBigger}) + Count({LDSmaller})
    BY <1>1, <1>5, CountOfTwo
  <2> QED BY <2>1, <2>2
<1> HIDE DEF F
<1>7. S \in SUBSET (1..Len(tmpPokers)) /\ Cardinality(S) = 5
  BY <1>1, <1>6, PlacesOfFacts
<1>8. t = Downwards(S)
  BY DEF LDPokers, F
<1> HIDE DEF t
<1>9. Picks(t, tmpPokers, S)
  <2> HIDE DEF S
  <2> QED BY <1>1, <1>7, <1>8, DownwardsFacts
<1>10. /\ Own(t) /\ Len(t) = Cardinality(S)
       /\ Singles(t, F) \in Seq(Faces) /\ Len(Singles(t, F)) = Len(t) - Count(F)
  BY <1>1, <1>9, PickedFacts
<1>11. Len(t) = 5 /\ Len(Singles(t, F)) = 1
  <2> HIDE DEF S
  <2> QED BY <1>6, <1>7, <1>10
<1>12. Kickers(Singles(t, F), 1)
  <2>1. 1 \in Nat /\ Len(Singles(t, F)) >= 1 /\ Singles(t, F) \in Seq(Faces)
    BY <1>10, <1>11
  <2> HIDE DEF S
  <2> QED BY <2>1, KickersFacts
<1>13. Five(t)
  BY <1>10, <1>11, OwnIsMade DEF Five
<1>14. CountIn(t, LDBigger) = 2 /\ CountIn(t, LDSmaller) = 2
  <2>1. S \intersect Spots(tmpPokers, F) = Spots(tmpPokers, F)
    BY <1>1, PlacesOfFacts
  <2>2. Spots(tmpPokers, {LDBigger}) \in SUBSET Spots(tmpPokers, F)
        /\ Spots(tmpPokers, {LDSmaller}) \in SUBSET Spots(tmpPokers, F)
    BY DEF Spots, F
  <2> HIDE DEF S
  <2>3. CountIn(t, LDBigger) = Count({LDBigger}) /\ CountIn(t, LDSmaller) = Count({LDSmaller})
    <3>1. Spots(tmpPokers, {LDBigger}) \in SUBSET S /\ Spots(tmpPokers, {LDSmaller}) \in SUBSET S
      BY <2>1, <2>2
    <3> QED BY <1>1, <1>4, <1>5, <1>7, <1>9, <3>1, PickedOften
  <2> QED BY <1>2, <1>4, <1>5, <2>3
<1> QED BY <1>4, <1>5, <1>12, <1>13, <1>14 DEF t, F

\* Five cards from the largest down, some of one face and others.
LEMMA FiveOfAFace ==
  ASSUME Own(tmpPokers), NEW f \in Faces, NEW n \in Nat, Count({f}) > 0, WithLz \in 0..1,
         Cardinality(PlacesOf({f}, n)) + WithLz >= 5
  PROVE  LET five == FiveDownwards(PlacesOf({f}, n), f)
         IN  /\ Five(five) /\ Five(Reverse(five))
             /\ Singles(five, {f}) \in Seq(Faces) /\ Singles(Reverse(five), {f}) \in Seq(Faces)
             /\ Cardinality(PlacesOf({f}, n)) + WithLz = 5 =>
                  Len(Singles(Reverse(five), {f})) = 5 - (Count({f}) + WithLz)
<1> DEFINE F == {f}
           S == PlacesOf(F, n)
           five == FiveDownwards(S, f)
           back == Reverse(five)
<1>1. /\ S \in SUBSET (1..Len(tmpPokers))
      /\ S \intersect Spots(tmpPokers, F) = Spots(tmpPokers, F)
  <2> HIDE DEF F
  <2> QED BY PlacesOfFacts
<1>2. S \intersect Spots(tmpPokers, F) # {}
  <2>1. Cardinality(Spots(tmpPokers, F)) > 0
    BY DEF Count
  <2>2. Spots(tmpPokers, F) # {}
    <3> HIDE DEF F
    <3> QED BY <2>1, FS_EmptySet
  <2> QED BY <1>1, <2>2
<1>3. /\ Five(five)
      /\ Cardinality(S) + WithLz = 5 =>
           Cardinality(Spots(five, F)) = Cardinality(S \intersect Spots(tmpPokers, F)) + WithLz
  <2>1. /\ S \in SUBSET (1..Len(tmpPokers)) /\ S \intersect Spots(tmpPokers, {f}) # {}
        /\ Cardinality(S) + WithLz >= 5
    BY <1>1, <1>2
  <2> HIDE DEF S
  <2>2. /\ Five(FiveDownwards(S, f))
        /\ Cardinality(S) + WithLz = 5 =>
             Cardinality(Spots(FiveDownwards(S, f), {f})) =
               Cardinality(S \intersect Spots(tmpPokers, {f})) + WithLz
    BY <2>1, FiveDownwardsFacts
  <2> QED BY <2>2
<1>4. Cardinality(S \intersect Spots(tmpPokers, F)) = Count(F)
  BY <1>1 DEF Count
<1> HIDE DEF five, F, S
<1>5. /\ five \in Seq(Poker) /\ Len(five) = 5 /\ Made(five)
      /\ 1..Len(five) \in SUBSET (1..Len(five)) /\ Cardinality(1..Len(five)) = Len(five)
      /\ Picks(back, five, 1..Len(five))
  <2>1. five \in Seq(Poker) /\ Len(five) = 5 /\ Made(five)
    BY <1>3 DEF Five, Made
  <2> QED BY <2>1, ReverseFacts
<1> HIDE DEF back
<1>6. Made(back) /\ Len(back) = 5
  BY <1>5, PicksOfMade
<1>7. Cardinality(Spots(back, F)) = Cardinality(Spots(five, F))
  <2>1. Cardinality(Spots(back, F)) = Cardinality((1..Len(five)) \intersect Spots(five, F))
    BY <1>5, PicksCount
  <2>2. (1..Len(five)) \intersect Spots(five, F) = Spots(five, F)
    BY <1>5, SpotsType
  <2> QED BY <2>1, <2>2
<1>8. /\ Singles(five, F) \in Seq(Faces) /\ Singles(back, F) \in Seq(Faces)
      /\ Len(Singles(back, F)) = 5 - Cardinality(Spots(back, F))
  BY <1>5, <1>6, SinglesOfMade
<1> QED BY <1>3, <1>4, <1>6, <1>7, <1>8 DEF Five, five, back, F, S

TZ3Face == Max(Seen(seems, IF HaveLz THEN 2 ELSE 3))
TZ3Pokers(dz) == Reverse(FiveDownwards(PlacesOf({dz}, 2), dz))

LEMMA TZ3Shown ==
  ASSUME AnalystInv, next = ST3
  PROVE  TZ3Face \in Faces /\ Five(TZ3Pokers(TZ3Face)) /\ Kickers(Singles(TZ3Pokers(TZ3Face), {TZ3Face}), 2)
<1> DEFINE f == TZ3Face
           F == {f}
           S == PlacesOf(F, 2)
           t == TZ3Pokers(f)
<1>1. /\ Total \in 5..7 /\ WithLz \in 0..1 /\ Len(tmpPokers) = Total - WithLz
      /\ Own(tmpPokers) /\ Fits(ST3, seems, th, HaveLz, playChain) /\ Listed
  <2>1. next # NoMore
    BY DEF ST3, NoMore
  <2> QED BY <2>1, AtACheck DEF AnalystInv
<1>2. f \in Faces /\ Count(F) + WithLz = 3 /\ Count(F) > 0
  <2> DEFINE n == IF HaveLz THEN 2 ELSE 3
             T == Seen(seems, n)
  <2>1. T # {} /\ f = Max(T)
    BY <1>1 DEF TZ3Face, Fits, One, YD, DZ, LD, ST3, SZ, TH, HL, ST4
  <2>2. T \in SUBSET Faces /\ \A g \in T : Count({g}) = n
    BY <1>1, SeenFacts
  <2>3. n + WithLz = 3 /\ n > 0
    BY DEF WithLz
  <2> HIDE DEF n, T, f
  <2>4. f \in T /\ f \in Faces
    BY <2>1, <2>2, MaxFace
  <2>5. Count({f}) = n
    BY <2>2, <2>4
  <2> QED BY <2>3, <2>4, <2>5
<1> HIDE DEF F
<1>3. Cardinality(S) + WithLz = 5
  BY <1>1, <1>2, PlacesOfFacts
<1> HIDE DEF f, t
<1>4. /\ t = Reverse(FiveDownwards(S, f)) /\ Five(t)
      /\ Singles(t, F) \in Seq(Faces) /\ Len(Singles(t, F)) = 2
  <2>1. t = Reverse(FiveDownwards(S, f))
    BY DEF t, TZ3Pokers, F, f
  <2>2. Cardinality(PlacesOf({f}, 2)) + WithLz = 5 /\ Count({f}) > 0 /\ 2 \in Nat
    BY <1>2, <1>3 DEF F
  <2>3. /\ Five(Reverse(FiveDownwards(PlacesOf({f}, 2), f)))
        /\ Singles(Reverse(FiveDownwards(PlacesOf({f}, 2), f)), {f}) \in Seq(Faces)
        /\ Cardinality(PlacesOf({f}, 2)) + WithLz = 5 =>
             Len(Singles(Reverse(FiveDownwards(PlacesOf({f}, 2), f)), {f})) = 5 - (Count({f}) + WithLz)
    BY <1>1, <1>2, <2>2, FiveOfAFace
  <2>4. Five(t) /\ Singles(t, F) \in Seq(Faces) /\ Len(Singles(t, F)) = 5 - (Count(F) + WithLz)
    BY <2>1, <2>2, <2>3 DEF F
  <2>5. 5 - (Count(F) + WithLz) = 2
    BY <1>2
  <2> QED BY <2>1, <2>4, <2>5
<1>5. Kickers(Singles(t, F), 2)
  <2>1. 2 \in Nat /\ Len(Singles(t, F)) >= 2 /\ Singles(t, F) \in Seq(Faces)
    BY <1>4
  <2> QED BY <2>1, KickersFacts
<1> QED BY <1>2, <1>4, <1>5 DEF F, t, f

TZ4Face == Max(Seen(seems, 4) \union (IF HaveLz THEN Seen(seems, 3) ELSE {}))
TZ4Pokers(big) == FiveDownwards(PlacesOf({big}, 1), big)

LEMMA TZ4Shown ==
  ASSUME AnalystInv, next = ST4
  PROVE  /\ TZ4Face \in Faces /\ Five(TZ4Pokers(TZ4Face))
         /\ LET singles == Singles(TZ4Pokers(TZ4Face), {TZ4Face})
            IN  singles = <<>> \/ Kickers(singles, 1)
<1> DEFINE f == TZ4Face
           F == {f}
           S == PlacesOf(F, 1)
           t == TZ4Pokers(f)
<1>1. /\ Total \in 5..7 /\ WithLz \in 0..1 /\ Len(tmpPokers) = Total - WithLz
      /\ Own(tmpPokers) /\ Fits(ST4, seems, th, HaveLz, playChain) /\ Listed
  <2>1. next # NoMore
    BY DEF ST4, NoMore
  <2> QED BY <2>1, AtACheck DEF AnalystInv
<1>2. f \in Faces /\ Count(F) + WithLz >= 4 /\ Count(F) > 0 /\ Count(F) <= 4
  <2> DEFINE T == Seen(seems, 4) \union (IF HaveLz THEN Seen(seems, 3) ELSE {})
  <2>1. T # {} /\ f = Max(T)
    BY <1>1 DEF TZ4Face, Fits, PreCheckHaveTZ4, YD, DZ, LD, ST3, SZ, TH, HL, ST4
  <2>2. T \in SUBSET Faces /\ \A g \in T : Count({g}) \in 3..4 /\ Count({g}) + WithLz >= 4
    <3>1. Seen(seems, 3) \in SUBSET Faces /\ Seen(seems, 4) \in SUBSET Faces
      BY <1>1, SeenFacts
    <3>2. ASSUME NEW g \in T PROVE Count({g}) \in 3..4 /\ Count({g}) + WithLz >= 4
      <4>1. CASE g \in Seen(seems, 4)
        <5>1. Count({g}) = 4
          BY <1>1, <4>1, SeenFacts
        <5> QED BY <1>1, <5>1
      <4>2. CASE g \in Seen(seems, 3) /\ HaveLz
        <5>1. Count({g}) = 3
          BY <1>1, <4>2, SeenFacts
        <5> QED BY <4>2, <5>1 DEF WithLz
      <4> QED BY <4>1, <4>2
    <3> QED BY <3>1, <3>2
  <2> HIDE DEF T, f
  <2>3. f \in T /\ f \in Faces
    BY <2>1, <2>2, MaxFace
  <2>4. Count({f}) \in 3..4 /\ Count({f}) + WithLz >= 4
    BY <2>2, <2>3
  <2> QED BY <2>3, <2>4
<1> HIDE DEF F
<1>3. Cardinality(S) + WithLz >= 5
  BY <1>1, <1>2, PlacesOfFacts
<1> HIDE DEF f, t
<1>4. Five(t) /\ Singles(t, F) \in Seq(Faces)
  <2>1. t = FiveDownwards(S, f)
    BY DEF t, TZ4Pokers, F, f
  <2>2. Cardinality(PlacesOf({f}, 1)) + WithLz >= 5 /\ Count({f}) > 0 /\ 1 \in Nat
    BY <1>2, <1>3 DEF F
  <2>3. /\ Five(FiveDownwards(PlacesOf({f}, 1), f))
        /\ Singles(FiveDownwards(PlacesOf({f}, 1), f), {f}) \in Seq(Faces)
    BY <1>1, <1>2, <2>2, FiveOfAFace
  <2> QED BY <2>1, <2>3 DEF F
<1>5. Singles(t, F) = <<>> \/ Kickers(Singles(t, F), 1)
  <2>1. Len(Singles(t, F)) \in Nat /\ (Len(Singles(t, F)) = 0 => Singles(t, F) = <<>>)
    BY <1>4, EmptySeq
  <2>2. CASE Len(Singles(t, F)) = 0
    BY <2>1, <2>2
  <2>3. CASE Len(Singles(t, F)) >= 1
    <3>1. 1 \in Nat /\ Len(Singles(t, F)) >= 1 /\ Singles(t, F) \in Seq(Faces)
      BY <1>4, <2>3
    <3> QED BY <3>1, KickersFacts
  <2> QED BY <2>1, <2>2, <2>3
<1> QED BY <1>2, <1>4, <1>5 DEF F, t, f

HLBigger == Max(Seen(seems, IF HaveLz THEN 2 ELSE 3))
HLSmaller == Max((Seen(seems, 2) \union Seen(seems, 3)) \ {HLBigger})
LastTwo(S) == {i \in S : Cardinality({j \in S : j > i}) < 2}
HLPokers(bigger, smaller) ==
  FiveDownwards(PlacesOf({bigger}, 0) \union LastTwo(PlacesOf({smaller}, 0)), bigger)

\* All the places of one face.
LEMMA PlacesOfOne ==
  ASSUME Own(tmpPokers), NEW f
  PROVE  /\ PlacesOf({f}, 0) = Spots(tmpPokers, {f})
         /\ Cardinality(PlacesOf({f}, 0)) = Count({f}) /\ IsFiniteSet(PlacesOf({f}, 0))
<1> DEFINE F == {f}
           S == PlacesOf(F, 0)
           here == Spots(tmpPokers, F)
<1>1. tmpPokers \in Seq(Card)
  BY DEF Own
<1>2. /\ S \in SUBSET (1..Len(tmpPokers)) /\ S \intersect here = here
      /\ Len(tmpPokers) \in Nat /\ Count(F) \in 0..Len(tmpPokers)
      /\ Cardinality(S) = Count(F) + IF 0 <= Len(tmpPokers) - Count(F) THEN 0 ELSE Len(tmpPokers) - Count(F)
  <2> HIDE DEF F
  <2>1. 0 \in Nat
    OBVIOUS
  <2> QED BY <2>1, PlacesOfFacts
<1>3. Cardinality(S) = Cardinality(here)
  <2> HIDE DEF S
  <2>1. Cardinality(S) = Count(F)
    BY <1>2
  <2> QED BY <2>1 DEF Count
<1> HIDE DEF S, F, here
<1>4. IsFiniteSet(S)
  BY <1>2, SizeOfPlaces, FS_Subset
<1>5. here \in SUBSET S
  BY <1>2
<1>6. here = S
  BY <1>3, <1>4, <1>5, FS_Subset
<1> QED BY <1>3, <1>4, <1>6 DEF S, F, here, Count

LEMMA HLShown ==
  ASSUME AnalystInv, next = HL
  PROVE  LET t == HLPokers(HLBigger, HLSmaller)
         IN  /\ HLBigger \in Faces /\ HLSmaller \in Faces /\ Five(t) /\ HLBigger # HLSmaller
             /\ CountIn(t, HLBigger) = 3 /\ CountIn(t, HLSmaller) = 2
<1> DEFINE f == HLBigger
           g == HLSmaller
           A == PlacesOf({f}, 0)
           B == PlacesOf({g}, 0)
           C == LastTwo(B)
           S == A \union C
<1>1. /\ Total \in 5..7 /\ WithLz \in 0..1 /\ Len(tmpPokers) = Total - WithLz
      /\ Own(tmpPokers) /\ Fits(HL, seems, th, HaveLz, playChain) /\ Listed
  <2>1. next # NoMore
    BY DEF HL, NoMore
  <2> QED BY <2>1, AtACheck DEF AnalystInv
<1>2. /\ f \in Faces /\ g \in Faces /\ f # g
      /\ Count({f}) + WithLz = 3 /\ Count({f}) > 0 /\ Count({g}) >= 2
  <2> DEFINE n == IF HaveLz THEN 2 ELSE 3
             T == Seen(seems, n)
             U == Seen(seems, 2) \union Seen(seems, 3)
             R == U \ {f}
  <2>1. /\ T \in SUBSET Faces /\ T \in SUBSET U /\ U \in SUBSET Faces
        /\ \A h \in T : Count({h}) = n
        /\ \A h \in U : Count({h}) \in 2..3
    <3>1. /\ Seen(seems, 2) \in SUBSET Faces /\ Seen(seems, 3) \in SUBSET Faces
          /\ \A h \in Seen(seems, 2) : Count({h}) = 2
          /\ \A h \in Seen(seems, 3) : Count({h}) = 3
      BY <1>1, SeenFacts
    <3> QED BY <3>1
  <2>2. T # {} /\ \A h \in T : U \ {h} # {}
    <3>0. PreCheckHaveHL(seems, HaveLz)
      BY <1>1 DEF Fits, YD, DZ, LD, ST3, SZ, TH, HL, ST4
    <3>1. CASE HaveLz
      <4>1. n = 2 /\ Cardinality(T) > 1
        BY <3>0, <3>1 DEF PreCheckHaveHL
      <4>2. T # {} /\ \A h \in T : T \ {h} # {}
        <5> HIDE DEF T
        <5> QED BY <2>1, <4>1, OthersThere
      <4> QED BY <2>1, <4>2
    <3>2. CASE ~HaveLz /\ Seen(seems, 2) # {} /\ Seen(seems, 3) # {}
      <4>1. n = 3
        BY <3>2
      <4>2. ASSUME NEW h \in T PROVE U \ {h} # {}
        <5>1. PICK k \in Seen(seems, 2) : TRUE
          BY <3>2
        <5>2. seems[k] = 2 /\ seems[h] = 3
          BY <4>1, <4>2 DEF Seen
        <5>3. k # h
          BY <5>2
        <5> QED BY <5>1, <5>3
      <4> QED BY <3>2, <4>1, <4>2
    <3>3. CASE ~HaveLz /\ Cardinality(Seen(seems, 3)) > 1
      <4>1. n = 3 /\ Cardinality(T) > 1
        BY <3>3
      <4>2. T # {} /\ \A h \in T : T \ {h} # {}
        <5> HIDE DEF T
        <5> QED BY <2>1, <4>1, OthersThere
      <4> QED BY <2>1, <4>2
    <3> QED BY <3>0, <3>1, <3>2, <3>3 DEF PreCheckHaveHL
  <2>3. f = Max(T) /\ g = Max(R) /\ n + WithLz = 3 /\ n > 0
    BY DEF HLBigger, HLSmaller, WithLz
  <2> HIDE DEF T, U, f, g, n
  <2>4. f \in T /\ f \in Faces
    BY <2>1, <2>2, <2>3, MaxFace
  <2>5. R \in SUBSET Faces /\ R # {}
    BY <2>1, <2>2, <2>4
  <2>6. g \in R /\ g \in Faces
    <3> HIDE DEF R
    <3> QED BY <2>3, <2>5, MaxFace
  <2>7. Count({f}) = n /\ Count({g}) \in 2..3 /\ f # g
    BY <2>1, <2>4, <2>6
  <2> QED BY <2>3, <2>4, <2>6, <2>7
<1>3. /\ A = Spots(tmpPokers, {f}) /\ Cardinality(A) = Count({f}) /\ IsFiniteSet(A)
      /\ B = Spots(tmpPokers, {g}) /\ Cardinality(B) = Count({g}) /\ IsFiniteSet(B)
  BY <1>1, PlacesOfOne
<1>4. A \in SUBSET (1..Len(tmpPokers)) /\ B \in SUBSET (1..Len(tmpPokers)) /\ A \intersect B = {}
  <2>1. DOMAIN tmpPokers = 1..Len(tmpPokers)
    BY <1>1, LenProperties DEF Own
  <2> QED BY <1>2, <1>3, <2>1 DEF Spots
<1> HIDE DEF A, B
<1>5. C \in SUBSET B /\ IsFiniteSet(C) /\ Cardinality(C) = 2
  <2>1. Len(tmpPokers) \in Nat
    BY <1>1, LenProperties DEF Own
  <2>2. 2 \in Nat /\ 2 <= Cardinality(B)
    BY <1>2, <1>3
  <2>3. IsFiniteSet(C) /\ Cardinality(C) = IF 2 <= Cardinality(B) THEN 2 ELSE Cardinality(B)
    BY <1>4, <2>1, <2>2, LargestAreCounted DEF LastTwo
  <2> QED BY <2>2, <2>3 DEF LastTwo
<1> HIDE DEF C
<1>6. /\ S \in SUBSET (1..Len(tmpPokers)) /\ S \intersect Spots(tmpPokers, {f}) # {}
      /\ Cardinality(S) + WithLz = 5
  <2>1. Cardinality(S) = Cardinality(A) + Cardinality(C) - Cardinality(A \intersect C)
    BY <1>3, <1>5, FS_Union
  <2>2. A \intersect C = {}
    BY <1>4, <1>5
  <2>3. Cardinality(A \intersect C) = 0
    BY <2>2, FS_EmptySet
  <2>4. A # {}
    BY <1>2, <1>3, FS_EmptySet
  <2>5. Cardinality(A) \in Nat
    BY <1>3, FS_CardinalityType
  <2>6. S \in SUBSET (1..Len(tmpPokers)) /\ S \intersect Spots(tmpPokers, {f}) # {}
    BY <1>3, <1>4, <1>5, <2>4
  <2>7. Cardinality(S) + WithLz = 5
    <3>1. Cardinality(A) + WithLz = 3
      BY <1>2, <1>3
    <3> HIDE DEF S
    <3>2. Cardinality(S) = Cardinality(A) + 2
      BY <1>5, <2>1, <2>3, <2>5
    <3> QED BY <1>1, <2>5, <3>1, <3>2
  <2> QED BY <2>6, <2>7
<1>7. HLPokers(f, g) = FiveDownwards(S, f)
  BY DEF HLPokers, S, A, B, C
<1> HIDE DEF S, f, g
<1>8. /\ Five(FiveDownwards(S, f))
      /\ \A F : Cardinality(Spots(FiveDownwards(S, f), F)) =
                  Cardinality(S \intersect Spots(tmpPokers, F)) + IF f \in F THEN WithLz ELSE 0
  <2>1. Cardinality(S) + WithLz >= 5
    BY <1>6
  <2> QED BY <1>1, <1>2, <1>6, <2>1, FiveDownwardsFacts
<1>9. CountIn(FiveDownwards(S, f), f) = 3 /\ CountIn(FiveDownwards(S, f), g) = 2
  <2>1. S \intersect Spots(tmpPokers, {f}) = A /\ S \intersect Spots(tmpPokers, {g}) = C
    BY <1>3, <1>4, <1>5 DEF S
  <2>2. Cardinality(A) + WithLz = 3 /\ Cardinality(C) + 0 = 2
    BY <1>2, <1>3, <1>5
  <2>3. f \in {f} /\ f \notin {g}
    BY <1>2
  <2>4. /\ Cardinality(Spots(FiveDownwards(S, f), {f})) = Cardinality(A) + WithLz
        /\ Cardinality(Spots(FiveDownwards(S, f), {g})) = Cardinality(C) + 0
    BY <1>8, <2>1, <2>3
  <2> QED BY <2>2, <2>4 DEF CountIn
<1> QED BY <1>2, <1>7, <1>8, <1>9 DEF f, g

\* The largest cards of the color that has so many.
LastOf(s, n) == SubSeq(s, Len(s) - n + 1, Len(s))

LEMMA LargestFacts ==
  ASSUME Listed, NEW n \in Nat \ {0}, \E c \in Colors : Len(th[c]) >= n
  PROVE  /\ Own(LargestOfTH(n)) /\ Strict(LargestOfTH(n)) /\ Len(LargestOfTH(n)) = n
         /\ \E c \in Colors : Len(th[c]) >= n /\ LargestOfTH(n) = LastOf(th[c], n)
<1> DEFINE c == CHOOSE x \in Colors : Len(th[x]) >= n
           s == th[c]
<1>1. c \in Colors /\ Len(s) >= n
  OBVIOUS
<1> HIDE DEF c
<1>2. Own(s) /\ Strict(s)
  BY <1>1 DEF Listed, InColor
<1>3. LargestOfTH(n) = SubSeq(s, Len(s) - n + 1, Len(s))
  BY DEF LargestOfTH, c
<1> HIDE DEF s
<1>4. Len(s) \in Nat
  BY <1>2, LenProperties DEF Own
<1>5. PICK a \in Nat \ {0}, b \in Nat : a = Len(s) - n + 1 /\ b = Len(s)
  <2>1. Len(s) - n + 1 \in Nat \ {0}
    BY <1>1, <1>4
  <2> QED BY <1>4, <2>1
<1>6. a <= b /\ b <= Len(s) /\ b - a + 1 = n
  BY <1>4, <1>5
<1> DEFINE t == SubSeq(s, a, b)
<1>7. Own(t) /\ Strict(t) /\ Len(t) = b - a + 1
  BY <1>2, <1>6, StrictPart
<1>8. LargestOfTH(n) = t
  BY <1>3, <1>5
<1>9. Len(th[c]) >= n /\ LargestOfTH(n) = LastOf(th[c], n)
  BY <1>1, <1>3 DEF LastOf, s
<1> HIDE DEF t
<1> QED BY <1>1, <1>6, <1>7, <1>8, <1>9

THPokers == IF HaveLz THEN ResultPokersForTHWithLz ELSE LargestOfTH(5)

\* A mere flush of the color c: its largest cards, and the wild one among them.
FlushOf(c, P) ==
  IF HaveLz
  THEN /\ Len(th[c]) >= 4
       /\ \E f \in Faces :
            /\ \A i \in 1..4 : LastOf(th[c], 4)[i].face # f
            /\ P = SortAppendPokerWithoutSeem(LastOf(th[c], 4), BornALaiZi(f, c))
  ELSE Len(th[c]) >= 5 /\ P = LastOf(th[c], 5)

LEMMA THShown ==
  ASSUME AnalystInv, next = TH
  PROVE  /\ RowOfColor = <<>> \/ OfOneColor(RowOfColor)
         /\ Five(THPokers) /\ \E c \in Colors : FlushOf(c, THPokers)
<1>1. Listed /\ \E c \in Colors : Len(th[c]) >= IF HaveLz THEN 4 ELSE 5
  <2>1. next # NoMore
    BY DEF TH, NoMore
  <2>2. Fits(TH, seems, th, HaveLz, playChain)
    BY <2>1, AtACheck
  <2> QED BY <2>2 DEF AnalystInv, Fits, Flush, YD, DZ, LD, ST3, SZ, TH, HL, ST4
<1>2. RowOfColor = <<>> \/ OfOneColor(RowOfColor)
  <2>1. \A c \in Colors : Own(th[c]) /\ Strict(th[c]) /\ ColoredIn(th[c], {c})
    BY <1>1 DEF Listed, InColor, ColoredIn
  <2> QED BY <2>1, RowOfColorFacts
<1>3. CASE HaveLz
  <2> DEFINE four == LargestOfTH(4)
             R == Faces \ ToSet(FacesOf(four))
             f == Max(R)
             c == four[4].color
  <2>1. /\ Own(four) /\ Strict(four) /\ Len(four) = 4
        /\ \E x \in Colors : Len(th[x]) >= 4 /\ four = LastOf(th[x], 4)
    <3>1. 4 \in Nat \ {0} /\ \E x \in Colors : Len(th[x]) >= 4
      BY <1>1, <1>3
    <3> QED BY <1>1, <3>1, LargestFacts
  <2>2. ResultPokersForTHWithLz = SortAppendPokerWithoutSeem(four, BornALaiZi(f, c))
    BY DEF ResultPokersForTHWithLz
  <2> HIDE DEF four
  <2>3. /\ DOMAIN four = 1..4 /\ \A i \in 1..4 : four[i] \in Card
        /\ \A i \in 1..4 : four[i].face \in Faces /\ four[i].color \in Colors
    <3>1. four \in Seq(Card)
      BY <2>1 DEF Own
    <3>2. DOMAIN four = 1..4 /\ \A i \in 1..4 : four[i] \in Card
      BY <2>1, <3>1, LenProperties, ElementOfSeq
    <3> QED BY <3>2, CardFacts
  <2>4. ToSet(FacesOf(four)) = {four[i].face : i \in 1..4}
    BY <2>3 DEF ToSet, FacesOf
  <2>5. R # {}
    <3>1. ToSet(FacesOf(four)) = {four[1].face, four[2].face, four[3].face, four[4].face}
      <4>1. \A i : i \in 1..4 <=> i = 1 \/ i = 2 \/ i = 3 \/ i = 4
        OBVIOUS
      <4> QED BY <2>4, <4>1
    <3>2. \A f1, f2, f3, f4 \in Faces : \E k \in Faces : k # f1 /\ k # f2 /\ k # f3 /\ k # f4
      BY DEF Faces
    <3>3. \E k \in Faces : k # four[1].face /\ k # four[2].face /\ k # four[3].face /\ k # four[4].face
      <4>1. 1 \in 1..4 /\ 2 \in 1..4 /\ 3 \in 1..4 /\ 4 \in 1..4
        OBVIOUS
      <4>2. /\ four[1].face \in Faces /\ four[2].face \in Faces
            /\ four[3].face \in Faces /\ four[4].face \in Faces
        BY <2>3, <4>1
      <4>3. PICK f1 \in Faces, f2 \in Faces, f3 \in Faces, f4 \in Faces :
              f1 = four[1].face /\ f2 = four[2].face /\ f3 = four[3].face /\ f4 = four[4].face
        BY <4>2
      <4>4. PICK k \in Faces : k # f1 /\ k # f2 /\ k # f3 /\ k # f4
        BY <3>2
      <4> QED BY <4>3, <4>4
    <3> QED BY <3>1, <3>3
  <2>6. f \in R /\ f \in Faces
    <3>1. R \in SUBSET Faces
      OBVIOUS
    <3> HIDE DEF R
    <3> QED BY <2>5, <3>1, MaxFace
  <2>7. \A i \in 1..4 : four[i].face # f
    <3> HIDE DEF f
    <3> QED BY <2>4, <2>6
  <2>8. c \in Colors
    <3>1. four[4] \in Card
      BY <2>3
    <3> QED BY <3>1, CardFacts
  <2> HIDE DEF f, c
  <2>9. Five(SortAppendPokerWithoutSeem(four, BornALaiZi(f, c)))
    BY <1>3, <2>1, <2>6, <2>7, <2>8, FourAndBorn
  <2>10. PICK x \in Colors : Len(th[x]) >= 4 /\ four = LastOf(th[x], 4)
    BY <2>1
  <2>11. c = x
    <3>1. Own(th[x]) /\ Strict(th[x]) /\ \A i \in 1..Len(th[x]) : th[x][i].color = x
      BY <1>1 DEF Listed, InColor
    <3>2. Len(th[x]) \in Nat
      BY <3>1, LenProperties DEF Own
    <3>3. PICK a \in Nat \ {0}, b \in Nat : a = Len(th[x]) - 3 /\ b = Len(th[x])
      <4>1. Len(th[x]) >= 4
        BY <2>10, Zenon
      <4>2. \A l \in Nat : l >= 4 => l - 3 \in Nat \ {0}
        OBVIOUS
      <4> QED BY <3>2, <4>1, <4>2
    <3>4. a <= b /\ b <= Len(th[x]) /\ b - a + 1 = 4 /\ 4 \in 1..b - a + 1
      BY <3>2, <3>3
    <3>5. \A i \in 1..b - a + 1 : SubSeq(th[x], a, b)[i] = th[x][a + i - 1] /\ a + i - 1 \in 1..Len(th[x])
      BY <3>1, <3>4, StrictPart
    <3>6. four = SubSeq(th[x], a, b)
      BY <2>10, <3>2, <3>3 DEF LastOf
    <3>7. four[4].color = x
      BY <3>1, <3>4, <3>5, <3>6
    <3> QED BY <3>7 DEF c
  <2>12. FlushOf(x, THPokers)
    BY <1>3, <2>2, <2>6, <2>7, <2>10, <2>11 DEF FlushOf, THPokers
  <2> QED BY <1>2, <1>3, <2>2, <2>9, <2>12 DEF THPokers
<1>4. CASE ~HaveLz
  <2>1. 5 \in Nat \ {0} /\ \E x \in Colors : Len(th[x]) >= 5
    BY <1>1, <1>4
  <2>2. /\ Own(LargestOfTH(5)) /\ Len(LargestOfTH(5)) = 5
        /\ \E x \in Colors : Len(th[x]) >= 5 /\ LargestOfTH(5) = LastOf(th[x], 5)
    BY <1>1, <2>1, LargestFacts
  <2>3. Five(LargestOfTH(5))
    BY <2>2, OwnIsMade DEF Five
  <2>4. \E x \in Colors : FlushOf(x, THPokers)
    BY <1>4, <2>2 DEF FlushOf, THPokers
  <2> QED BY <1>2, <1>4, <2>3, <2>4 DEF THPokers
<1> QED BY <1>3, <1>4

\* The weight of a straight stands in its last place.
LEMMA SZWeight ==
  ASSUME NEW row, Five(row)
  PROVE  WeightOfSZ(row) \in [1..6 -> 0..Ace] /\ \A i \in 1..5 : WeightOfSZ(row)[i] = 0
<1>1. row[Len(row)].face \in 0..Ace
  BY FacesOfFive DEF Five
<1>2. NoWeight \in [1..6 -> 0..Ace] /\ \A i \in 1..6 : NoWeight[i] = 0
  BY DEF NoWeight, Ace
<1>3. ASSUME NEW x \in 0..Ace
      PROVE  /\ [NoWeight EXCEPT ![6] = x] \in [1..6 -> 0..Ace]
             /\ \A i \in 1..5 : [NoWeight EXCEPT ![6] = x][i] = 0
  <2> DEFINE w == NoWeight
  <2> HIDE DEF w
  <2>1. w \in [1..6 -> 0..Ace] /\ \A i \in 1..6 : w[i] = 0
    BY <1>2 DEF w
  <2>2. [w EXCEPT ![6] = x] \in [1..6 -> 0..Ace] /\ \A i \in 1..5 : [w EXCEPT ![6] = x][i] = 0
    BY <2>1
  <2> QED BY <2>2 DEF w
<1> QED BY <1>1, <1>2, <1>3 DEF WeightOfSZ

LEMMA SZShown ==
  ASSUME AnalystInv
  PROVE  RowIn(shunZi) = <<>> \/ Straight(RowIn(shunZi), Colors)
<1>1. Own(shunZi) /\ Strict(shunZi)
  BY DEF AnalystInv, Listed
<1>2. ColoredIn(shunZi, Colors)
  <2>1. \A i \in 1..Len(shunZi) : shunZi[i] \in Card
    BY <1>1, ElementOfSeq DEF Own
  <2> QED BY <2>1, CardFacts DEF ColoredIn
<1> QED BY <1>1, <1>2, RowFacts

-----------------------------------------------------------------------------
(* The invariant step by step.                                               *)

\* The checks leave the cards and their lists alone.
LEMMA DealingKept ==
  ASSUME Dealt, Listed, UNCHANGED dealing
  PROVE  Dealt' /\ Listed' /\ HaveLz' = HaveLz /\ Total' = Total
<1>1. /\ deal' = deal /\ originPokers' = originPokers /\ tmpPokers' = tmpPokers
      /\ th' = th /\ shunZi' = shunZi /\ seems' = seems
  BY DEF dealing
<1>2. Dealt'
  BY <1>1 DEF Dealt, Total
<1>3. HaveLz' = HaveLz /\ Total' = Total
  BY <1>1 DEF HaveLz, Total
<1>4. Listed'
  <2>1. Own(tmpPokers)' /\ Rising(tmpPokers)' /\ Own(shunZi)' /\ Strict(shunZi)'
    BY <1>1 DEF Listed, Own, Rising, Strict
  <2>2. \A c \in Colors : InColor(th[c], c)'
    BY <1>1 DEF Listed, InColor, Own, Strict
  <2>3. \A f \in Faces : Count({f})' = Count({f})
    BY <1>1 DEF Count, Spots
  <2>4. \A f \in Faces : seems'[f] = IF Count({f})' = 1 THEN 0 ELSE Count({f})'
    BY <1>1, <2>3 DEF Listed
  <2> QED BY <1>1, <2>1, <2>2, <2>4 DEF Listed
<1> QED BY <1>2, <1>3, <1>4

\* A check that finds a hand keeps the invariant, whether the chain ends or not.
LEMMA FoundKeeps ==
  ASSUME AnalystInv, Cardinality(originPokers) = Total,
         NEW kind \in HandType, NEW weight \in [1..6 -> 0..Ace], Scaled(kind, weight),
         NEW pokers, Five(pokers), Found(kind, weight, pokers),
         \/ next' = NoMore
         \/ next' \in ToSet(playChain) /\ Fits(next', seems, th, HaveLz, playChain)
  PROVE  AnalystInv'
<1>1. /\ handType' = kind /\ handWeight' = weight /\ checkedPokers' = pokers
      /\ playChain' = playChain /\ UNCHANGED dealing
  BY DEF Found
<1>2. /\ originPokers' = originPokers /\ th' = th /\ seems' = seems
  BY <1>1 DEF dealing
<1>3. Dealt' /\ Listed' /\ HaveLz' = HaveLz /\ Total' = Total
  BY <1>1, DealingKept DEF AnalystInv
<1>4. Chained'
  BY <1>1, <1>2, <1>3 DEF AnalystInv, Chained
<1>5. Judged'
  <2>1. Five(checkedPokers)'
    BY <1>1, <1>2 DEF Five, Made
  <2> QED BY <1>1, <2>1 DEF Judged
<1> QED BY <1>3, <1>4, <1>5 DEF AnalystInv

\* The weights the checks put together.
LEMMA WeightType ==
  ASSUME NEW a \in 0..Ace, NEW b \in 0..Ace, NEW c \in 0..Ace, NEW d \in 0..Ace
  PROVE  <<a, b, c, d, 0, 0>> \in [1..6 -> 0..Ace] /\ <<a, b, c, d, 0, 0>>[6] = 0
BY DEF Ace

LEMMA FaceNumber ==
  ASSUME NEW f \in Faces
  PROVE  f \in 0..Ace /\ 0 \in 0..Ace
BY DEF Faces, Ace

LEMMA DZKeeps ==
  ASSUME AnalystInv, IsDZ
  PROVE  AnalystInv'
<1> DEFINE t == SubSeq(tmpPokers, Total - 4, Total)
<1>1. next = DZ /\ next' = NoMore /\ Found(DZ, WeightOfDZ(t), t)
  BY DEF IsDZ
<1>2. Five(t) /\ Cardinality(originPokers) = Total
  BY <1>1, DZShown, AtACheck DEF DZ, NoMore
<1> HIDE DEF t
<1>3. WeightOfDZ(t) \in [1..6 -> 0..Ace] /\ WeightOfDZ(t)[6] = 0
  BY <1>2, FacesOfFive
<1>4. DZ \in HandType /\ Scaled(DZ, WeightOfDZ(t))
  BY <1>3 DEF Scaled, HandType, DZ, SZ, THS, HJTHS
<1> QED BY <1>1, <1>2, <1>3, <1>4, FoundKeeps

LEMMA YDKeeps ==
  ASSUME AnalystInv, CheckYD
  PROVE  AnalystInv'
<1> DEFINE f == YDFace
           t == YDPokers(f)
           s == Singles(t, {f})
           w == <<f, s[3], s[2], s[1], 0, 0>>
<1>1. next = YD /\ next' = NoMore /\ Found(YD, w, t)
  BY DEF CheckYD, YDFace, YDPokers
<1>2. Cardinality(originPokers) = Total
  BY <1>1, AtACheck DEF YD, NoMore
<1>3. f \in Faces /\ Five(t) /\ Kickers(s, 3)
  BY <1>1, YDShown
<1> HIDE DEF f, t, s
<1>4. f \in 0..Ace /\ s[1] \in 0..Ace /\ s[2] \in 0..Ace /\ s[3] \in 0..Ace
  BY <1>3, FaceNumber DEF Kickers
<1>5. w \in [1..6 -> 0..Ace] /\ w[6] = 0
  BY <1>4, WeightType
<1> HIDE DEF w
<1>6. YD \in HandType /\ Scaled(YD, w)
  BY <1>5 DEF Scaled, HandType, YD, DZ, SZ, THS, HJTHS
<1> QED BY <1>1, <1>2, <1>3, <1>5, <1>6, FoundKeeps

LEMMA LDKeeps ==
  ASSUME AnalystInv, CheckLD
  PROVE  AnalystInv'
<1> DEFINE f == LDBigger
           g == LDSmaller
           t == LDPokers(f, g)
           s == Singles(t, {f, g})
           w == <<f, g, s[1], 0, 0, 0>>
<1>1. next = LD /\ next' = NoMore /\ Found(LD, w, t)
  BY DEF CheckLD, LDBigger, LDSmaller, LDPokers
<1>2. Cardinality(originPokers) = Total
  BY <1>1, AtACheck DEF LD, NoMore
<1>3. f \in Faces /\ g \in Faces /\ Five(t) /\ Kickers(s, 1)
  BY <1>1, LDShown
<1> HIDE DEF f, g, t, s
<1>4. f \in 0..Ace /\ g \in 0..Ace /\ s[1] \in 0..Ace /\ 0 \in 0..Ace
  BY <1>3, FaceNumber DEF Kickers
<1>5. w \in [1..6 -> 0..Ace] /\ w[6] = 0
  BY <1>4, WeightType
<1> HIDE DEF w
<1>6. LD \in HandType /\ Scaled(LD, w)
  BY <1>5 DEF Scaled, HandType, LD, DZ, SZ, THS, HJTHS
<1> QED BY <1>1, <1>2, <1>3, <1>5, <1>6, FoundKeeps

LEMMA TZ3Keeps ==
  ASSUME AnalystInv, CheckTZ3
  PROVE  AnalystInv'
<1> DEFINE f == TZ3Face
           t == TZ3Pokers(f)
           s == Singles(t, {f})
           w == <<f, 0, s[2], s[1], 0, 0>>
<1>1. next = ST3 /\ next' = NoMore /\ Found(ST3, w, t)
  BY DEF CheckTZ3, TZ3Face, TZ3Pokers
<1>2. Cardinality(originPokers) = Total
  BY <1>1, AtACheck DEF ST3, NoMore
<1>3. f \in Faces /\ Five(t) /\ Kickers(s, 2)
  BY <1>1, TZ3Shown
<1> HIDE DEF f, t, s
<1>4. f \in 0..Ace /\ s[1] \in 0..Ace /\ s[2] \in 0..Ace /\ 0 \in 0..Ace
  BY <1>3, FaceNumber DEF Kickers
<1>5. w \in [1..6 -> 0..Ace] /\ w[6] = 0
  BY <1>4, WeightType
<1> HIDE DEF w
<1>6. ST3 \in HandType /\ Scaled(ST3, w)
  BY <1>5 DEF Scaled, HandType, ST3, DZ, SZ, THS, HJTHS
<1> QED BY <1>1, <1>2, <1>3, <1>5, <1>6, FoundKeeps

LEMMA HLKeeps ==
  ASSUME AnalystInv, CheckHL
  PROVE  AnalystInv'
<1> DEFINE f == HLBigger
           g == HLSmaller
           t == HLPokers(f, g)
           w == <<f, g, 0, 0, 0, 0>>
<1>1. next = HL /\ next' = NoMore /\ Found(HL, w, t)
  BY DEF CheckHL, HLBigger, HLSmaller, HLPokers, LastTwo
<1>2. Cardinality(originPokers) = Total
  BY <1>1, AtACheck DEF HL, NoMore
<1>3. f \in Faces /\ g \in Faces /\ Five(t)
  BY <1>1, HLShown
<1> HIDE DEF f, g, t
<1>4. f \in 0..Ace /\ g \in 0..Ace /\ 0 \in 0..Ace
  BY <1>3, FaceNumber
<1>5. w \in [1..6 -> 0..Ace] /\ w[6] = 0
  BY <1>4, WeightType
<1> HIDE DEF w
<1>6. HL \in HandType /\ Scaled(HL, w)
  BY <1>5 DEF Scaled, HandType, HL, DZ, SZ, THS, HJTHS
<1> QED BY <1>1, <1>2, <1>3, <1>5, <1>6, FoundKeeps

LEMMA TZ4Keeps ==
  ASSUME AnalystInv, CheckTZ4
  PROVE  AnalystInv'
<1> DEFINE f == TZ4Face
           t == TZ4Pokers(f)
           s == Singles(t, {f})
           k == IF s = <<>> THEN 0 ELSE s[1]
           w == <<f, k, 0, 0, 0, 0>>
<1>1. next = ST4 /\ next' = NoMore /\ Found(ST4, w, t)
  BY DEF CheckTZ4, TZ4Face, TZ4Pokers
<1>2. Cardinality(originPokers) = Total
  BY <1>1, AtACheck DEF ST4, NoMore
<1>3. f \in Faces /\ Five(t) /\ (s = <<>> \/ Kickers(s, 1))
  BY <1>1, TZ4Shown
<1> HIDE DEF f, t, s
<1>4. f \in 0..Ace /\ k \in 0..Ace /\ 0 \in 0..Ace
  BY <1>3, FaceNumber DEF Kickers
<1> HIDE DEF k
<1>5. w \in [1..6 -> 0..Ace] /\ w[6] = 0
  BY <1>4, WeightType
<1> HIDE DEF w
<1>6. ST4 \in HandType /\ Scaled(ST4, w)
  BY <1>5 DEF Scaled, HandType, ST4, DZ, SZ, THS, HJTHS
<1> QED BY <1>1, <1>2, <1>3, <1>5, <1>6, FoundKeeps

\* A straight ends the chain; without one it goes on.
LEMMA SZKeeps ==
  ASSUME AnalystInv, CheckSZ
  PROVE  AnalystInv'
<1> DEFINE row == RowIn(shunZi)
           w == WeightOfSZ(row)
<1>1. next = SZ /\ Cardinality(originPokers) = Total
  BY AtACheck DEF CheckSZ, SZ, NoMore
<1>2. row = <<>> \/ Five(row)
  BY SZShown DEF Straight
<1>3. CASE row # <<>>
  <2>1. next' = NoMore /\ Found(SZ, w, row)
    BY <1>3 DEF CheckSZ
  <2>2. Five(row)
    BY <1>2, <1>3
  <2> HIDE DEF row
  <2>3. w \in [1..6 -> 0..Ace] /\ \A i \in 1..5 : w[i] = 0
    BY <2>2, SZWeight
  <2> HIDE DEF w
  <2>4. SZ \in HandType /\ Scaled(SZ, w)
    BY <2>3 DEF Scaled, HandType, DZ, SZ, THS, HJTHS
  <2> QED BY <1>1, <2>1, <2>2, <2>3, <2>4, FoundKeeps
<1>4. CASE row = <<>>
  <2>1. /\ next' = DefaultNext
        /\ UNCHANGED <<dealing, playChain, handType, handWeight, checkedPokers>>
    BY <1>4 DEF CheckSZ
  <2>2. Dealt' /\ Listed' /\ HaveLz' = HaveLz /\ Total' = Total
    BY <2>1, DealingKept DEF AnalystInv
  <2>3. /\ next' \in ToSet(playChain) \union {NoMore} /\ next' # NoMore
        /\ Fits(next', seems, th, HaveLz, playChain)
    BY <1>1, <2>1, DefaultNextFacts DEF AnalystInv
  <2>4. originPokers' = originPokers /\ th' = th /\ seems' = seems
    BY <2>1 DEF dealing
  <2>5. Chained'
    BY <1>1, <2>1, <2>2, <2>3, <2>4 DEF AnalystInv, Chained
  <2>6. Judged'
    BY <2>1, <2>3 DEF AnalystInv, Judged, Finished
  <2> QED BY <2>2, <2>5, <2>6 DEF AnalystInv
<1> QED BY <1>3, <1>4

\* A straight of one color ends the chain; a mere flush is kept, and the chain
\* goes on.
LEMMA THKeeps ==
  ASSUME AnalystInv, CheckTH
  PROVE  AnalystInv'
<1>1. next = TH /\ Cardinality(originPokers) = Total
  BY AtACheck DEF CheckTH, TH, NoMore
<1>2. (RowOfColor = <<>> \/ Five(RowOfColor)) /\ Five(THPokers)
  BY <1>1, THShown DEF OfOneColor, Straight
<1>3. CASE RowOfColor # <<>> /\ IsBiggestSZ(RowOfColor)
  <2>1. next' = NoMore /\ Found(HJTHS, NoWeight, RowOfColor)
    BY <1>3 DEF CheckTH
  <2>2. NoWeight \in [1..6 -> 0..Ace] /\ \A i \in 1..6 : NoWeight[i] = 0
    BY DEF NoWeight, Ace
  <2>3. HJTHS \in HandType /\ Scaled(HJTHS, NoWeight)
    BY <2>2 DEF Scaled, HandType, DZ, SZ, THS, HJTHS
  <2> QED BY <1>1, <1>2, <1>3, <2>1, <2>2, <2>3, FoundKeeps
<1>4. CASE RowOfColor # <<>> /\ ~IsBiggestSZ(RowOfColor)
  <2> DEFINE w == WeightOfSZ(RowOfColor)
  <2>1. next' = NoMore /\ Found(THS, w, RowOfColor)
    BY <1>4 DEF CheckTH
  <2>2. w \in [1..6 -> 0..Ace] /\ \A i \in 1..5 : w[i] = 0
    BY <1>2, <1>4, SZWeight
  <2> HIDE DEF w
  <2>3. THS \in HandType /\ Scaled(THS, w)
    BY <2>2 DEF Scaled, HandType, DZ, SZ, THS, HJTHS
  <2> QED BY <1>1, <1>2, <1>4, <2>1, <2>2, <2>3, FoundKeeps
<1>5. CASE RowOfColor = <<>>
  <2> DEFINE t == THPokers
  <2>1. next' = DefaultNext /\ Found(TH, WeightOfDZ(t), t)
    BY <1>5 DEF CheckTH, THPokers
  <2>2. \/ next' = NoMore
        \/ next' \in ToSet(playChain) /\ Fits(next', seems, th, HaveLz, playChain)
    BY <1>1, <2>1, DefaultNextFacts DEF AnalystInv
  <2>3. Five(t)
    BY <1>2
  <2> HIDE DEF t
  <2>4. WeightOfDZ(t) \in [1..6 -> 0..Ace] /\ WeightOfDZ(t)[6] = 0
    BY <2>3, FacesOfFive
  <2>5. TH \in HandType /\ Scaled(TH, WeightOfDZ(t))
    BY <2>4 DEF Scaled, HandType, DZ, SZ, TH, THS, HJTHS
  <2> QED BY <1>1, <2>1, <2>2, <2>3, <2>4, <2>5, FoundKeeps
<1> QED BY <1>3, <1>4, <1>5

\* There are four colors, so no face is there more than four times.
LEMMA FourColors == IsFiniteSet(Colors) /\ Cardinality(Colors) <= 4
<1>1. IsFiniteSet({"s"}) /\ Cardinality({"s"}) = 1
  BY FS_Singleton
<1>2. IsFiniteSet({"s"} \union {"h"}) /\ Cardinality({"s"} \union {"h"}) <= 2
  BY <1>1, FS_AddElement
<1> DEFINE two == {"s"} \union {"h"}
<1> HIDE DEF two
<1>3. IsFiniteSet(two) /\ Cardinality(two) \in Nat /\ Cardinality(two) <= 2
  BY <1>2, FS_CardinalityType DEF two
<1>4. IsFiniteSet(two \union {"d"}) /\ Cardinality(two \union {"d"}) <= 3
  BY <1>3, FS_AddElement
<1> DEFINE three == two \union {"d"}
<1> HIDE DEF three
<1>5. IsFiniteSet(three) /\ Cardinality(three) \in Nat /\ Cardinality(three) <= 3
  BY <1>4, FS_CardinalityType DEF three
<1>6. IsFiniteSet(three \union {"c"}) /\ Cardinality(three \union {"c"}) <= 4
  <2>1. IsFiniteSet(three \union {"c"})
    BY <1>5, FS_AddElement
  <2>2. \/ Cardinality(three \union {"c"}) = Cardinality(three)
        \/ Cardinality(three \union {"c"}) = Cardinality(three) + 1
    BY <1>5, FS_AddElement
  <2> QED BY <1>5, <2>1, <2>2
<1>7. Colors = three \union {"c"}
  BY DEF Colors, three, two
<1> QED BY <1>6, <1>7

LEMMA FourOfAFace ==
  ASSUME NEW s \in Seq(Card), \A i, j \in 1..Len(s) : i # j => s[i] # s[j], NEW f
  PROVE  CountIn(s, f) \in 0..4
<1> DEFINE S == Spots(s, {f})
           g == [i \in S |-> s[i].color]
<1>1. S \in SUBSET (1..Len(s)) /\ IsFiniteSet(S) /\ Cardinality(S) \in Nat
  BY SpotsType, FS_CardinalityType
<1>2. \A i \in S : s[i] \in Card /\ s[i].face = f /\ s[i].color \in Colors
  <2>1. \A i \in S : s[i] \in Card /\ s[i].face = f
    BY <1>1, ElementOfSeq DEF Spots
  <2> QED BY <2>1, CardFacts
<1>3. \A i, j \in S : g[i] = g[j] => i = j
  <2>1. ASSUME NEW p \in Card, NEW q \in Card, p.face = q.face, p.color = q.color PROVE p = q
    BY <2>1 DEF Card
  <2>2. ASSUME NEW i \in S, NEW j \in S, g[i] = g[j] PROVE i = j
    <3>1. s[i].color = s[j].color /\ s[i].face = s[j].face /\ s[i] \in Card /\ s[j] \in Card
      BY <1>2, <2>2
    <3>2. s[i] = s[j]
      BY <2>1, <3>1
    <3> QED BY <1>1, <3>2
  <2> QED BY <2>2
<1>4. g \in Injection(S, Colors)
  <2>1. g \in [S -> Colors]
    BY <1>2
  <2> HIDE DEF S, g
  <2> QED BY <1>3, <2>1 DEF Injection, IsInjective
<1> HIDE DEF S, g
<1>5. Cardinality(S) <= Cardinality(Colors)
  BY <1>4, FourColors, FS_Injection
<1>6. Cardinality(S) \in 0..4
  <2>1. Cardinality(Colors) \in Nat
    BY FourColors, FS_CardinalityType
  <2> QED BY <1>1, <1>5, <2>1, FourColors
<1> QED BY <1>6 DEF CountIn, S

\* Cards out of a set, once each.
OwnOf(s, from) ==
  /\ s \in Seq(Card)
  /\ \A i \in 1..Len(s) : s[i] \in from
  /\ \A i, j \in 1..Len(s) : i # j => s[i] # s[j]

LEMMA OwnOfGrows ==
  ASSUME NEW from, NEW s, OwnOf(s, from), NEW new
  PROVE  OwnOf(s, from \union {new})
BY DEF OwnOf

\* The same with a new card among them.
WithCard(s, from, new, t) ==
  /\ OwnOf(t, from \union {new}) /\ Rising(t)
  /\ Strict(s) /\ (\A i \in 1..Len(s) : s[i].face # new.face) => Strict(t)
  /\ ToSet(t) = ToSet(s) \union {new} /\ Len(t) = Len(s) + 1
  /\ \A F : Cardinality(Spots(t, F)) = Cardinality(Spots(s, F)) + IF new.face \in F THEN 1 ELSE 0
  /\ \A i \in 1..Len(t) : t[i] = new \/ \E j \in 1..Len(s) : t[i] = s[j]

LEMMA CardPlaced ==
  ASSUME NEW from, NEW s, OwnOf(s, from), Rising(s), NEW new \in Card, new \notin from,
         NEW t, Placed(Card, s, new, t)
  PROVE  WithCard(s, from, new, t)
<1>1. /\ s \in Seq(Card) /\ Len(s) \in Nat
      /\ \A p \in Card : p.face \in Faces
  BY CardFacts, LenProperties DEF OwnOf
<1>2. PICK n \in 1..Len(s) + 1 : GoesTo(Card, s, n, new, t)
  BY DEF Placed
<1>3. /\ IsInserted(Card, s, n, new, t)
      /\ t \in Seq(Card) /\ Len(t) = Len(s) + 1 /\ t[n] = new
      /\ \A k \in 1..n - 1 : t[k] = s[k]
      /\ \A k \in n..Len(s) : t[k + 1] = s[k]
  BY <1>2 DEF GoesTo, IsInserted
<1>4. \A k \in 1..Len(t) :
        \/ k = n
        \/ \E i \in 1..Len(s) : t[k] = s[i] /\ ((i = k /\ k < n) \/ (i = k - 1 /\ k > n))
  <2>1. ASSUME NEW k \in 1..Len(t), k > n
        PROVE  k - 1 \in 1..Len(s) /\ t[k] = s[k - 1]
    <3>1. k - 1 \in n..Len(s) /\ k - 1 \in 1..Len(s)
      BY <1>1, <1>3, <2>1
    <3>2. t[(k - 1) + 1] = s[k - 1]
      BY <1>3, <3>1
    <3> QED BY <3>1, <3>2
  <2>2. ASSUME NEW k \in 1..Len(t), k < n
        PROVE  k \in 1..Len(s) /\ t[k] = s[k]
    BY <1>1, <1>3, <2>2
  <2> QED BY <1>1, <1>3, <2>1, <2>2
<1>5. OwnOf(t, from \union {new})
  <2>1. \A k \in 1..Len(t) : t[k] \in from \union {new}
    BY <1>3, <1>4 DEF OwnOf
  <2>2. ASSUME NEW k \in 1..Len(t), NEW l \in 1..Len(t), k # l, t[k] = t[l] PROVE FALSE
    <3>1. \A i \in 1..Len(s) : s[i] # new
      BY DEF OwnOf
    <3>2. k # n /\ l # n
      BY <1>3, <1>4, <2>2, <3>1
    <3>3. PICK i \in 1..Len(s) : t[k] = s[i] /\ ((i = k /\ k < n) \/ (i = k - 1 /\ k > n))
      BY <1>4, <3>2
    <3>4. PICK j \in 1..Len(s) : t[l] = s[j] /\ ((j = l /\ l < n) \/ (j = l - 1 /\ l > n))
      BY <1>4, <3>2
    <3>5. i # j
      BY <2>2, <3>3, <3>4
    <3> QED BY <2>2, <3>3, <3>4, <3>5 DEF OwnOf
  <2> QED BY <1>3, <2>1, <2>2 DEF OwnOf
<1>6. /\ Rising(t)
      /\ Strict(s) /\ (\A i \in 1..Len(s) : s[i].face # new.face) => Strict(t)
  BY <1>1, <1>2, SortedStays
<1>7. \A i \in 1..Len(t) : t[i] = new \/ \E j \in 1..Len(s) : t[i] = s[j]
  BY <1>3, <1>4
<1>8. ToSet(t) = ToSet(s) \union {new}
  <2>1. DOMAIN t = 1..Len(t) /\ DOMAIN s = 1..Len(s)
    BY <1>1, <1>3, LenProperties
  <2>2. \A j \in 1..Len(s) : \E i \in 1..Len(t) : t[i] = s[j]
    <3> SUFFICES ASSUME NEW j \in 1..Len(s) PROVE \E i \in 1..Len(t) : t[i] = s[j]
      OBVIOUS
    <3>1. CASE j < n
      <4>1. j \in 1..n - 1 /\ j \in 1..Len(t)
        BY <1>1, <1>3, <3>1
      <4> QED BY <1>3, <4>1
    <3>2. CASE j >= n
      <4>1. j \in n..Len(s) /\ j + 1 \in 1..Len(t)
        BY <1>1, <1>3, <3>2
      <4> QED BY <1>3, <4>1
    <3> QED BY <1>1, <3>1, <3>2
  <2>3. n \in 1..Len(t)
    BY <1>3
  <2>4. ToSet(t) = {t[i] : i \in 1..Len(t)} /\ ToSet(s) = {s[j] : j \in 1..Len(s)}
    BY <2>1 DEF ToSet
  <2>5. ASSUME NEW x \in ToSet(t) PROVE x \in ToSet(s) \union {new}
    BY <1>7, <2>4
  <2>6. ASSUME NEW x \in ToSet(s) \union {new} PROVE x \in ToSet(t)
    BY <1>3, <2>2, <2>3, <2>4
  <2> QED BY <2>5, <2>6
<1>9. ASSUME NEW F
      PROVE  Cardinality(Spots(t, F)) = Cardinality(Spots(s, F)) + IF new.face \in F THEN 1 ELSE 0
  BY <1>1, <1>3, InsertCounts
<1> QED BY <1>3, <1>5, <1>6, <1>7, <1>8, <1>9 DEF WithCard

LEMMA SortedPlaces ==
  ASSUME NEW s \in Seq(Card), Rising(s), NEW new \in Card
  PROVE  Placed(Card, s, new, SortAppendPoker(s, new))
<1>1. \A p \in Card : p.face \in Faces
  BY CardFacts
<1> QED BY <1>1, SortAppendFacts DEF Placed

\* The lists once another card, not the wild one, is among the others.
LEMMA ListedStays ==
  ASSUME Dealt, Listed, NEW poker \in Card, poker \notin originPokers,
         originPokers' = originPokers \union {poker},
         tmpPokers' = SortAppendPoker(tmpPokers, poker),
         th' = [th EXCEPT ![poker.color] = SortAppendPoker(@, poker)],
         shunZi' = SortAppendPokerWithoutSeem(shunZi, poker),
         seems' = RefreshSeems(seems, tmpPokers, poker.face)
  PROVE  Listed'
<1> DEFINE from == originPokers
           into == originPokers \union {poker}
           all == tmpPokers'
<1>1. poker.face \in Faces /\ poker.color \in Colors /\ poker # LaiZi /\ \A p \in Card : p.face \in Faces
  BY CardFacts
<1>2. OwnOf(tmpPokers, from) /\ Rising(tmpPokers) /\ tmpPokers \in Seq(Card)
  BY DEF Listed, Own, OwnOf
<1>3. /\ OwnOf(all, into) /\ Rising(all) /\ all \in Seq(Card)
      /\ ToSet(all) = ToSet(tmpPokers) \union {poker} /\ Len(all) = Len(tmpPokers) + 1
      /\ \A F : Cardinality(Spots(all, F)) = Count(F) + IF poker.face \in F THEN 1 ELSE 0
  <2>1. Placed(Card, tmpPokers, poker, all)
    BY <1>2, SortedPlaces
  <2> HIDE DEF all, into
  <2>2. /\ OwnOf(all, from \union {poker}) /\ Rising(all)
        /\ ToSet(all) = ToSet(tmpPokers) \union {poker} /\ Len(all) = Len(tmpPokers) + 1
        /\ \A F : Cardinality(Spots(all, F)) = Cardinality(Spots(tmpPokers, F)) + IF poker.face \in F THEN 1 ELSE 0
    <3>1. WithCard(tmpPokers, from, poker, all)
      BY <1>2, <2>1, CardPlaced
    <3> QED BY <3>1 DEF WithCard
  <2>3. from \union {poker} = into
    BY DEF into
  <2>4. \A F : Cardinality(Spots(tmpPokers, F)) = Count(F)
    BY DEF Count
  <2> QED BY <2>2, <2>3, <2>4 DEF OwnOf
<1>4. Own(tmpPokers)' /\ Rising(tmpPokers)'
  <2>1. Own(tmpPokers)'
    BY <1>3 DEF Own, OwnOf
  <2>2. Rising(tmpPokers)'
    BY <1>3 DEF Rising
  <2> QED BY <2>1, <2>2
<1>5. (ToSet(tmpPokers) = originPokers \ {LaiZi})' /\ (Len(tmpPokers) = Cardinality(originPokers \ {LaiZi}))'
  <2>1. into \ {LaiZi} = (from \ {LaiZi}) \union {poker} /\ poker \notin from \ {LaiZi}
    BY <1>1
  <2>2. IsFiniteSet(from \ {LaiZi}) /\ Cardinality(from \ {LaiZi}) = Len(tmpPokers)
        /\ ToSet(tmpPokers) = from \ {LaiZi}
    BY FS_RemoveElement DEF Dealt, Listed
  <2> DEFINE rest == from \ {LaiZi}
  <2> HIDE DEF rest
  <2>3. Cardinality(rest \union {poker}) = Cardinality(rest) + 1
    BY <2>1, <2>2, FS_AddElement DEF rest
  <2>4. Len(all) = Cardinality(into \ {LaiZi}) /\ ToSet(all) = into \ {LaiZi}
    BY <1>3, <2>1, <2>2, <2>3 DEF rest
  <2> QED BY <2>4
<1>6. /\ th' \in [Colors -> Seq(Card)]
      /\ \A c \in Colors : OwnOf(th'[c], into) /\ Strict(th'[c]) /\ \A i \in 1..Len(th'[c]) : th'[c][i].color = c
  <2> DEFINE c0 == poker.color
             s0 == th[c0]
             t0 == SortAppendPoker(s0, poker)
  <2>1. \A c \in Colors : OwnOf(th[c], from) /\ Strict(th[c]) /\ \A i \in 1..Len(th[c]) : th[c][i].color = c
    BY DEF Listed, InColor, Own, OwnOf
  <2>2. c0 \in Colors /\ OwnOf(s0, from) /\ Strict(s0) /\ \A i \in 1..Len(s0) : s0[i].color = c0
    BY <1>1, <2>1
  <2>3. \A i \in 1..Len(s0) : s0[i].face # poker.face
    <3> SUFFICES ASSUME NEW i \in 1..Len(s0), s0[i].face = poker.face PROVE FALSE
      OBVIOUS
    <3>1. s0[i] \in Card /\ s0[i] \in originPokers
      BY <2>2, ElementOfSeq DEF OwnOf
    <3>2. s0[i].color = poker.color
      BY <2>2
    <3>3. ASSUME NEW p \in Card, NEW q \in Card, p.face = q.face, p.color = q.color PROVE p = q
      BY <3>3 DEF Card
    <3>4. s0[i] = poker
      BY <3>1, <3>2, <3>3
    <3> QED BY <3>1, <3>4
  <2>4. OwnOf(t0, into) /\ Strict(t0) /\ \A i \in 1..Len(t0) : t0[i].color = c0
    <3>1. Rising(s0) /\ s0 \in Seq(Card)
      <4>1. s0 \in Seq(Card)
        BY <2>2 DEF OwnOf
      <4>2. \A i \in 1..Len(s0) : s0[i] \in Card
        BY <4>1, ElementOfSeq
      <4>3. \A i \in 1..Len(s0) : s0[i].face \in Int
        BY <1>1, <4>2 DEF Faces
      <4> HIDE DEF s0
      <4>4. Rising(s0)
        BY <2>2, <4>3 DEF Rising, Strict
      <4> QED BY <4>1, <4>4
    <3>2. Placed(Card, s0, poker, t0)
      BY <3>1, SortedPlaces
    <3> HIDE DEF s0, t0, into, c0
    <3>3. /\ OwnOf(t0, from \union {poker}) /\ Strict(t0)
          /\ \A i \in 1..Len(t0) : t0[i] = poker \/ \E j \in 1..Len(s0) : t0[i] = s0[j]
      <4>1. WithCard(s0, from, poker, t0)
        BY <2>2, <3>1, <3>2, CardPlaced
      <4> QED BY <2>2, <2>3, <4>1 DEF WithCard
    <3>4. \A i \in 1..Len(t0) : t0[i].color = c0
      <4>1. poker.color = c0
        BY DEF c0
      <4> QED BY <2>2, <3>3, <4>1
    <3>5. from \union {poker} = into
      BY DEF into
    <3> QED BY <3>3, <3>4, <3>5
  <2>5. \A c \in Colors : OwnOf(th[c], into)
    <3> HIDE DEF into
    <3>1. from \union {poker} = into
      BY DEF into
    <3> QED BY <2>1, <3>1, OwnOfGrows
  <2>6. \A c \in Colors : th'[c] = IF c = c0 THEN t0 ELSE th[c]
    BY DEF Listed
  <2>7. th' \in [Colors -> Seq(Card)]
    <3>1. t0 \in Seq(Card)
      BY <2>4 DEF OwnOf
    <3> HIDE DEF t0
    <3> QED BY <3>1 DEF Listed, t0
  <2> HIDE DEF t0, s0, c0, into
  <2> QED BY <2>1, <2>4, <2>5, <2>6, <2>7
<1>7. (\A c \in Colors : InColor(th[c], c))'
  BY <1>6 DEF InColor, Own, OwnOf, Strict
<1>8. Own(shunZi)' /\ Strict(shunZi)'
  <2> DEFINE t == shunZi'
  <2>1. OwnOf(shunZi, from) /\ Strict(shunZi) /\ shunZi \in Seq(Card)
    BY DEF Listed, Own, OwnOf
  <2>2. Strict(t) /\ (t = shunZi \/ Placed(Card, shunZi, poker, t))
    <3>1. LET u == SortAppendPokerWithoutSeem(shunZi, poker)
          IN  Strict(u) /\ (u = shunZi \/ Placed(Card, shunZi, poker, u))
      BY <1>1, <2>1, WithoutSeemFacts
    <3> QED BY <3>1
  <2>3. Rising(shunZi)
    <3>1. \A i \in 1..Len(shunZi) : shunZi[i] \in Card
      BY <2>1, ElementOfSeq
    <3>2. \A i \in 1..Len(shunZi) : shunZi[i].face \in Int
      BY <1>1, <3>1 DEF Faces
    <3> QED BY <2>1, <3>2 DEF Rising, Strict
  <2> HIDE DEF t, into
  <2>4. OwnOf(t, from \union {poker})
    <3>1. CASE t = shunZi
      BY <2>1, <3>1, OwnOfGrows
    <3>2. CASE Placed(Card, shunZi, poker, t)
      <4>1. WithCard(shunZi, from, poker, t)
        BY <2>1, <2>3, <3>2, CardPlaced
      <4> QED BY <4>1 DEF WithCard
    <3> QED BY <2>2, <3>1, <3>2
  <2>5. Own(shunZi)'
    BY <2>4 DEF Own, OwnOf, t
  <2>6. Strict(shunZi)'
    BY <2>2 DEF Strict, t
  <2> QED BY <2>5, <2>6
<1>9. \A f \in Faces : /\ Count({f})' = Count({f}) + IF f = poker.face THEN 1 ELSE 0
                       /\ Count({f})' \in 0..4 /\ Count({f}) \in 0..4
  <2> SUFFICES ASSUME NEW f \in Faces
               PROVE  /\ Count({f})' = Count({f}) + IF f = poker.face THEN 1 ELSE 0
                      /\ Count({f})' \in 0..4 /\ Count({f}) \in 0..4
    OBVIOUS
  <2> DEFINE F == {f}
  <2>1. Count(F)' = Cardinality(Spots(all, F))
    BY DEF Count, Spots
  <2>2. Cardinality(Spots(all, F)) = Count(F) + IF poker.face \in F THEN 1 ELSE 0
    <3> HIDE DEF F
    <3> QED BY <1>3
  <2>3. Cardinality(Spots(all, F)) \in 0..4
    <3> HIDE DEF all
    <3>1. CountIn(all, f) \in 0..4
      BY <1>3, FourOfAFace DEF OwnOf
    <3> QED BY <3>1 DEF CountIn
  <2>4. Count(F) \in 0..4
    BY SeenFacts
  <2>5. poker.face \in F <=> f = poker.face
    OBVIOUS
  <2> HIDE DEF F, all
  <2>6. Count(F)' = Count(F) + IF f = poker.face THEN 1 ELSE 0
    BY <2>1, <2>2, <2>5
  <2> QED BY <2>1, <2>3, <2>4, <2>6 DEF F
<1>10. /\ seems' \in [Faces -> 0..4]
       /\ \A f \in Faces : seems'[f] = IF Count({f})' = 1 THEN 0 ELSE Count({f})'
  <2> DEFINE g == poker.face
             zhang == Cardinality({i \in DOMAIN tmpPokers : tmpPokers[i].face = g}) + 1
  <2>1. zhang = Count({g}) + 1
    BY DEF Count, Spots
  <2>2. seems' = IF zhang = 1 THEN seems ELSE [seems EXCEPT ![g] = zhang]
    BY DEF RefreshSeems
  <2>3. /\ seems \in [Faces -> 0..4]
        /\ \A f \in Faces : seems[f] = IF Count({f}) = 1 THEN 0 ELSE Count({f})
    BY DEF Listed
  <2> HIDE DEF zhang
  <2>4. zhang = Count({g})' /\ g \in Faces /\ zhang \in 0..4
    BY <1>1, <1>9, <2>1
  <2>5. seems' \in [Faces -> 0..4]
    BY <2>2, <2>3, <2>4
  <2>6. ASSUME NEW f \in Faces PROVE seems'[f] = IF Count({f})' = 1 THEN 0 ELSE Count({f})'
    <3>1. CASE f = g
      <4>1. Count({f})' = zhang
        BY <2>4, <3>1
      <4>2. CASE zhang = 1
        <5>1. Count({g}) = 0
          BY <1>1, <1>9, <2>1, <4>2
        <5>2. seems[g] = 0
          BY <2>3, <2>4, <5>1
        <5> QED BY <2>2, <3>1, <4>1, <4>2, <5>2
      <4>3. CASE zhang # 1
        <5>1. seems'[f] = zhang
          BY <2>2, <2>3, <2>4, <3>1, <4>3
        <5> QED BY <4>1, <4>3, <5>1
      <4> QED BY <4>2, <4>3
    <3>2. CASE f # g
      <4>1. seems'[f] = seems[f]
        BY <2>2, <2>3, <3>2
      <4>2. Count({f})' = Count({f})
        BY <1>9, <3>2
      <4> QED BY <2>3, <4>1, <4>2
    <3> QED BY <3>1, <3>2
  <2> QED BY <2>5, <2>6
<1> HIDE DEF all, into
<1> QED BY <1>4, <1>5, <1>6, <1>7, <1>8, <1>10 DEF Listed

LEMMA TouchKeeps ==
  ASSUME AnalystInv, NEW poker \in deal.cards \ originPokers, TouchAPoker(poker)
  PROVE  AnalystInv'
<1>1. /\ originPokers' = originPokers \union {poker} /\ Cardinality(originPokers) < Total
      /\ deal' = deal /\ handType' = handType /\ handWeight' = handWeight
      /\ checkedPokers' = checkedPokers /\ Total' = Total
      /\ poker \notin originPokers /\ poker \in Card \union {LaiZi}
  BY DealsAssumption DEF TouchAPoker, Total, AnalystInv, Dealt
<1>2. IsFiniteSet(originPokers') /\ Cardinality(originPokers') = Cardinality(originPokers) + 1
  BY <1>1, FS_AddElement DEF AnalystInv, Dealt
<1>3. Dealt'
  <2>1. Cardinality(originPokers) \in Nat /\ Total \in 5..7
    BY WithinTotal, FS_CardinalityType DEF AnalystInv, Dealt
  <2>2. Cardinality(originPokers') <= Total'
    BY <1>1, <1>2, <2>1
  <2> QED BY <1>1, <1>2, <2>2 DEF AnalystInv, Dealt
<1>4. Listed'
  <2>1. CASE poker = LaiZi
    <3>1. /\ tmpPokers' = tmpPokers /\ th' = th /\ shunZi' = shunZi /\ seems' = seems
          /\ originPokers' \ {LaiZi} = originPokers \ {LaiZi}
      BY <1>1, <2>1 DEF TouchAPoker
    <3>2. Own(tmpPokers)' /\ Rising(tmpPokers)' /\ Own(shunZi)' /\ Strict(shunZi)'
      BY <1>1, <3>1 DEF AnalystInv, Listed, Own, Rising, Strict
    <3>3. (\A c \in Colors : InColor(th[c], c))'
      BY <1>1, <3>1 DEF AnalystInv, Listed, InColor, Own, Strict
    <3>4. \A f \in Faces : Count({f})' = Count({f})
      BY <3>1 DEF Count, Spots
    <3>5. \A f \in Faces : seems'[f] = IF Count({f})' = 1 THEN 0 ELSE Count({f})'
      BY <3>1, <3>4 DEF AnalystInv, Listed
    <3> QED BY <3>1, <3>2, <3>3, <3>5 DEF AnalystInv, Listed
  <2>2. CASE poker # LaiZi
    <3>1. /\ tmpPokers' = SortAppendPoker(tmpPokers, poker)
          /\ th' = [th EXCEPT ![poker.color] = SortAppendPoker(@, poker)]
          /\ shunZi' = SortAppendPokerWithoutSeem(shunZi, poker)
          /\ seems' = RefreshSeems(seems, tmpPokers, poker.face)
      BY <2>2 DEF TouchAPoker
    <3> QED BY <1>1, <2>2, <3>1, ListedStays DEF AnalystInv
  <2> QED BY <2>1, <2>2
<1>5. playChain = <<>> /\ next = NoMore
  <2>1. Cardinality(originPokers) # Total
    BY <1>1, WithinTotal, FS_CardinalityType DEF AnalystInv, Dealt
  <2> QED BY <2>1 DEF AnalystInv, Chained
<1>6. CASE Cardinality(originPokers) + 1 = Total
  <2>1. playChain' = ChangePlayChain(seems', th', HaveLz') /\ next' = playChain'[1]
    BY <1>6 DEF TouchAPoker
  <2>2. ChainFits(playChain', seems', th', HaveLz')
    <3>1. HaveLz' \in BOOLEAN
      BY DEF HaveLz
    <3> QED BY <2>1, <3>1, ChainFacts
  <2>3. /\ playChain' \in Seq(HandType) /\ Len(playChain') > 0
        /\ Fits(next', seems', th', HaveLz', playChain')
    BY <2>1, <2>2 DEF ChainFits
  <2>4. next' \in ToSet(playChain') /\ next' # NoMore
    <3>1. DOMAIN playChain' = 1..Len(playChain') /\ 1 \in DOMAIN playChain'
      BY <2>3, LenProperties
    <3>2. playChain'[1] \in HandType
      BY <2>3, <3>1, ElementOfSeq
    <3>3. next' # NoMore
      BY <2>1, <3>2 DEF NoMore, HandType, DZ, HJTHS
    <3>4. next' \in ToSet(playChain')
      BY <2>1, <3>1 DEF ToSet
    <3> QED BY <3>3, <3>4
  <2>5. Cardinality(originPokers') = Total'
    BY <1>1, <1>2, <1>6
  <2>6. Chained'
    BY <2>1, <2>3, <2>4, <2>5 DEF Chained
  <2>7. Judged'
    BY <1>1, <2>4 DEF AnalystInv, Judged, Finished
  <2> QED BY <1>3, <1>4, <2>6, <2>7 DEF AnalystInv
<1>7. CASE Cardinality(originPokers) + 1 # Total
  <2>1. playChain' = playChain /\ next' = next
    BY <1>7 DEF TouchAPoker
  <2>2. Cardinality(originPokers') # Total'
    BY <1>1, <1>2, <1>7
  <2>3. Chained'
    <3>1. playChain' = <<>> /\ next' = NoMore /\ <<>> \in Seq(HandType)
      BY <1>5, <2>1, EmptySeq
    <3> QED BY <2>2, <3>1 DEF Chained
  <2>4. Judged'
    BY <1>1, <2>2 DEF AnalystInv, Judged, Finished
  <2> QED BY <1>3, <1>4, <2>3, <2>4 DEF AnalystInv
<1> QED BY <1>6, <1>7

LEMMA AnalystInit == Init => AnalystInv
<1> SUFFICES ASSUME Init PROVE AnalystInv
  OBVIOUS
<1>1. IsFiniteSet(originPokers) /\ Cardinality(originPokers) = 0 /\ Total \in 5..7
  <2>1. originPokers = {} /\ Total \in 5..7
    BY DealsAssumption DEF Init, Total
  <2> QED BY <2>1, FS_EmptySet
<1>2. Dealt
  BY <1>1 DEF Init, Dealt
<1>3. <<>> \in Seq(Card) /\ Len(<<>>) = 0 /\ Own(<<>>) /\ Rising(<<>>) /\ Strict(<<>>)
  BY DEF Own, Rising, Strict
<1>4. Listed
  <2>1. \A c \in Colors : th[c] = <<>>
    BY DEF Init
  <2>2. th \in [Colors -> Seq(Card)] /\ \A c \in Colors : InColor(th[c], c)
    BY <1>3, <2>1 DEF Init, InColor
  <2>3. originPokers \ {LaiZi} = {} /\ ToSet(tmpPokers) = {}
    BY DEF Init, ToSet
  <2>4. Len(tmpPokers) = Cardinality(originPokers \ {LaiZi})
    BY <1>3, <2>3, FS_EmptySet DEF Init
  <2>5. \A f \in Faces : Count({f}) = 0
    <3>1. \A f \in Faces : Spots(tmpPokers, {f}) = {}
      BY DEF Init, Spots
    <3> QED BY <3>1, FS_EmptySet DEF Count
  <2>6. seems \in [Faces -> 0..4] /\ \A f \in Faces : seems[f] = IF Count({f}) = 1 THEN 0 ELSE Count({f})
    BY <2>5 DEF Init
  <2>7. Own(tmpPokers) /\ Rising(tmpPokers) /\ Own(shunZi) /\ Strict(shunZi)
    BY <1>3 DEF Init
  <2> QED BY <2>2, <2>3, <2>4, <2>6, <2>7 DEF Listed
<1>5. Chained
  <2>1. playChain = <<>> /\ next = NoMore /\ <<>> \in Seq(HandType)
    BY EmptySeq DEF Init
  <2>2. Cardinality(originPokers) # Total
    BY <1>1
  <2> QED BY <2>1, <2>2 DEF Chained
<1>6. Judged
  <2>1. ~Finished
    BY <1>1 DEF Finished
  <2>2. handType \in HandType /\ handWeight = NoWeight
    BY DEF Init, HandType, DZ, HJTHS
  <2>3. NoWeight \in [1..6 -> 0..Ace] /\ NoWeight[6] = 0
    BY DEF NoWeight, Ace
  <2>4. Scaled(handType, handWeight)
    BY <2>2, <2>3 DEF Init, Scaled, DZ, SZ, THS
  <2> QED BY <2>1, <2>2, <2>3, <2>4 DEF Judged
<1> QED BY <1>2, <1>4, <1>5, <1>6 DEF AnalystInv

LEMMA AnalystStep == AnalystInv /\ [Next]_vars => AnalystInv'
<1> SUFFICES ASSUME AnalystInv, [Next]_vars PROVE AnalystInv'
  OBVIOUS
<1>1. CASE \E poker \in deal.cards \ originPokers : TouchAPoker(poker)
  BY <1>1, TouchKeeps
<1>2. CASE IsDZ
  BY <1>2, DZKeeps
<1>3. CASE CheckYD
  BY <1>3, YDKeeps
<1>4. CASE CheckLD
  BY <1>4, LDKeeps
<1>5. CASE CheckTZ3
  BY <1>5, TZ3Keeps
<1>6. CASE CheckSZ
  BY <1>6, SZKeeps
<1>7. CASE CheckTH
  BY <1>7, THKeeps
<1>8. CASE CheckHL
  BY <1>8, HLKeeps
<1>9. CASE CheckTZ4
  BY <1>9, TZ4Keeps
<1>10. CASE UNCHANGED vars
  <2>1. Dealt' /\ Listed' /\ HaveLz' = HaveLz /\ Total' = Total
    BY <1>10, DealingKept DEF AnalystInv, vars, dealing
  <2>2. Chained'
    BY <1>10, <2>1 DEF AnalystInv, Chained, vars
  <2>3. Judged'
    BY <1>10, <2>1 DEF AnalystInv, Judged, Finished, Five, Made, vars
  <2> QED BY <2>1, <2>2, <2>3 DEF AnalystInv
<1> QED BY <1>1, <1>2, <1>3, <1>4, <1>5, <1>6, <1>7, <1>8, <1>9, <1>10 DEF Next

\* Whatever cards the analyst is handed, in whatever order, its lists, its chain
\* and its result fit each other as AnalystInv says: no check runs out of cards,
\* and the chain never stops without a hand (doAnalysis).
THEOREM AnalystIsSound == Spec => []AnalystInv
<1>1. Init => AnalystInv
  BY AnalystInit
<1>2. AnalystInv /\ [Next]_vars => AnalystInv'
  BY AnalystStep
<1> QED BY <1>1, <1>2, PTL DEF Spec

\* TypeOK holds of every deal: the lists stay sorted, the cards are in tmpPokers
\* once each, no face is counted more than four times, the next check is one of
\* the chain's, and hands of one kind weigh on one scale.
THEOREM HandRankHasTypes == Spec => []TypeOK
<1>1. AnalystInv => TypeOK
  <2> SUFFICES ASSUME AnalystInv PROVE TypeOK
    OBVIOUS
  <2>1. deal \in Deals /\ originPokers \subseteq deal.cards
    BY DEF AnalystInv, Dealt
  <2>2. ASSUME NEW s, Rising(s), s \in Seq(Card)
        PROVE  \A i \in 1..(Len(s) - 1) : s[i].face <= s[i + 1].face
    <3> SUFFICES ASSUME NEW i \in 1..(Len(s) - 1) PROVE s[i].face <= s[i + 1].face
      OBVIOUS
    <3>1. i \in 1..Len(s) /\ i + 1 \in 1..Len(s) /\ i < i + 1
      BY <2>2, LenProperties
    <3> QED BY <2>2, <3>1 DEF Rising
  <2>3. ASSUME NEW s, Strict(s), s \in Seq(Card) PROVE Rising(s)
    <3>1. \A i \in 1..Len(s) : s[i] \in Card
      BY <2>3, ElementOfSeq
    <3>2. \A i \in 1..Len(s) : s[i].face \in Int
      BY <3>1, CardFacts DEF Faces
    <3> QED BY <2>3, <3>2 DEF Rising, Strict
  <2>4. /\ \A i \in 1..(Len(tmpPokers) - 1) : tmpPokers[i].face <= tmpPokers[i + 1].face
        /\ \A i \in 1..(Len(shunZi) - 1) : shunZi[i].face <= shunZi[i + 1].face
    <3>1. /\ Rising(tmpPokers) /\ tmpPokers \in Seq(Card)
          /\ Strict(shunZi) /\ shunZi \in Seq(Card)
      BY DEF AnalystInv, Listed, Own
    <3>2. Rising(shunZi)
      BY <2>3, <3>1
    <3> QED BY <2>2, <3>1, <3>2
  <2>5. \A c \in Colors : \A i \in 1..(Len(th[c]) - 1) : th[c][i].face <= th[c][i + 1].face
    <3> SUFFICES ASSUME NEW c \in Colors
                 PROVE  \A i \in 1..(Len(th[c]) - 1) : th[c][i].face <= th[c][i + 1].face
      OBVIOUS
    <3>1. Strict(th[c]) /\ th[c] \in Seq(Card)
      BY DEF AnalystInv, Listed, InColor, Own
    <3>2. Rising(th[c])
      BY <2>3, <3>1
    <3> QED BY <2>2, <3>1, <3>2
  <2>6. /\ ToSet(tmpPokers) = originPokers \ {LaiZi}
        /\ Len(tmpPokers) = Cardinality(originPokers \ {LaiZi})
        /\ seems \in [Faces -> 0..4]
    BY DEF AnalystInv, Listed
  <2>7. ToSet(playChain) \subseteq HandType
    <3>1. playChain \in Seq(HandType)
      BY DEF AnalystInv, Chained
    <3>2. \A i \in DOMAIN playChain : playChain[i] \in HandType
      BY <3>1, LenProperties, ElementOfSeq
    <3> QED BY <3>2 DEF ToSet
  <2>8. next \in ToSet(playChain) \union {NoMore} /\ handType \in HandType
    BY DEF AnalystInv, Chained, Judged
  <2>9. Len(handWeight) = 6 /\ ToSet(handWeight) \subseteq 0..Ace
    <3>1. handWeight \in [1..6 -> 0..Ace]
      BY DEF AnalystInv, Judged
    <3>2. PICK n \in Nat : n = 6
      OBVIOUS
    <3>3. handWeight \in Seq(0..Ace) /\ Len(handWeight) = n
      BY <3>1, <3>2, SeqOfFunction
    <3>4. ToSet(handWeight) \subseteq 0..Ace
      BY <3>1 DEF ToSet
    <3> QED BY <3>2, <3>3, <3>4
  <2>10. IF handType \in {SZ, THS}
         THEN \A i \in 1..5 : handWeight[i] = 0
         ELSE handWeight[6] = 0
    BY DEF AnalystInv, Judged, Scaled
  <2> QED BY <2>1, <2>4, <2>5, <2>6, <2>7, <2>8, <2>9, <2>10 DEF TypeOK
<1> QED BY <1>1, AnalystIsSound, PTL

\* What is shown as the hand are always five different cards the player has, the
\* wild card at most once and only if the player has it (exportHand).
THEOREM HandsAreOfFiveCards == Spec => []HandIsOfFiveCards
<1>1. AnalystInv => HandIsOfFiveCards
  <2> SUFFICES ASSUME AnalystInv, Finished
               PROVE  /\ ToSet(ExportHand) \subseteq originPokers
                      /\ Len(ExportHand) = 5
                      /\ Cardinality(ToSet(ExportHand)) = 5
    BY DEF HandIsOfFiveCards
  <2> DEFINE s == checkedPokers
             e == ExportHand
  <2>1. /\ s \in Seq(Poker) /\ DOMAIN s = 1..5
        /\ \A i \in 1..5 : Shown(s[i]) \in originPokers
        /\ \A i, j \in 1..5 : i # j => Shown(s[i]) # Shown(s[j])
    <3>1. s \in Seq(Poker) /\ Made(s) /\ Len(s) = 5
      BY DEF AnalystInv, Judged, Five, Made
    <3> HIDE DEF s
    <3> QED BY <3>1, LenProperties DEF Made
  <2>2. e = [i \in 1..5 |-> Shown(s[i])]
    BY <2>1 DEF ExportHand, Shown
  <2> HIDE DEF s, e
  <2>3. Len(e) = 5 /\ DOMAIN e = 1..5
    <3>1. PICK n \in Nat : n = 5
      OBVIOUS
    <3>2. e \in [1..n -> originPokers]
      BY <2>1, <2>2, <3>1
    <3>3. Len(e) = n
      BY <3>2, SeqOfFunction
    <3> QED BY <2>2, <3>1, <3>3
  <2>4. ToSet(e) = {e[i] : i \in 1..5}
    BY <2>3 DEF ToSet
  <2>5. ToSet(e) \subseteq originPokers
    BY <2>1, <2>2, <2>4
  <2>6. Cardinality(ToSet(e)) = 5
    <3>1. IsFiniteSet(1..5) /\ Cardinality(1..5) = 5
      <4>1. PICK n \in Nat : n = 5
        OBVIOUS
      <4>2. IsFiniteSet(1..n) /\ Cardinality(1..n) = n
        BY SizeOfPlaces
      <4> QED BY <4>1, <4>2
    <3> DEFINE S == 1..5
               T == ToSet(e)
    <3>2. /\ e \in [S -> T] /\ (\A a, b \in S : e[a] = e[b] => a = b)
          /\ \A t \in T : \E a \in S : e[a] = t
      BY <2>1, <2>2, <2>4
    <3> HIDE DEF S, T
    <3>3. IsFiniteSet(S) /\ Cardinality(S) = 5
      BY <3>1 DEF S
    <3>4. Cardinality(T) = Cardinality(S)
      BY <3>2, <3>3, SameCount
    <3> QED BY <3>3, <3>4 DEF T
  <2> QED BY <2>3, <2>5, <2>6 DEF e
<1> QED BY <1>1, AnalystIsSound, PTL

\* What Value reads of five cards.
Distinct(s) == \A i, j \in 1..Len(s) : i # j => s[i] # s[j]

LEMMA MadeIsDistinct ==
  ASSUME NEW P, Five(P)
  PROVE  /\ P \in Seq(Poker) /\ Len(P) = 5 /\ DOMAIN P = 1..5 /\ Distinct(P)
         /\ \A i \in 1..5 : P[i] \in Poker /\ P[i].face \in Faces /\ P[i].color \in Colors
<1>1. P \in Seq(Poker) /\ Len(P) = 5 /\ DOMAIN P = 1..5
  BY DEF Five, Made
<1>2. Distinct(P)
  BY <1>1 DEF Five, Made, Distinct
<1>3. \A i \in 1..5 : P[i] \in Poker
  BY <1>1
<1> QED BY <1>1, <1>2, <1>3, PokerFacts

LEMMA TimesIs ==
  ASSUME NEW P, Five(P), NEW f
  PROVE  Times(ToSet(P), f) = CountIn(P, f) /\ CountIn(P, f) \in 0..5
<1>1. P \in Seq(Poker) /\ Len(P) = 5 /\ DOMAIN P = 1..5 /\ Distinct(P)
  BY MadeIsDistinct
<1> DEFINE S == Spots(P, {f})
           T == {p \in ToSet(P) : p.face = f}
           at == [i \in S |-> P[i]]
<1>2. S \in SUBSET (1..5) /\ IsFiniteSet(S) /\ Cardinality(S) \in 0..5
  BY <1>1, SpotsType
<1>3. S = {i \in 1..5 : P[i].face = f}
  BY <1>1 DEF Spots
<1>4. ToSet(P) = {P[i] : i \in 1..5}
  BY <1>1 DEF ToSet
<1>5. at \in [S -> T]
  BY <1>3, <1>4
<1>6. \A a, b \in S : at[a] = at[b] => a = b
  BY <1>1, <1>2 DEF Distinct
<1>7. \A t \in T : \E a \in S : at[a] = t
  BY <1>3, <1>4
<1> HIDE DEF S, T, at
<1>8. Cardinality(T) = Cardinality(S)
  BY <1>2, <1>5, <1>6, <1>7, SameCount
<1> QED BY <1>2, <1>8 DEF T, S, Times, CountIn

\* t lists the faces of P as ByTimes does.
Tells(t, P) ==
  /\ t \in Seq(Faces)
  /\ \A i \in 1..5 : \E k \in 1..Len(t) : t[k] = P[i].face
  /\ \A k \in 1..Len(t) : \E i \in 1..5 : P[i].face = t[k]
  /\ \A k, l \in 1..Len(t) : k < l =>
       \/ CountIn(P, t[k]) > CountIn(P, t[l])
       \/ CountIn(P, t[k]) = CountIn(P, t[l]) /\ t[k] > t[l]

LEMMA ByTimesIs ==
  ASSUME NEW P, Five(P), NEW t, Tells(t, P)
  PROVE  /\ ByTimes(ToSet(P)) = t
         /\ Cardinality(FacesIn(ToSet(P))) = Len(t)
<1>1. P \in Seq(Poker) /\ Len(P) = 5 /\ DOMAIN P = 1..5
  BY MadeIsDistinct
<1> DEFINE F == FacesIn(ToSet(P))
           n == Len(t)
           Foremost(f) == {g \in F : MoreOften(ToSet(P), g, f)}
<1>2. n \in Nat /\ t \in [1..n -> Faces]
  BY DEF Tells
<1>3. F = {P[i].face : i \in 1..5}
  BY <1>1 DEF ToSet, FacesIn
<1>4. /\ \A k \in 1..n : t[k] \in F
      /\ \A f \in F : \E k \in 1..n : t[k] = f
  BY <1>3 DEF Tells
<1>5. \A g, f : MoreOften(ToSet(P), g, f) <=>
        CountIn(P, g) > CountIn(P, f) \/ (CountIn(P, g) = CountIn(P, f) /\ g > f)
  BY TimesIs DEF MoreOften
<1>6. \A k \in 1..n : CountIn(P, t[k]) \in 0..5 /\ t[k] \in Faces /\ t[k] \in Int
  BY <1>2, TimesIs DEF Faces
<1>7. \A k, l \in 1..n : MoreOften(ToSet(P), t[k], t[l]) <=> k < l
  <2> TAKE k, l \in 1..n
  <2>1. CASE k < l
    BY <1>5, <2>1 DEF Tells
  <2>2. CASE k = l
    BY <1>5, <1>6, <2>2
  <2>3. CASE l < k
    <3>1. \/ CountIn(P, t[l]) > CountIn(P, t[k])
          \/ CountIn(P, t[l]) = CountIn(P, t[k]) /\ t[l] > t[k]
      BY <2>3 DEF Tells
    <3> QED BY <1>5, <1>6, <2>3, <3>1
  <2> QED BY <1>2, <2>1, <2>2, <2>3
<1>8. \A k, l \in 1..n : t[k] = t[l] => k = l
  <2> TAKE k, l \in 1..n
  <2> HAVE t[k] = t[l]
  <2>1. ~MoreOften(ToSet(P), t[k], t[k])
    BY <1>5, <1>6
  <2> QED BY <1>2, <1>7, <2>1
<1> HIDE DEF F
<1>9. IsFiniteSet(1..n) /\ Cardinality(1..n) = n
  BY <1>2, SizeOfPlaces
<1>10. Cardinality(F) = n
  <2>1. t \in [1..n -> F]
    BY <1>2, <1>4
  <2> QED BY <1>4, <1>8, <1>9, <2>1, SameCount
<1>11. ASSUME NEW k \in 1..n PROVE Cardinality(Foremost(t[k])) = k - 1
  <2> DEFINE at == [i \in 1..k - 1 |-> t[i]]
             T == Foremost(t[k])
  <2>1. k - 1 \in Nat /\ IsFiniteSet(1..k - 1) /\ Cardinality(1..k - 1) = k - 1
    <3>1. k - 1 \in Nat
      BY <1>2
    <3> QED BY <3>1, SizeOfPlaces
  <2>2. \A i \in 1..k - 1 : i \in 1..n /\ i < k
    BY <1>2
  <2>3. at \in [1..k - 1 -> T]
    BY <1>4, <1>7, <2>2
  <2>4. \A a, b \in 1..k - 1 : at[a] = at[b] => a = b
    BY <1>8, <2>2
  <2>5. \A f \in T : \E a \in 1..k - 1 : at[a] = f
    <3> TAKE f \in T
    <3>1. PICK l \in 1..n : t[l] = f
      BY <1>4
    <3>2. l < k
      BY <1>7, <3>1
    <3>3. l \in 1..k - 1
      BY <1>2, <3>2
    <3> QED BY <3>1, <3>3
  <2> HIDE DEF at, T
  <2>6. Cardinality(T) = k - 1
    BY <2>1, <2>3, <2>4, <2>5, SameCount
  <2> QED BY <2>6 DEF T
<1>12. ASSUME NEW k \in 1..n
       PROVE (CHOOSE f \in F : Cardinality(Foremost(f)) = k - 1) = t[k]
  <2> DEFINE one == CHOOSE f \in F : Cardinality(Foremost(f)) = k - 1
  <2> HIDE DEF Foremost
  <2>1. one \in F /\ Cardinality(Foremost(one)) = k - 1
    BY <1>4, <1>11
  <2> HIDE DEF one
  <2>2. PICK l \in 1..n : t[l] = one
    BY <1>4, <2>1
  <2>3. l - 1 = k - 1
    BY <1>11, <2>1, <2>2
  <2>4. l = k
    BY <1>2, <2>3
  <2> QED BY <2>2, <2>4 DEF one
<1>13. ByTimes(ToSet(P)) = [k \in 1..n |-> CHOOSE f \in F : Cardinality(Foremost(f)) = k - 1]
  BY <1>10 DEF ByTimes, F
<1>14. ByTimes(ToSet(P)) = [k \in 1..n |-> t[k]]
  <2> HIDE DEF Foremost
  <2> QED BY <1>12, <1>13
<1> QED BY <1>2, <1>10, <1>14 DEF F

LEMMA OneOrMore ==
  ASSUME NEW P, Five(P), NEW i \in 1..5, NEW j \in 1..5, P[i].color # P[j].color
  PROVE  ~OneColor(ToSet(P))
<1>1. DOMAIN P = 1..5
  BY MadeIsDistinct
<1> DEFINE C == {p.color : p \in ToSet(P)}
<1>2. P[i].color \in C /\ P[j].color \in C
  BY <1>1 DEF ToSet
<1> HIDE DEF C
<1>3. ASSUME Cardinality(C) = 1 PROVE FALSE
  <2>1. C = {P[k].color : k \in 1..5}
    BY <1>1 DEF C, ToSet
  <2>2. C \in SUBSET Colors
    BY <2>1, MadeIsDistinct
  <2>3. IsFiniteSet(C)
    BY <2>2, FourColors, FS_Subset
  <2>4. PICK c : C = {c}
    BY <1>3, <2>3, FS_Singleton
  <2> QED BY <1>2, <2>4
<1> QED BY <1>3 DEF C, OneColor

LEMMA AllOneColor ==
  ASSUME NEW P, Five(P), NEW c, \A i \in 1..5 : P[i].color = c
  PROVE  OneColor(ToSet(P))
<1>1. DOMAIN P = 1..5
  BY MadeIsDistinct
<1>2. {p.color : p \in ToSet(P)} = {c}
  BY <1>1 DEF ToSet
<1> QED BY <1>2, FS_Singleton DEF OneColor

\* Five cards with a pair among them: the kind follows from the two faces seen most.
KindOf(first, second) ==
  IF first = 4 THEN ST4 ELSE IF first = 3 THEN IF second = 2 THEN HL ELSE ST3
  ELSE IF first = 2 THEN IF second = 2 THEN LD ELSE YD ELSE DZ

LEMMA KindBySeenIs ==
  ASSUME NEW P, Five(P), NEW t, Tells(t, P), Len(t) > 1,
         NEW first, NEW second, CountIn(P, t[1]) = first, CountIn(P, t[2]) = second,
         <<first, second>> \in {<<4, 1>>, <<3, 2>>, <<3, 1>>, <<2, 2>>, <<2, 1>>, <<1, 1>>}
  PROVE  KindBySeen(ToSet(P)) = KindOf(first, second)
<1>1. ByTimes(ToSet(P)) = t
  BY ByTimesIs
<1>2. Times(ToSet(P), t[1]) = first /\ Times(ToSet(P), t[2]) = second
  BY TimesIs
<1>3. KindBySeen(ToSet(P)) =
        CASE first = 4 -> 7
          [] first = 3 /\ second = 2 -> 6
          [] first = 3 /\ second = 1 -> 3
          [] first = 2 /\ second = 2 -> 2
          [] first = 2 /\ second = 1 -> 1
          [] OTHER -> 0
  BY <1>1, <1>2 DEF KindBySeen
<1>4. CASE first = 4 /\ second = 1
  BY <1>3, <1>4 DEF KindOf, ST4
<1>5. CASE first = 3 /\ second = 2
  BY <1>3, <1>5 DEF KindOf, HL
<1>6. CASE first = 3 /\ second = 1
  BY <1>3, <1>6 DEF KindOf, ST3
<1>7. CASE first = 2 /\ second = 2
  BY <1>3, <1>7 DEF KindOf, LD
<1>8. CASE first = 2 /\ second = 1
  BY <1>3, <1>8 DEF KindOf, YD
<1>9. CASE first = 1 /\ second = 1
  BY <1>3, <1>9 DEF KindOf, DZ
<1> QED BY <1>4, <1>5, <1>6, <1>7, <1>8, <1>9

LEMMA ValueOfPaired ==
  ASSUME NEW P, Five(P), NEW t, Tells(t, P), Len(t) \in 2..4, ~OneColor(ToSet(P)),
         NEW first, NEW second, CountIn(P, t[1]) = first, CountIn(P, t[2]) = second,
         <<first, second>> \in {<<4, 1>>, <<3, 2>>, <<3, 1>>, <<2, 2>>, <<2, 1>>, <<1, 1>>}
  PROVE  Value(ToSet(P)) = [kind |-> KindOf(first, second), ranks |-> t]
<1>1. KindBySeen(ToSet(P)) = KindOf(first, second)
  BY KindBySeenIs
<1>2. ByTimes(ToSet(P)) = t /\ Cardinality(FacesIn(ToSet(P))) = Len(t)
  BY ByTimesIs
<1>3. Cardinality(FacesIn(ToSet(P))) # 5
  BY <1>2
<1>4. ~InARow(ToSet(P))
  BY <1>3, Zenon DEF InARow
<1> QED BY <1>1, <1>2, <1>4 DEF Value

-----------------------------------------------------------------------------
\* Five cards of five faces, sorted.
Descending(P) == [k \in 1..5 |-> P[6 - k].face]

LEMMA StrictIsTold ==
  ASSUME NEW P, Five(P), Strict(P)
  PROVE  /\ Tells(Descending(P), P) /\ Len(Descending(P)) = 5
         /\ \A i \in 1..5 : CountIn(P, P[i].face) = 1
<1>1. /\ DOMAIN P = 1..5 /\ Len(P) = 5
      /\ \A i \in 1..5 : P[i].face \in Faces
  BY MadeIsDistinct
<1>2. \A i, j \in 1..5 : i < j => P[i].face < P[j].face
  BY <1>1 DEF Strict
<1>3. ASSUME NEW i \in 1..5 PROVE CountIn(P, P[i].face) = 1
  <2>1. \A j \in 1..5 : P[j].face = P[i].face => j = i
    BY <1>1, <1>2 DEF Faces
  <2>2. Spots(P, {P[i].face}) = {i}
    BY <1>1, <2>1 DEF Spots
  <2> QED BY <2>2, FS_Singleton DEF CountIn
<1>4. Descending(P) \in Seq(Faces) /\ Len(Descending(P)) = 5
  <2>1. Descending(P) \in [1..5 -> Faces]
    BY <1>1 DEF Descending
  <2> QED BY <2>1, SeqOfFunction
<1>5. \A k \in 1..5 : 6 - k \in 1..5 /\ Descending(P)[k] = P[6 - k].face
  BY DEF Descending
<1>6. \A i \in 1..5 : \E k \in 1..5 : Descending(P)[k] = P[i].face
  <2> TAKE i \in 1..5
  <2>1. 6 - i \in 1..5 /\ 6 - (6 - i) = i
    OBVIOUS
  <2> QED BY <1>5, <2>1
<1>7. \A k \in 1..5 : \E i \in 1..5 : P[i].face = Descending(P)[k]
  BY <1>5
<1>8. \A k, l \in 1..5 : k < l => Descending(P)[k] > Descending(P)[l]
  <2> TAKE k, l \in 1..5
  <2> HAVE k < l
  <2>1. 6 - l < 6 - k
    OBVIOUS
  <2>2. P[6 - l].face < P[6 - k].face
    BY <1>2, <1>5, <2>1
  <2> QED BY <1>1, <1>5, <2>2 DEF Faces
<1>9. \A k \in 1..5 : CountIn(P, Descending(P)[k]) = 1
  BY <1>3, <1>5
<1>10. Tells(Descending(P), P)
  BY <1>4, <1>6, <1>7, <1>8, <1>9 DEF Tells
<1> QED BY <1>3, <1>4, <1>10

\* The ends of five sorted faces.
LEMMA EndsOfStrict ==
  ASSUME NEW P, Five(P), Strict(P)
  PROVE  /\ Cardinality(FacesIn(ToSet(P))) = 5
         /\ FacesIn(ToSet(P)) = {P[i].face : i \in 1..5}
         /\ Max(FacesIn(ToSet(P))) = P[5].face /\ Min(FacesIn(ToSet(P))) = P[1].face
<1>1. /\ DOMAIN P = 1..5 /\ Len(P) = 5
      /\ \A i \in 1..5 : P[i].face \in Faces
  BY MadeIsDistinct
<1> DEFINE F == FacesIn(ToSet(P))
<1>2. F = {P[i].face : i \in 1..5}
  BY <1>1 DEF ToSet, FacesIn
<1>3. Cardinality(F) = 5
  BY StrictIsTold, ByTimesIs
<1>4. F \in SUBSET (0..13) /\ F \in SUBSET Nat /\ F # {}
  BY <1>1, <1>2 DEF Faces
<1>5. \A i \in 1..5 : P[i].face <= P[5].face /\ P[1].face <= P[i].face
  BY <1>1 DEF Strict, Faces
<1> HIDE DEF F
<1>6. Max(F) \in F /\ \A y \in F : y <= Max(F)
  BY <1>4, MaxOfPlaces
<1>7. Min(F) \in F /\ \A y \in F : Min(F) <= y
  BY <1>4, MinOfPlaces
<1>8. P[5].face \in F /\ P[1].face \in F
  BY <1>2
<1>9. Max(F) = P[5].face
  BY <1>2, <1>4, <1>5, <1>6, <1>8
<1>10. Min(F) = P[1].face
  BY <1>2, <1>4, <1>5, <1>7, <1>8
<1> QED BY <1>2, <1>3, <1>9, <1>10 DEF F

LEMMA RowOfStrict ==
  ASSUME NEW P, Five(P), Strict(P), InARow(ToSet(P))
  PROVE  \/ Consecutive(P)
         \/ P[1].face = 1 /\ P[2].face = 2 /\ P[3].face = 3 /\ P[4].face = 4 /\ P[5].face = Ace
<1>1. /\ Len(P) = 5 /\ \A i \in 1..5 : P[i].face \in Faces
  BY MadeIsDistinct
<1>2. /\ P[1].face < P[2].face /\ P[2].face < P[3].face /\ P[3].face < P[4].face
      /\ P[4].face < P[5].face
  BY <1>1 DEF Strict
<1>3. \A i \in 1..5 : P[i].face \in Int
  BY <1>1 DEF Faces
<1>4. CASE IsWheel(ToSet(P))
  <2>1. \A i \in 1..5 : P[i].face \in {13, 1, 2, 3, 4}
    BY <1>4, EndsOfStrict DEF IsWheel
  <2>2. /\ P[1].face \in {13, 1, 2, 3, 4} /\ P[2].face \in {13, 1, 2, 3, 4}
        /\ P[3].face \in {13, 1, 2, 3, 4} /\ P[4].face \in {13, 1, 2, 3, 4}
        /\ P[5].face \in {13, 1, 2, 3, 4}
    BY <2>1
  <2> QED BY <1>2, <2>2 DEF Ace
<1>5. CASE P[5].face - P[1].face = 4
  <2>1. /\ P[2].face = P[1].face + 1 /\ P[3].face = P[2].face + 1
        /\ P[4].face = P[3].face + 1 /\ P[5].face = P[4].face + 1
    BY <1>2, <1>3, <1>5
  <2> QED BY <2>1 DEF Consecutive
<1> QED BY <1>4, <1>5, EndsOfStrict DEF InARow

LEMMA ValueOfStrict ==
  ASSUME NEW P, Five(P), Strict(P), ~InARow(ToSet(P))
  PROVE  Value(ToSet(P)) =
           [kind |-> IF OneColor(ToSet(P)) THEN TH ELSE DZ, ranks |-> Descending(P)]
<1>1. Tells(Descending(P), P) /\ Len(Descending(P)) = 5
  BY StrictIsTold
<1>2. CountIn(P, Descending(P)[1]) = 1 /\ CountIn(P, Descending(P)[2]) = 1
  <2>1. Descending(P)[1] = P[5].face /\ Descending(P)[2] = P[4].face
    BY DEF Descending
  <2> QED BY <2>1, StrictIsTold
<1>3. KindBySeen(ToSet(P)) = DZ
  BY <1>1, <1>2, KindBySeenIs DEF KindOf
<1>4. ByTimes(ToSet(P)) = Descending(P)
  BY <1>1, ByTimesIs
<1> QED BY <1>3, <1>4 DEF Value, TH

LEMMA ValueOfRow ==
  ASSUME NEW P, Five(P), Consecutive(P) \/ Wheel(P)
  PROVE  LET top == IF Wheel(P) THEN 4 ELSE P[5].face
         IN  Value(ToSet(P)) =
               IF ~OneColor(ToSet(P)) THEN [kind |-> SZ, ranks |-> <<top>>]
               ELSE IF top = Ace THEN [kind |-> HJTHS, ranks |-> <<>>]
               ELSE [kind |-> THS, ranks |-> <<top>>]
<1>1. /\ Len(P) = 5 /\ DOMAIN P = 1..5 /\ \A i \in 1..5 : P[i].face \in Faces /\ P[i].face \in Int
  BY MadeIsDistinct DEF Faces
<1> DEFINE top == IF Wheel(P) THEN 4 ELSE P[5].face
           S == ToSet(P)
<1>2. FacesIn(S) = {P[i].face : i \in 1..5}
  BY <1>1 DEF ToSet, FacesIn
<1>3. FacesIn(S) = {P[1].face, P[2].face, P[3].face, P[4].face, P[5].face}
  BY <1>2
<1>4. InARow(S) /\ Top(S) = top
  <2>1. CASE Wheel(P)
    <3>1. /\ P[1].face = 13 /\ P[2].face = 1 /\ P[3].face = 2 /\ P[4].face = 3
          /\ P[5].face = 4
      <4>1. \A i \in 1..5 : FacesOf(P)[i] = P[i].face
        BY <1>1 DEF FacesOf
      <4> QED BY <2>1, <4>1 DEF Wheel, Smallest, Ace
    <3>2. IsWheel(S)
      BY <1>3, <3>1 DEF IsWheel
    <3>3. Cardinality(FacesIn(S)) = 5
      <4> DEFINE at == [k \in 1..5 |-> P[k].face]
      <4>1. at \in [1..5 -> FacesIn(S)]
        BY <1>2
      <4>2. \A a, b \in 1..5 : at[a] = at[b] => a = b
        BY <3>1
      <4>3. \A f \in FacesIn(S) : \E a \in 1..5 : at[a] = f
        BY <1>2
      <4>4. IsFiniteSet(1..5) /\ Cardinality(1..5) = 5
        BY SizeOfPlaces
      <4> HIDE DEF at, S
      <4> QED BY <4>1, <4>2, <4>3, <4>4, SameCount
    <3> QED BY <2>1, <3>2, <3>3 DEF InARow, Top
  <2>2. CASE ~Wheel(P)
    <3>1. /\ P[2].face = P[1].face + 1 /\ P[3].face = P[2].face + 1
          /\ P[4].face = P[3].face + 1 /\ P[5].face = P[4].face + 1
      BY <2>2 DEF Consecutive
    <3>2. Strict(P)
      BY <1>1, <3>1 DEF Strict
    <3>3. /\ Cardinality(FacesIn(S)) = 5
          /\ Max(FacesIn(S)) = P[5].face /\ Min(FacesIn(S)) = P[1].face
      BY <3>2, EndsOfStrict
    <3>4. ~IsWheel(S)
      <4>1. ASSUME FacesIn(S) = {13, 1, 2, 3, 4} PROVE FALSE
        <5>1. /\ P[1].face \in {13, 1, 2, 3, 4} /\ P[2].face \in {13, 1, 2, 3, 4}
              /\ P[3].face \in {13, 1, 2, 3, 4} /\ P[4].face \in {13, 1, 2, 3, 4}
              /\ P[5].face \in {13, 1, 2, 3, 4}
          BY <1>3, <4>1
        <5> QED BY <1>1, <3>1, <5>1
      <4> QED BY <4>1 DEF IsWheel
    <3>5. P[5].face - P[1].face = 4
      BY <1>1, <3>1
    <3> QED BY <2>2, <3>3, <3>4, <3>5 DEF InARow, Top
  <2> QED BY <2>1, <2>2
<1> HIDE DEF top
<1>5. Value(S) = IF ~OneColor(S) THEN [kind |-> SZ, ranks |-> <<top>>]
                 ELSE IF top = Ace THEN [kind |-> HJTHS, ranks |-> <<>>]
                 ELSE [kind |-> THS, ranks |-> <<top>>]
  BY <1>4 DEF Value, SZ, THS, HJTHS, Ace
<1> QED BY <1>5 DEF top

-----------------------------------------------------------------------------
(* What a weight tells.                                                      *)

\* The places of a weight that are not empty.
NotZero(w) == {i \in DOMAIN w : w[i] # 0}

LEMMA ToldIs ==
  ASSUME NEW w \in [1..6 -> 0..Ace], NEW n \in Nat, NEW e, Lists(e, n, 6, NotZero(w))
  PROVE  AtPlaces(w, NotZero(w)) = [k \in 1..n |-> w[e[k]]]
<1>1. Cardinality(NotZero(w)) = n /\ \A k \in 1..n : NthOf(NotZero(w), k) = e[k]
  <2>1. PICK m \in Nat : m = 6
    OBVIOUS
  <2>2. Lists(e, n, m, NotZero(w))
    BY <2>1
  <2> QED BY <2>2, NthIs
<1> QED BY <1>1 DEF AtPlaces

LEMMA SinglesInOrder ==
  ASSUME NEW P \in Seq(Poker), NEW F
  PROVE  LET q == Singles(P, F)
         IN  /\ q \in Seq(Faces)
             /\ \A k \in 1..Len(q) : q[k] \notin F /\ \E i \in 1..Len(P) : P[i].face = q[k]
             /\ \A i \in 1..Len(P) : P[i].face \notin F => \E k \in 1..Len(q) : q[k] = P[i].face
             /\ Rising(P) /\ (\A f \in Faces \ F : CountIn(P, f) <= 1) =>
                  \A k, l \in 1..Len(q) : k < l => q[k] < q[l]
<1> DEFINE S == {i \in DOMAIN P : P[i].face \notin F}
           q == Singles(P, F)
<1>1. Len(P) \in Nat /\ DOMAIN P = 1..Len(P) /\ S \in SUBSET (1..Len(P))
  OBVIOUS
<1>2. \A i \in 1..Len(P) : P[i].face \in Faces
  BY PokerFacts
<1>3. q \in Seq(Faces)
  BY <1>2, SinglesFacts
<1>4. q = [k \in 1..Cardinality(S) |-> P[NthOf(S, k)].face]
  BY DEF Singles, AtPlaces, FacesOf
<1>5. /\ Cardinality(S) \in Nat
      /\ \A k \in 1..Cardinality(S) : NthOf(S, k) \in S
      /\ \A i \in S : \E k \in 1..Cardinality(S) : NthOf(S, k) = i
  BY <1>1, NthFacts
<1>6. Len(q) = Cardinality(S)
  BY <1>3, <1>4, <1>5
<1>7. \A i : i \in S <=> i \in 1..Len(P) /\ P[i].face \notin F
  BY <1>1
<1>8. ASSUME Rising(P), \A f \in Faces \ F : CountIn(P, f) <= 1,
             NEW k \in 1..Cardinality(S), NEW l \in 1..Cardinality(S), k < l
      PROVE  q[k] < q[l]
  <2> DEFINE i == NthOf(S, k)
             j == NthOf(S, l)
  <2>1. i < j
    BY <1>1, <1>8, NthRises
  <2>2. i \in S /\ j \in S
    BY <1>5
  <2>3. q[k] = P[i].face /\ q[l] = P[j].face
    BY <1>4
  <2> HIDE DEF i, j, q, S
  <2>4. /\ i \in 1..Len(P) /\ j \in 1..Len(P) /\ i # j
        /\ P[i].face \in Faces \ F /\ P[j].face \in Faces
    BY <1>1, <1>2, <1>7, <2>1, <2>2
  <2>5. P[i].face <= P[j].face
    BY <1>8, <2>1, <2>4 DEF Rising
  <2>6. P[i].face # P[j].face
    <3>1. CountIn(P, P[i].face) <= 1
      BY <1>8, <2>4
    <3>2. CountIn(P, P[i].face) \in Nat
      BY SpotsType DEF CountIn
    <3> QED BY <2>4, <3>1, <3>2, TwoSpots
  <2>7. \A x, y \in Faces : x <= y /\ x # y => x < y
    BY DEF Faces
  <2>8. P[i].face < P[j].face
    BY <2>4, <2>5, <2>6, <2>7
  <2> QED BY <2>3, <2>8
<1> HIDE DEF S
<1>9. \A k \in 1..Len(q) : q[k] \notin F /\ \E i \in 1..Len(P) : P[i].face = q[k]
  BY <1>4, <1>5, <1>6, <1>7
<1>10. \A i \in 1..Len(P) : P[i].face \notin F => \E k \in 1..Len(q) : q[k] = P[i].face
  <2> SUFFICES ASSUME NEW i \in S PROVE \E k \in 1..Len(q) : q[k] = P[i].face
    BY <1>7
  <2>1. PICK k \in 1..Cardinality(S) : NthOf(S, k) = i
    BY <1>5
  <2> HIDE DEF q
  <2> QED BY <1>4, <1>6, <2>1
<1> HIDE DEF q
<1>11. Rising(P) /\ (\A f \in Faces \ F : CountIn(P, f) <= 1) =>
         \A k, l \in 1..Len(q) : k < l => q[k] < q[l]
  BY <1>6, <1>8
<1> QED BY <1>3, <1>9, <1>10, <1>11 DEF q

-----------------------------------------------------------------------------
(* What five cards with a pair among them are worth.                         *)

\* What follows the first m of t are those of q, from the last down.
SinglesFrom(t, q, m) == \A k \in m + 1..Len(t) : t[k] = q[Len(t) + 1 - k]

\* t: the faces of F first, then the others from the largest down.
HeadsThenSingles(t, P, F, m) ==
  /\ t \in Seq(Faces) /\ m \in 1..2 /\ Len(t) = m + Len(Singles(P, F))
  /\ \A k \in 1..m : t[k] \in F /\ CountIn(P, t[k]) > 1
  /\ \A f \in F : \E k \in 1..m : t[k] = f
  /\ m = 2 => \/ CountIn(P, t[1]) > CountIn(P, t[2])
              \/ CountIn(P, t[1]) = CountIn(P, t[2]) /\ t[1] > t[2]
  /\ SinglesFrom(t, Singles(P, F), m)

LEMMA PairedIsTold ==
  ASSUME NEW P, Five(P), NEW F \in SUBSET Faces, NEW t, NEW m, HeadsThenSingles(t, P, F, m),
         \A f \in Faces \ F : CountIn(P, f) <= 1,
         Rising(P) \/ Len(Singles(P, F)) <= 1
  PROVE  Tells(t, P) /\ \A k \in m + 1..Len(t) : CountIn(P, t[k]) = 1
<1> DEFINE q == Singles(P, F)
<1>1. /\ P \in Seq(Poker) /\ Len(P) = 5 /\ DOMAIN P = 1..5
      /\ \A i \in 1..5 : P[i].face \in Faces
  BY MadeIsDistinct
<1>2. /\ q \in Seq(Faces)
      /\ \A k \in 1..Len(q) : q[k] \notin F /\ \E i \in 1..5 : P[i].face = q[k]
      /\ \A i \in 1..5 : P[i].face \notin F => \E k \in 1..Len(q) : q[k] = P[i].face
      /\ Rising(P) => \A k, l \in 1..Len(q) : k < l => q[k] < q[l]
  <2>1. /\ q \in Seq(Faces)
        /\ \A k \in 1..Len(q) : q[k] \notin F /\ \E i \in 1..Len(P) : P[i].face = q[k]
        /\ \A i \in 1..Len(P) : P[i].face \notin F => \E k \in 1..Len(q) : q[k] = P[i].face
        /\ Rising(P) /\ (\A f \in Faces \ F : CountIn(P, f) <= 1) =>
             \A k, l \in 1..Len(q) : k < l => q[k] < q[l]
    BY <1>1, SinglesInOrder
  <2> HIDE DEF q
  <2> QED BY <1>1, <2>1
<1> HIDE DEF q
<1>3. /\ t \in Seq(Faces) /\ m \in 1..2 /\ Len(t) = m + Len(q)
      /\ \A k \in 1..m : t[k] \in F /\ CountIn(P, t[k]) > 1
      /\ \A f \in F : \E k \in 1..m : t[k] = f
      /\ m = 2 => \/ CountIn(P, t[1]) > CountIn(P, t[2])
                  \/ CountIn(P, t[1]) = CountIn(P, t[2]) /\ t[1] > t[2]
      /\ \A k \in m + 1..Len(t) : t[k] = q[Len(t) + 1 - k]
      /\ Rising(P) \/ Len(q) <= 1
  BY DEF HeadsThenSingles, SinglesFrom, q
<1>4. Len(q) \in Nat /\ Len(t) \in Nat
  BY <1>2, <1>3
<1>5. \A f : CountIn(P, f) \in 0..5
  BY TimesIs
<1> DEFINE n == Len(t)
           r == Len(q)
<1>51. n \in Nat /\ r \in Nat /\ m \in 1..2 /\ n = m + r
  BY <1>3, <1>4
<1>52. \A k \in m + 1..n : t[k] = q[n + 1 - k]
  BY <1>3
<1> HIDE DEF n, r
<1>53. \A k \in m + 1..n : n + 1 - k \in 1..r
  BY <1>51
<1>54. \A l \in 1..r : n + 1 - l \in m + 1..n /\ n + 1 - l \in 1..n /\ n + 1 - (n + 1 - l) = l
  BY <1>51
<1>6. \A k \in m + 1..Len(t) : /\ Len(t) + 1 - k \in 1..Len(q)
                               /\ t[k] = q[Len(t) + 1 - k]
  BY <1>52, <1>53 DEF n, r
<1>7. \A l \in 1..Len(q) : CountIn(P, q[l]) = 1
  <2> TAKE l \in 1..Len(q)
  <2>1. PICK i \in 1..5 : P[i].face = q[l]
    BY <1>2
  <2>2. CountIn(P, P[i].face) <= 1
    BY <1>1, <1>2, <2>1
  <2> QED BY <1>1, <2>1, <2>2, SeenOnce
<1>8. \A k \in m + 1..Len(t) : CountIn(P, t[k]) = 1
  BY <1>6, <1>7
<1>9. \A i \in 1..5 : \E k \in 1..Len(t) : t[k] = P[i].face
  <2> TAKE i \in 1..5
  <2>1. CASE P[i].face \in F
    BY <1>3, <1>4, <2>1
  <2>2. CASE P[i].face \notin F
    <3>1. PICK l \in 1..Len(q) : q[l] = P[i].face
      BY <1>2, <2>2
    <3>2. PICK k \in m + 1..n : k = n + 1 - l /\ n + 1 - k = l /\ k \in 1..n
      BY <1>54 DEF r
    <3>3. t[k] = q[l]
      BY <1>52, <3>2
    <3> QED BY <3>1, <3>2, <3>3 DEF n
  <2> QED BY <2>1, <2>2
<1>10. \A k \in 1..Len(t) : \E i \in 1..5 : P[i].face = t[k]
  <2> TAKE k \in 1..Len(t)
  <2>1. CASE k \in 1..m
    <3>1. CountIn(P, t[k]) > 1
      BY <1>3, <2>1
    <3>2. Spots(P, {t[k]}) # {}
      <4>1. Cardinality(Spots(P, {t[k]})) # 0
        BY <3>1 DEF CountIn
      <4> QED BY <4>1, FS_EmptySet
    <3>3. PICK i : i \in Spots(P, {t[k]})
      BY <3>2
    <3> QED BY <1>1, <3>3 DEF Spots
  <2>2. CASE k \notin 1..m
    <3>1. k \in m + 1..Len(t)
      BY <1>3, <1>4, <2>2
    <3> QED BY <1>2, <1>6, <3>1
  <2> QED BY <2>1, <2>2
<1>11. ASSUME NEW k \in 1..Len(t), NEW l \in 1..Len(t), k < l
       PROVE  \/ CountIn(P, t[k]) > CountIn(P, t[l])
              \/ CountIn(P, t[k]) = CountIn(P, t[l]) /\ t[k] > t[l]
  <2>1. CASE l \in 1..m
    <3>1. m = 2 /\ k = 1 /\ l = 2
      BY <1>3, <1>11, <2>1
    <3> QED BY <1>3, <3>1
  <2>2. CASE l \notin 1..m /\ k \in 1..m
    <3>1. l \in m + 1..Len(t)
      BY <1>3, <1>4, <2>2
    <3>2. CountIn(P, t[l]) = 1 /\ CountIn(P, t[k]) > 1
      BY <1>3, <1>8, <2>2, <3>1
    <3> QED BY <3>2
  <2>3. CASE k \notin 1..m
    <3>1. k \in m + 1..Len(t) /\ l \in m + 1..Len(t)
      BY <1>3, <1>4, <1>11, <2>3
    <3>2. CountIn(P, t[l]) = 1 /\ CountIn(P, t[k]) = 1
      BY <1>8, <3>1
    <3> DEFINE i == Len(t) + 1 - k
               j == Len(t) + 1 - l
    <3>3. i \in 1..Len(q) /\ j \in 1..Len(q) /\ t[k] = q[i] /\ t[l] = q[j]
      BY <1>6, <3>1
    <3>4. j < i
      BY <1>4, <1>11
    <3> HIDE DEF i, j
    <3>5. Rising(P)
      <4>1. ~(Len(q) <= 1)
        BY <1>4, <3>3, <3>4
      <4> QED BY <1>3, <4>1
    <3>6. q[j] < q[i]
      BY <1>2, <3>3, <3>4, <3>5
    <3>7. q[i] \in Faces /\ q[j] \in Faces
      BY <1>2, <3>3
    <3>8. q[i] > q[j]
      BY <3>6, <3>7 DEF Faces
    <3> QED BY <3>2, <3>3, <3>8
  <2> QED BY <2>1, <2>2, <2>3
<1> QED BY <1>3, <1>8, <1>9, <1>10, <1>11 DEF Tells

-----------------------------------------------------------------------------
(* What the weights of the kinds tell.                                       *)

ToldBy(kind, w) ==
  IF kind \in {SZ, THS} /\ w = NoWeight THEN <<4>> ELSE AtPlaces(w, NotZero(w))

\* The first n places of a weight that has no other.
LEMMA ToldFirst ==
  ASSUME NEW w \in [1..6 -> 0..Ace], NEW n \in 1..6, \A i \in 1..6 : w[i] # 0 <=> i <= n
  PROVE  AtPlaces(w, NotZero(w)) = [k \in 1..n |-> w[k]]
<1> DEFINE e == [k \in 1..n |-> k]
<1>1. Lists(e, n, 6, NotZero(w))
  BY DEF Lists, NotZero
<1>2. \A k \in 1..n : e[k] = k
  OBVIOUS
<1> HIDE DEF e
<1>3. AtPlaces(w, NotZero(w)) = [k \in 1..n |-> w[e[k]]]
  BY <1>1, ToldIs
<1> QED BY <1>2, <1>3

\* The weight of three of a kind has no second place.
LEMMA ToldWithGap ==
  ASSUME NEW a \in Faces, NEW b \in Faces, NEW c \in Faces
  PROVE  LET w == <<a, 0, b, c, 0, 0>> IN AtPlaces(w, NotZero(w)) = <<a, b, c>>
<1> DEFINE e == <<1, 3, 4>>
           w == <<a, 0, b, c, 0, 0>>
<1>1. w \in [1..6 -> 0..Ace]
  BY DEF Faces, Ace
<1>2. NotZero(w) = {1, 3, 4}
  BY <1>1 DEF NotZero, Faces
<1>3. Lists(e, 3, 6, {1, 3, 4})
  BY DEF Lists
<1>4. w[e[1]] = a /\ w[e[2]] = b /\ w[e[3]] = c
  OBVIOUS
<1> HIDE DEF w, e
<1>5. AtPlaces(w, NotZero(w)) = [k \in 1..3 |-> w[e[k]]]
  <2>1. PICK n \in Nat : n = 3
    OBVIOUS
  <2>2. Lists(e, n, 6, NotZero(w))
    BY <1>2, <1>3, <2>1
  <2>3. AtPlaces(w, NotZero(w)) = [k \in 1..n |-> w[e[k]]]
    BY <1>1, <2>2, ToldIs
  <2> QED BY <2>1, <2>3
<1>6. [k \in 1..3 |-> w[e[k]]] = <<a, b, c>>
  BY <1>4
<1> QED BY <1>5, <1>6 DEF w

LEMMA ToldFour ==
  ASSUME NEW a \in Faces, NEW b \in Faces, NEW c \in Faces, NEW d \in Faces
  PROVE  LET w == <<a, b, c, d, 0, 0>> IN AtPlaces(w, NotZero(w)) = <<a, b, c, d>>
<1> DEFINE w == <<a, b, c, d, 0, 0>>
<1>1. w \in [1..6 -> 0..Ace] /\ (\A i \in 1..6 : w[i] # 0 <=> i <= 4)
  BY DEF Faces, Ace
<1>2. w[1] = a /\ w[2] = b /\ w[3] = c /\ w[4] = d
  OBVIOUS
<1> HIDE DEF w
<1>3. AtPlaces(w, NotZero(w)) = [k \in 1..4 |-> w[k]]
  BY <1>1, ToldFirst
<1>4. [k \in 1..4 |-> w[k]] = <<a, b, c, d>>
  BY <1>2
<1> QED BY <1>3, <1>4 DEF w

LEMMA ToldThree ==
  ASSUME NEW a \in Faces, NEW b \in Faces, NEW c \in Faces
  PROVE  LET w == <<a, b, c, 0, 0, 0>> IN AtPlaces(w, NotZero(w)) = <<a, b, c>>
<1> DEFINE w == <<a, b, c, 0, 0, 0>>
<1>1. w \in [1..6 -> 0..Ace] /\ (\A i \in 1..6 : w[i] # 0 <=> i <= 3)
  BY DEF Faces, Ace
<1>2. w[1] = a /\ w[2] = b /\ w[3] = c
  OBVIOUS
<1> HIDE DEF w
<1>3. AtPlaces(w, NotZero(w)) = [k \in 1..3 |-> w[k]]
  BY <1>1, ToldFirst
<1>4. [k \in 1..3 |-> w[k]] = <<a, b, c>>
  BY <1>2
<1> QED BY <1>3, <1>4 DEF w

LEMMA ToldTwo ==
  ASSUME NEW a \in Faces, NEW b \in Faces
  PROVE  LET w == <<a, b, 0, 0, 0, 0>> IN AtPlaces(w, NotZero(w)) = <<a, b>>
<1> DEFINE w == <<a, b, 0, 0, 0, 0>>
<1>1. w \in [1..6 -> 0..Ace] /\ (\A i \in 1..6 : w[i] # 0 <=> i <= 2)
  BY DEF Faces, Ace
<1>2. w[1] = a /\ w[2] = b
  OBVIOUS
<1> HIDE DEF w
<1>3. AtPlaces(w, NotZero(w)) = [k \in 1..2 |-> w[k]]
  BY <1>1, ToldFirst
<1>4. [k \in 1..2 |-> w[k]] = <<a, b>>
  BY <1>2
<1> QED BY <1>3, <1>4 DEF w

LEMMA ToldSingles ==
  ASSUME NEW P, Five(P)
  PROVE  AtPlaces(WeightOfDZ(P), NotZero(WeightOfDZ(P))) = Descending(P)
<1> DEFINE w == WeightOfDZ(P)
<1>1. \A i \in 1..5 : P[i].face \in Faces
  BY MadeIsDistinct
<1>2. w \in [1..6 -> 0..Ace] /\ w[6] = 0
  BY FacesOfFive
<1>3. \A k \in 1..5 : w[k] = P[6 - k].face
  <2>1. P \in Seq(Poker) /\ Len(P) = 5 /\ DOMAIN P = 1..5
    BY MadeIsDistinct
  <2> DEFINE q == FacesOf(P)
             r == Reverse(q)
  <2>2. q \in [1..5 -> Faces] /\ \A k \in 1..5 : q[k] = P[k].face
    BY <1>1, <2>1 DEF FacesOf
  <2> HIDE DEF q
  <2>3. q \in Seq(Faces) /\ Len(q) = 5
    <3>1. PICK n \in Nat : n = 5
      OBVIOUS
    <3>2. q \in [1..n -> Faces]
      BY <2>2, <3>1
    <3>3. q \in Seq(Faces) /\ Len(q) = n
      BY <3>2, SeqOfFunction
    <3> QED BY <3>1, <3>3
  <2>4. r = [i \in 1..5 |-> q[5 - i + 1]]
    BY <2>3 DEF Reverse
  <2>5. r \in [1..5 -> Faces]
    BY <2>2, <2>4
  <2>6. \A k \in 1..5 : 6 - k \in 1..5 /\ r[k] = q[6 - k]
    BY <2>4
  <2> HIDE DEF r
  <2>7. r \in Seq(Faces) /\ Len(r) = 5
    <3>1. PICK n \in Nat : n = 5
      OBVIOUS
    <3>2. r \in [1..n -> Faces]
      BY <2>5, <3>1
    <3>3. r \in Seq(Faces) /\ Len(r) = n
      BY <3>2, SeqOfFunction
    <3> QED BY <3>1, <3>3
  <2>8. w = r \o <<0>>
    BY DEF WeightOfDZ, r, q
  <2>9. \A k \in 1..5 : w[k] = r[k]
    BY <2>7, <2>8
  <2> QED BY <2>2, <2>6, <2>9
<1>4. \A i \in 1..6 : w[i] # 0 <=> i <= 5
  BY <1>1, <1>2, <1>3 DEF Faces
<1> HIDE DEF w
<1>5. AtPlaces(w, NotZero(w)) = [k \in 1..5 |-> w[k]]
  BY <1>2, <1>4, ToldFirst
<1> QED BY <1>3, <1>5 DEF w, Descending

LEMMA ToldRow ==
  ASSUME NEW f \in Faces
  PROVE  LET w == [NoWeight EXCEPT ![6] = f] IN AtPlaces(w, NotZero(w)) = <<f>> /\ w # NoWeight
<1> DEFINE w == [NoWeight EXCEPT ![6] = f]
           e == <<6>>
<1>1. w \in [1..6 -> 0..Ace] /\ w[6] = f /\ \A i \in 1..5 : w[i] = 0
  BY DEF NoWeight, Faces, Ace
<1>2. w # NoWeight
  BY <1>1 DEF NoWeight, Faces
<1>3. NotZero(w) = {6}
  BY <1>1 DEF NotZero, Faces
<1>4. Lists(e, 1, 6, {6}) /\ e[1] = 6
  BY DEF Lists
<1> HIDE DEF w, e
<1>5. AtPlaces(w, NotZero(w)) = [k \in 1..1 |-> w[e[k]]]
  <2>1. PICK n \in Nat : n = 1
    OBVIOUS
  <2>2. Lists(e, n, 6, NotZero(w))
    BY <1>3, <1>4, <2>1
  <2>3. AtPlaces(w, NotZero(w)) = [k \in 1..n |-> w[e[k]]]
    BY <1>1, <2>2, ToldIs
  <2> QED BY <2>1, <2>3
<1>6. [k \in 1..1 |-> w[e[k]]] = <<f>>
  BY <1>1, <1>4
<1> QED BY <1>2, <1>5, <1>6 DEF w

LEMMA ToldNothing == AtPlaces(NoWeight, NotZero(NoWeight)) = <<>>
<1>1. NotZero(NoWeight) = {}
  BY DEF NotZero, NoWeight
<1>2. Cardinality(NotZero(NoWeight)) = 0
  BY <1>1, FS_EmptySet
<1> QED BY <1>2 DEF AtPlaces

-----------------------------------------------------------------------------
(* Colors of five cards.                                                     *)

\* One card of the five at most is born, and the others are cards of the player.
LEMMA OwnOrBorn ==
  ASSUME NEW P, Five(P)
  PROVE  /\ \A i \in 1..5 : ~IsBorn(P[i]) => P[i] \in Card /\ P[i] \in originPokers \ {LaiZi}
         /\ \A i \in 1..5 : IsBorn(P[i]) => HaveLz
         /\ \A i, j \in 1..5 : IsBorn(P[i]) /\ IsBorn(P[j]) => i = j
<1>1. /\ P \in Seq(Poker) /\ Len(P) = 5 /\ \A i \in 1..5 : P[i] \in Poker
  BY MadeIsDistinct
<1>2. /\ \A i \in 1..5 : Shown(P[i]) \in originPokers
      /\ \A i, j \in 1..5 : i # j => Shown(P[i]) # Shown(P[j])
  BY <1>1 DEF Five, Made
<1>3. ASSUME NEW i \in 1..5, ~IsBorn(P[i])
      PROVE  P[i] \in Card /\ P[i] \in originPokers \ {LaiZi}
  <2>1. P[i] \in Card
    <3>1. ASSUME P[i] \in [face : Faces, color : Colors, bornByLz : {TRUE}] PROVE FALSE
      <4>1. "bornByLz" \in DOMAIN P[i]
        BY <3>1
      <4> QED BY <1>3, <4>1 DEF IsBorn
    <3> QED BY <1>1, <3>1 DEF Poker
  <2>2. Shown(P[i]) = P[i] /\ P[i] # LaiZi
    BY <2>1, CardFacts
  <2> QED BY <1>2, <2>1, <2>2
<1>4. \A i \in 1..5 : IsBorn(P[i]) => Shown(P[i]) = LaiZi
  BY DEF Shown
<1> QED BY <1>2, <1>3, <1>4 DEF HaveLz

LEMMA ColorOfAll ==
  ASSUME NEW P, Five(P), OneColor(ToSet(P))
  PROVE  \A i, j \in 1..5 : P[i].color = P[j].color
BY OneOrMore

\* Three cards of a face have more than one color: two of them at least are the
\* player's.
LEMMA TripleIsMixed ==
  ASSUME NEW P, Five(P), NEW f, CountIn(P, f) > 2
  PROVE  ~OneColor(ToSet(P))
<1> SUFFICES ASSUME OneColor(ToSet(P)) PROVE FALSE
  OBVIOUS
<1> DEFINE S == Spots(P, {f})
<1>1. /\ S \in SUBSET (1..5) /\ S \in SUBSET Faces /\ IsFiniteSet(S)
      /\ Cardinality(S) \in Nat /\ Cardinality(S) > 2
      /\ \A i \in S : P[i].face = f
  <2>1. P \in Seq(Poker) /\ Len(P) = 5
    BY MadeIsDistinct
  <2>2. S \in SUBSET (1..Len(P)) /\ IsFiniteSet(S) /\ Cardinality(S) \in 0..Len(P)
    BY <2>1, SpotsType
  <2>3. \A i \in S : P[i].face = f
    BY DEF Spots
  <2>4. Cardinality(S) > 2
    BY DEF CountIn
  <2> HIDE DEF S
  <2> QED BY <2>1, <2>2, <2>3, <2>4 DEF Faces
<1> HIDE DEF S
<1>2. PICK i \in S : TRUE
  <2>1. Cardinality(S) > 1
    BY <1>1
  <2> QED BY <1>1, <2>1, OthersThere
<1>3. /\ S \ {i} \in SUBSET Faces /\ IsFiniteSet(S \ {i})
      /\ Cardinality(S \ {i}) > 1
  <2>1. IsFiniteSet(S \ {i}) /\ Cardinality(S \ {i}) = Cardinality(S) - 1
    BY <1>1, <1>2, FS_RemoveElement
  <2> QED BY <1>1, <2>1
<1>4. PICK j \in S \ {i} : TRUE
  BY <1>3, OthersThere
<1>5. PICK k \in S \ {i} : k # j
  BY <1>3, OthersThere
<1>6. i \in 1..5 /\ j \in 1..5 /\ k \in 1..5 /\ i # j /\ j # k /\ i # k
  BY <1>1, <1>2, <1>4, <1>5
<1>7. ASSUME NEW a \in S, NEW b \in S, ~IsBorn(P[a]), ~IsBorn(P[b]) PROVE a = b
  <2>1. a \in 1..5 /\ b \in 1..5 /\ P[a].face = P[b].face
    BY <1>1
  <2>2. P[a] \in Card /\ P[b] \in Card
    BY <1>7, <2>1, OwnOrBorn
  <2>3. P[a].color = P[b].color
    BY <2>1, ColorOfAll
  <2>4. P[a] = P[b]
    BY <2>1, <2>2, <2>3 DEF Card
  <2>5. Distinct(P) /\ Len(P) = 5
    BY MadeIsDistinct
  <2> QED BY <2>1, <2>4, <2>5 DEF Distinct
<1>8. i \in S /\ j \in S /\ k \in S
  BY <1>2, <1>4, <1>5
<1>9. /\ ~(IsBorn(P[i]) /\ IsBorn(P[j])) /\ ~(IsBorn(P[j]) /\ IsBorn(P[k]))
      /\ ~(IsBorn(P[i]) /\ IsBorn(P[k]))
  BY <1>6, OwnOrBorn
<1> QED BY <1>6, <1>7, <1>8, <1>9

\* The lists of the colors have every card; without a pair the list without seen
\* faces is that of all the cards.
Complete ==
  /\ \A p \in ToSet(tmpPokers) : p \in ToSet(th[p.color])
  /\ (\A f \in Faces : Count({f}) <= 1) => shunZi = tmpPokers

\* Where no color has cards enough for a flush, no five cards have one color.
LEMMA NoFlushIsMixed ==
  ASSUME Listed, Complete, ~Flush(th, IF HaveLz THEN 4 ELSE 5), NEW P, Five(P)
  PROVE  ~OneColor(ToSet(P))
<1> SUFFICES ASSUME OneColor(ToSet(P)) PROVE FALSE
  OBVIOUS
<1> DEFINE c == P[1].color
           s == th[c]
           N == {i \in 1..5 : ~IsBorn(P[i])}
<1>1. c \in Colors /\ s \in Seq(Card) /\ Len(s) \in Nat /\ DOMAIN s = 1..Len(s)
  <2>1. c \in Colors
    BY MadeIsDistinct
  <2>2. th \in [Colors -> Seq(Card)]
    BY DEF Listed
  <2> HIDE DEF c
  <2>3. s \in Seq(Card)
    BY <2>1, <2>2
  <2> HIDE DEF s
  <2> QED BY <2>1, <2>3
<1>2. \A i \in 1..5 : P[i].color = c
  BY ColorOfAll
<1> HIDE DEF c, s
<1>3. \A i \in N : \E j \in 1..Len(s) : s[j] = P[i]
  <2> TAKE i \in N
  <2>1. P[i] \in ToSet(tmpPokers)
    BY OwnOrBorn DEF Listed
  <2>2. P[i] \in ToSet(s)
    BY <1>2, <2>1 DEF Complete, s
  <2> QED BY <1>1, <2>2 DEF ToSet
<1> DEFINE at == [i \in N |-> CHOOSE j \in 1..Len(s) : s[j] = P[i]]
<1>4. \A i \in N : at[i] \in 1..Len(s) /\ s[at[i]] = P[i]
  BY <1>3
<1>5. at \in Injection(N, 1..Len(s))
  <2>1. at \in [N -> 1..Len(s)]
    BY <1>4
  <2> HIDE DEF at
  <2>2. \A a, b \in N : at[a] = at[b] => a = b
    <3>1. Distinct(P) /\ Len(P) = 5
      BY MadeIsDistinct
    <3>2. \A a, b \in N : at[a] = at[b] => P[a] = P[b]
      BY <1>4
    <3> QED BY <3>1, <3>2 DEF Distinct
  <2> QED BY <2>1, <2>2 DEF Injection, IsInjective
<1>6. IsFiniteSet(1..Len(s)) /\ Cardinality(1..Len(s)) = Len(s)
  BY <1>1, SizeOfPlaces
<1>7. Cardinality(N) <= Len(s)
  <2> HIDE DEF N, at
  <2> QED BY <1>5, <1>6, FS_Injection
<1>8. IsFiniteSet(1..5) /\ Cardinality(1..5) = 5
  <2>1. PICK n \in Nat : n = 5
    OBVIOUS
  <2> QED BY <2>1, SizeOfPlaces
<1>9. Cardinality(N) >= IF HaveLz THEN 4 ELSE 5
  <2>1. CASE \E i \in 1..5 : IsBorn(P[i])
    <3>1. PICK i \in 1..5 : IsBorn(P[i])
      BY <2>1
    <3>2. N = (1..5) \ {i} /\ HaveLz
      BY <3>1, OwnOrBorn
    <3>3. Cardinality((1..5) \ {i}) = 4
      BY <1>8, FS_RemoveElement
    <3> QED BY <3>2, <3>3
  <2>2. CASE ~\E i \in 1..5 : IsBorn(P[i])
    <3>1. N = 1..5
      BY <2>2
    <3> QED BY <1>8, <3>1
  <2> QED BY <2>1, <2>2
<1>10. Len(s) < IF HaveLz THEN 4 ELSE 5
  <2>1. ~(Len(s) >= IF HaveLz THEN 4 ELSE 5)
    BY <1>1 DEF Flush, s
  <2> QED BY <1>1, <2>1
<1>11. Cardinality(N) \in Nat
  <2>1. N \in SUBSET (1..5)
    OBVIOUS
  <2> HIDE DEF N
  <2> QED BY <1>8, <2>1, FS_Subset, FS_CardinalityType
<1> HIDE DEF N
<1> QED BY <1>1, <1>7, <1>9, <1>10, <1>11

\* One face is seen n times, and every other once or not at all.
LEMMA OthersAlone ==
  ASSUME Listed, NEW n \in 2..4, One(seems, n), \A m \in (2..4) \ {n} : None(seems, m)
  PROVE  LET f == Max(Seen(seems, n))
         IN  f \in Faces /\ Count({f}) = n /\ \A g \in Faces \ {f} : Count({g}) <= 1
<1> DEFINE f == Max(Seen(seems, n))
<1>1. Seen(seems, n) \in SUBSET Faces /\ Seen(seems, n) # {}
  BY SeenFacts DEF One
<1>2. f \in Seen(seems, n) /\ f \in Faces
  BY <1>1, MaxFace
<1>3. Count({f}) = n
  BY <1>2, SeenFacts
<1>4. IsFiniteSet(Seen(seems, n))
  <2>1. PICK last \in Nat : last = 13
    OBVIOUS
  <2>2. IsFiniteSet(Faces)
    BY <2>1, SizeOfPlaces DEF Faces
  <2> QED BY <1>1, <2>2, FS_Subset
<1> HIDE DEF f
<1>5. ASSUME NEW g \in Faces \ {f} PROVE Count({g}) <= 1
  <2>1. Count({g}) \in 0..4
    BY SeenFacts
  <2>2. ASSUME NEW m \in 2..4, Count({g}) = m PROVE FALSE
    <3>1. seems[g] = m
      BY <2>2 DEF Listed
    <3>2. g \in Seen(seems, m)
      BY <3>1 DEF Seen
    <3>3. m = n
      BY <3>2 DEF None
    <3> QED BY <1>2, <1>4, <3>2, <3>3, MostOne DEF One
  <2>3. Count({g}) # 2 /\ Count({g}) # 3 /\ Count({g}) # 4
    BY <2>2
  <2> QED BY <2>1, <2>3
<1> QED BY <1>2, <1>3, <1>5 DEF f

\* Cards of one more face.
LEMMA OneMoreFace ==
  ASSUME NEW P, Five(P), NEW F, NEW h, h \notin F
  PROVE  /\ Cardinality(Spots(P, F \union {h})) = Cardinality(Spots(P, F)) + CountIn(P, h)
         /\ Cardinality(Spots(P, F)) + CountIn(P, h) <= 5
         /\ Cardinality(Spots(P, F)) \in Nat
<1> DEFINE H == {h}
           a == Spots(P, F)
           b == Spots(P, H)
           G == F \union {h}
           u == Spots(P, G)
<1>1. P \in Seq(Poker) /\ Len(P) = 5
  BY MadeIsDistinct
<1>2. /\ IsFiniteSet(a) /\ Cardinality(a) \in Nat /\ IsFiniteSet(b) /\ Cardinality(b) \in Nat
      /\ Cardinality(u) \in 0..5
  <2> HIDE DEF H, G
  <2> QED BY <1>1, SpotsType, FS_CardinalityType
<1>3. a \intersect b = {} /\ u = a \union b
  BY DEF Spots
<1> HIDE DEF a, b, u
<1>4. Cardinality(a \union b) = Cardinality(a) + Cardinality(b) - Cardinality(a \intersect b)
  BY <1>2, FS_Union
<1>5. Cardinality(a \intersect b) = 0
  BY <1>3, FS_EmptySet, Zenon
<1>6. Cardinality(u) = Cardinality(a \union b)
  BY <1>3, Zenon
<1>7. Cardinality(u) = Cardinality(a) + Cardinality(b)
  BY <1>2, <1>4, <1>5, <1>6
<1> QED BY <1>2, <1>7 DEF CountIn, a, b, u, H, G

-----------------------------------------------------------------------------
(* Five cards with one face, or two, more often than the others.             *)

LEMMA OneHead ==
  ASSUME NEW P, Five(P), NEW f, NEW F, F = {f}, f \in Faces, NEW n \in 2..4, CountIn(P, f) = n,
         \A g \in Faces \ {f} : CountIn(P, g) <= 1, Rising(P) \/ n = 4, ~OneColor(ToSet(P)),
         NEW t \in Seq(Faces), Len(t) = 6 - n, t[1] = f, SinglesFrom(t, Singles(P, F), 1)
  PROVE  Value(ToSet(P)) = [kind |-> KindOf(n, 1), ranks |-> t]
<1> DEFINE q == Singles(P, F)
<1>0. /\ f \in F /\ (\A g \in F : g = f) /\ F \in SUBSET Faces
      /\ \A g \in Faces \ F : CountIn(P, g) <= 1
      /\ Cardinality(Spots(P, F)) = n
  BY DEF CountIn
<1> HIDE DEF q
<1>1. q \in Seq(Faces) /\ Len(q) = 5 - Cardinality(Spots(P, F))
  <2>1. Made(P) /\ Len(P) = 5
    BY DEF Five
  <2> QED BY <2>1, SinglesOfMade DEF q
<1>2. Len(q) = 5 - n
  BY <1>0, <1>1
<1>3. HeadsThenSingles(t, P, F, 1)
  <2>1. \A k \in 1..1 : t[k] \in F /\ CountIn(P, t[k]) > 1
    BY <1>0
  <2>2. \A g \in F : \E k \in 1..1 : t[k] = g
    BY <1>0
  <2>3. Len(t) = 1 + Len(q) /\ 1 \in 1..2
    BY <1>2
  <2> QED BY <2>1, <2>2, <2>3, 1 # 2 DEF HeadsThenSingles, q
<1>4. Rising(P) \/ Len(Singles(P, F)) <= 1
  BY <1>2 DEF q
<1>5. Tells(t, P) /\ \A k \in 1 + 1..Len(t) : CountIn(P, t[k]) = 1
  BY <1>0, <1>3, <1>4, PairedIsTold
<1>6. CountIn(P, t[1]) = n /\ CountIn(P, t[2]) = 1
  BY <1>5
<1>7. /\ <<CountIn(P, t[1]), CountIn(P, t[2])>> \in {<<4, 1>>, <<3, 2>>, <<3, 1>>, <<2, 2>>, <<2, 1>>, <<1, 1>>}
      /\ Len(t) \in 2..4 /\ Tells(t, P)
  BY <1>5, <1>6
<1>8. Value(ToSet(P)) = [kind |-> KindOf(CountIn(P, t[1]), CountIn(P, t[2])), ranks |-> t]
  BY <1>7, ValueOfPaired
<1> QED BY <1>6, <1>8

LEMMA TwoHeads ==
  ASSUME NEW P, Five(P), NEW f \in Faces, NEW g \in Faces, f # g,
         NEW n \in 2..3, CountIn(P, f) = n, CountIn(P, g) = 2, n = 2 => f > g,
         ~OneColor(ToSet(P)),
         NEW t \in Seq(Faces), Len(t) = 5 - n, t[1] = f, t[2] = g,
         SinglesFrom(t, Singles(P, {f, g}), 2)
  PROVE  Value(ToSet(P)) = [kind |-> KindOf(n, 2), ranks |-> t]
<1> DEFINE F == {f, g}
           q == Singles(P, F)
<1>1. Cardinality(Spots(P, F)) = n + 2
  <2>1. {f} \union {g} = F
    OBVIOUS
  <2>2. Cardinality(Spots(P, {f} \union {g})) = Cardinality(Spots(P, {f})) + CountIn(P, g)
    BY OneMoreFace
  <2>3. Cardinality(Spots(P, {f})) = n
    BY DEF CountIn
  <2> HIDE DEF F
  <2> QED BY <2>1, <2>2, <2>3
<1> HIDE DEF q, F
<1>2. q \in Seq(Faces) /\ Len(q) = 3 - n
  <2>1. Made(P) /\ Len(P) = 5
    BY DEF Five
  <2>2. q \in Seq(Faces) /\ Len(q) = 5 - Cardinality(Spots(P, F))
    BY <2>1, SinglesOfMade DEF q
  <2> QED BY <1>1, <2>2
<1>3. \A h \in Faces \ F : CountIn(P, h) <= 1
  <2> TAKE h \in Faces \ F
  <2>1. Cardinality(Spots(P, F)) + CountIn(P, h) <= 5 /\ CountIn(P, h) \in 0..5
    BY OneMoreFace, TimesIs
  <2> QED BY <1>1, <2>1
<1>4. HeadsThenSingles(t, P, F, 2)
  <2>1. \A k \in 1..2 : t[k] \in F /\ CountIn(P, t[k]) > 1
    BY DEF F
  <2>2. \A h \in F : \E k \in 1..2 : t[k] = h
    BY DEF F
  <2>3. \/ CountIn(P, t[1]) > CountIn(P, t[2])
        \/ CountIn(P, t[1]) = CountIn(P, t[2]) /\ t[1] > t[2]
    OBVIOUS
  <2>4. SinglesFrom(t, Singles(P, F), 2)
    BY DEF F
  <2>5. Len(t) = 2 + Len(Singles(P, F))
    BY <1>2 DEF q
  <2> QED BY <2>1, <2>2, <2>3, <2>4, <2>5 DEF HeadsThenSingles
<1>5. Len(Singles(P, F)) <= 1 /\ F \in SUBSET Faces
  BY <1>2 DEF q, F
<1>6. Tells(t, P)
  BY <1>3, <1>4, <1>5, PairedIsTold
<1>7. CountIn(P, t[1]) = n /\ CountIn(P, t[2]) = 2
  OBVIOUS
<1>8. <<n, 2>> \in {<<4, 1>>, <<3, 2>>, <<3, 1>>, <<2, 2>>, <<2, 1>>, <<1, 1>>} /\ Len(t) \in 2..4
  OBVIOUS
<1> QED BY <1>6, <1>7, <1>8, ValueOfPaired

-----------------------------------------------------------------------------
(* What each check shows is worth what it says.                              *)

Worth(kind, weight, pokers) == Value(ToSet(pokers)) = [kind |-> kind, ranks |-> ToldBy(kind, weight)]

\* What is told of one pair.
LEMMA PairIsWorth ==
  ASSUME NEW P, Five(P), NEW f \in Faces, CountIn(P, f) = 2,
         \A g \in Faces \ {f} : CountIn(P, g) <= 1, Rising(P), ~OneColor(ToSet(P))
  PROVE  LET q == Singles(P, {f}) IN Worth(YD, <<f, q[3], q[2], q[1], 0, 0>>, P)
<1> DEFINE q == Singles(P, {f})
           t == <<f, q[3], q[2], q[1]>>
<1>1. q \in Seq(Faces) /\ Len(q) = 3
  <2> DEFINE F == {f}
  <2>1. Made(P) /\ Len(P) = 5 /\ Cardinality(Spots(P, F)) = 2
    BY DEF Five, CountIn
  <2> HIDE DEF F
  <2>2. Singles(P, F) \in Seq(Faces) /\ Len(Singles(P, F)) = Len(P) - Cardinality(Spots(P, F))
    BY <2>1, SinglesOfMade
  <2> QED BY <2>1, <2>2 DEF F
<1>2. q[1] \in Faces /\ q[2] \in Faces /\ q[3] \in Faces
  BY <1>1, ElementOfSeq
<1>3. t \in Seq(Faces) /\ Len(t) = 4 /\ t[1] = f
  <2> HIDE DEF q
  <2> QED BY <1>2
<1>4. SinglesFrom(t, q, 1)
  <2> HIDE DEF q
  <2> QED BY <1>1 DEF SinglesFrom
<1>5. Value(ToSet(P)) = [kind |-> KindOf(2, 1), ranks |-> t]
  <2>1. PICK n \in 2..4 : n = 2
    OBVIOUS
  <2> DEFINE F == {f}
  <2>2. F = {f} /\ q = Singles(P, F)
    OBVIOUS
  <2>3. CountIn(P, f) = n /\ Len(t) = 6 - n /\ SinglesFrom(t, Singles(P, F), 1)
    BY <1>3, <1>4, <2>1
  <2>4. \A g \in Faces \ {f} : CountIn(P, g) <= 1
    OBVIOUS
  <2> HIDE DEF q, t, F
  <2>5. Value(ToSet(P)) = [kind |-> KindOf(n, 1), ranks |-> t]
    BY <1>3, <2>2, <2>3, <2>4, OneHead
  <2> QED BY <2>1, <2>5
<1>6. ToldBy(YD, <<f, q[3], q[2], q[1], 0, 0>>) = t
  <2> HIDE DEF q
  <2> QED BY <1>2, ToldFour DEF ToldBy, YD, SZ, THS
<1> HIDE DEF q, t
<1> QED BY <1>5, <1>6 DEF Worth, KindOf, YD, q

LEMMA YDIsWorth ==
  ASSUME AnalystInv, Complete, next = YD
  PROVE  LET f == YDFace
             q == Singles(YDPokers(f), {f})
         IN  Worth(YD, <<f, q[3], q[2], q[1], 0, 0>>, YDPokers(f))
<1> DEFINE f == YDFace
           t == YDPokers(f)
<1>1. /\ Total \in 5..7 /\ WithLz \in 0..1 /\ Len(tmpPokers) = Total - WithLz
      /\ Own(tmpPokers) /\ Fits(YD, seems, th, HaveLz, playChain) /\ Listed /\ Rising(tmpPokers)
  <2>1. next # NoMore
    BY DEF YD, NoMore
  <2> QED BY <2>1, AtACheck DEF AnalystInv, Listed
<1>2. f \in Faces /\ Five(t)
  BY YDShown
<1>3. ~OneColor(ToSet(t))
  <2>1. ~Flush(th, IF HaveLz THEN 4 ELSE 5)
    BY <1>1 DEF Fits
  <2> HIDE DEF t
  <2> QED BY <1>1, <1>2, <2>1, NoFlushIsMixed
<1>4. CountIn(t, f) = 2 /\ (\A g \in Faces \ {f} : CountIn(t, g) <= 1) /\ Rising(t)
  <2>1. CASE ~HaveLz
    <3>1. One(seems, 2) /\ None(seems, 3) /\ None(seems, 4) /\ f = Max(Seen(seems, 2))
      BY <1>1, <2>1 DEF Fits, YDFace, YD, DZ, LD, ST3, SZ, TH, HL, ST4
    <3>2. Count({f}) = 2 /\ \A g \in Faces \ {f} : Count({g}) <= 1
      <4>1. PICK n \in 2..4 : n = 2
        OBVIOUS
      <4>2. One(seems, n) /\ (\A m \in (2..4) \ {n} : None(seems, m)) /\ f = Max(Seen(seems, n))
        BY <3>1, <4>1
      <4> HIDE DEF f
      <4> QED BY <1>1, <4>1, <4>2, OthersAlone
    <3>3. t = Upwards(PlacesOf({f}, 3))
      BY <2>1 DEF YDPokers
    <3> HIDE DEF f, t
    <3> DEFINE S == PlacesOf({f}, 3)
    <3>4. S \in SUBSET (1..Len(tmpPokers)) /\ S \intersect Spots(tmpPokers, {f}) = Spots(tmpPokers, {f})
      BY <1>1, PlacesOfFacts
    <3> HIDE DEF S
    <3>5. Picks(t, tmpPokers, S) /\ Rising(t)
      BY <1>1, <3>3, <3>4, DownwardsFacts, DownwardsOrder DEF S
    <3>6. /\ CountIn(t, f) = Count({f})
          /\ \A g : CountIn(t, g) \in Nat /\ CountIn(t, g) <= Count({g})
      BY <1>1, <1>2, <3>4, <3>5, PickedOften
    <3>7. \A g \in Faces : Count({g}) \in 0..4
      BY <1>1, SeenFacts
    <3>8. \A g \in Faces \ {f} : CountIn(t, g) <= 1
      <4> SUFFICES ASSUME NEW g \in Faces \ {f} PROVE CountIn(t, g) <= 1
        OBVIOUS
      <4>1. Count({g}) <= 1 /\ Count({g}) \in 0..4 /\ CountIn(t, g) \in Nat /\ CountIn(t, g) <= Count({g})
        BY <3>2, <3>6, <3>7
      <4> QED BY <4>1
    <3> QED BY <3>2, <3>5, <3>6, <3>8
  <2>2. CASE HaveLz
    <3> DEFINE l == Len(tmpPokers)
               s == SubSeq(tmpPokers, l - 3, l)
               c == Last(tmpPokers).color
    <3>1. l = Total - 1 /\ l \in 4..6 /\ l - 3 \in Nat \ {0} /\ l - 3 = Total - 4
      BY <1>1, <2>2 DEF WithLz
    <3>2. t = Append(s, BornALaiZi(f, c))
      BY <2>2, <3>1 DEF YDPokers
    <3>3. f = tmpPokers[l].face /\ tmpPokers[l] \in Card /\ c \in Colors
      <4>1. Last(tmpPokers) = tmpPokers[l] /\ tmpPokers[l] \in Card
        BY <1>1, <3>1, ElementOfSeq DEF Last, Own
      <4> QED BY <2>2, <4>1, CardFacts DEF YDFace
    <3>4. \A g \in Faces : Count({g}) \in 0..1
      BY <1>1, <2>2, SeenFacts DEF Fits, None, YD, DZ, LD, ST3, SZ, TH, HL, ST4
    <3>5. tmpPokers \in Seq(Card) /\ s \in Seq(Card) /\ Len(s) = 4
          /\ \A i \in 1..4 : s[i] = tmpPokers[l - 4 + i]
      BY <1>1, <3>1 DEF Own
    <3>6. Own(s) /\ \A g \in Faces : CountIn(s, g) \in Nat /\ CountIn(s, g) <= 1
      <4>1. PICK a \in Nat \ {0}, b \in Nat : a = l - 3 /\ b = l
        BY <3>1
      <4> DEFINE S == a..b
      <4>2. S \in SUBSET (1..Len(tmpPokers)) /\ Picks(SubSeq(tmpPokers, a, b), tmpPokers, S)
        <5>1. a <= b /\ b <= Len(tmpPokers)
          BY <3>1, <4>1
        <5> HIDE DEF s, l
        <5> QED BY <3>5, <5>1, SubSeqPicks
      <4>3. SubSeq(tmpPokers, a, b) = s
        BY <4>1
      <4> HIDE DEF S, s, l
      <4>4. Own(s)
        BY <1>1, <4>2, <4>3, PicksOfOwn
      <4>5. \A g : CountIn(s, g) = Cardinality(S \intersect Spots(tmpPokers, {g}))
        BY <1>1, <4>2, <4>3, PicksCountOne
      <4>6. \A g : /\ Cardinality(S \intersect Spots(tmpPokers, {g})) \in Nat
                   /\ Cardinality(S \intersect Spots(tmpPokers, {g})) <= Count({g})
        BY <1>1, <4>2, PickedCount
      <4>7. ASSUME NEW g \in Faces PROVE CountIn(s, g) \in Nat /\ CountIn(s, g) <= 1
        <5>1. CountIn(s, g) \in Nat /\ CountIn(s, g) <= Count({g}) /\ Count({g}) \in 0..1
          BY <3>4, <4>5, <4>6
        <5> QED BY <5>1
      <4> QED BY <4>4, <4>7
    <3>7. CountIn(s, f) = 1 /\ s[4].face = f
      <4>1. s[4].face = f
        <5>1. l - 4 + 4 = l /\ s[4] = tmpPokers[l - 4 + 4]
          BY <3>1, <3>5
        <5> HIDE DEF s, l, f
        <5> QED BY <3>3, <5>1
      <4>2. CountIn(s, s[4].face) <= 1
        BY <1>2, <3>6, <4>1
      <4>3. 4 \in 1..Len(s)
        BY <3>5
      <4> HIDE DEF s, f
      <4> QED BY <3>5, <4>1, <4>2, <4>3, SeenOnce
    <3>8. \A g : CountIn(t, g) = CountIn(s, g) + IF g = f THEN 1 ELSE 0
      <4> HIDE DEF s, f, c, t
      <4> QED BY <1>2, <2>2, <3>2, <3>3, <3>6, BornLast DEF f
    <3>9. Rising(t)
      <4>1. \A i, j \in 1..4 : i < j => s[i].face <= s[j].face
        <5> SUFFICES ASSUME NEW i \in 1..4, NEW j \in 1..4, i < j
                     PROVE  s[i].face <= s[j].face
          OBVIOUS
        <5>1. l - 4 + i \in 1..l /\ l - 4 + j \in 1..l /\ l - 4 + i < l - 4 + j
          <6> HIDE DEF l, s
          <6> QED BY <3>1
        <5>2. tmpPokers[l - 4 + i].face <= tmpPokers[l - 4 + j].face
          BY <1>1, <5>1 DEF Rising
        <5> QED BY <3>5, <5>2
      <4>2. Len(t) = 5 /\ (\A i \in 1..4 : t[i] = s[i]) /\ t[5].face = f
        <5>1. BornALaiZi(f, c).face = f
          BY DEF BornALaiZi
        <5> HIDE DEF s
        <5>2. s \in Seq(Poker)
          BY <3>6, OwnIsMade
        <5>3. Len(t) = 5 /\ (\A i \in 1..4 : t[i] = s[i]) /\ t[5] = BornALaiZi(f, c)
          <6> DEFINE b == BornALaiZi(f, c)
          <6>1. b \in Poker
            BY <1>2, <3>3, BornFacts
          <6>2. t = Append(s, b)
            BY <3>2
          <6> HIDE DEF b, t
          <6>3. Len(t) = 5 /\ (\A i \in 1..4 : t[i] = s[i]) /\ t[5] = b
            <7>1. Len(t) = Len(s) + 1 /\ (\A i \in 1..Len(s) : t[i] = s[i]) /\ t[Len(s) + 1] = b
              BY <5>2, <6>1, <6>2, AppendProperties, ZenonT(30)
            <7>2. Len(s) = 4
              BY <3>5
            <7> QED BY <7>1, <7>2
          <6> QED BY <6>3 DEF b
        <5> QED BY <5>1, <5>3
      <4>3. s[4].face \in Int
        BY <1>2, <3>7 DEF Faces
      <4>4. \A i \in 1..4 : s[i].face <= f
        BY <3>7, <4>1, <4>3
      <4> HIDE DEF s, f, t
      <4> SUFFICES ASSUME NEW i \in 1..5, NEW j \in 1..5, i < j
                   PROVE  t[i].face <= t[j].face
        BY <4>2 DEF Rising
      <4>5. CASE j = 5
        BY <4>2, <4>4, <4>5
      <4>6. CASE j # 5
        BY <4>1, <4>2, <4>6
      <4> QED BY <4>5, <4>6
    <3> HIDE DEF s, f, t
    <3>10. CountIn(t, f) = 2
      BY <3>7, <3>8
    <3>11. \A g \in Faces \ {f} : CountIn(t, g) <= 1
      BY <3>6, <3>8
    <3> QED BY <3>9, <3>10, <3>11
  <2> QED BY <2>1, <2>2
<1> HIDE DEF f, t
<1> QED BY <1>2, <1>3, <1>4, PairIsWorth DEF f, t

\* What is told of two pairs, and of a full house.
LEMMA LDIsWorth ==
  ASSUME AnalystInv, Complete, next = LD
  PROVE  LET t == LDPokers(LDBigger, LDSmaller)
         IN  Worth(LD, <<LDBigger, LDSmaller, Singles(t, {LDBigger, LDSmaller})[1], 0, 0, 0>>, t)
<1> DEFINE f == LDBigger
           g == LDSmaller
           P == LDPokers(f, g)
           q == Singles(P, {f, g})
           t == <<f, g, q[1]>>
<1>1. /\ Fits(LD, seems, th, HaveLz, playChain) /\ Listed
  <2>1. next # NoMore
    BY DEF LD, NoMore
  <2> QED BY <2>1, AtACheck DEF AnalystInv
<1>2. /\ f \in Faces /\ g \in Faces /\ Five(P) /\ f > g /\ f # g
      /\ CountIn(P, f) = 2 /\ CountIn(P, g) = 2
  <2>1. /\ f \in Faces /\ g \in Faces /\ Five(P) /\ f > g
        /\ CountIn(P, f) = 2 /\ CountIn(P, g) = 2
    BY LDShown
  <2>2. f \in Int /\ g \in Int
    BY <2>1 DEF Faces
  <2> QED BY <2>1, <2>2
<1>3. ~OneColor(ToSet(P))
  <2>1. ~Flush(th, IF HaveLz THEN 4 ELSE 5)
    BY <1>1 DEF Fits
  <2> HIDE DEF P
  <2> QED BY <1>1, <1>2, <2>1, NoFlushIsMixed
<1>4. q \in Seq(Faces) /\ Len(q) = 1 /\ q[1] \in Faces
  <2> DEFINE F == {f, g}
  <2> HIDE DEF P
  <2>1. F = {f} \union {g}
    OBVIOUS
  <2>2. Cardinality(Spots(P, F)) = 4
    <3>1. Cardinality(Spots(P, {f} \union {g})) = Cardinality(Spots(P, {f})) + CountIn(P, g)
      BY <1>2, OneMoreFace
    <3> QED BY <1>2, <2>1, <3>1 DEF CountIn
  <2>3. Made(P) /\ Len(P) = 5
    BY <1>2 DEF Five
  <2> HIDE DEF F
  <2>4. Singles(P, F) \in Seq(Faces) /\ Len(Singles(P, F)) = Len(P) - Cardinality(Spots(P, F))
    BY <2>3, SinglesOfMade
  <2>5. Singles(P, F) \in Seq(Faces) /\ Len(Singles(P, F)) = 1
    BY <2>2, <2>3, <2>4
  <2>6. Singles(P, F)[1] \in Faces
    BY <2>5, ElementOfSeq
  <2> QED BY <2>5, <2>6 DEF F
<1> HIDE DEF P, q, f, g
<1>5. t \in Seq(Faces) /\ Len(t) = 3 /\ t[1] = f /\ t[2] = g /\ t[3] = q[1]
  BY <1>2, <1>4
<1>6. SinglesFrom(t, q, 2)
  BY <1>4, <1>5 DEF SinglesFrom
<1> HIDE DEF t
<1>7. Value(ToSet(P)) = [kind |-> KindOf(2, 2), ranks |-> t]
  <2>1. PICK n \in 2..3 : n = 2
    OBVIOUS
  <2>2. CountIn(P, f) = n /\ Len(t) = 5 - n /\ SinglesFrom(t, Singles(P, {f, g}), 2)
    BY <1>2, <1>5, <1>6, <2>1 DEF q
  <2>3. Value(ToSet(P)) = [kind |-> KindOf(n, 2), ranks |-> t]
    BY <1>2, <1>3, <1>5, <2>2, TwoHeads
  <2> QED BY <2>1, <2>3
<1>8. ToldBy(LD, <<f, g, q[1], 0, 0, 0>>) = t
  BY <1>2, <1>4, ToldThree DEF ToldBy, LD, SZ, THS, t
<1>9. Worth(LD, <<f, g, q[1], 0, 0, 0>>, P)
  BY <1>7, <1>8 DEF Worth, KindOf, LD
<1> QED BY <1>9 DEF P, q, f, g

LEMMA HLIsWorth ==
  ASSUME AnalystInv, next = HL
  PROVE  Worth(HL, <<HLBigger, HLSmaller, 0, 0, 0, 0>>, HLPokers(HLBigger, HLSmaller))
<1> DEFINE f == HLBigger
           g == HLSmaller
           P == HLPokers(f, g)
           t == <<f, g>>
<1>1. /\ f \in Faces /\ g \in Faces /\ Five(P) /\ f # g
      /\ CountIn(P, f) = 3 /\ CountIn(P, g) = 2
  BY HLShown
<1> HIDE DEF f, g, P
<1>2. ~OneColor(ToSet(P))
  BY <1>1, 3 > 2, TripleIsMixed
<1>3. t \in Seq(Faces) /\ Len(t) = 2 /\ t[1] = f /\ t[2] = g
  BY <1>1
<1> HIDE DEF t
<1>4. Value(ToSet(P)) = [kind |-> KindOf(3, 2), ranks |-> t]
  <2>1. PICK n \in 2..3 : n = 3
    OBVIOUS
  <2>2. CountIn(P, f) = n /\ Len(t) = 5 - n /\ SinglesFrom(t, Singles(P, {f, g}), 2) /\ (n = 2 => f > g)
    BY <1>1, <1>3, <2>1 DEF SinglesFrom
  <2>3. Value(ToSet(P)) = [kind |-> KindOf(n, 2), ranks |-> t]
    BY <1>1, <1>2, <1>3, <2>2, TwoHeads
  <2> QED BY <2>1, <2>3
<1>5. ToldBy(HL, <<f, g, 0, 0, 0, 0>>) = t
  BY <1>1, ToldTwo DEF ToldBy, HL, SZ, THS, t
<1>6. Worth(HL, <<f, g, 0, 0, 0, 0>>, P)
  BY <1>4, <1>5 DEF Worth, KindOf, HL
<1> QED BY <1>6 DEF f, g, P

\* Five cards from the largest down, by how often a face is among them.
LEMMA FiveOfAFaceCounts ==
  ASSUME Own(tmpPokers), Rising(tmpPokers), NEW f \in Faces, NEW n \in Nat, Count({f}) > 0,
         WithLz \in 0..1, Cardinality(PlacesOf({f}, n)) + WithLz = 5
  PROVE  LET five == FiveDownwards(PlacesOf({f}, n), f)
         IN  /\ Five(five) /\ Five(Reverse(five)) /\ Rising(Reverse(five))
             /\ CountIn(five, f) = Count({f}) + WithLz
             /\ \A g \in Faces \ {f} : CountIn(five, g) <= Count({g})
             /\ \A g : CountIn(Reverse(five), g) = CountIn(five, g)
<1> DEFINE S == PlacesOf({f}, n)
           five == FiveDownwards(S, f)
<1>1. S \in SUBSET (1..Len(tmpPokers)) /\ S \intersect Spots(tmpPokers, {f}) = Spots(tmpPokers, {f})
  BY PlacesOfFacts
<1>2. S \intersect Spots(tmpPokers, {f}) # {}
  <2>1. Cardinality(Spots(tmpPokers, {f})) > 0
    BY DEF Count
  <2>2. Spots(tmpPokers, {f}) # {}
    BY <2>1, FS_EmptySet
  <2> QED BY <1>1, <2>2
<1>3. Five(five) /\ Five(Reverse(five))
  BY FiveOfAFace
<1>4. Cardinality(S) + WithLz = 5
  OBVIOUS
<1> HIDE DEF S
<1>5. /\ \A F : Cardinality(Spots(five, F)) =
                  Cardinality(S \intersect Spots(tmpPokers, F)) + IF f \in F THEN WithLz ELSE 0
      /\ Rising(Reverse(five))
  <2>1. Cardinality(S) + WithLz >= 5
    BY <1>4
  <2> QED BY <1>1, <1>2, <1>4, <2>1, FiveDownwardsFacts
<1> HIDE DEF five
<1>6. CountIn(five, f) = Count({f}) + WithLz
  <2>1. Cardinality(Spots(five, {f})) = Cardinality(S \intersect Spots(tmpPokers, {f})) + WithLz
    BY <1>5
  <2> QED BY <1>1, <2>1 DEF CountIn, Count
<1>7. ASSUME NEW g \in Faces \ {f}
      PROVE  CountIn(five, g) <= Count({g})
  <2>1. f \notin {g}
    OBVIOUS
  <2>2. Cardinality(Spots(five, {g})) = Cardinality(S \intersect Spots(tmpPokers, {g})) + 0
    BY <1>5, <2>1
  <2>3. /\ Cardinality(S \intersect Spots(tmpPokers, {g})) \in Nat
        /\ Cardinality(S \intersect Spots(tmpPokers, {g})) <= Count({g})
    BY <1>1, PickedCount
  <2> QED BY <2>2, <2>3 DEF CountIn
<1>8. ASSUME NEW g
      PROVE  CountIn(Reverse(five), g) = CountIn(five, g)
  <2>1. five \in Seq(Poker) /\ Len(five) = 5
    BY <1>3 DEF Five, Made
  <2>2. 1..Len(five) \in SUBSET (1..Len(five)) /\ Picks(Reverse(five), five, 1..Len(five))
    BY <2>1, ReverseFacts
  <2> DEFINE F == {g}
             T == 1..Len(five)
  <2>3. T \intersect Spots(five, F) = Spots(five, F)
    <3> HIDE DEF F
    <3> QED BY <2>1, SpotsType
  <2> HIDE DEF F, T
  <2>4. Cardinality(Spots(Reverse(five), F)) = Cardinality(T \intersect Spots(five, F))
    BY <2>1, <2>2, PicksCount DEF T
  <2> QED BY <2>3, <2>4 DEF CountIn, F
<1> QED BY <1>3, <1>5, <1>6, <1>7, <1>8 DEF five, S

\* What is told of three of a kind, and of four.
LEMMA TripleIsWorth ==
  ASSUME NEW P, Five(P), NEW f \in Faces, CountIn(P, f) = 3,
         \A g \in Faces \ {f} : CountIn(P, g) <= 1, Rising(P)
  PROVE  LET q == Singles(P, {f}) IN Worth(ST3, <<f, 0, q[2], q[1], 0, 0>>, P)
<1> DEFINE q == Singles(P, {f})
           t == <<f, q[2], q[1]>>
<1>1. q \in Seq(Faces) /\ Len(q) = 2
  <2> DEFINE F == {f}
  <2>1. Made(P) /\ Len(P) = 5 /\ Cardinality(Spots(P, F)) = 3
    BY DEF Five, CountIn
  <2> HIDE DEF F
  <2>2. Singles(P, F) \in Seq(Faces) /\ Len(Singles(P, F)) = Len(P) - Cardinality(Spots(P, F))
    BY <2>1, SinglesOfMade
  <2> QED BY <2>1, <2>2 DEF F
<1>2. q[1] \in Faces /\ q[2] \in Faces
  BY <1>1, ElementOfSeq
<1>3. t \in Seq(Faces) /\ Len(t) = 3 /\ t[1] = f
  <2> HIDE DEF q
  <2> QED BY <1>2
<1>4. SinglesFrom(t, q, 1)
  <2> HIDE DEF q
  <2> QED BY <1>1 DEF SinglesFrom
<1>5. Value(ToSet(P)) = [kind |-> KindOf(3, 1), ranks |-> t]
  <2>1. PICK n \in 2..4 : n = 3
    OBVIOUS
  <2> DEFINE F == {f}
  <2>2. F = {f} /\ q = Singles(P, F)
    OBVIOUS
  <2>3. CountIn(P, f) = n /\ Len(t) = 6 - n /\ SinglesFrom(t, Singles(P, F), 1)
    BY <1>3, <1>4, <2>1
  <2>4. ~OneColor(ToSet(P))
    BY 3 > 2, TripleIsMixed
  <2>5. \A g \in Faces \ {f} : CountIn(P, g) <= 1
    OBVIOUS
  <2> HIDE DEF q, t, F
  <2>6. Value(ToSet(P)) = [kind |-> KindOf(n, 1), ranks |-> t]
    BY <1>3, <2>2, <2>3, <2>4, <2>5, OneHead
  <2> QED BY <2>1, <2>6
<1>6. ToldBy(ST3, <<f, 0, q[2], q[1], 0, 0>>) = t
  <2> HIDE DEF q
  <2> QED BY <1>2, ToldWithGap DEF ToldBy, ST3, SZ, THS
<1> HIDE DEF q, t
<1> QED BY <1>5, <1>6 DEF Worth, KindOf, ST3, q

LEMMA FourIsWorth ==
  ASSUME NEW P, Five(P), NEW f \in Faces, CountIn(P, f) = 4
  PROVE  LET q == Singles(P, {f}) IN q # <<>> /\ Worth(ST4, <<f, q[1], 0, 0, 0, 0>>, P)
<1> DEFINE q == Singles(P, {f})
           t == <<f, q[1]>>
<1>1. q \in Seq(Faces) /\ Len(q) = 1 /\ q # <<>>
  <2> DEFINE F == {f}
  <2>1. Made(P) /\ Len(P) = 5 /\ Cardinality(Spots(P, F)) = 4
    BY DEF Five, CountIn
  <2> HIDE DEF F
  <2>2. Singles(P, F) \in Seq(Faces) /\ Len(Singles(P, F)) = Len(P) - Cardinality(Spots(P, F))
    BY <2>1, SinglesOfMade
  <2>3. Len(Singles(P, F)) = 1
    BY <2>1, <2>2
  <2>4. Singles(P, F) # <<>>
    BY <2>3
  <2> QED BY <2>2, <2>3, <2>4 DEF F
<1>2. q[1] \in Faces
  BY <1>1, ElementOfSeq
<1>3. t \in Seq(Faces) /\ Len(t) = 2 /\ t[1] = f
  <2> HIDE DEF q
  <2> QED BY <1>2
<1>4. SinglesFrom(t, q, 1)
  <2> HIDE DEF q
  <2> QED BY <1>1 DEF SinglesFrom
<1>5. Value(ToSet(P)) = [kind |-> KindOf(4, 1), ranks |-> t]
  <2>1. PICK n \in 2..4 : n = 4
    OBVIOUS
  <2> DEFINE F == {f}
  <2>2. F = {f} /\ q = Singles(P, F)
    OBVIOUS
  <2>3. CountIn(P, f) = n /\ Len(t) = 6 - n /\ SinglesFrom(t, Singles(P, F), 1)
    BY <1>3, <1>4, <2>1
  <2>4. ~OneColor(ToSet(P))
    BY 4 > 2, TripleIsMixed
  <2>5. ASSUME NEW g \in Faces \ {f} PROVE CountIn(P, g) <= 1
    <3> DEFINE G == {f}
    <3>1. g \notin G /\ Cardinality(Spots(P, G)) = 4
      BY DEF CountIn
    <3> HIDE DEF G
    <3>2. Cardinality(Spots(P, G)) + CountIn(P, g) <= 5
      BY <3>1, OneMoreFace
    <3>3. CountIn(P, g) \in 0..5
      BY TimesIs
    <3> QED BY <3>1, <3>2, <3>3
  <2> HIDE DEF q, t, F
  <2>6. Value(ToSet(P)) = [kind |-> KindOf(n, 1), ranks |-> t]
    BY <1>3, <2>1, <2>2, <2>3, <2>4, <2>5, OneHead
  <2> QED BY <2>1, <2>6
<1>6. ToldBy(ST4, <<f, q[1], 0, 0, 0, 0>>) = t
  <2> HIDE DEF q
  <2> QED BY <1>2, ToldTwo DEF ToldBy, ST4, SZ, THS
<1> HIDE DEF q, t
<1> QED BY <1>1, <1>5, <1>6 DEF Worth, KindOf, ST4, q

LEMMA TZ3IsWorth ==
  ASSUME AnalystInv, next = ST3
  PROVE  LET q == Singles(TZ3Pokers(TZ3Face), {TZ3Face})
         IN  Worth(ST3, <<TZ3Face, 0, q[2], q[1], 0, 0>>, TZ3Pokers(TZ3Face))
<1> DEFINE f == TZ3Face
           t == TZ3Pokers(f)
<1>1. /\ Total \in 5..7 /\ WithLz \in 0..1 /\ Len(tmpPokers) = Total - WithLz
      /\ Own(tmpPokers) /\ Fits(ST3, seems, th, HaveLz, playChain) /\ Listed /\ Rising(tmpPokers)
  <2>1. next # NoMore
    BY DEF ST3, NoMore
  <2> QED BY <2>1, AtACheck DEF AnalystInv, Listed
<1>2. f \in Faces /\ Count({f}) + WithLz = 3 /\ Count({f}) \in 2..3
      /\ \A g \in Faces \ {f} : Count({g}) <= 1
  <2>1. PICK n \in 2..4 : n = IF HaveLz THEN 2 ELSE 3
    OBVIOUS
  <2>2. One(seems, n) /\ (\A m \in (2..4) \ {n} : None(seems, m)) /\ f = Max(Seen(seems, n))
    BY <1>1, <2>1 DEF TZ3Face, Fits, YD, DZ, LD, ST3, SZ, TH, HL, ST4
  <2> HIDE DEF f
  <2>3. f \in Faces /\ Count({f}) = n /\ \A g \in Faces \ {f} : Count({g}) <= 1
    BY <1>1, <2>2, OthersAlone
  <2> QED BY <2>1, <2>3 DEF WithLz
<1> HIDE DEF f
<1>3. Cardinality(PlacesOf({f}, 2)) + WithLz = 5
  <2> DEFINE F == {f}
  <2>1. Count(F) + WithLz = 3 /\ Count(F) \in 2..3
    BY <1>2
  <2> HIDE DEF F
  <2>2. Cardinality(PlacesOf(F, 2)) =
          Count(F) + IF 2 <= Len(tmpPokers) - Count(F) THEN 2 ELSE Len(tmpPokers) - Count(F)
    BY <1>1, PlacesOfFacts
  <2>3. Cardinality(PlacesOf(F, 2)) + WithLz = 5
    BY <1>1, <2>1, <2>2
  <2> QED BY <2>3 DEF F
<1> DEFINE five == FiveDownwards(PlacesOf({f}, 2), f)
<1>4. t = Reverse(five)
  BY DEF TZ3Pokers
<1> HIDE DEF t
<1>5. /\ Five(t) /\ Rising(t) /\ CountIn(t, f) = 3
      /\ \A g \in Faces \ {f} : CountIn(t, g) <= 1
  <2>1. /\ Five(five) /\ Five(Reverse(five)) /\ Rising(Reverse(five))
        /\ CountIn(five, f) = Count({f}) + WithLz
        /\ \A g \in Faces \ {f} : CountIn(five, g) <= Count({g})
        /\ \A g : CountIn(Reverse(five), g) = CountIn(five, g)
    <3>1. 2 \in Nat /\ Count({f}) > 0
      BY <1>2
    <3> QED BY <1>1, <1>2, <1>3, <3>1, FiveOfAFaceCounts
  <2> HIDE DEF five
  <2>3. ASSUME NEW g \in Faces \ {f} PROVE CountIn(five, g) <= 1
    <3>1. Count({g}) <= 1 /\ CountIn(five, g) <= Count({g})
      BY <1>2, <2>1
    <3>2. Count({g}) \in 0..4 /\ CountIn(five, g) \in 0..5
      BY <1>1, <2>1, SeenFacts, TimesIs
    <3> QED BY <3>1, <3>2
  <2> QED BY <1>2, <1>4, <2>1, <2>3
<1>6. LET q == Singles(t, {f}) IN Worth(ST3, <<f, 0, q[2], q[1], 0, 0>>, t)
  BY <1>2, <1>5, TripleIsWorth
<1> QED BY <1>6 DEF f, t

\* (five of a kind are told as four)
LEMMA TZ4IsWorth ==
  ASSUME AnalystInv, next = ST4, ~FourAndLz
  PROVE  LET q == Singles(TZ4Pokers(TZ4Face), {TZ4Face})
         IN  Worth(ST4, <<TZ4Face, IF q = <<>> THEN 0 ELSE q[1], 0, 0, 0, 0>>, TZ4Pokers(TZ4Face))
<1> DEFINE f == TZ4Face
           t == TZ4Pokers(f)
           q == Singles(t, {f})
<1>1. /\ Total \in 5..7 /\ WithLz \in 0..1 /\ Len(tmpPokers) = Total - WithLz
      /\ Own(tmpPokers) /\ Fits(ST4, seems, th, HaveLz, playChain) /\ Listed /\ Rising(tmpPokers)
  <2>1. next # NoMore
    BY DEF ST4, NoMore
  <2> QED BY <2>1, AtACheck DEF AnalystInv, Listed
<1>2. f \in Faces /\ Count({f}) + WithLz = 4 /\ Count({f}) \in 3..4
  <2>1. PICK n \in 2..4 : n = IF HaveLz THEN 3 ELSE 4
    OBVIOUS
  <2>2. Seen(seems, n) # {} /\ f = Max(Seen(seems, n))
    <3>1. PreCheckHaveTZ4(seems, HaveLz)
      BY <1>1 DEF Fits, YD, DZ, LD, ST3, SZ, TH, HL, ST4
    <3>2. CASE HaveLz
      <4>1. Seen(seems, 4) = {}
        BY <3>2 DEF FourAndLz
      <4>2. Seen(seems, 4) \union Seen(seems, 3) = Seen(seems, 3)
        BY <4>1
      <4> QED BY <2>1, <3>1, <3>2, <4>1, <4>2 DEF PreCheckHaveTZ4, TZ4Face
    <3>3. CASE ~HaveLz
      <4>1. Seen(seems, 4) \union {} = Seen(seems, 4)
        OBVIOUS
      <4> QED BY <2>1, <3>1, <3>3, <4>1 DEF PreCheckHaveTZ4, TZ4Face
    <3> QED BY <3>2, <3>3
  <2>3. Seen(seems, n) \in SUBSET Faces /\ \A g \in Seen(seems, n) : Count({g}) = n
    BY <1>1, SeenFacts
  <2> HIDE DEF f
  <2>4. f \in Faces /\ Count({f}) = n
    BY <2>2, <2>3, MaxFace
  <2> QED BY <2>1, <2>4 DEF WithLz
<1> HIDE DEF f
<1>3. Cardinality(PlacesOf({f}, 1)) + WithLz = 5
  <2> DEFINE F == {f}
  <2>1. Count(F) + WithLz = 4 /\ Count(F) \in 3..4
    BY <1>2
  <2> HIDE DEF F
  <2>2. Cardinality(PlacesOf(F, 1)) =
          Count(F) + IF 1 <= Len(tmpPokers) - Count(F) THEN 1 ELSE Len(tmpPokers) - Count(F)
    BY <1>1, PlacesOfFacts
  <2>3. Cardinality(PlacesOf(F, 1)) + WithLz = 5
    BY <1>1, <2>1, <2>2
  <2> QED BY <2>3 DEF F
<1> DEFINE five == FiveDownwards(PlacesOf({f}, 1), f)
<1>4. t = five
  BY DEF TZ4Pokers
<1>5. Five(five) /\ CountIn(five, f) = 4
  <2>1. Five(five) /\ CountIn(five, f) = Count({f}) + WithLz
    <3>1. 1 \in Nat /\ Count({f}) > 0
      BY <1>2
    <3> QED BY <1>1, <1>2, <1>3, <3>1, FiveOfAFaceCounts
  <2> QED BY <1>2, <2>1
<1> HIDE DEF t, five
<1>6. q # <<>> /\ Worth(ST4, <<f, q[1], 0, 0, 0, 0>>, t)
  BY <1>2, <1>4, <1>5, FourIsWorth
<1> HIDE DEF q
<1>7. Worth(ST4, <<f, IF q = <<>> THEN 0 ELSE q[1], 0, 0, 0, 0>>, t)
  BY <1>6
<1> QED BY <1>7 DEF f, t, q

-----------------------------------------------------------------------------
(* What straights and single cards are worth.                                *)

\* What is told of a straight, but for the one the wild card makes too small.
LEMMA WeightOfStraight ==
  ASSUME Listed, NEW P, NEW K, Straight(P, K), ~LzLiftsSmallest
  PROVE  LET top == IF Wheel(P) THEN 4 ELSE P[5].face
         IN  ToldBy(SZ, WeightOfSZ(P)) = <<top>> /\ ToldBy(THS, WeightOfSZ(P)) = <<top>>
<1> DEFINE top == IF Wheel(P) THEN 4 ELSE P[5].face
           low == HaveA /\ FacesOf(tmpPokers) = <<1, 2, 3, 4, Ace>>
<1>1. /\ Five(P) /\ Len(P) = 5 /\ DOMAIN P = 1..5 /\ \A i \in 1..5 : P[i].face \in Faces
      /\ Consecutive(P) \/ Wheel(P)
  BY MadeIsDistinct DEF Straight
<1>2. CASE low
  <2>1. ~HaveLz
    BY <1>2 DEF LzLiftsSmallest
  <2>2. /\ DOMAIN tmpPokers = 1..5 /\ tmpPokers[1].face = 1 /\ tmpPokers[2].face = 2
        /\ tmpPokers[3].face = 3 /\ tmpPokers[4].face = 4 /\ tmpPokers[5].face = 13
    <3>1. DOMAIN FacesOf(tmpPokers) = DOMAIN tmpPokers /\ \A i \in DOMAIN tmpPokers : FacesOf(tmpPokers)[i] = tmpPokers[i].face
      BY DEF FacesOf
    <3>2. DOMAIN <<1, 2, 3, 4, Ace>> = 1..5
      OBVIOUS
    <3>3. DOMAIN tmpPokers = 1..5
      BY <1>2, <3>1, <3>2
    <3>4. \A i \in 1..5 : tmpPokers[i].face = <<1, 2, 3, 4, Ace>>[i]
      BY <1>2, <3>1, <3>3
    <3> QED BY <3>3, <3>4 DEF Ace
  <2>3. ASSUME NEW i \in 1..5 PROVE P[i].face \in {1, 2, 3, 4, 13}
    <3>1. ~IsBorn(P[i])
      BY <1>1, <2>1, OwnOrBorn
    <3>2. P[i] \in ToSet(tmpPokers)
      BY <1>1, <3>1, OwnOrBorn DEF Listed
    <3>3. PICK j \in DOMAIN tmpPokers : P[i] = tmpPokers[j]
      BY <3>2 DEF ToSet
    <3>4. j = 1 \/ j = 2 \/ j = 3 \/ j = 4 \/ j = 5
      BY <2>2, <3>3
    <3> QED BY <2>2, <3>3, <3>4
  <2>4. ~Consecutive(P)
    <3>1. SUFFICES ASSUME Consecutive(P) PROVE FALSE
      OBVIOUS
    <3>2. /\ P[2].face = P[1].face + 1 /\ P[3].face = P[2].face + 1
          /\ P[4].face = P[3].face + 1 /\ P[5].face = P[4].face + 1
      BY <3>1 DEF Consecutive
    <3>3. P[1].face \in {1, 2, 3, 4, 13} /\ P[5].face \in {1, 2, 3, 4, 13}
      BY <2>3
    <3> QED BY <3>2, <3>3
  <2>5. Wheel(P) /\ WeightOfSZ(P) = NoWeight
    BY <1>1, <1>2, <2>4 DEF WeightOfSZ
  <2> QED BY <2>5 DEF ToldBy
<1>3. CASE ~low
  <2>1. WeightOfSZ(P) = [NoWeight EXCEPT ![6] = P[5].face]
    BY <1>1, <1>3 DEF WeightOfSZ
  <2>2. top = P[5].face
    <3>1. CASE Wheel(P)
      <4>1. FacesOf(P)[5] = P[5].face
        BY <1>1 DEF FacesOf
      <4>2. Smallest[5] = 4
        BY DEF Smallest
      <4> QED BY <3>1, <4>1, <4>2 DEF Wheel
    <3> QED BY <3>1
  <2>3. P[5].face \in Faces
    BY <1>1
  <2> DEFINE f == P[5].face
  <2> HIDE DEF f
  <2>4. LET w == [NoWeight EXCEPT ![6] = f] IN AtPlaces(w, NotZero(w)) = <<f>> /\ w # NoWeight
    BY <2>3, ToldRow DEF f
  <2> QED BY <2>1, <2>2, <2>4 DEF ToldBy, f
<1> QED BY <1>2, <1>3

LEMMA BiggestIsRoyal ==
  ASSUME NEW P, NEW K, Straight(P, K)
  PROVE  IsBiggestSZ(P) <=> (IF Wheel(P) THEN 4 ELSE P[5].face) = Ace
<1>1. /\ Len(P) = 5 /\ DOMAIN P = 1..5 /\ P[4].face \in Faces /\ P[5].face \in Faces
      /\ Consecutive(P) \/ Wheel(P)
  BY MadeIsDistinct DEF Straight
<1>2. P # <<>>
  BY <1>1
<1>3. Wheel(P) => P[5].face = 4
  <2>1. FacesOf(P)[5] = P[5].face
    BY <1>1 DEF FacesOf
  <2> QED BY <2>1 DEF Wheel, Smallest
<1>4. Consecutive(P) => P[5].face = P[4].face + 1
  <2>1. Consecutive(P) => P[4 + 1].face = P[4].face + 1
    BY DEF Consecutive
  <2> QED BY <2>1
<1>5. P[4].face \in Int
  BY <1>1 DEF Faces
<1> QED BY <1>1, <1>2, <1>3, <1>4, <1>5 DEF IsBiggestSZ, Ace

LEMMA SZIsWorth ==
  ASSUME AnalystInv, Complete, next = SZ, RowIn(shunZi) # <<>>, ~LzLiftsSmallest
  PROVE  Worth(SZ, WeightOfSZ(RowIn(shunZi)), RowIn(shunZi))
<1> DEFINE P == RowIn(shunZi)
           top == IF Wheel(P) THEN 4 ELSE P[5].face
<1>1. /\ Fits(SZ, seems, th, HaveLz, playChain) /\ Listed
  <2>1. next # NoMore
    BY DEF SZ, NoMore
  <2> QED BY <2>1, AtACheck DEF AnalystInv
<1>2. Straight(P, Colors)
  BY SZShown
<1> HIDE DEF P
<1>3. Five(P) /\ (Consecutive(P) \/ Wheel(P))
  BY <1>2 DEF Straight
<1>4. ~OneColor(ToSet(P))
  <2>1. ~Flush(th, IF HaveLz THEN 4 ELSE 5)
    BY <1>1 DEF Fits
  <2> QED BY <1>1, <1>3, <2>1, NoFlushIsMixed
<1>5. Value(ToSet(P)) = [kind |-> SZ, ranks |-> <<top>>]
  BY <1>3, <1>4, ValueOfRow
<1>6. ToldBy(SZ, WeightOfSZ(P)) = <<top>>
  BY <1>1, <1>2, WeightOfStraight
<1>7. Worth(SZ, WeightOfSZ(P), P)
  BY <1>5, <1>6 DEF Worth
<1> QED BY <1>7 DEF P

LEMMA THSIsWorth ==
  ASSUME AnalystInv, next = TH, RowOfColor # <<>>, ~LzLiftsSmallest
  PROVE  IF IsBiggestSZ(RowOfColor)
         THEN Worth(HJTHS, NoWeight, RowOfColor)
         ELSE Worth(THS, WeightOfSZ(RowOfColor), RowOfColor)
<1> DEFINE P == RowOfColor
           top == IF Wheel(P) THEN 4 ELSE P[5].face
<1>1. Listed
  BY DEF AnalystInv
<1>2. OfOneColor(P)
  BY THShown
<1> HIDE DEF P
<1>3. PICK c \in Colors : Straight(P, {c})
  BY <1>2 DEF OfOneColor
<1>4. Five(P) /\ (Consecutive(P) \/ Wheel(P)) /\ \A i \in 1..5 : P[i].color = c
  BY <1>3 DEF Straight, ColoredIn, Five
<1>5. OneColor(ToSet(P))
  BY <1>4, AllOneColor
<1>6. Value(ToSet(P)) = IF top = Ace THEN [kind |-> HJTHS, ranks |-> <<>>]
                        ELSE [kind |-> THS, ranks |-> <<top>>]
  BY <1>4, <1>5, ValueOfRow
<1>7. IsBiggestSZ(P) <=> top = Ace
  BY <1>3, BiggestIsRoyal
<1>8. ToldBy(THS, WeightOfSZ(P)) = <<top>>
  BY <1>1, <1>3, WeightOfStraight
<1>9. ToldBy(HJTHS, NoWeight) = <<>>
  BY ToldNothing DEF ToldBy, HJTHS, SZ, THS
<1> HIDE DEF top
<1>10. IF IsBiggestSZ(P) THEN Worth(HJTHS, NoWeight, P) ELSE Worth(THS, WeightOfSZ(P), P)
  BY <1>6, <1>7, <1>8, <1>9 DEF Worth
<1> QED BY <1>10 DEF P

-----------------------------------------------------------------------------
(* No straight is left out.                                                  *)

\* A2345 is found where at most so many of its faces are lacking.
LEMMA SmallestIsFound ==
  ASSUME NEW s, Own(s), NEW mayLack \in {0, 1}, NEW n \in 0..5, mayLack = 0 => n = 0,
         \A k \in 1..5 : k # n => \E i \in 1..Len(s) : s[i].face = Smallest[k]
  PROVE  SmallestSZ(s, mayLack) # <<>>
<1> DEFINE at(f) == {i \in DOMAIN s : s[i].face = f}
           lack  == {k \in 1..5 : at(Smallest[k]) = {}}
           row == [k \in 1..5 |-> IF k \in lack THEN BornALaiZi(Smallest[k], s[1].color)
                                  ELSE s[Max(at(Smallest[k]))]]
<1>1. DOMAIN s = 1..Len(s)
  BY LenProperties DEF Own
<1>2. \A k \in lack : k = n
  BY <1>1
<1>3. lack \in SUBSET {n} /\ (n = 0 => lack = {})
  <2>1. \A k \in lack : k \in 1..5
    OBVIOUS
  <2> HIDE DEF lack
  <2> QED BY <1>2, <2>1
<1> HIDE DEF lack
<1>4. IsFiniteSet(lack) /\ Cardinality(lack) \in Nat /\ Cardinality(lack) <= mayLack
  <2>1. IsFiniteSet({n}) /\ Cardinality({n}) = 1
    BY FS_Singleton
  <2> DEFINE N == {n}
  <2>a. lack \in SUBSET N /\ IsFiniteSet(N) /\ Cardinality(N) = 1
    BY <1>3, <2>1
  <2> HIDE DEF N
  <2>b. IsFiniteSet(lack) /\ Cardinality(lack) <= Cardinality(N)
    BY <2>a, FS_Subset
  <2>2. IsFiniteSet(lack) /\ Cardinality(lack) <= 1 /\ Cardinality(lack) \in Nat
    BY <2>a, <2>b, FS_CardinalityType
  <2>3. lack = {} => Cardinality(lack) = 0
    BY FS_EmptySet
  <2> QED BY <1>3, <2>2, <2>3
<1>5. SmallestSZ(s, mayLack) = row
  <2>1. SmallestSZ(s, mayLack) = IF Cardinality(lack) > mayLack THEN <<>> ELSE row
    BY DEF SmallestSZ, lack
  <2> HIDE DEF row
  <2> QED BY <1>4, <2>1
<1>6. DOMAIN row = 1..5
  OBVIOUS
<1> HIDE DEF row
<1>7. DOMAIN <<>> = {}
  OBVIOUS
<1>8. 1 \in 1..5
  OBVIOUS
<1> QED BY <1>5, <1>6, <1>7, <1>8

\* The n last cards of a list.
LEMMA LastOfFacts ==
  ASSUME NEW s, Own(s), Strict(s), NEW n \in {4, 5}, Len(s) >= n
  PROVE  LET P == LastOf(s, n)
         IN  /\ Own(P) /\ Strict(P) /\ Len(P) = n /\ P \in Seq(Card)
             /\ \A i \in 1..n : P[i] \in Card /\ P[i] \in originPokers
             /\ \A i \in 1..n : \E j \in 1..Len(s) : P[i] = s[j]
<1>1. Len(s) \in Nat
  BY LenProperties DEF Own
<1>2. PICK a \in Nat \ {0}, b \in Nat : a = Len(s) - n + 1 /\ b = Len(s)
  <2>1. Len(s) - n + 1 \in Nat \ {0}
    BY <1>1
  <2> QED BY <1>1, <2>1
<1>3. a <= b /\ b <= Len(s) /\ b - a + 1 = n
  BY <1>1, <1>2
<1> DEFINE t == SubSeq(s, a, b)
<1>4. /\ Own(t) /\ Strict(t) /\ Len(t) = b - a + 1
      /\ \A i \in 1..b - a + 1 : t[i] = s[a + i - 1] /\ a + i - 1 \in 1..Len(s)
  BY <1>3, StrictPart
<1>5. LastOf(s, n) = t
  BY <1>2 DEF LastOf
<1> HIDE DEF t
<1>6. t \in Seq(Card) /\ \A i \in 1..n : t[i] \in Card /\ t[i] \in originPokers
  <2>1. t \in Seq(Card) /\ Len(t) = n
    BY <1>3, <1>4 DEF Own
  <2>2. \A i \in 1..n : t[i] \in Card
    BY <2>1, ElementOfSeq
  <2> QED BY <1>4, <2>1, <2>2 DEF Own
<1> QED BY <1>3, <1>4, <1>5, <1>6

\* Without the wild card no straight is among the last five of a list in which
\* none is found.
LEMMA LastFiveNoRow ==
  ASSUME NEW s, Own(s), Strict(s), Len(s) >= 5, ~HaveLz, RowIn(s) = <<>>
  PROVE  LET P == LastOf(s, 5) IN Five(P) /\ Strict(P) /\ ~InARow(ToSet(P))
<1> DEFINE P == LastOf(s, 5)
<1>1. /\ Own(P) /\ Strict(P) /\ Len(P) = 5
      /\ \A i \in 1..5 : P[i] \in Card /\ P[i] \in originPokers
      /\ \A i \in 1..5 : \E j \in 1..Len(s) : P[i] = s[j]
  BY LastOfFacts
<1>2. Five(P)
  BY <1>1, OwnIsMade DEF Five
<1>3. ColoredIn(s, Colors)
  <2>1. \A i \in 1..Len(s) : s[i] \in Card
    BY ElementOfSeq DEF Own
  <2> QED BY <2>1, CardFacts DEF ColoredIn
<1>4. CutSZForCheck(s, 5) = <<>> /\ ~Consecutive(P)
  <2>1. PICK n \in {4, 5} : n = 5
    OBVIOUS
  <2>2. CanLook(n)
    BY <2>1 DEF CanLook
  <2>3. Len(s) >= n /\ (IF n = 5 THEN Consecutive(SubSeq(s, Len(s) - n + 1, Len(s)))
                        ELSE OneGap(SubSeq(s, Len(s) - n + 1, Len(s))))
          => CutSZForCheck(s, n) # <<>>
    BY <1>3, <2>2, CutFacts
  <2>4. Consecutive(P) => CutSZForCheck(s, 5) # <<>>
    BY <2>1, <2>3 DEF LastOf
  <2>5. CutSZForCheck(s, 5) = <<>>
    BY DEF RowIn, CheckSZNotFormat
  <2> QED BY <2>4, <2>5
<1>5. SUFFICES ASSUME InARow(ToSet(P)) PROVE FALSE
  BY <1>1, <1>2
<1> HIDE DEF P
<1>6. P[1].face = 1 /\ P[2].face = 2 /\ P[3].face = 3 /\ P[4].face = 4 /\ P[5].face = Ace
  BY <1>1, <1>2, <1>4, <1>5, RowOfStrict
<1>7. HaveA
  <2>1. P[5] \in originPokers
    BY <1>1
  <2> QED BY <1>6, <2>1 DEF HaveA
<1>8. SmallestSZ(s, 0) # <<>>
  <2>1. ASSUME NEW k \in 1..5 PROVE \E i \in 1..Len(s) : s[i].face = Smallest[k]
    <3> DEFINE m == IF k = 1 THEN 5 ELSE k - 1
    <3>1. m \in 1..5
      OBVIOUS
    <3>2. P[m].face = Smallest[k]
      <4>1. k = 1 \/ k = 2 \/ k = 3 \/ k = 4 \/ k = 5
        OBVIOUS
      <4> QED BY <1>6, <4>1 DEF Smallest
    <3> HIDE DEF m
    <3> QED BY <1>1, <3>1, <3>2
  <2>2. PICK n \in 0..5, l \in {0, 1} : n = 0 /\ l = 0
    OBVIOUS
  <2>3. SmallestSZ(s, l) # <<>>
    BY <2>1, <2>2, SmallestIsFound
  <2> QED BY <2>2, <2>3
<1>9. Len(s) > 4
  BY LenProperties DEF Own
<1> QED BY <1>4, <1>7, <1>8, <1>9 DEF RowIn, CheckSZNotFormat, HaveSmallestSZ

\* With it, none is made by the last four and any card they have not.
LEMMA LastFourNoRow ==
  ASSUME NEW s, Own(s), Strict(s), Len(s) >= 4, HaveLz, RowIn(s) = <<>>,
         NEW f \in Faces, NEW c \in Colors, \A i \in 1..4 : LastOf(s, 4)[i].face # f
  PROVE  LET P == SortAppendPokerWithoutSeem(LastOf(s, 4), BornALaiZi(f, c))
         IN  Five(P) /\ Strict(P) /\ ~InARow(ToSet(P))
<1> DEFINE four == LastOf(s, 4)
           b == BornALaiZi(f, c)
           P == SortAppendPokerWithoutSeem(four, b)
<1>1. /\ Own(four) /\ Strict(four) /\ Len(four) = 4
      /\ \A i \in 1..4 : four[i] \in Card
      /\ \A i \in 1..4 : \E j \in 1..Len(s) : four[i] = s[j]
  BY LastOfFacts
<1>2. Five(P) /\ Strict(P) /\ \E n \in 1..5 : GoesTo(Poker, four, n, b, P)
  <2>1. \A i \in 1..4 : four[i].face # f
    OBVIOUS
  <2> HIDE DEF four
  <2> QED BY <1>1, <2>1, FourAndBorn
<1>3. ColoredIn(s, Colors)
  <2>1. \A i \in 1..Len(s) : s[i] \in Card
    BY ElementOfSeq DEF Own
  <2> QED BY <2>1, CardFacts DEF ColoredIn
<1>4. CutSZForCheck(s, 4) = <<>> /\ ~OneGap(four)
  <2>1. PICK n \in {4, 5} : n = 4
    OBVIOUS
  <2>2. CanLook(n)
    BY <2>1 DEF CanLook
  <2>3. Len(s) >= n /\ (IF n = 5 THEN Consecutive(SubSeq(s, Len(s) - n + 1, Len(s)))
                        ELSE OneGap(SubSeq(s, Len(s) - n + 1, Len(s))))
          => CutSZForCheck(s, n) # <<>>
    BY <1>3, <2>2, CutFacts
  <2>4. OneGap(four) => CutSZForCheck(s, 4) # <<>>
    BY <2>1, <2>3 DEF LastOf
  <2>5. CutSZForCheck(s, 4) = <<>>
    BY DEF RowIn, CheckSZNotFormatWithLz
  <2> QED BY <2>4, <2>5
<1>5. SUFFICES ASSUME InARow(ToSet(P)) PROVE FALSE
  BY <1>2
<1>6. PICK n \in 1..5 : GoesTo(Poker, four, n, b, P)
  BY <1>2
<1> HIDE DEF P, four, b
<1>7. /\ \A i \in 1..n - 1 : P[i] = four[i]
      /\ \A i \in n..4 : P[i + 1] = four[i]
  BY <1>1, <1>6 DEF GoesTo, IsInserted
<1>8. CASE Consecutive(P)
  <2> DEFINE g == IF n = 5 THEN 0 ELSE n - 1
  <2>1. g \in 0..3
    OBVIOUS
  <2>a. Five(P)
    BY <1>2
  <2>b. \A i \in 1..5 : P[i].face \in Faces
    BY <2>a, MadeIsDistinct
  <2>2. \A i \in 1..5 : P[i].face \in Int
    BY <2>b DEF Faces
  <2>3. \A i \in 1..4 : P[i + 1].face = P[i].face + 1
    BY <1>8 DEF Consecutive
  <2>4. ASSUME NEW i \in 1..3 PROVE four[i + 1].face = four[i].face + IF i = g THEN 2 ELSE 1
    <3>1. CASE i + 1 < n
      <4>1. i \in 1..n - 1 /\ i + 1 \in 1..n - 1 /\ i \in 1..4 /\ i # g
        BY <3>1
      <4> HIDE DEF g
      <4> QED BY <1>7, <2>3, <4>1
    <3>2. CASE i + 1 = n
      <4>1. i \in 1..n - 1 /\ i + 1 \in n..4 /\ i \in 1..4 /\ i + 1 \in 1..4 /\ i = g
        BY <3>2
      <4> HIDE DEF g
      <4>2. four[i] = P[i] /\ four[i + 1] = P[i + 1 + 1]
        BY <1>7, <4>1
      <4>3. P[i + 1 + 1].face = P[i + 1].face + 1 /\ P[i + 1].face = P[i].face + 1
        BY <2>3, <4>1
      <4>4. P[i].face \in Int
        BY <2>2, <4>1
      <4> QED BY <4>1, <4>2, <4>3, <4>4
    <3>3. CASE i + 1 > n
      <4>1. i \in n..4 /\ i + 1 \in n..4 /\ i + 1 \in 1..4 /\ i # g
        BY <3>3
      <4> HIDE DEF g
      <4>2. four[i] = P[i + 1] /\ four[i + 1] = P[i + 1 + 1]
        BY <1>7, <4>1
      <4> QED BY <2>3, <4>1, <4>2
    <3> QED BY <3>1, <3>2, <3>3
  <2> HIDE DEF g
  <2>5. OneGap(four)
    BY <2>1, <2>4 DEF OneGap
  <2> QED BY <1>4, <2>5
<1>9. CASE P[1].face = 1 /\ P[2].face = 2 /\ P[3].face = 3 /\ P[4].face = 4 /\ P[5].face = Ace
  <2> DEFINE lack == IF n = 5 THEN 1 ELSE n + 1
  <2>1. lack \in 0..5
    OBVIOUS
  <2>2. ASSUME NEW k \in 1..5, k # lack PROVE \E i \in 1..Len(s) : s[i].face = Smallest[k]
    <3> DEFINE m == IF k = 1 THEN 5 ELSE k - 1
    <3>1. m \in 1..5 /\ m # n
      BY <2>2
    <3>2. P[m].face = Smallest[k]
      <4>1. k = 1 \/ k = 2 \/ k = 3 \/ k = 4 \/ k = 5
        OBVIOUS
      <4> QED BY <1>9, <4>1 DEF Smallest
    <3> HIDE DEF m, lack
    <3>3. \E i \in 1..4 : P[m] = four[i]
      <4>1. CASE m < n
        <5>1. m \in 1..n - 1 /\ m \in 1..4
          BY <3>1, <4>1
        <5> QED BY <1>7, <5>1
      <4>2. CASE m > n
        <5>1. m - 1 \in n..4 /\ m - 1 \in 1..4 /\ (m - 1) + 1 = m
          BY <3>1, <4>2
        <5>2. P[(m - 1) + 1] = four[m - 1]
          BY <1>7, <5>1
        <5> QED BY <5>1, <5>2
      <4> QED BY <3>1, <4>1, <4>2
    <3> QED BY <1>1, <3>2, <3>3
  <2> HIDE DEF lack
  <2>3. SmallestSZ(s, 1) # <<>>
    <3>1. PICK l \in {0, 1} : l = 1
      OBVIOUS
    <3>2. SmallestSZ(s, l) # <<>>
      BY <2>1, <2>2, <3>1, SmallestIsFound
    <3> QED BY <3>1, <3>2
  <2>4. Len(s) > 3
    BY LenProperties DEF Own
  <2> QED BY <1>4, <2>3, <2>4 DEF RowIn, CheckSZNotFormatWithLz, HaveSmallestSZWithLz
<1> QED BY <1>2, <1>5, <1>8, <1>9, RowOfStrict DEF P

\* What is left where no other check finds a hand.
LEMMA SinglesAreWorth ==
  ASSUME NEW P, Five(P), Strict(P), ~InARow(ToSet(P)), NEW kind \in {DZ, TH},
         OneColor(ToSet(P)) <=> kind = TH
  PROVE  Worth(kind, WeightOfDZ(P), P)
<1>1. Value(ToSet(P)) = [kind |-> kind, ranks |-> Descending(P)]
  BY ValueOfStrict
<1>2. ToldBy(kind, WeightOfDZ(P)) = Descending(P)
  BY ToldSingles DEF ToldBy, DZ, TH, SZ, THS
<1> QED BY <1>1, <1>2 DEF Worth

LEMMA DZIsWorth ==
  ASSUME AnalystInv, Complete, next = DZ, RowIn(shunZi) = <<>>
  PROVE  LET P == SubSeq(tmpPokers, Total - 4, Total) IN Worth(DZ, WeightOfDZ(P), P)
<1>1. /\ Listed /\ Total \in 5..7 /\ ~HaveLz /\ Len(tmpPokers) = Total
      /\ None(seems, 2) /\ None(seems, 3) /\ None(seems, 4)
      /\ ~Flush(th, IF HaveLz THEN 4 ELSE 5)
  <2>1. next # NoMore
    BY DEF DZ, NoMore
  <2>2. Fits(DZ, seems, th, HaveLz, playChain)
    BY <2>1, AtACheck
  <2>3. /\ ~HaveLz /\ None(seems, 2) /\ None(seems, 3) /\ None(seems, 4)
        /\ ~Flush(th, IF HaveLz THEN 4 ELSE 5)
    BY <2>2 DEF Fits
  <2>4. WithLz = 0
    BY <2>3 DEF WithLz
  <2>5. Total \in 5..7 /\ Len(tmpPokers) = Total - WithLz
    BY <2>1, AtACheck
  <2> QED BY <2>3, <2>4, <2>5 DEF AnalystInv
<1>2. shunZi = tmpPokers
  <2>1. \A f \in Faces : Count({f}) \in 0..1
    BY <1>1, SeenFacts DEF None
  <2>2. \A f \in Faces : Count({f}) <= 1
    BY <2>1
  <2> QED BY <2>2 DEF Complete
<1>3. Own(shunZi) /\ Strict(shunZi) /\ Len(shunZi) >= 5
  BY <1>1, <1>2 DEF Listed
<1> DEFINE P == LastOf(shunZi, 5)
<1>4. Five(P) /\ Strict(P) /\ ~InARow(ToSet(P))
  BY <1>1, <1>3, LastFiveNoRow
<1>5. P = SubSeq(tmpPokers, Total - 4, Total)
  <2>1. Total - 5 + 1 = Total - 4
    BY <1>1
  <2> QED BY <1>1, <1>2, <2>1 DEF LastOf
<1> HIDE DEF P
<1>6. ~OneColor(ToSet(P))
  BY <1>1, <1>4, NoFlushIsMixed
<1>7. DZ \in {DZ, TH} /\ DZ # TH
  BY DEF DZ, TH
<1>8. Worth(DZ, WeightOfDZ(P), P)
  BY <1>4, <1>6, <1>7, SinglesAreWorth
<1> QED BY <1>5, <1>8

LEMMA THIsWorth ==
  ASSUME AnalystInv, next = TH, RowOfColor = <<>>
  PROVE  Worth(TH, WeightOfDZ(THPokers), THPokers)
<1> DEFINE P == THPokers
<1>1. Listed /\ Five(P)
  BY THShown DEF AnalystInv
<1>2. PICK c \in Colors : FlushOf(c, P)
  BY THShown
<1> HIDE DEF P
<1> DEFINE s == th[c]
<1>3. Own(s) /\ Strict(s) /\ s \in Seq(Card) /\ Len(s) \in Nat /\ \A i \in 1..Len(s) : s[i].color = c
  <2>1. InColor(s, c)
    BY <1>1 DEF Listed
  <2> HIDE DEF s
  <2> QED BY <2>1, LenProperties DEF InColor, Own
<1>4. RowIn(s) = <<>>
  <2>1. ASSUME NEW d \in Colors PROVE Own(th[d]) /\ Strict(th[d]) /\ ColoredIn(th[d], {d})
    <3>1. InColor(th[d], d)
      BY <1>1 DEF Listed
    <3> QED BY <3>1 DEF InColor, ColoredIn
  <2>2. RowOfColor = <<>> => \A d \in Colors : RowIn(th[d]) = <<>>
    BY <2>1, RowOfColorFacts
  <2> QED BY <2>2
<1>5. Strict(P) /\ ~InARow(ToSet(P)) /\ \A i \in 1..5 : P[i].color = c
  <2>1. CASE ~HaveLz
    <3>1. Len(s) >= 5 /\ P = LastOf(s, 5)
      BY <1>2, <2>1 DEF FlushOf
    <3> HIDE DEF s
    <3>2. Strict(P) /\ ~InARow(ToSet(P))
      BY <1>3, <1>4, <2>1, <3>1, LastFiveNoRow
    <3>3. \A i \in 1..5 : \E j \in 1..Len(s) : P[i] = s[j]
      <4>1. PICK n \in {4, 5} : n = 5
        OBVIOUS
      <4>2. Len(s) >= n
        BY <3>1, <4>1
      <4>3. \A i \in 1..n : \E j \in 1..Len(s) : LastOf(s, n)[i] = s[j]
        BY <1>3, <4>2, LastOfFacts, ZenonT(60)
      <4> QED BY <3>1, <4>1, <4>3
    <3> QED BY <1>3, <3>2, <3>3
  <2>2. CASE HaveLz
    <3>1. Len(s) >= 4
      BY <1>2, <2>2 DEF FlushOf
    <3> DEFINE four == LastOf(s, 4)
    <3>2. PICK f \in Faces : /\ \A i \in 1..4 : four[i].face # f
                             /\ P = SortAppendPokerWithoutSeem(four, BornALaiZi(f, c))
      BY <1>2, <2>2 DEF FlushOf
    <3> HIDE DEF s
    <3>3. /\ Own(four) /\ Strict(four) /\ Len(four) = 4
          /\ \A i \in 1..4 : \E j \in 1..Len(s) : four[i] = s[j]
      <4>1. PICK n \in {4, 5} : n = 4
        OBVIOUS
      <4>2. Len(s) >= n
        BY <3>1, <4>1
      <4>3. /\ Own(LastOf(s, n)) /\ Strict(LastOf(s, n)) /\ Len(LastOf(s, n)) = n
            /\ \A i \in 1..n : \E j \in 1..Len(s) : LastOf(s, n)[i] = s[j]
        BY <1>3, <4>2, LastOfFacts, ZenonT(60)
      <4> QED BY <4>1, <4>3
    <3>4. Strict(P) /\ ~InARow(ToSet(P))
      BY <1>3, <1>4, <2>2, <3>1, <3>2, LastFourNoRow
    <3> DEFINE b == BornALaiZi(f, c)
    <3> HIDE DEF four
    <3>5. \E n \in 1..5 : GoesTo(Poker, four, n, b, P)
      BY <2>2, <3>2, <3>3, FourAndBorn
    <3>6. b.color = c
      BY DEF BornALaiZi
    <3> HIDE DEF b
    <3>7. PICK n \in 1..5 : GoesTo(Poker, four, n, b, P)
      BY <3>5
    <3>8. /\ \A i \in 1..n - 1 : P[i] = four[i]
          /\ \A i \in n..4 : P[i + 1] = four[i]
          /\ P[n] = b
      BY <3>3, <3>7 DEF GoesTo, IsInserted
    <3>9. ASSUME NEW i \in 1..5 PROVE P[i].color = c
      <4>1. \A j \in 1..4 : four[j].color = c
        BY <1>3, <3>3
      <4>2. CASE i < n
        <5>1. i \in 1..n - 1 /\ i \in 1..4
          BY <4>2
        <5> QED BY <3>8, <4>1, <5>1
      <4>3. CASE i > n
        <5>1. i - 1 \in n..4 /\ i - 1 \in 1..4 /\ (i - 1) + 1 = i
          BY <4>3
        <5>2. P[(i - 1) + 1] = four[i - 1]
          BY <3>8, <5>1
        <5> QED BY <4>1, <5>1, <5>2
      <4> QED BY <3>6, <3>8, <4>2, <4>3
    <3> QED BY <3>4, <3>9
  <2> QED BY <2>1, <2>2
<1>6. OneColor(ToSet(P)) /\ TH \in {DZ, TH}
  BY <1>1, <1>5, AllOneColor
<1>7. Worth(TH, WeightOfDZ(P), P)
  BY <1>1, <1>5, <1>6, SinglesAreWorth
<1> QED BY <1>7 DEF P

-----------------------------------------------------------------------------
(* The hand that is shown is worth what is told.                             *)

\* Where the last check is made no straight was found, and the result is right.
Left == next = DZ => RowIn(shunZi) = <<>>

Weighed ==
  Finished /\ ~FourAndLz /\ ~LzLiftsSmallest => Worth(handType, handWeight, checkedPokers)

WorthInv == AnalystInv /\ Complete /\ Left /\ Weighed

LEMMA DealingTells ==
  ASSUME UNCHANGED dealing, Complete
  PROVE  /\ Complete' /\ FourAndLz' = FourAndLz /\ LzLiftsSmallest' = LzLiftsSmallest
         /\ RowIn(shunZi)' = RowIn(shunZi)
<1>1. /\ deal' = deal /\ originPokers' = originPokers /\ tmpPokers' = tmpPokers
      /\ th' = th /\ shunZi' = shunZi /\ seems' = seems
  BY DEF dealing
<1>2. Complete'
  BY <1>1 DEF Complete, Count, Spots
<1>3. FourAndLz' = FourAndLz /\ LzLiftsSmallest' = LzLiftsSmallest
  BY <1>1 DEF FourAndLz, LzLiftsSmallest, HaveLz
<1>4. RowIn(shunZi)' = RowIn(shunZi)
  BY <1>1 DEF RowIn, CheckSZNotFormat, CheckSZNotFormatWithLz, HaveLz, HaveA
<1> QED BY <1>2, <1>3, <1>4

\* A check that finds a hand worth what it says keeps the invariant.
LEMMA FoundIsWorth ==
  ASSUME WorthInv, AnalystInv', NEW kind, NEW weight, NEW pokers, Found(kind, weight, pokers),
         ~FourAndLz /\ ~LzLiftsSmallest => Worth(kind, weight, pokers), next' # DZ
  PROVE  WorthInv'
<1>1. /\ handType' = kind /\ handWeight' = weight /\ checkedPokers' = pokers
      /\ UNCHANGED dealing
  BY DEF Found
<1>2. Complete' /\ FourAndLz' = FourAndLz /\ LzLiftsSmallest' = LzLiftsSmallest
  BY <1>1, DealingTells DEF WorthInv
<1>3. Weighed'
  BY <1>1, <1>2 DEF Weighed
<1>4. Left'
  BY DEF Left
<1> QED BY <1>2, <1>3, <1>4 DEF WorthInv

\* The lists of the colors once another card is among the others.
LEMMA CompleteStays ==
  ASSUME Dealt, Listed, Complete, NEW poker \in Card, poker \notin originPokers,
         tmpPokers' = SortAppendPoker(tmpPokers, poker),
         th' = [th EXCEPT ![poker.color] = SortAppendPoker(@, poker)],
         shunZi' = SortAppendPokerWithoutSeem(shunZi, poker)
  PROVE  Complete'
<1> DEFINE from == originPokers
           all == tmpPokers'
           c0 == poker.color
           s0 == th[c0]
           t0 == SortAppendPoker(s0, poker)
<1>1. poker.face \in Faces /\ c0 \in Colors /\ \A p \in Card : p.face \in Faces /\ p.color \in Colors
  BY CardFacts
<1>2. OwnOf(tmpPokers, from) /\ Rising(tmpPokers) /\ tmpPokers \in Seq(Card)
  BY DEF Listed, Own, OwnOf
<1>3. WithCard(tmpPokers, from, poker, all)
  <2>1. Placed(Card, tmpPokers, poker, all)
    BY <1>2, SortedPlaces
  <2> HIDE DEF all
  <2> QED BY <1>2, <2>1, CardPlaced
<1>4. ToSet(t0) = ToSet(s0) \union {poker}
  <2>1. OwnOf(s0, from) /\ Strict(s0) /\ s0 \in Seq(Card)
    BY <1>1 DEF Listed, InColor, Own, OwnOf
  <2>2. Rising(s0)
    <3>1. \A i \in 1..Len(s0) : s0[i] \in Card
      BY <2>1, ElementOfSeq
    <3>2. \A i \in 1..Len(s0) : s0[i].face \in Int
      BY <1>1, <3>1 DEF Faces
    <3> HIDE DEF s0
    <3> QED BY <2>1, <3>2 DEF Rising, Strict
  <2>3. Placed(Card, s0, poker, t0)
    BY <2>1, <2>2, SortedPlaces
  <2> HIDE DEF s0, t0
  <2>4. WithCard(s0, from, poker, t0)
    BY <2>1, <2>2, <2>3, CardPlaced
  <2> QED BY <2>4 DEF WithCard
<1>5. \A c \in Colors : th'[c] = IF c = c0 THEN t0 ELSE th[c]
  BY DEF Listed
<1>6. \A p \in ToSet(all) : p \in ToSet(th'[p.color])
  <2> SUFFICES ASSUME NEW p \in ToSet(all) PROVE p \in ToSet(th'[p.color])
    OBVIOUS
  <2>1. p = poker \/ p \in ToSet(tmpPokers)
    BY <1>3 DEF WithCard
  <2>2. CASE p = poker
    <3>1. th'[p.color] = t0
      BY <1>1, <1>5, <2>2
    <3> HIDE DEF t0
    <3> QED BY <1>4, <2>2, <3>1
  <2>3. CASE p \in ToSet(tmpPokers)
    <3>1. p \in Card
      <4>1. PICK i \in DOMAIN tmpPokers : p = tmpPokers[i]
        BY <2>3 DEF ToSet
      <4> QED BY <1>2, <4>1, ElementOfSeq, LenProperties
    <3>2. p.color \in Colors /\ p \in ToSet(th[p.color])
      BY <1>1, <2>3, <3>1 DEF Complete
    <3> HIDE DEF t0
    <3>3. CASE p.color = c0
      BY <1>4, <1>5, <3>2, <3>3
    <3>4. CASE p.color # c0
      BY <1>5, <3>2, <3>4
    <3> QED BY <3>3, <3>4
  <2> QED BY <2>1, <2>2, <2>3
<1>7. ASSUME \A f \in Faces : Cardinality(Spots(all, {f})) <= 1
      PROVE  shunZi' = all
  <2>1. \A f \in Faces : /\ Cardinality(Spots(all, {f})) = Count({f}) + IF f = poker.face THEN 1 ELSE 0
                         /\ Count({f}) \in 0..4
    <3> SUFFICES ASSUME NEW f \in Faces
                 PROVE  /\ Cardinality(Spots(all, {f})) = Count({f}) + IF f = poker.face THEN 1 ELSE 0
                        /\ Count({f}) \in 0..4
      OBVIOUS
    <3> DEFINE F == {f}
    <3>1. poker.face \in F <=> f = poker.face
      OBVIOUS
    <3>2. Count(F) \in 0..4
      BY SeenFacts
    <3> HIDE DEF F, all
    <3>3. Cardinality(Spots(all, F)) = Cardinality(Spots(tmpPokers, F)) + IF poker.face \in F THEN 1 ELSE 0
      BY <1>3 DEF WithCard
    <3> QED BY <3>1, <3>2, <3>3 DEF Count, F
  <2> HIDE DEF all
  <2>2. \A f \in Faces : Count({f}) <= 1
    <3> SUFFICES ASSUME NEW f \in Faces PROVE Count({f}) <= 1
      OBVIOUS
    <3> DEFINE n == Count({f})
               m == Cardinality(Spots(all, {f}))
    <3>1. m = n + (IF f = poker.face THEN 1 ELSE 0) /\ n \in 0..4 /\ m <= 1
      BY <1>7, <2>1
    <3> HIDE DEF n, m
    <3>2. n <= 1
      BY <3>1
    <3> QED BY <3>2 DEF n
  <2>3. Count({poker.face}) = 0
    BY <1>1, <1>7, <2>1
  <2>4. shunZi = tmpPokers
    BY <2>2 DEF Complete
  <2>5. \A i \in DOMAIN tmpPokers : tmpPokers[i].face # poker.face
    <3> DEFINE F == {poker.face}
               S == Spots(tmpPokers, F)
    <3>1. IsFiniteSet(S) /\ Cardinality(S) = 0
      <4>1. Count(F) = 0
        BY <2>3
      <4> HIDE DEF F
      <4>2. tmpPokers \in Seq(Poker)
        BY OwnIsMade DEF Listed
      <4> QED BY <4>1, <4>2, SpotsType DEF Count
    <3>2. S = {}
      <4> HIDE DEF S
      <4> QED BY <3>1, FS_EmptySet
    <3> QED BY <3>2 DEF Spots
  <2>6. SortAppendPokerWithoutSeem(tmpPokers, poker) = SortAppendPoker(tmpPokers, poker)
    BY <2>5 DEF SortAppendPokerWithoutSeem
  <2> QED BY <2>4, <2>6 DEF all
<1>8. ASSUME (\A f \in Faces : Count({f}) <= 1)' PROVE shunZi' = all
  <2>1. \A f \in Faces : Count({f})' = Cardinality(Spots(all, {f}))
    BY DEF Count, Spots
  <2> HIDE DEF all
  <2>2. \A f \in Faces : Cardinality(Spots(all, {f})) <= 1
    BY <1>8, <2>1
  <2> QED BY <1>7, <2>2
<1> QED BY <1>6, <1>8 DEF Complete

LEMMA TouchIsWorth ==
  ASSUME WorthInv, NEW poker \in deal.cards \ originPokers, TouchAPoker(poker)
  PROVE  WorthInv'
<1>1. AnalystInv' /\ AnalystInv
  BY TouchKeeps DEF WorthInv
<1>2. /\ originPokers' = originPokers \union {poker} /\ Cardinality(originPokers) < Total
      /\ Total' = Total /\ poker \notin originPokers /\ poker \in Card \union {LaiZi}
  BY <1>1, DealsAssumption DEF TouchAPoker, Total, AnalystInv, Dealt
<1>3. Complete'
  <2>1. CASE poker = LaiZi
    <3>1. tmpPokers' = tmpPokers /\ th' = th /\ shunZi' = shunZi
      BY <2>1 DEF TouchAPoker
    <3> QED BY <3>1 DEF WorthInv, Complete, Count, Spots
  <2>2. CASE poker # LaiZi
    <3>1. /\ tmpPokers' = SortAppendPoker(tmpPokers, poker)
          /\ th' = [th EXCEPT ![poker.color] = SortAppendPoker(@, poker)]
          /\ shunZi' = SortAppendPokerWithoutSeem(shunZi, poker)
      BY <2>2 DEF TouchAPoker
    <3>2. poker \in Card /\ Dealt /\ Listed /\ Complete
      BY <1>2, <2>2 DEF WorthInv, AnalystInv
    <3> QED BY <1>2, <3>1, <3>2, CompleteStays
  <2> QED BY <2>1, <2>2
<1>4. next' # DZ /\ ~Finished'
  <2>1. IsFiniteSet(originPokers') /\ Cardinality(originPokers') = Cardinality(originPokers) + 1
        /\ Cardinality(originPokers) \in Nat
    BY <1>1, <1>2, FS_AddElement, FS_CardinalityType DEF AnalystInv, Dealt
  <2>2. CASE Cardinality(originPokers) + 1 = Total
    <3>1. next' = playChain'[1] /\ playChain' = ChangePlayChain(seems', th', HaveLz')
      BY <2>2 DEF TouchAPoker
    <3>2. playChain' \in Seq(HandType) /\ Len(playChain') > 0 /\ Fits(next', seems', th', HaveLz', playChain')
      <4>1. HaveLz' \in BOOLEAN
        BY DEF HaveLz
      <4>2. ChainFits(playChain', seems', th', HaveLz')
        BY <3>1, <4>1, ChainFacts
      <4> QED BY <3>1, <4>2 DEF ChainFits
    <3>3. next' # DZ
      <4>1. next' = DZ => playChain'[1] = SZ
        BY <3>2 DEF Fits
      <4> QED BY <3>1, <4>1 DEF DZ, SZ
    <3>4. next' \in HandType
      <4>1. 1 \in 1..Len(playChain')
        BY <3>2, LenProperties
      <4> QED BY <3>1, <3>2, <4>1, ElementOfSeq
    <3>5. next' # NoMore
      BY <3>4 DEF NoMore, HandType, DZ, HJTHS
    <3> QED BY <3>3, <3>5 DEF Finished
  <2>3. CASE Cardinality(originPokers) + 1 # Total
    <3>1. next' = next /\ Cardinality(originPokers') # Total'
      BY <1>2, <2>1, <2>3 DEF TouchAPoker
    <3>2. next = NoMore
      BY <1>1, <1>2, <2>1, WithinTotal DEF AnalystInv, Chained
    <3> QED BY <3>1, <3>2 DEF Finished, NoMore, DZ
  <2> QED BY <2>2, <2>3
<1> QED BY <1>1, <1>3, <1>4 DEF WorthInv, Left, Weighed

LEMMA SZStepIsWorth ==
  ASSUME WorthInv, CheckSZ
  PROVE  WorthInv'
<1>1. AnalystInv' /\ AnalystInv /\ Complete /\ next = SZ
  BY SZKeeps DEF WorthInv, CheckSZ
<1>2. CASE RowIn(shunZi) # <<>>
  <2>1. next' = NoMore /\ Found(SZ, WeightOfSZ(RowIn(shunZi)), RowIn(shunZi))
    BY <1>2 DEF CheckSZ
  <2>2. ~LzLiftsSmallest => Worth(SZ, WeightOfSZ(RowIn(shunZi)), RowIn(shunZi))
    BY <1>1, <1>2, SZIsWorth
  <2>3. next' # DZ
    BY <2>1 DEF NoMore, DZ
  <2> QED BY <1>1, <2>1, <2>2, <2>3, FoundIsWorth
<1>3. CASE RowIn(shunZi) = <<>>
  <2>1. /\ next' = DefaultNext /\ UNCHANGED dealing
        /\ Cardinality(originPokers) = Total
    BY <1>1, <1>3, AtACheck DEF CheckSZ, SZ, NoMore
  <2>2. Complete' /\ RowIn(shunZi)' = <<>>
    BY <1>1, <1>3, <2>1, DealingTells
  <2>3. next' # NoMore
    BY <1>1, <2>1, DefaultNextFacts DEF AnalystInv
  <2> QED BY <1>1, <2>2, <2>3 DEF WorthInv, Left, Weighed, Finished
<1> QED BY <1>2, <1>3

LEMMA THStepIsWorth ==
  ASSUME WorthInv, CheckTH
  PROVE  WorthInv'
<1>1. AnalystInv' /\ AnalystInv /\ Complete /\ next = TH
  BY THKeeps DEF WorthInv, CheckTH
<1>2. CASE RowOfColor # <<>>
  <2>1. next' # DZ
    BY <1>2 DEF CheckTH, NoMore, DZ
  <2>2. CASE IsBiggestSZ(RowOfColor)
    <3>1. Found(HJTHS, NoWeight, RowOfColor)
      BY <1>2, <2>2 DEF CheckTH
    <3>2. ~LzLiftsSmallest => Worth(HJTHS, NoWeight, RowOfColor)
      BY <1>1, <1>2, <2>2, THSIsWorth
    <3> QED BY <1>1, <2>1, <3>1, <3>2, FoundIsWorth
  <2>3. CASE ~IsBiggestSZ(RowOfColor)
    <3>1. Found(THS, WeightOfSZ(RowOfColor), RowOfColor)
      BY <1>2, <2>3 DEF CheckTH
    <3>2. ~LzLiftsSmallest => Worth(THS, WeightOfSZ(RowOfColor), RowOfColor)
      BY <1>1, <1>2, <2>3, THSIsWorth
    <3> QED BY <1>1, <2>1, <3>1, <3>2, FoundIsWorth
  <2> QED BY <2>2, <2>3
<1>3. CASE RowOfColor = <<>>
  <2>1. next' = DefaultNext /\ Found(TH, WeightOfDZ(THPokers), THPokers)
    BY <1>3 DEF CheckTH, THPokers
  <2>2. Worth(TH, WeightOfDZ(THPokers), THPokers)
    BY <1>1, <1>3, THIsWorth
  <2>3. DefaultNext # DZ
    <3>1. Cardinality(originPokers) = Total /\ Fits(next, seems, th, HaveLz, playChain)
      BY <1>1, AtACheck DEF TH, NoMore
    <3>2. playChain[1] = TH
      BY <1>1, <3>1 DEF Fits, TH
    <3>3. DefaultNext # NoMore => Fits(DefaultNext, seems, th, HaveLz, playChain)
      BY <1>1, <3>1, DefaultNextFacts DEF AnalystInv
    <3>4. Fits(DefaultNext, seems, th, HaveLz, playChain) => DefaultNext # DZ
      BY <3>2 DEF Fits, DZ, SZ, TH
    <3> QED BY <3>3, <3>4 DEF NoMore, DZ
  <2> QED BY <1>1, <2>1, <2>2, <2>3, FoundIsWorth
<1> QED BY <1>2, <1>3

LEMMA WorthStep == WorthInv /\ [Next]_vars => WorthInv'
<1> SUFFICES ASSUME WorthInv, [Next]_vars PROVE WorthInv'
  OBVIOUS
<1>0. AnalystInv /\ AnalystInv' /\ Complete /\ NoMore # DZ
  BY AnalystStep DEF WorthInv, NoMore, DZ
<1>1. CASE \E poker \in deal.cards \ originPokers : TouchAPoker(poker)
  BY <1>1, TouchIsWorth
<1>2. CASE IsDZ
  <2> DEFINE P == SubSeq(tmpPokers, Total - 4, Total)
             w == WeightOfDZ(P)
  <2>1. next = DZ /\ next' = NoMore /\ Found(DZ, w, P)
    BY <1>2 DEF IsDZ
  <2>2. Worth(DZ, w, P)
    BY <1>0, <2>1, DZIsWorth DEF WorthInv, Left
  <2> HIDE DEF P, w
  <2> QED BY <1>0, <2>1, <2>2, FoundIsWorth
<1>3. CASE CheckYD
  <2> DEFINE f == YDFace
             P == YDPokers(f)
             s == Singles(P, {f})
             w == <<f, s[3], s[2], s[1], 0, 0>>
  <2>1. next = YD /\ next' = NoMore /\ Found(YD, w, P)
    BY <1>3 DEF CheckYD, YDFace, YDPokers
  <2>2. Worth(YD, w, P)
    BY <1>0, <2>1, YDIsWorth
  <2> HIDE DEF P, w
  <2> QED BY <1>0, <2>1, <2>2, FoundIsWorth
<1>4. CASE CheckLD
  <2> DEFINE f == LDBigger
             g == LDSmaller
             P == LDPokers(f, g)
             s == Singles(P, {f, g})
             w == <<f, g, s[1], 0, 0, 0>>
  <2>1. next = LD /\ next' = NoMore /\ Found(LD, w, P)
    BY <1>4 DEF CheckLD, LDBigger, LDSmaller, LDPokers
  <2>2. Worth(LD, w, P)
    BY <1>0, <2>1, LDIsWorth
  <2> HIDE DEF P, w
  <2> QED BY <1>0, <2>1, <2>2, FoundIsWorth
<1>5. CASE CheckTZ3
  <2> DEFINE f == TZ3Face
             P == TZ3Pokers(f)
             s == Singles(P, {f})
             w == <<f, 0, s[2], s[1], 0, 0>>
  <2>1. next = ST3 /\ next' = NoMore /\ Found(ST3, w, P)
    BY <1>5 DEF CheckTZ3, TZ3Face, TZ3Pokers
  <2>2. Worth(ST3, w, P)
    BY <1>0, <2>1, TZ3IsWorth
  <2> HIDE DEF P, w
  <2> QED BY <1>0, <2>1, <2>2, FoundIsWorth
<1>6. CASE CheckSZ
  BY <1>6, SZStepIsWorth
<1>7. CASE CheckTH
  BY <1>7, THStepIsWorth
<1>8. CASE CheckHL
  <2> DEFINE f == HLBigger
             g == HLSmaller
             P == HLPokers(f, g)
             w == <<f, g, 0, 0, 0, 0>>
  <2>1. next = HL /\ next' = NoMore /\ Found(HL, w, P)
    BY <1>8 DEF CheckHL, HLBigger, HLSmaller, HLPokers, LastTwo
  <2>2. Worth(HL, w, P)
    BY <1>0, <2>1, HLIsWorth
  <2> HIDE DEF P, w
  <2> QED BY <1>0, <2>1, <2>2, FoundIsWorth
<1>9. CASE CheckTZ4
  <2> DEFINE f == TZ4Face
             P == TZ4Pokers(f)
             s == Singles(P, {f})
             w == <<f, IF s = <<>> THEN 0 ELSE s[1], 0, 0, 0, 0>>
  <2>1. next = ST4 /\ next' = NoMore /\ Found(ST4, w, P)
    BY <1>9 DEF CheckTZ4, TZ4Face, TZ4Pokers
  <2>2. ~FourAndLz => Worth(ST4, w, P)
    BY <1>0, <2>1, TZ4IsWorth
  <2> HIDE DEF P, w
  <2> QED BY <1>0, <2>1, <2>2, FoundIsWorth
<1>10. CASE UNCHANGED vars
  <2>1. /\ UNCHANGED dealing /\ next' = next /\ handType' = handType
        /\ handWeight' = handWeight /\ checkedPokers' = checkedPokers
        /\ originPokers' = originPokers /\ deal' = deal
    BY <1>10 DEF vars, dealing
  <2>2. /\ Complete' /\ FourAndLz' = FourAndLz /\ LzLiftsSmallest' = LzLiftsSmallest
        /\ RowIn(shunZi)' = RowIn(shunZi)
    BY <1>0, <2>1, DealingTells
  <2>3. Finished' = Finished
    BY <2>1 DEF Finished, Total
  <2>4. Weighed'
    BY <2>1, <2>2, <2>3 DEF WorthInv, Weighed
  <2>5. Left'
    BY <2>1, <2>2 DEF WorthInv, Left
  <2> QED BY <1>0, <2>2, <2>4, <2>5 DEF WorthInv
<1> QED BY <1>1, <1>2, <1>3, <1>4, <1>5, <1>6, <1>7, <1>8, <1>9, <1>10 DEF Next

LEMMA WorthInit == Init => WorthInv
<1> SUFFICES ASSUME Init PROVE WorthInv
  OBVIOUS
<1>1. AnalystInv
  BY AnalystInit
<1>2. Complete
  BY DEF Init, Complete, ToSet
<1>3. next # DZ /\ ~Finished
  <2>1. originPokers = {} /\ Total \in 5..7 /\ next = NoMore
    BY DealsAssumption DEF Init, Total
  <2>2. Cardinality(originPokers) = 0
    BY <2>1, FS_EmptySet
  <2> QED BY <2>1, <2>2 DEF Finished, NoMore, DZ
<1> QED BY <1>1, <1>2, <1>3 DEF WorthInv, Left, Weighed

\* The five cards that are shown are by themselves worth, by the rules of poker,
\* the kind and the weight the analyst has found, whatever cards it was handed
\* (the checks put the cards and the weight together apart from each other).
THEOREM CheckedCardsMakeTheHand == Spec => []CheckedMakeTheHand
<1>1. Init => WorthInv
  BY WorthInit
<1>2. WorthInv /\ [Next]_vars => WorthInv'
  BY WorthStep
<1>3. WorthInv => CheckedMakeTheHand
  <2>1. Told = ToldBy(handType, handWeight)
    BY DEF Told, ToldBy, NotZero
  <2> QED BY <2>1 DEF WorthInv, Weighed, Worth, CheckedMakeTheHand
<1> QED BY <1>1, <1>2, <1>3, PTL DEF Spec

-----------------------------------------------------------------------------
(* What any five cards are worth.                                            *)

\* A number that tells the order of MoreOften: the smaller, the more often.
LEMMA KeyOfFaces ==
  ASSUME NEW P, Five(P)
  PROVE  \E key \in [Faces -> 1..99] :
           \A f, g \in Faces : /\ MoreOften(ToSet(P), f, g) <=> key[f] < key[g]
                               /\ key[f] = key[g] => f = g
                               /\ key[f] < key[g] =>
                                    \/ CountIn(P, f) > CountIn(P, g)
                                    \/ CountIn(P, f) = CountIn(P, g) /\ f > g
<1> DEFINE n == [f \in Faces |-> CountIn(P, f)]
           key == [f \in Faces |-> 99 - 14 * n[f] - f]
<1>1. \A f \in Faces : n[f] \in 0..5 /\ n[f] = Times(ToSet(P), f) /\ n[f] = CountIn(P, f)
  BY TimesIs
<1> HIDE DEF n
<1>2. key \in [Faces -> 1..99]
  BY <1>1 DEF Faces
<1>3. ASSUME NEW f \in Faces, NEW g \in Faces
      PROVE  /\ MoreOften(ToSet(P), f, g) <=> key[f] < key[g]
             /\ key[f] = key[g] => f = g
             /\ key[f] < key[g] => \/ CountIn(P, f) > CountIn(P, g)
                                   \/ CountIn(P, f) = CountIn(P, g) /\ f > g
  <2> DEFINE a == n[f]
             b == n[g]
  <2>1. /\ a \in 0..5 /\ b \in 0..5 /\ f \in 1..13 /\ g \in 1..13
        /\ Times(ToSet(P), f) = a /\ Times(ToSet(P), g) = b
        /\ CountIn(P, f) = a /\ CountIn(P, g) = b
    BY <1>1 DEF Faces
  <2>2. key[f] = 99 - 14 * a - f /\ key[g] = 99 - 14 * b - g
    OBVIOUS
  <2> HIDE DEF a, b, key
  <2>3. MoreOften(ToSet(P), f, g) <=> (a > b \/ (a = b /\ f > g))
    BY <2>1 DEF MoreOften
  <2>4. (a > b \/ (a = b /\ f > g)) <=> key[f] < key[g]
    BY <2>1, <2>2
  <2>5. key[f] = key[g] => f = g
    BY <2>1, <2>2
  <2> QED BY <2>1, <2>3, <2>4, <2>5
<1> HIDE DEF key
<1> QED BY <1>2, <1>3

\* ByTimes lists the faces of five cards in its order.
LEMMA ByTimesTells ==
  ASSUME NEW P, Five(P)
  PROVE  Tells(ByTimes(ToSet(P)), P)
<1> DEFINE five == ToSet(P)
           faces == FacesIn(five)
           A(f) == {g \in faces : MoreOften(five, g, f)}
           t == ByTimes(five)
<1>1. PICK key \in [Faces -> 1..99] :
        \A f, g \in Faces : /\ MoreOften(five, f, g) <=> key[f] < key[g]
                            /\ key[f] = key[g] => f = g
                            /\ key[f] < key[g] =>
                                 \/ CountIn(P, f) > CountIn(P, g)
                                 \/ CountIn(P, f) = CountIn(P, g) /\ f > g
  BY KeyOfFaces
<1>2. /\ P \in Seq(Poker) /\ Len(P) = 5 /\ DOMAIN P = 1..5
      /\ \A i \in 1..5 : P[i].face \in Faces
  BY MadeIsDistinct
<1>3. faces = {P[i].face : i \in 1..5} /\ faces \in SUBSET Faces
  BY <1>2 DEF FacesIn, ToSet
<1>4. IsFiniteSet(faces) /\ Cardinality(faces) \in Nat
  <2>1. IsFiniteSet(Faces)
    <3>1. PICK n \in Nat : n = 13
      OBVIOUS
    <3> QED BY <3>1, SizeOfPlaces DEF Faces
  <2> QED BY <1>3, <2>1, FS_Subset, FS_CardinalityType
<1> DEFINE S == {key[f] : f \in faces}
           before(i) == Cardinality({j \in S : j < i})
<1>5. S \in SUBSET (1..99)
  BY <1>3
<1>6. /\ IsFiniteSet(S) /\ Cardinality(S) \in Nat
      /\ \A i \in S : before(i) \in 0..(Cardinality(S) - 1)
      /\ \A i, j \in S : i < j => before(i) < before(j)
      /\ \A m \in 0..(Cardinality(S) - 1) : \E i \in S : before(i) = m
  <2>1. PICK n \in Nat : n = 99
    OBVIOUS
  <2>2. S \in SUBSET (1..n)
    BY <1>5, <2>1
  <2> HIDE DEF S
  <2> QED BY <2>2, PlacesAreNumbered
<1>7. Cardinality(S) = Cardinality(faces)
  <2> DEFINE h == [f \in faces |-> key[f]]
  <2>1. h \in [faces -> S]
    OBVIOUS
  <2>2. \A a, b \in faces : h[a] = h[b] => a = b
    BY <1>1, <1>3
  <2>3. \A x \in S : \E a \in faces : h[a] = x
    OBVIOUS
  <2> HIDE DEF h, S, faces
  <2> QED BY <1>4, <2>1, <2>2, <2>3, SameCount
<1>8. ASSUME NEW f \in faces
      PROVE  Cardinality(A(f)) = before(key[f])
  <2> DEFINE X == A(f)
             Y == {j \in S : j < key[f]}
             h == [g \in X |-> key[g]]
  <2>1. IsFiniteSet(X)
    BY <1>4, FS_Subset
  <2>2. h \in [X -> Y]
    BY <1>1, <1>3
  <2>3. \A a, b \in X : h[a] = h[b] => a = b
    BY <1>1, <1>3
  <2>4. \A x \in Y : \E a \in X : h[a] = x
    <3> SUFFICES ASSUME NEW x \in Y PROVE \E a \in X : h[a] = x
      OBVIOUS
    <3>1. PICK g \in faces : key[g] = x
      OBVIOUS
    <3>2. MoreOften(five, g, f)
      BY <1>1, <1>3, <3>1
    <3> QED BY <3>1, <3>2
  <2>5. Cardinality(Y) = Cardinality(X)
    <3> HIDE DEF h, X, Y
    <3> QED BY <2>1, <2>2, <2>3, <2>4, SameCount
  <2> QED BY <2>5
<1> DEFINE N == Cardinality(faces)
<1>9. t = [k \in 1..N |-> CHOOSE f \in faces : Cardinality(A(f)) = k - 1]
  BY DEF ByTimes
<1> HIDE DEF S, before, A, t, five, faces
<1>10. ASSUME NEW k \in 1..N
       PROVE  t[k] \in faces /\ before(key[t[k]]) = k - 1
  <2>1. k - 1 \in 0..(Cardinality(S) - 1)
    BY <1>4, <1>7
  <2>2. PICK i \in S : before(i) = k - 1
    BY <1>6, <2>1
  <2>3. PICK f \in faces : key[f] = i
    BY <2>2 DEF S
  <2>4. Cardinality(A(f)) = k - 1
    BY <1>8, <2>2, <2>3
  <2>5. t[k] = CHOOSE g \in faces : Cardinality(A(g)) = k - 1
    BY <1>9
  <2>6. t[k] \in faces /\ Cardinality(A(t[k])) = k - 1
    BY <2>4, <2>5
  <2> QED BY <1>8, <2>6
<1>11. t \in Seq(Faces) /\ Len(t) = N
  <2>1. t \in [1..N -> Faces]
    BY <1>3, <1>9, <1>10
  <2> QED BY <1>4, <2>1, SeqOfFunction
<1>12. ASSUME NEW f \in faces
       PROVE  \E k \in 1..N : t[k] = f
  <2>1. key[f] \in S
    BY DEF S
  <2>2. before(key[f]) \in 0..(N - 1)
    BY <1>6, <1>7, <2>1
  <2>3. PICK k \in 1..N : before(key[f]) = k - 1
    <3>1. before(key[f]) + 1 \in 1..N
      BY <1>4, <2>2
    <3> QED BY <1>4, <2>2, <3>1
  <2>4. t[k] \in faces /\ before(key[t[k]]) = before(key[f])
    BY <1>10, <2>3
  <2>5. key[t[k]] \in S /\ key[t[k]] \in 1..99 /\ key[f] \in 1..99
    BY <1>5, <2>1, <2>4 DEF S
  <2>6. key[t[k]] = key[f]
    <3>1. before(key[f]) \in Int
      BY <2>2
    <3>2. ~(key[t[k]] < key[f]) /\ ~(key[f] < key[t[k]])
      BY <1>6, <2>1, <2>4, <2>5, <3>1
    <3> QED BY <2>5, <3>2
  <2> QED BY <1>1, <1>3, <2>4, <2>6
<1>13. ASSUME NEW k \in 1..N, NEW l \in 1..N, k < l
       PROVE  \/ CountIn(P, t[k]) > CountIn(P, t[l])
              \/ CountIn(P, t[k]) = CountIn(P, t[l]) /\ t[k] > t[l]
  <2>1. /\ t[k] \in faces /\ before(key[t[k]]) = k - 1
        /\ t[l] \in faces /\ before(key[t[l]]) = l - 1
    BY <1>10
  <2>2. key[t[k]] \in S /\ key[t[l]] \in S /\ key[t[k]] \in 1..99 /\ key[t[l]] \in 1..99
    BY <1>5, <2>1 DEF S
  <2> DEFINE a == key[t[k]]
             b == key[t[l]]
  <2>3. a \in S /\ b \in S /\ a \in 1..99 /\ b \in 1..99 /\ before(a) = k - 1 /\ before(b) = l - 1
    BY <2>1, <2>2
  <2>4. k - 1 < l - 1 /\ k - 1 \in Int /\ l - 1 \in Int
    <3>1. k \in Int /\ l \in Int
      BY <1>4
    <3> QED BY <1>13, <3>1
  <2> HIDE DEF a, b
  <2>5. a # b /\ (b < a => l - 1 < k - 1)
    BY <1>6, <2>3, <2>4
  <2>6. a < b
    BY <2>3, <2>4, <2>5
  <2> QED BY <1>1, <1>3, <2>1, <2>6 DEF a, b
<1>14. \A i \in 1..5 : P[i].face \in faces
  BY <1>3
<1>15. \A f \in faces : \E i \in 1..5 : P[i].face = f
  BY <1>3
<1> HIDE DEF N
<1>16. Tells(t, P)
  BY <1>10, <1>11, <1>12, <1>13, <1>14, <1>15 DEF Tells
<1> QED BY <1>16 DEF t, five

\* Five cards without the wild one.
FiveOwn(P) == Own(P) /\ Len(P) = 5

LEMMA FiveOwnFacts ==
  ASSUME NEW P, FiveOwn(P)
  PROVE  /\ Five(P) /\ P \in Seq(Card) /\ Len(P) = 5
         /\ \A i \in 1..5 : P[i] \in Card /\ P[i] \in originPokers /\ P[i].face \in Faces
         /\ \A i, j \in 1..5 : i # j => P[i] # P[j]
<1>1. Five(P) /\ P \in Seq(Card) /\ Len(P) = 5
  BY OwnIsMade DEF FiveOwn, Five, Own
<1>2. \A i \in 1..5 : P[i] \in Card
  BY <1>1, ElementOfSeq
<1> QED BY <1>1, <1>2, CardFacts DEF FiveOwn, Own

\* How often the k-th face of a list occurs, 0 behind its end.
TimesAt(P, t, k) == IF k <= Len(t) THEN CountIn(P, t[k]) ELSE 0

\* Together the faces occur five times, the first most often.
Adds(P, t) ==
  LET c(k) == TimesAt(P, t, k)
  IN  /\ Len(t) \in 1..5 /\ \A k \in 1..5 : c(k) \in 0..5 /\ (c(k) > 0 <=> k <= Len(t))
      /\ c(1) + c(2) + c(3) + c(4) + c(5) = 5
      /\ c(1) >= c(2) /\ c(2) >= c(3) /\ c(3) >= c(4) /\ c(4) >= c(5)

LEMMA TimesAddUp ==
  ASSUME NEW P, Five(P), NEW t, Tells(t, P)
  PROVE  Adds(P, t)
<1> DEFINE L == Len(t)
           U(k) == {t[j] : j \in 1..k}
           S(k) == Cardinality(Spots(P, U(k)))
           c(k) == TimesAt(P, t, k)
<1>1. /\ t \in Seq(Faces) /\ L \in Nat
      /\ \A k, l \in 1..L : k < l => \/ CountIn(P, t[k]) > CountIn(P, t[l])
                                     \/ CountIn(P, t[k]) = CountIn(P, t[l]) /\ t[k] > t[l]
  BY LenProperties DEF Tells
<1>2. \A k \in 1..L : t[k] \in Faces
  BY <1>1, ElementOfSeq
<1>3. \A k \in 1..L : CountIn(P, t[k]) \in 0..5
  BY TimesIs
<1>4. ASSUME NEW k \in 1..L PROVE CountIn(P, t[k]) > 0
  <2> DEFINE F == {t[k]}
             X == Spots(P, F)
  <2>1. PICK i \in 1..5 : P[i].face = t[k]
    BY DEF Tells
  <2>2. P \in Seq(Poker) /\ Len(P) = 5 /\ DOMAIN P = 1..5
    BY MadeIsDistinct
  <2>3. i \in X
    BY <2>1, <2>2 DEF Spots
  <2>4. IsFiniteSet(X) /\ Cardinality(X) \in Nat
    <3> HIDE DEF F
    <3> QED BY <2>2, SpotsType, FS_CardinalityType
  <2> HIDE DEF X
  <2>5. Cardinality(X) # 0
    BY <2>3, <2>4, FS_EmptySet
  <2> QED BY <2>4, <2>5 DEF X, CountIn
<1>5. \A k, l \in 1..L : k < l => t[k] # t[l]
  BY <1>1, <1>2, <1>3 DEF Faces
<1>6. S(0) = 0
  <2>1. Spots(P, U(0)) = {}
    BY DEF Spots
  <2> QED BY <2>1, FS_EmptySet
<1>7. ASSUME NEW k \in 1..L
      PROVE  S(k) = S(k - 1) + CountIn(P, t[k]) /\ S(k) \in 0..5 /\ S(k - 1) \in 0..5
  <2> DEFINE F == U(k - 1)
             h == t[k]
  <2>1. h \notin F
    <3>1. \A j \in 1..k - 1 : j \in 1..L /\ j < k
      BY <1>1
    <3> QED BY <1>5, <3>1
  <2>2. U(k) = F \union {h}
    <3>1. 1..k = (1..k - 1) \union {k}
      BY <1>1
    <3> QED BY <3>1
  <2>3. CountIn(P, h) \in 0..5
    BY <1>3
  <2> HIDE DEF U, h, F
  <2>4. /\ Cardinality(Spots(P, F \union {h})) = Cardinality(Spots(P, F)) + CountIn(P, h)
        /\ Cardinality(Spots(P, F)) + CountIn(P, h) <= 5
        /\ Cardinality(Spots(P, F)) \in Nat
    BY <2>1, OneMoreFace
  <2> QED BY <2>2, <2>3, <2>4 DEF F, h
<1>8. S(L) = 5
  <2>1. P \in Seq(Poker) /\ Len(P) = 5 /\ DOMAIN P = 1..5
    BY MadeIsDistinct
  <2>2. Spots(P, U(L)) = 1..5
    BY <2>1 DEF Spots, Tells
  <2>3. PICK n \in Nat : n = 5
    OBVIOUS
  <2> QED BY <2>2, <2>3, SizeOfPlaces
<1> HIDE DEF S
<1>9. S(0) = 0 /\ S(L) = 5 /\ L \in Nat
  BY <1>1, <1>6, <1>8
<1>10. ASSUME NEW k \in 1..L
       PROVE  S(k) = S(k - 1) + c(k) /\ S(k) \in 0..5 /\ S(k - 1) \in 0..5 /\ c(k) \in 1..5
  <2>1. k <= L
    BY <1>1
  <2>2. c(k) = CountIn(P, t[k])
    BY <2>1 DEF TimesAt
  <2> HIDE DEF c
  <2> QED BY <1>3, <1>4, <1>7, <2>2
<1>11. ASSUME NEW k \in 1..L, NEW l \in 1..L, k < l PROVE c(k) >= c(l)
  <2>1. k <= L /\ l <= L
    BY <1>1
  <2>2. c(k) = CountIn(P, t[k]) /\ c(l) = CountIn(P, t[l])
    BY <2>1 DEF TimesAt
  <2>3. CountIn(P, t[k]) \in Int /\ CountIn(P, t[l]) \in Int
    BY <1>3
  <2> HIDE DEF c
  <2>4. CountIn(P, t[k]) > CountIn(P, t[l]) \/ CountIn(P, t[k]) = CountIn(P, t[l])
    BY <1>1, <1>11
  <2> QED BY <2>2, <2>3, <2>4
<1>12. \A k \in 1..5 : k > L => c(k) = 0
  BY <1>1 DEF TimesAt
<1> HIDE DEF c, L
<1>13. L # 0
  BY <1>9
<1>14. L \in 1..5
  <2> SUFFICES ASSUME L > 5 PROVE FALSE
    BY <1>9, <1>13
  <2>1. /\ 1 \in 1..L /\ 2 \in 1..L /\ 3 \in 1..L /\ 4 \in 1..L /\ 5 \in 1..L /\ 6 \in 1..L
    BY <1>9
  <2>2. S(1) >= 1
    BY <1>9, <1>10, <2>1
  <2>3. S(2) >= 2
    BY <1>10, <2>1, <2>2
  <2>4. S(3) >= 3
    BY <1>10, <2>1, <2>3
  <2>5. S(4) >= 4
    BY <1>10, <2>1, <2>4
  <2>6. S(5) >= 5
    BY <1>10, <2>1, <2>5
  <2>7. S(6) >= 6
    BY <1>10, <2>1, <2>6
  <2>8. S(6) \in 0..5
    BY <1>10, <2>1
  <2> QED BY <2>7, <2>8
<1>15. \A k \in 1..5 : c(k) \in 0..5 /\ (c(k) > 0 <=> k <= L)
  <2> SUFFICES ASSUME NEW k \in 1..5 PROVE c(k) \in 0..5 /\ (c(k) > 0 <=> k <= L)
    OBVIOUS
  <2>1. CASE k <= L
    <3>1. k \in 1..L
      BY <1>14, <2>1
    <3> QED BY <1>10, <2>1, <3>1
  <2>2. CASE k > L
    BY <1>12, <1>14, <2>2
  <2> QED BY <1>14, <2>1, <2>2
<1>16. ASSUME NEW k \in 1..4 PROVE c(k) >= c(k + 1)
  <2>1. CASE k + 1 <= L
    <3>1. k \in 1..L /\ k + 1 \in 1..L /\ k < k + 1
      BY <1>14, <2>1
    <3> QED BY <1>11, <3>1
  <2>2. CASE k + 1 > L
    <3>1. k + 1 \in 1..5
      OBVIOUS
    <3>2. c(k + 1) = 0 /\ c(k) \in 0..5
      BY <1>12, <1>15, <2>2, <3>1
    <3> QED BY <3>2
  <2> QED BY <1>14, <2>1, <2>2
<1>17. c(1) >= c(2) /\ c(2) >= c(3) /\ c(3) >= c(4) /\ c(4) >= c(5)
  BY <1>16
<1>18. c(1) + c(2) + c(3) + c(4) + c(5) = 5
  <2>1. /\ c(1) \in 0..5 /\ c(2) \in 0..5 /\ c(3) \in 0..5 /\ c(4) \in 0..5 /\ c(5) \in 0..5
    BY <1>15
  <2>2. ASSUME NEW k \in 1..5 PROVE k <= L => S(k) = S(k - 1) + c(k) /\ S(k) \in 0..5
    <3>1. k <= L => k \in 1..L
      BY <1>14
    <3> QED BY <1>10, <3>1
  <2>3. 1 <= L => S(1) = S(0) + c(1) /\ S(1) \in 0..5
    BY <2>2
  <2>4. 2 <= L => S(2) = S(1) + c(2) /\ S(2) \in 0..5
    BY <2>2
  <2>5. 3 <= L => S(3) = S(2) + c(3) /\ S(3) \in 0..5
    BY <2>2
  <2>6. 4 <= L => S(4) = S(3) + c(4) /\ S(4) \in 0..5
    BY <2>2
  <2>7. 5 <= L => S(5) = S(4) + c(5) /\ S(5) \in 0..5
    BY <2>2
  <2>8. /\ L < 2 => c(2) = 0
        /\ L < 3 => c(3) = 0
        /\ L < 4 => c(4) = 0
        /\ L < 5 => c(5) = 0
    BY <1>12, <1>14
  <2>9. CASE L = 1
    BY <1>9, <2>1, <2>3, <2>8, <2>9
  <2>10. CASE L = 2
    BY <1>9, <2>1, <2>3, <2>4, <2>8, <2>10
  <2>11. CASE L = 3
    BY <1>9, <2>1, <2>3, <2>4, <2>5, <2>8, <2>11
  <2>12. CASE L = 4
    BY <1>9, <2>1, <2>3, <2>4, <2>5, <2>6, <2>8, <2>12
  <2>13. CASE L = 5
    BY <1>9, <2>1, <2>3, <2>4, <2>5, <2>6, <2>7, <2>13
  <2> QED BY <1>14, <2>9, <2>10, <2>11, <2>12, <2>13
<1> QED BY <1>14, <1>15, <1>17, <1>18 DEF Adds, c, L

\* Two cards of a color differ in their faces.
LEMMA ColorHasOneOfAFace ==
  ASSUME NEW P, FiveOwn(P), OneColor(ToSet(P)), NEW f
  PROVE  CountIn(P, f) \in 0..1
<1> DEFINE S == Spots(P, {f})
<1>1. /\ Five(P) /\ P \in Seq(Card) /\ Len(P) = 5
      /\ \A i \in 1..5 : P[i] \in Card
      /\ \A i, j \in 1..5 : i # j => P[i] # P[j]
  BY FiveOwnFacts
<1>2. S \in SUBSET (1..5) /\ IsFiniteSet(S) /\ \A i \in S : P[i].face = f
  <2>1. \A F : Spots(P, F) \in SUBSET (1..Len(P)) /\ IsFiniteSet(Spots(P, F))
    BY <1>1, SpotsType
  <2>2. \A i \in S : P[i].face = f
    BY DEF Spots
  <2> QED BY <1>1, <2>1, <2>2
<1> HIDE DEF S
<1>3. ASSUME NEW i \in S, NEW j \in S PROVE i = j
  <2>1. P[i].color = P[j].color
    BY <1>1, <1>2, ColorOfAll
  <2>2. P[i] \in Card /\ P[j] \in Card /\ P[i].face = P[j].face
    BY <1>1, <1>2
  <2>3. P[i] = P[j]
    BY <2>1, <2>2 DEF Card
  <2> QED BY <1>1, <1>2, <2>3
<1>4. Cardinality(S) \in 0..1
  <2>1. CASE S = {}
    BY <2>1, FS_EmptySet
  <2>2. CASE S # {}
    <3>1. PICK i \in S : S = {i}
      BY <1>3, <2>2
    <3>2. Cardinality(S) = 1
      BY <3>1, FS_Singleton
    <3> QED BY <3>2
  <2> QED BY <2>1, <2>2
<1> QED BY <1>4 DEF CountIn, S

\* How often the faces of a hand of a kind occur, in the order of ByTimes.
ShapeOf(kind) ==
  IF kind = ST4 THEN <<4, 1>> ELSE IF kind = HL THEN <<3, 2>>
  ELSE IF kind = ST3 THEN <<3, 1, 1>> ELSE IF kind = LD THEN <<2, 2, 1>>
  ELSE IF kind = YD THEN <<2, 1, 1, 1>> ELSE <<1, 1, 1, 1, 1>>

Shaped(kind, P, t) ==
  /\ Tells(t, P) /\ Len(t) = Len(ShapeOf(kind))
  /\ \A k \in 1..Len(t) : CountIn(P, t[k]) = ShapeOf(kind)[k]

Unrowed == {DZ, YD, LD, ST3, TH, HL, ST4}

LEMMA ShapeIs ==
  ASSUME NEW P, Five(P), NEW t, Tells(t, P), Adds(P, t), NEW kind \in Unrowed,
         IF kind = TH THEN CountIn(P, t[1]) = 1
         ELSE /\ CountIn(P, t[1]) \in 1..4
              /\ kind = KindOf(CountIn(P, t[1]), CountIn(P, t[2]))
  PROVE  Shaped(kind, P, t) 
<1> DEFINE L == Len(t)
           c(k) == TimesAt(P, t, k)
<1>1. /\ L \in 1..5 /\ \A k \in 1..5 : c(k) \in 0..5 /\ (c(k) > 0 <=> k <= L)
      /\ c(1) + c(2) + c(3) + c(4) + c(5) = 5
      /\ c(1) >= c(2) /\ c(2) >= c(3) /\ c(3) >= c(4) /\ c(4) >= c(5)
  BY DEF Adds
<1>2. \A k \in 1..L : c(k) = CountIn(P, t[k])
  BY <1>1 DEF TimesAt
<1> HIDE DEF L, c
<1>3. PICK c1 \in 0..5, c2 \in 0..5, c3 \in 0..5, c4 \in 0..5, c5 \in 0..5 :
        c1 = c(1) /\ c2 = c(2) /\ c3 = c(3) /\ c4 = c(4) /\ c5 = c(5)
  BY <1>1
<1>4. /\ L \in 1..5 /\ c1 + c2 + c3 + c4 + c5 = 5
      /\ c1 >= c2 /\ c2 >= c3 /\ c3 >= c4 /\ c4 >= c5
      /\ c1 > 0 /\ (c2 > 0 <=> 2 <= L) /\ (c3 > 0 <=> 3 <= L) /\ (c4 > 0 <=> 4 <= L)
      /\ (c5 > 0 <=> 5 <= L)
  BY <1>1, <1>3
<1>5. CountIn(P, t[1]) = c1 /\ (L > 1 => CountIn(P, t[2]) = c2)
  BY <1>2, <1>3, <1>4
<1>6. c1 <= 4 /\ L > 1
  <2>1. c1 <= 4
    BY <1>5
  <2> QED BY <1>4, <2>1
<1>7. IF kind = TH THEN c1 = 1 ELSE kind = KindOf(c1, c2)
  BY <1>5, <1>6
<1>8. IF kind = TH THEN c1 = 1
      ELSE kind = IF c1 = 4 THEN ST4 ELSE IF c1 = 3 THEN IF c2 = 2 THEN HL ELSE ST3
                  ELSE IF c1 = 2 THEN IF c2 = 2 THEN LD ELSE YD ELSE DZ
  BY <1>7 DEF KindOf
<1>9. SUFFICES /\ L = Len(ShapeOf(kind))
               /\ \A k \in 1..L : c(k) = ShapeOf(kind)[k]
  BY <1>2 DEF Shaped, L
<1>10. CASE kind = ST4
  <2>1. c1 = 4 /\ c2 = 1 /\ L = 2
    BY <1>4, <1>6, <1>8, <1>10 DEF ST4, HL, ST3, LD, YD, DZ, TH
  <2>2. ShapeOf(kind) = <<4, 1>>
    BY <1>10 DEF ShapeOf
  <2> QED BY <1>3, <2>1, <2>2
<1>11. CASE kind = HL
  <2>1. c1 = 3 /\ c2 = 2 /\ L = 2
    BY <1>4, <1>6, <1>8, <1>11 DEF ST4, HL, ST3, LD, YD, DZ, TH
  <2>2. ShapeOf(kind) = <<3, 2>>
    BY <1>11 DEF ShapeOf, HL, ST4
  <2> QED BY <1>3, <2>1, <2>2
<1>12. CASE kind = ST3
  <2>1. c1 = 3 /\ c2 = 1 /\ c3 = 1 /\ L = 3
    BY <1>4, <1>6, <1>8, <1>12 DEF ST4, HL, ST3, LD, YD, DZ, TH
  <2>2. ShapeOf(kind) = <<3, 1, 1>>
    BY <1>12 DEF ShapeOf, HL, ST4, ST3
  <2> QED BY <1>3, <2>1, <2>2
<1>13. CASE kind = LD
  <2>1. c1 = 2 /\ c2 = 2 /\ c3 = 1 /\ L = 3
    BY <1>4, <1>6, <1>8, <1>13 DEF ST4, HL, ST3, LD, YD, DZ, TH
  <2>2. ShapeOf(kind) = <<2, 2, 1>>
    BY <1>13 DEF ShapeOf, HL, ST4, ST3, LD
  <2> QED BY <1>3, <2>1, <2>2
<1>14. CASE kind = YD
  <2>1. c1 = 2 /\ c2 = 1 /\ c3 = 1 /\ c4 = 1 /\ L = 4
    BY <1>4, <1>6, <1>8, <1>14 DEF ST4, HL, ST3, LD, YD, DZ, TH
  <2>2. ShapeOf(kind) = <<2, 1, 1, 1>>
    BY <1>14 DEF ShapeOf, HL, ST4, ST3, LD, YD
  <2> QED BY <1>3, <2>1, <2>2
<1>15. CASE kind \in {DZ, TH}
  <2>1. c1 = 1 /\ c2 = 1 /\ c3 = 1 /\ c4 = 1 /\ c5 = 1 /\ L = 5
    BY <1>4, <1>6, <1>8, <1>15 DEF ST4, HL, ST3, LD, YD, DZ, TH
  <2>2. ShapeOf(kind) = <<1, 1, 1, 1, 1>>
    BY <1>15 DEF ShapeOf, HL, ST4, ST3, LD, YD, DZ, TH
  <2> QED BY <1>3, <2>1, <2>2
<1> QED BY <1>10, <1>11, <1>12, <1>13, <1>14, <1>15 DEF Unrowed

\* The kind of five cards tells whether they are in a row, of one color, and how
\* often their faces occur.
LEMMA ValueHasShape ==
  ASSUME NEW P, FiveOwn(P), NEW v, v = Value(ToSet(P))
  PROVE  /\ v.kind \in HandType
         /\ v.kind \in {SZ, THS, HJTHS} <=> InARow(ToSet(P))
         /\ v.kind \in {TH, THS, HJTHS} <=> OneColor(ToSet(P))
         /\ ~InARow(ToSet(P)) => v.kind \in Unrowed /\ Shaped(v.kind, P, v.ranks)
<1> DEFINE five == ToSet(P)
           t == ByTimes(five)
<1>1. Five(P) /\ P \in Seq(Card) /\ Len(P) = 5 /\ \A i, j \in 1..5 : i # j => P[i] # P[j]
  BY FiveOwnFacts
<1>2. CASE InARow(five)
  <2>1. v.kind = IF ~OneColor(five) THEN 4 ELSE IF Top(five) = 13 THEN 9 ELSE 8
    BY <1>2 DEF Value
  <2> QED BY <1>2, <2>1 DEF SZ, THS, HJTHS, TH, HandType, DZ
<1>3. CASE ~InARow(five)
  <2> HIDE DEF five
  <2>1. v = [kind |-> IF OneColor(five) THEN 5 ELSE KindBySeen(five), ranks |-> t]
    BY <1>3 DEF Value, five
  <2>2. v.kind = (IF OneColor(five) THEN TH ELSE KindBySeen(five)) /\ v.ranks = t
    BY <2>1 DEF TH
  <2> HIDE DEF t
  <2>3. Tells(t, P) /\ Adds(P, t)
    BY <1>1, ByTimesTells, TimesAddUp DEF t, five
  <2>4. CountIn(P, t[1]) \in 1..4
    <3>1. Len(t) \in 1..5 /\ TimesAt(P, t, 1) > 0
      BY <2>3 DEF Adds
    <3>2. CountIn(P, t[1]) > 0
      BY <3>1 DEF TimesAt
    <3>3. CountIn(P, t[1]) \in 0..4
      BY <1>1, FourOfAFace
    <3> QED BY <3>2, <3>3
  <2>5. CASE OneColor(five)
    <3>1. CountIn(P, t[1]) = 1
      <4>1. CountIn(P, t[1]) \in 0..1
        BY <2>5, ColorHasOneOfAFace DEF five
      <4> QED BY <2>4, <4>1
    <3>2. v.kind = TH /\ TH \in Unrowed /\ TH \in HandType /\ TH \notin {SZ, THS, HJTHS}
      BY <2>2, <2>5 DEF TH, Unrowed, HandType, DZ, SZ, THS, HJTHS
    <3>3. Shaped(TH, P, t)
      BY <1>1, <2>3, <3>1, <3>2, ShapeIs
    <3> QED BY <1>3, <2>2, <2>5, <3>2, <3>3 DEF five
  <2>6. CASE ~OneColor(five)
    <3> DEFINE c1 == CountIn(P, t[1])
               c2 == CountIn(P, t[2])
    <3>1. Len(t) > 1 /\ <<c1, c2>> \in {<<4, 1>>, <<3, 2>>, <<3, 1>>, <<2, 2>>, <<2, 1>>, <<1, 1>>}
      <4> DEFINE d(k) == TimesAt(P, t, k)
      <4>1. /\ Len(t) \in 1..5 /\ \A k \in 1..5 : d(k) \in 0..5 /\ (d(k) > 0 <=> k <= Len(t))
            /\ d(1) + d(2) + d(3) + d(4) + d(5) = 5
            /\ d(1) >= d(2) /\ d(2) >= d(3) /\ d(3) >= d(4) /\ d(4) >= d(5)
        BY <2>3 DEF Adds
      <4>2. d(1) = c1
        BY <4>1 DEF TimesAt
      <4>3. Len(t) > 1 => d(2) = c2
        BY <4>1 DEF TimesAt
      <4>4. c1 \in 1..4
        BY <2>4
      <4> HIDE DEF d, c1, c2
      <4>5. PICK e2 \in 0..5, e3 \in 0..5, e4 \in 0..5, e5 \in 0..5 :
              e2 = d(2) /\ e3 = d(3) /\ e4 = d(4) /\ e5 = d(5)
        BY <4>1
      <4>6. /\ c1 + e2 + e3 + e4 + e5 = 5 /\ c1 >= e2 /\ e2 >= e3 /\ e3 >= e4 /\ e4 >= e5
            /\ (e2 > 0 <=> 2 <= Len(t))
        BY <4>1, <4>2, <4>5
      <4>7. e2 > 0
        BY <4>4, <4>6
      <4>8. Len(t) > 1 /\ c2 = e2
        BY <4>1, <4>3, <4>5, <4>6, <4>7
      <4>9. c1 \in 1..4 /\ e2 \in 1..5 /\ c1 + e2 <= 5 /\ e2 <= c1
        <5>1. c1 \in 1..4 /\ e2 \in 1..5
          BY <4>4, <4>5, <4>7
        <5> QED BY <4>5, <4>6, <5>1
      <4>10. \/ c1 = 4 /\ e2 = 1
             \/ c1 = 3 /\ e2 = 2
             \/ c1 = 3 /\ e2 = 1
             \/ c1 = 2 /\ e2 = 2
             \/ c1 = 2 /\ e2 = 1
             \/ c1 = 1 /\ e2 = 1
        BY <4>9
      <4> QED BY <4>8, <4>10
    <3>2. KindBySeen(five) = KindOf(c1, c2)
      BY <1>1, <2>3, <3>1, KindBySeenIs DEF five
    <3>3. v.kind = KindOf(c1, c2)
      BY <2>2, <2>6, <3>2
    <3>4. /\ KindOf(c1, c2) \in Unrowed /\ KindOf(c1, c2) \in HandType
          /\ KindOf(c1, c2) \notin {TH, SZ, THS, HJTHS}
      BY DEF KindOf, Unrowed, HandType, TH, SZ, THS, HJTHS, ST4, HL, ST3, LD, YD, DZ
    <3> HIDE DEF c1, c2
    <3>5. Shaped(v.kind, P, t)
      <4>1. v.kind \in Unrowed /\ v.kind # TH
        BY <3>3, <3>4
      <4>2. CountIn(P, t[1]) \in 1..4 /\ v.kind = KindOf(CountIn(P, t[1]), CountIn(P, t[2]))
        BY <2>4, <3>3 DEF c1, c2
      <4> QED BY <1>1, <2>3, <4>1, <4>2, ShapeIs
    <3> QED BY <1>3, <2>2, <2>6, <3>3, <3>4, <3>5 DEF five
  <2> QED BY <2>5, <2>6
<1> QED BY <1>2, <1>3

\* Where ranks of the same length differ, one of the two is above the other.
LEMMA RanksDiffer ==
  ASSUME NEW u, NEW v, NEW n \in Nat, u \in [1..n -> Nat], v \in [1..n -> Nat], u # v
  PROVE  RanksAbove(u, v) \/ RanksAbove(v, u)
<1> DEFINE D == {i \in 1..n : u[i] # v[i]}
<1>1. D \in SUBSET Nat /\ D # {}
  OBVIOUS
<1>2. Min(D) \in D /\ \A y \in D : Min(D) <= y
  <2> HIDE DEF D
  <2> QED BY <1>1, MinOfPlaces
<1>3. PICK m \in 1..n : m = Min(D) /\ u[m] # v[m]
  BY <1>2
<1>4. ASSUME NEW j \in 1..(m - 1) PROVE u[j] = v[j]
  <2>1. j \in 1..n /\ ~(m <= j)
    BY <1>3
  <2>2. j \notin D
    BY <1>2, <1>3, <2>1
  <2> QED BY <2>1, <2>2
<1>5. u[m] \in Nat /\ v[m] \in Nat /\ m \in DOMAIN u /\ m \in DOMAIN v
  BY <1>3
<1>6. u[m] > v[m] \/ v[m] > u[m]
  BY <1>3, <1>5
<1> QED BY <1>4, <1>5, <1>6 DEF RanksAbove

\* Hands of one kind have as many ranks.
LEMMA RanksOfKind ==
  ASSUME NEW P, FiveOwn(P), NEW Q, FiveOwn(Q), NEW v, v = Value(ToSet(P)),
         NEW w, w = Value(ToSet(Q)), v.kind = w.kind
  PROVE  \E n \in Nat : v.ranks \in [1..n -> Nat] /\ w.ranks \in [1..n -> Nat]
<1>1. /\ v.kind \in {SZ, THS, HJTHS} <=> InARow(ToSet(P))
      /\ ~InARow(ToSet(P)) => v.kind \in Unrowed /\ Shaped(v.kind, P, v.ranks)
  BY ValueHasShape
<1>2. /\ w.kind \in {SZ, THS, HJTHS} <=> InARow(ToSet(Q))
      /\ ~InARow(ToSet(Q)) => w.kind \in Unrowed /\ Shaped(w.kind, Q, w.ranks)
  BY ValueHasShape
<1>3. CASE InARow(ToSet(P))
  <2>1. InARow(ToSet(Q))
    BY <1>1, <1>2, <1>3
  <2>2. ASSUME NEW R, FiveOwn(R), InARow(ToSet(R))
        PROVE  LET x == Value(ToSet(R)) IN
                 x.ranks \in [1..(IF x.kind = HJTHS THEN 0 ELSE 1) -> Nat]
    <3> DEFINE five == ToSet(R)
               x == Value(five)
    <3>1. Top(five) \in Nat
      <4>1. R \in Seq(Card) /\ Len(R) = 5 /\ \A i \in 1..5 : R[i].face \in Faces
        BY <2>2, FiveOwnFacts
      <4>2. FacesIn(five) \in SUBSET Faces
        BY <4>1 DEF FacesIn, ToSet
      <4>3. FacesIn(five) # {}
        BY <4>1 DEF FacesIn, ToSet
      <4>4. Max(FacesIn(five)) \in Faces
        BY <4>2, <4>3, MaxFace
      <4> QED BY <4>4 DEF Top, Faces
    <3> HIDE DEF five
    <3>2. x = IF ~OneColor(five) THEN [kind |-> 4, ranks |-> <<Top(five)>>]
              ELSE IF Top(five) = 13 THEN [kind |-> 9, ranks |-> <<>>]
              ELSE [kind |-> 8, ranks |-> <<Top(five)>>]
      BY <2>2 DEF Value, five
    <3> HIDE DEF x
    <3>3. <<Top(five)>> \in [1..1 -> Nat]
      BY <3>1
    <3>4. <<>> \in [1..0 -> Nat]
      OBVIOUS
    <3>5. CASE ~OneColor(five)
      BY <3>2, <3>3, <3>5 DEF HJTHS, x, five
    <3>6. CASE OneColor(five) /\ Top(five) = 13
      BY <3>2, <3>4, <3>6 DEF HJTHS, x, five
    <3>7. CASE OneColor(five) /\ Top(five) # 13
      BY <3>2, <3>3, <3>7 DEF HJTHS, x, five
    <3> QED BY <3>5, <3>6, <3>7
  <2> DEFINE n == IF v.kind = HJTHS THEN 0 ELSE 1
  <2>3. v.ranks \in [1..n -> Nat] /\ w.ranks \in [1..n -> Nat]
    BY <1>3, <2>1, <2>2
  <2>4. n \in Nat
    OBVIOUS
  <2> HIDE DEF n
  <2> QED BY <2>3, <2>4
<1>4. CASE ~InARow(ToSet(P))
  <2>1. Shaped(v.kind, P, v.ranks) /\ Shaped(v.kind, Q, w.ranks)
    BY <1>1, <1>2, <1>4
  <2>2. v.ranks \in Seq(Faces) /\ w.ranks \in Seq(Faces) /\ Len(v.ranks) = Len(w.ranks)
    BY <2>1 DEF Shaped, Tells
  <2>3. ASSUME NEW u \in Seq(Faces) PROVE Len(u) \in Nat /\ u \in [1..Len(u) -> Nat]
    <3>1. Len(u) \in Nat /\ u \in [1..Len(u) -> Faces]
      BY LenProperties
    <3> QED BY <3>1 DEF Faces
  <2> QED BY <2>2, <2>3
<1> QED BY <1>3, <1>4

\* The cards of any five are among those listed.
LEMMA HandIsListed ==
  ASSUME Listed, NEW P, FiveOwn(P)
  PROVE  /\ \A i \in 1..5 : \E j \in 1..Len(tmpPokers) : P[i] = tmpPokers[j]
         /\ \A f : CountIn(P, f) \in 0..5 /\ CountIn(P, f) <= Count({f})
<1>1. /\ Five(P) /\ P \in Seq(Card) /\ Len(P) = 5 /\ DOMAIN P = 1..5
      /\ \A i \in 1..5 : P[i] \in Card /\ P[i] \in originPokers
      /\ \A i, j \in 1..5 : i # j => P[i] # P[j]
  BY FiveOwnFacts, LenProperties
<1>2. tmpPokers \in Seq(Card) /\ DOMAIN tmpPokers = 1..Len(tmpPokers)
  BY LenProperties DEF Listed, Own
<1>3. ASSUME NEW i \in 1..5 PROVE \E j \in 1..Len(tmpPokers) : P[i] = tmpPokers[j]
  <2>1. P[i] \in originPokers \ {LaiZi}
    BY <1>1, CardFacts
  <2>2. P[i] \in ToSet(tmpPokers)
    BY <2>1 DEF Listed
  <2> QED BY <1>2, <2>2 DEF ToSet
<1>4. ASSUME NEW f PROVE CountIn(P, f) \in 0..5 /\ CountIn(P, f) <= Count({f})
  <2> DEFINE F == {f}
             S == Spots(P, F)
             T == Spots(tmpPokers, F)
             h == [i \in S |-> CHOOSE j \in T : P[i] = tmpPokers[j]]
             U == {h[i] : i \in S}
  <2>1. S \in SUBSET (1..5) /\ \A i \in S : P[i].face = f
    BY <1>1 DEF Spots
  <2>2. ASSUME NEW i \in S PROVE h[i] \in T /\ P[i] = tmpPokers[h[i]]
    <3>1. PICK j \in 1..Len(tmpPokers) : P[i] = tmpPokers[j]
      BY <1>3, <2>1
    <3>2. j \in T
      BY <1>2, <2>1, <3>1 DEF Spots
    <3> QED BY <3>1, <3>2
  <2>3. IsFiniteSet(S) /\ IsFiniteSet(T) /\ Cardinality(T) \in Nat
    <3> HIDE DEF F
    <3> QED BY <1>1, <1>2, SpotsType, FS_CardinalityType
  <2> HIDE DEF S, T
  <2>4. h \in [S -> U] /\ U \in SUBSET T
    BY <2>2
  <2>5. \A a, b \in S : h[a] = h[b] => a = b
    <3> HIDE DEF h
    <3> QED BY <1>1, <2>1, <2>2
  <2>6. \A t \in U : \E a \in S : h[a] = t
    OBVIOUS
  <2> HIDE DEF h, U
  <2>7. Cardinality(U) = Cardinality(S)
    BY <2>3, <2>4, <2>5, <2>6, SameCount
  <2>8. Cardinality(U) <= Cardinality(T)
    BY <2>3, <2>4, FS_Subset
  <2>9. CountIn(P, f) \in 0..5
    BY <1>1, TimesIs
  <2> QED BY <2>7, <2>8, <2>9 DEF CountIn, Count, S, T, F
<1> QED BY <1>3, <1>4

\* Any five of the cards are listed in some way, the smallest first.
LEMMA FiveAreListed ==
  ASSUME Listed, ~HaveLz, NEW five \in kSubset(5, originPokers)
  PROVE  \E P : FiveOwn(P) /\ Rising(P) /\ ToSet(P) = five
<1> DEFINE s == tmpPokers
           S == {i \in 1..Len(s) : s[i] \in five}
           P == Upwards(S)
<1>1. /\ Own(s) /\ Rising(s) /\ s \in Seq(Card) /\ Len(s) \in Nat /\ DOMAIN s = 1..Len(s)
      /\ \A i, j \in 1..Len(s) : i # j => s[i] # s[j]
  BY LenProperties DEF Listed, Own
<1>2. five \in SUBSET originPokers /\ Cardinality(five) = 5
  BY DEF kSubset
<1>3. \A p \in five : \E i \in 1..Len(s) : s[i] = p
  <2>1. \A p \in five : p \in ToSet(s)
    BY <1>2 DEF Listed, HaveLz
  <2> QED BY <1>1, <2>1 DEF ToSet
<1>4. S \in SUBSET (1..Len(s)) /\ IsFiniteSet(S)
  <2>1. IsFiniteSet(1..Len(s))
    BY <1>1, SizeOfPlaces
  <2> QED BY <2>1, FS_Subset
<1>5. Cardinality(S) = 5
  <2> DEFINE h == [i \in S |-> s[i]]
  <2>1. h \in [S -> five]
    OBVIOUS
  <2>2. \A a, b \in S : h[a] = h[b] => a = b
    BY <1>1
  <2>3. \A p \in five : \E a \in S : h[a] = p
    BY <1>3
  <2> HIDE DEF h, S
  <2>4. Cardinality(five) = Cardinality(S)
    BY <1>4, <2>1, <2>2, <2>3, SameCount
  <2> QED BY <1>2, <2>4
<1>6. FiveOwn(P) /\ Rising(P) /\ Picks(P, s, S)
  <2> HIDE DEF S
  <2>1. Own(P) /\ Len(P) = Cardinality(S) /\ Picks(P, s, S)
    BY <1>1, <1>4, DownwardsFacts
  <2>2. Rising(P)
    BY <1>1, <1>4, DownwardsOrder
  <2> QED BY <1>5, <2>1, <2>2 DEF FiveOwn
<1>7. ToSet(P) = five
  <2> DEFINE m == Cardinality(S)
  <2>0. \A i \in S : s[i] \in five
    OBVIOUS
  <2>00. \A p \in five : \E i \in S : s[i] = p
    BY <1>3
  <2> HIDE DEF S, P
  <2>1. PICK f \in [1..m -> S] : /\ \A k, l \in 1..m : f[k] = f[l] => k = l
                                 /\ \A i \in S : \E k \in 1..m : f[k] = i
                                 /\ P = [k \in 1..m |-> s[f[k]]]
    BY <1>6 DEF Picks, PicksBy
  <2>2. DOMAIN P = 1..m
    BY <2>1
  <2>3. ToSet(P) \in SUBSET five
    BY <2>0, <2>1, <2>2 DEF ToSet
  <2>4. ASSUME NEW p \in five PROVE p \in ToSet(P)
    <3>1. PICK i \in S : s[i] = p
      BY <2>00
    <3>2. PICK k \in 1..m : f[k] = i
      BY <2>1
    <3>3. P[k] = p
      BY <2>1, <3>1, <3>2
    <3> QED BY <2>2, <3>3 DEF ToSet
  <2> QED BY <2>3, <2>4
<1> QED BY <1>6, <1>7

\* Any five of the player's and the board's cards are worth no more.
NoneBeats(w) == \A P : FiveOwn(P) /\ Rising(P) => ~Beats(Value(ToSet(P)), w)

\* What five cards are worth, if no others are worth more, is what the rules give.
LEMMA BestIs ==
  ASSUME Listed, ~HaveLz, NEW Q, FiveOwn(Q), NEW w, w = Value(ToSet(Q)), NoneBeats(w)
  PROVE  BestValue(originPokers) = w
<1> DEFINE values == {Value(five) : five \in kSubset(5, originPokers)}
           v == BestOf(values)
<1>1. w \in values
  <2>1. /\ DOMAIN Q = 1..5 /\ Len(Q) = 5 /\ \A i \in 1..5 : Q[i] \in originPokers
        /\ \A i, j \in 1..5 : i # j => Q[i] # Q[j]
    BY FiveOwnFacts, LenProperties
  <2> DEFINE T == ToSet(Q)
             g == [i \in 1..5 |-> Q[i]]
  <2>2. g \in [1..5 -> T] /\ T \in SUBSET originPokers
    BY <2>1 DEF ToSet
  <2>3. \A a, b \in 1..5 : g[a] = g[b] => a = b
    BY <2>1
  <2>4. \A x \in T : \E a \in 1..5 : g[a] = x
    BY <2>1 DEF ToSet
  <2>5. PICK n \in Nat : n = 5
    OBVIOUS
  <2> HIDE DEF T, g
  <2>6. Cardinality(T) = n
    <3>1. g \in [1..n -> T] /\ (\A a, b \in 1..n : g[a] = g[b] => a = b)
          /\ \A x \in T : \E a \in 1..n : g[a] = x
      BY <2>2, <2>3, <2>4, <2>5
    <3> QED BY <3>1, CountTo
  <2>7. T \in kSubset(5, originPokers)
    BY <2>2, <2>5, <2>6 DEF kSubset
  <2> QED BY <2>7 DEF T
<1>2. ASSUME NEW x \in values
      PROVE  \E P : FiveOwn(P) /\ Rising(P) /\ x = Value(ToSet(P))
  <2>1. PICK five \in kSubset(5, originPokers) : x = Value(five)
    OBVIOUS
  <2> QED BY <2>1, FiveAreListed
<1> HIDE DEF values
<1>3. \A x \in values : ~Beats(x, w)
  BY <1>2 DEF NoneBeats
<1>4. v \in values /\ \A x \in values : ~Beats(x, v)
  BY <1>1, <1>3 DEF BestOf
<1> HIDE DEF v
<1>5. PICK P : FiveOwn(P) /\ v = Value(ToSet(P))
  BY <1>2, <1>4
<1>6. v.kind = w.kind
  <2>1. v.kind \in HandType /\ w.kind \in HandType
    BY <1>5, ValueHasShape
  <2>2. ~(v.kind > w.kind) /\ ~(w.kind > v.kind)
    BY <1>1, <1>3, <1>4 DEF Beats
  <2> QED BY <2>1, <2>2 DEF HandType, DZ, HJTHS
<1>7. v.ranks = w.ranks
  <2>1. PICK n \in Nat : v.ranks \in [1..n -> Nat] /\ w.ranks \in [1..n -> Nat]
    BY <1>5, <1>6, RanksOfKind
  <2>2. ~RanksAbove(v.ranks, w.ranks) /\ ~RanksAbove(w.ranks, v.ranks)
    BY <1>1, <1>3, <1>4, <1>6 DEF Beats
  <2> QED BY <2>1, <2>2, RanksDiffer
<1>8. ASSUME NEW five PROVE Value(five) = [kind |-> Value(five).kind, ranks |-> Value(five).ranks]
  BY DEF Value
<1>9. v = w
  BY <1>5, <1>6, <1>7, <1>8
<1> QED BY <1>9 DEF v, values, BestValue

-----------------------------------------------------------------------------
(* Hands of a kind.                                                          *)

\* The cards P has and Q lacks are no larger than those Q has one of a face of.
Kept(P, Q) ==
  \A i \in 1..5 : \/ \E j \in 1..5 : Q[j].face = P[i].face
                  \/ \A j \in 1..5 : CountIn(Q, Q[j].face) = 1 => P[i].face <= Q[j].face

\* No face that u has more than once is above the one of v.
HeadsHold(kind, u, v) ==
  \A k \in 1..Len(u) :
    ShapeOf(kind)[k] > 1 /\ (\A j \in 1..(k - 1) : u[j] = v[j]) => u[k] <= v[k]

LEMMA NotOutranked ==
  ASSUME NEW kind, NEW P, FiveOwn(P), NEW u, Shaped(kind, P, u),
         NEW Q, FiveOwn(Q), NEW v, Shaped(kind, Q, v), Kept(P, Q), HeadsHold(kind, u, v)
  PROVE  ~RanksAbove(u, v)
<1>1. /\ u \in Seq(Faces) /\ v \in Seq(Faces) /\ Len(u) = Len(v) /\ Len(u) \in Nat
      /\ DOMAIN u = 1..Len(u)
      /\ \A k \in 1..Len(u) : u[k] \in Faces /\ v[k] \in Faces
      /\ Len(u) = Len(ShapeOf(kind))
      /\ \A k \in 1..Len(u) : CountIn(Q, v[k]) = ShapeOf(kind)[k]
  <2>1. u \in Seq(Faces) /\ v \in Seq(Faces) /\ Len(u) = Len(ShapeOf(kind)) /\ Len(u) = Len(v)
    BY DEF Shaped, Tells
  <2>2. \A k \in 1..Len(u) : u[k] \in Faces /\ v[k] \in Faces
    BY <2>1, ElementOfSeq
  <2> QED BY <2>1, <2>2, LenProperties DEF Shaped
<1>2. /\ \A k \in 1..Len(u) : \E i \in 1..5 : P[i].face = u[k]
      /\ \A k, l \in 1..Len(u) : k < l =>
           \/ CountIn(P, u[k]) > CountIn(P, u[l])
           \/ CountIn(P, u[k]) = CountIn(P, u[l]) /\ u[k] > u[l]
  BY DEF Shaped, Tells
<1>3. /\ \A k \in 1..Len(u) : \E i \in 1..5 : Q[i].face = v[k]
      /\ \A i \in 1..5 : \E k \in 1..Len(u) : v[k] = Q[i].face
      /\ \A k, l \in 1..Len(u) : k < l =>
           \/ CountIn(Q, v[k]) > CountIn(Q, v[l])
           \/ CountIn(Q, v[k]) = CountIn(Q, v[l]) /\ v[k] > v[l]
  BY <1>1 DEF Shaped, Tells
<1>4. \A k \in 1..Len(u) : ShapeOf(kind)[k] \in 1..4
  <2>1. \A k \in 1..2 : <<4, 1>>[k] \in 1..4 /\ <<3, 2>>[k] \in 1..4
    OBVIOUS
  <2>2. \A k \in 1..3 : <<3, 1, 1>>[k] \in 1..4 /\ <<2, 2, 1>>[k] \in 1..4
    OBVIOUS
  <2>3. \A k \in 1..4 : <<2, 1, 1, 1>>[k] \in 1..4
    OBVIOUS
  <2>4. \A k \in 1..5 : <<1, 1, 1, 1, 1>>[k] \in 1..4
    OBVIOUS
  <2>5. /\ Len(<<4, 1>>) = 2 /\ Len(<<3, 2>>) = 2 /\ Len(<<3, 1, 1>>) = 3 /\ Len(<<2, 2, 1>>) = 3
        /\ Len(<<2, 1, 1, 1>>) = 4 /\ Len(<<1, 1, 1, 1, 1>>) = 5
    OBVIOUS
  <2> QED BY <1>1, <2>1, <2>2, <2>3, <2>4, <2>5 DEF ShapeOf
<1>5. SUFFICES ASSUME NEW i \in 1..Len(u), u[i] > v[i], \A j \in 1..(i - 1) : u[j] = v[j]
               PROVE  FALSE
  BY <1>1 DEF RanksAbove
<1>6. u[i] \in Faces /\ v[i] \in Faces /\ ~(u[i] <= v[i]) /\ u[i] # v[i]
  <2>1. u[i] \in Faces /\ v[i] \in Faces
    BY <1>1, <1>5
  <2> QED BY <1>5, <2>1 DEF Faces
<1>7. ShapeOf(kind)[i] = 1 /\ CountIn(Q, v[i]) = 1
  <2>1. ~(ShapeOf(kind)[i] > 1)
    BY <1>5, <1>6 DEF HeadsHold
  <2> QED BY <1>1, <1>4, <2>1
<1>8. PICK a \in 1..5 : P[a].face = u[i]
  BY <1>2
<1>9. PICK b \in 1..5 : Q[b].face = v[i]
  BY <1>3
<1>10. PICK c \in 1..5 : Q[c].face = u[i]
  <2>1. \/ \E j \in 1..5 : Q[j].face = P[a].face
        \/ CountIn(Q, Q[b].face) = 1 => P[a].face <= Q[b].face
    BY DEF Kept
  <2> QED BY <1>6, <1>7, <1>8, <1>9, <2>1
<1>11. PICK k \in 1..Len(u) : v[k] = u[i]
  BY <1>3, <1>10
<1>12. k \in Int /\ i \in Int /\ k # i
  BY <1>1, <1>6, <1>11
<1>13. CASE k < i
  <2>1. k \in 1..(i - 1)
    BY <1>1, <1>12, <1>13
  <2>2. u[k] = u[i]
    BY <1>5, <1>11, <2>1
  <2>3. \/ CountIn(P, u[k]) > CountIn(P, u[i])
        \/ CountIn(P, u[k]) = CountIn(P, u[i]) /\ u[k] > u[i]
    BY <1>2, <1>13
  <2>4. CountIn(P, u[i]) \in 0..5
    BY FiveOwnFacts, TimesIs
  <2> QED BY <1>6, <2>2, <2>3, <2>4 DEF Faces
<1>14. CASE k > i
  <2>1. \/ CountIn(Q, v[i]) > CountIn(Q, v[k])
        \/ CountIn(Q, v[i]) = CountIn(Q, v[k]) /\ v[i] > v[k]
    BY <1>3, <1>12, <1>14
  <2>2. CountIn(Q, v[k]) \in 1..4
    BY <1>1, <1>4
  <2>3. v[i] > v[k]
    BY <1>7, <2>1, <2>2
  <2>4. v[i] > u[i]
    BY <1>11, <2>3
  <2> DEFINE x == u[i]
             y == v[i]
  <2>5. x \in Int /\ y \in Int /\ ~(x <= y) /\ y > x
    BY <1>6, <2>4 DEF Faces
  <2> HIDE DEF x, y
  <2> QED BY <2>5
<1> QED BY <1>12, <1>13, <1>14

\* The five cards at some places, all of them.
Taken(Q, S) ==
  /\ \A i \in S : \E j \in 1..5 : Q[j] = tmpPokers[i]
  /\ \A j \in 1..5 : \E i \in S : Q[j] = tmpPokers[i]

LEMMA PickedAreTaken ==
  ASSUME Listed, NEW S \in SUBSET (1..Len(tmpPokers)), Cardinality(S) = 5,
         NEW Q, Picks(Q, tmpPokers, S)
  PROVE  FiveOwn(Q) /\ Taken(Q, S)
<1> DEFINE s == tmpPokers
           m == Cardinality(S)
<1>1. Own(s) /\ s \in Seq(Card)
  BY DEF Listed, Own
<1>2. FiveOwn(Q)
  BY <1>1, PicksOfOwn DEF FiveOwn
<1>3. PICK f \in [1..m -> S] : /\ \A i \in S : \E k \in 1..m : f[k] = i
                               /\ Q = [k \in 1..m |-> s[f[k]]]
  BY DEF Picks, PicksBy
<1>4. \A i \in S : \E j \in 1..5 : Q[j] = s[i]
  BY <1>3
<1>5. \A j \in 1..5 : f[j] \in S /\ Q[j] = s[f[j]]
  BY <1>3
<1> QED BY <1>2, <1>4, <1>5 DEF Taken

\* Without the wild card the first five of five are all of them.
LEMMA FiveAreAll ==
  ASSUME Listed, ~HaveLz, NEW S \in SUBSET (1..Len(tmpPokers)), Cardinality(S) = 5, NEW f
  PROVE  /\ Picks(FiveDownwards(S, f), tmpPokers, S)
         /\ Picks(Reverse(FiveDownwards(S, f)), tmpPokers, S)
<1> DEFINE t == Downwards(S)
<1>1. tmpPokers \in Seq(Card)
  BY DEF Listed, Own
<1>2. t \in Seq(Card) /\ Len(t) = 5 /\ Picks(t, tmpPokers, S)
  BY DownwardsFacts DEF Listed, Own
<1>3. FiveDownwards(S, f) = SubSeq(t, 1, 5)
  BY DEF FiveDownwards
<1>4. SubSeq(t, 1, 5) = t
  <2> HIDE DEF t
  <2>1. SubSeq(t, 1, Len(t)) = t
    BY <1>2, SubSeqFull
  <2> QED BY <1>2, <2>1
<1> HIDE DEF t
<1>5. FiveDownwards(S, f) = t
  BY <1>3, <1>4
<1>6. Picks(Reverse(t), tmpPokers, S)
  BY <1>1, <1>2, ReversePicks
<1> QED BY <1>2, <1>5, <1>6

\* The places of the largest cards leave only smaller ones out.
LEMMA PlacesKeep ==
  ASSUME Listed, NEW F, NEW n \in Nat, NEW Q, FiveOwn(Q), Taken(Q, PlacesOf(F, n)),
         \A j \in 1..5 : Q[j].face \in F => CountIn(Q, Q[j].face) # 1,
         NEW P, FiveOwn(P)
  PROVE  Kept(P, Q)
<1> DEFINE s == tmpPokers
           Other(i) == s[i].face \notin F
           after(i) == {j \in DOMAIN s : j > i /\ Other(j)}
           S == PlacesOf(F, n)
<1>1. /\ Rising(s) /\ DOMAIN s = 1..Len(s) /\ Len(s) \in Nat
      /\ \A i \in 1..Len(s) : s[i] \in Card /\ s[i].face \in Faces
  <2>1. s \in Seq(Card) /\ Rising(s)
    BY DEF Listed, Own
  <2> QED BY <2>1, ElementOfSeq, LenProperties, CardFacts
<1>2. S = {i \in DOMAIN s : Other(i) => Cardinality(after(i)) < n}
  BY DEF PlacesOf
<1>3. \A i \in DOMAIN s : IsFiniteSet(after(i)) /\ Cardinality(after(i)) \in Nat
  <2>1. IsFiniteSet(1..Len(s))
    BY <1>1, SizeOfPlaces
  <2>2. \A i \in DOMAIN s : after(i) \in SUBSET (1..Len(s))
    BY <1>1
  <2> HIDE DEF after
  <2> QED BY <2>1, <2>2, FS_Subset, FS_CardinalityType
<1>4. ASSUME NEW a \in DOMAIN s, NEW b \in DOMAIN s, b <= a
      PROVE  Cardinality(after(a)) <= Cardinality(after(b))
  <2>1. after(a) \in SUBSET after(b)
    BY <1>1, <1>4
  <2> HIDE DEF after
  <2> QED BY <1>3, <2>1, FS_Subset
<1> HIDE DEF S
<1>5. SUFFICES ASSUME NEW i \in 1..5, \A j \in 1..5 : Q[j].face # P[i].face,
                      NEW j \in 1..5, CountIn(Q, Q[j].face) = 1
               PROVE  P[i].face <= Q[j].face
  BY DEF Kept
<1>6. PICK a \in 1..Len(s) : P[i] = s[a]
  BY HandIsListed
<1>7. PICK b \in S : Q[j] = s[b]
  BY DEF Taken, S
<1>8. a \notin S
  BY <1>5, <1>6 DEF Taken, S
<1>9. b \in DOMAIN s /\ Other(b) /\ Cardinality(after(b)) < n
  <2>1. Q[j].face \notin F
    BY <1>5
  <2> HIDE DEF after
  <2> QED BY <1>2, <1>7, <2>1
<1>10. a \in DOMAIN s /\ ~(Cardinality(after(a)) < n)
  <2> HIDE DEF after
  <2> QED BY <1>1, <1>2, <1>6, <1>8
<1> HIDE DEF after
<1>11. ~(b <= a)
  BY <1>3, <1>4, <1>9, <1>10
<1>12. a < b
  BY <1>1, <1>9, <1>10, <1>11
<1> QED BY <1>1, <1>6, <1>7, <1>9, <1>10, <1>12 DEF Rising

-----------------------------------------------------------------------------
(* What a kind asks of the cards.                                            *)

LEMMA SeenOften ==
  ASSUME Listed, NEW f \in Faces, Count({f}) >= 2
  PROVE  /\ Count({f}) \in 2..4 /\ f \in Seen(seems, Count({f}))
         /\ f \in Seen(seems, 2) \union Seen(seems, 3) \union Seen(seems, 4)
         /\ Count({f}) >= 3 => f \in Seen(seems, 3) \union Seen(seems, 4)
         /\ Count({f}) >= 4 => f \in Seen(seems, 4)
<1>1. Count({f}) \in 0..4
  BY SeenFacts
<1>2. seems[f] = IF Count({f}) = 1 THEN 0 ELSE Count({f})
  BY DEF Listed
<1> DEFINE n == Count({f})
<1>3. n \in 2..4 /\ seems[f] = n
  BY <1>1, <1>2
<1> HIDE DEF n
<1>4. \A m : seems[f] = m => f \in Seen(seems, m)
  BY DEF Seen
<1>5. n = 2 \/ n = 3 \/ n = 4
  BY <1>3
<1>6. f \in Seen(seems, n)
  BY <1>3, <1>4
<1> QED BY <1>3, <1>5, <1>6 DEF n

Often == Seen(seems, 2) \union Seen(seems, 3) \union Seen(seems, 4)

LEMMA KindNeeds ==
  ASSUME Listed, NEW P, FiveOwn(P), NEW kind, NEW u, Shaped(kind, P, u)
  PROVE  /\ kind = YD => u[1] \in Often
         /\ kind = LD => u[1] \in Often /\ u[2] \in Often /\ u[1] > u[2]
         /\ kind = ST3 => u[1] \in Seen(seems, 3) \union Seen(seems, 4)
         /\ kind = HL => /\ u[1] \in Seen(seems, 3) \union Seen(seems, 4)
                         /\ u[2] \in Often /\ u[1] # u[2]
         /\ kind = ST4 => u[1] \in Seen(seems, 4)
<1>1. /\ u \in Seq(Faces) /\ Len(u) \in Nat /\ Len(u) = Len(ShapeOf(kind))
      /\ \A k \in 1..Len(u) : u[k] \in Faces
  BY ElementOfSeq, LenProperties DEF Shaped, Tells
<1>2. /\ \A k \in 1..Len(u) : CountIn(P, u[k]) = ShapeOf(kind)[k]
      /\ \A k, l \in 1..Len(u) : k < l =>
           \/ CountIn(P, u[k]) > CountIn(P, u[l])
           \/ CountIn(P, u[k]) = CountIn(P, u[l]) /\ u[k] > u[l]
  BY DEF Shaped, Tells
<1>3. ASSUME NEW k \in 1..Len(u), ShapeOf(kind)[k] \in 2..4
      PROVE  /\ u[k] \in Often
             /\ ShapeOf(kind)[k] >= 3 => u[k] \in Seen(seems, 3) \union Seen(seems, 4)
             /\ ShapeOf(kind)[k] >= 4 => u[k] \in Seen(seems, 4)
  <2> DEFINE f == u[k]
             n == ShapeOf(kind)[k]
  <2>1. f \in Faces /\ CountIn(P, f) = n
    BY <1>1, <1>2
  <2>2. CountIn(P, f) <= Count({f})
    BY HandIsListed
  <2>3. Count({f}) \in 0..4
    BY <2>1, SeenFacts
  <2>4. n \in 2..4
    BY <1>3
  <2> HIDE DEF f, n
  <2>5. Count({f}) >= n
    BY <2>1, <2>2, <2>3
  <2>6. Count({f}) >= 2 /\ (n >= 3 => Count({f}) >= 3) /\ (n >= 4 => Count({f}) >= 4)
    BY <2>3, <2>4, <2>5
  <2>7. /\ f \in Often
        /\ Count({f}) >= 3 => f \in Seen(seems, 3) \union Seen(seems, 4)
        /\ Count({f}) >= 4 => f \in Seen(seems, 4)
    BY <2>1, <2>6, SeenOften DEF Often
  <2> QED BY <2>6, <2>7 DEF f, n
<1>4. CASE kind = YD
  <2>1. ShapeOf(kind) = <<2, 1, 1, 1>>
    BY <1>4 DEF ShapeOf, YD, LD, ST3, HL, ST4
  <2>2. 1 \in 1..Len(u) /\ ShapeOf(kind)[1] = 2
    BY <1>1, <2>1
  <2>3. u[1] \in Often
    BY <1>3, <2>2
  <2> QED BY <1>4, <2>3 DEF YD, LD, ST3, HL, ST4
<1>5. CASE kind = LD
  <2>1. ShapeOf(kind) = <<2, 2, 1>>
    BY <1>5 DEF ShapeOf, YD, LD, ST3, HL, ST4
  <2>2. 1 \in 1..Len(u) /\ 2 \in 1..Len(u) /\ ShapeOf(kind)[1] = 2 /\ ShapeOf(kind)[2] = 2
    BY <1>1, <2>1
  <2>3. u[1] \in Often /\ u[2] \in Often
    BY <1>3, <2>2
  <2>4. CountIn(P, u[1]) = 2 /\ CountIn(P, u[2]) = 2
    BY <1>2, <2>2
  <2>5. u[1] > u[2]
    BY <1>2, <2>2, <2>4
  <2> QED BY <1>5, <2>3, <2>5 DEF YD, LD, ST3, HL, ST4
<1>6. CASE kind = ST3
  <2>1. ShapeOf(kind) = <<3, 1, 1>>
    BY <1>6 DEF ShapeOf, YD, LD, ST3, HL, ST4
  <2>2. 1 \in 1..Len(u) /\ ShapeOf(kind)[1] = 3
    BY <1>1, <2>1
  <2>3. u[1] \in Seen(seems, 3) \union Seen(seems, 4)
    BY <1>3, <2>2
  <2> QED BY <1>6, <2>3 DEF YD, LD, ST3, HL, ST4
<1>7. CASE kind = HL
  <2>1. ShapeOf(kind) = <<3, 2>>
    BY <1>7 DEF ShapeOf, YD, LD, ST3, HL, ST4
  <2>2. 1 \in 1..Len(u) /\ 2 \in 1..Len(u) /\ ShapeOf(kind)[1] = 3 /\ ShapeOf(kind)[2] = 2
    BY <1>1, <2>1
  <2>3. u[1] \in Seen(seems, 3) \union Seen(seems, 4)
    BY <1>3, <2>2
  <2>4. u[2] \in Often
    BY <1>3, <2>2
  <2>5. CountIn(P, u[1]) = 3 /\ CountIn(P, u[2]) = 2
    BY <1>2, <2>2
  <2>6. u[1] # u[2]
    BY <2>5
  <2> QED BY <1>7, <2>3, <2>4, <2>6 DEF YD, LD, ST3, HL, ST4
<1>8. CASE kind = ST4
  <2>1. ShapeOf(kind) = <<4, 1>>
    BY <1>8 DEF ShapeOf, YD, LD, ST3, HL, ST4
  <2>2. 1 \in 1..Len(u) /\ ShapeOf(kind)[1] = 4
    BY <1>1, <2>1
  <2>3. u[1] \in Seen(seems, 4)
    BY <1>3, <2>2
  <2> QED BY <1>8, <2>3 DEF YD, LD, ST3, HL, ST4
<1> QED BY <1>4, <1>5, <1>6, <1>7, <1>8

-----------------------------------------------------------------------------
(* No larger row is overlooked.                                              *)

Reach(row, x) == row # <<>> /\ row[5].face >= x

Steps(s, a) == \A k \in 0..3 : s[a + k + 1].face = s[a + k].face + 1

LEMMA FiveLooked ==
  ASSUME NEW five
  PROVE  LET r == CheckIsSZ2(five)
         IN  IF r.break = 0 THEN r.row = five
             ELSE r.break \in 1..4 /\ five[r.break + 1].face # five[r.break].face + 1
<1> DEFINE broken == {i \in 1..4 : five[i + 1].face # five[i].face + 1}
<1>1. CASE broken = {}
  BY <1>1 DEF CheckIsSZ2, InRow
<1>2. CASE broken # {}
  <2>1. CheckIsSZ2(five) = Broken(Min(broken))
    BY <1>2 DEF CheckIsSZ2
  <2>2. Min(broken) \in broken
    <3>1. broken \in SUBSET Nat
      OBVIOUS
    <3> HIDE DEF broken
    <3> QED BY <1>2, <3>1, MinOfPlaces
  <2> QED BY <2>1, <2>2 DEF Broken
<1> QED BY <1>1, <1>2

\* The search stops at a row no smaller than any there is: a break is never within
\* that row, so it never goes behind its last card.
LEMMA CutReaches ==
  ASSUME NEW s, Own(s), Strict(s), ~HaveLz, NEW a \in Nat \ {0}, a + 4 <= Len(s), Steps(s, a)
  PROVE  Reach(CutSZForCheck(s, 5), s[a + 4].face)
<1> DEFINE l == Len(s)
           found == [last \in 5..l |-> CheckIsSZ2(SubSeq(s, last - 5 + 1, last))]
           f == CHOOSE g : IsSearch(g, found, 5, l)
           x == s[a + 4].face
<1>1. l \in Nat /\ a + 4 <= l /\ \A i \in 1..l : s[i].face \in Faces
  <2>1. s \in Seq(Card) /\ l \in Nat
    BY LenProperties DEF Own
  <2> QED BY <2>1, ElementOfSeq, CardFacts
<1>2. ASSUME NEW k \in 5..l
      PROVE  /\ Looked(found[k], 5, Colors)
             /\ IF found[k].break = 0
                THEN found[k].row # <<>> /\ found[k].row[5] = s[k]
                ELSE LET b == found[k].break
                     IN  b \in 1..4 /\ s[k - 5 + b + 1].face # s[k - 5 + b].face + 1
  <2>1. PICK c \in Nat \ {0}, d \in Nat : c = k - 5 + 1 /\ d = k
    BY <1>1
  <2>2. c <= d /\ d <= Len(s) /\ d - c + 1 = 5
    BY <1>1, <2>1
  <2> DEFINE t == SubSeq(s, c, d)
  <2>3. /\ Own(t) /\ Strict(t) /\ Len(t) = d - c + 1
        /\ \A i \in 1..d - c + 1 : t[i] = s[c + i - 1] /\ c + i - 1 \in 1..Len(s)
    BY <2>2, StrictPart
  <2>4. found[k] = CheckIsSZ2(t)
    BY <2>1
  <2> HIDE DEF t, found
  <2>5. ColoredIn(t, Colors)
    <3>1. \A i \in 1..Len(t) : t[i] \in Card
      BY <2>3, ElementOfSeq DEF Own
    <3> QED BY <3>1, CardFacts DEF ColoredIn
  <2>6. Looked(found[k], 5, Colors)
    BY <2>2, <2>3, <2>4, <2>5, LookAtFive
  <2>7. IF found[k].break = 0 THEN found[k].row = t
        ELSE found[k].break \in 1..4 /\ t[found[k].break + 1].face # t[found[k].break].face + 1
    BY <2>4, FiveLooked
  <2>8. CASE found[k].break = 0
    <3>1. found[k].row = t /\ Len(t) = 5 /\ t[5] = s[c + 5 - 1]
      BY <2>2, <2>3, <2>7, <2>8
    <3>2. t # <<>>
      <4>1. Len(<<>>) = 0
        OBVIOUS
      <4>2. Len(t) = 5
        BY <2>2, <2>3
      <4>3. Len(t) # Len(<<>>)
        BY <4>1, <4>2
      <4> QED BY <4>3, Zenon
    <3>3. c + 5 - 1 = k
      BY <1>1, <2>1
    <3> QED BY <2>6, <2>8, <3>1, <3>2, <3>3
  <2>9. CASE found[k].break # 0
    <3> DEFINE b == found[k].break
    <3>1. b \in 1..4 /\ t[b + 1].face # t[b].face + 1
      BY <2>7, <2>9
    <3> HIDE DEF b
    <3>2. t[b + 1] = s[c + (b + 1) - 1] /\ t[b] = s[c + b - 1]
      BY <2>2, <2>3, <3>1
    <3>3. c + (b + 1) - 1 = k - 5 + b + 1 /\ c + b - 1 = k - 5 + b
      BY <1>1, <2>1, <3>1
    <3>4. b \in 1..4 /\ s[k - 5 + b + 1].face # s[k - 5 + b].face + 1
      BY <3>1, <3>2, <3>3
    <3> QED BY <2>6, <2>9, <3>4 DEF b
  <2> QED BY <2>8, <2>9
<1>3. CutSZForCheck(s, 5) = f[l]
  BY DEF CutSZForCheck, IsSearch, LookedUpTo
<1> HIDE DEF found
<1>4. IsSearch(f, found, 5, l)
  <2>1. PICK n \in Nat \ {0} : n = 5
    OBVIOUS
  <2>2. \A k \in n..l : found[k].break = 0 \/ found[k].break \in 1..n - 1
    BY <1>2, <2>1 DEF Looked
  <2>3. \E g : IsSearch(g, found, n, l)
    BY <1>1, <2>2, SearchExists
  <2>4. \E g : IsSearch(g, found, 5, l)
    BY <2>1, <2>3
  <2> QED BY <2>4
<1> HIDE DEF f
<1>5. \A i \in 0..l : f[i] = LookedUpTo(f, found, 5, i)
  BY <1>4 DEF IsSearch
<1> DEFINE bad == {k \in (a + 4)..l : ~Reach(f[k], x)}
<1>6. SUFFICES ASSUME bad # {} PROVE FALSE
  <2>1. l \in (a + 4)..l
    BY <1>1
  <2> QED BY <1>3, <1>6, <2>1
<1>7. PICK m \in bad : \A y \in bad : m <= y
  <2>1. bad \in SUBSET Nat
    BY <1>1
  <2> HIDE DEF bad
  <2> QED BY <1>6, <2>1, LeastElement
<1>8. m \in (a + 4)..l /\ ~Reach(f[m], x) /\ m \in 5..l /\ m \in 0..l /\ ~(m < 5)
  BY <1>1
<1>9. CASE found[m].break = 0
  <2>1. f[m] = found[m].row /\ f[m] # <<>> /\ f[m][5] = s[m]
    BY <1>2, <1>5, <1>8, <1>9 DEF LookedUpTo
  <2>2. s[m].face >= x
    <3>1. m \in 1..l /\ a + 4 \in 1..l /\ (m = a + 4 \/ a + 4 < m)
      BY <1>1, <1>8
    <3>2. a + 4 < m => s[a + 4].face < s[m].face
      BY <3>1 DEF Strict
    <3>3. s[m].face \in Int /\ x \in Int
      BY <1>1, <3>1 DEF Faces
    <3>4. m = a + 4 => s[m].face = x
      OBVIOUS
    <3> HIDE DEF x
    <3>5. a + 4 < m => x < s[m].face
      BY <3>2 DEF x
    <3> QED BY <3>1, <3>3, <3>4, <3>5
  <2> QED BY <1>8, <2>1, <2>2 DEF Reach
<1>10. CASE found[m].break # 0
  <2> DEFINE b == found[m].break
             j == m - 5 + b
  <2>1. b \in 1..4 /\ s[j + 1].face # s[j].face + 1
    BY <1>2, <1>8, <1>10
  <2>2. f[m] = f[j]
    BY <1>5, <1>8, <1>10 DEF LookedUpTo
  <2>3. j \in Int /\ j < m /\ j >= a
    BY <1>8, <2>1
  <2> HIDE DEF b, j
  <2>4. j >= a + 4
    <3> SUFFICES ASSUME j < a + 4 PROVE FALSE
      BY <2>3
    <3>1. PICK k \in 0..3 : j = a + k
      <4>1. j - a \in 0..3 /\ j = a + (j - a)
        BY <2>3
      <4> QED BY <4>1
    <3>2. s[a + k + 1].face = s[a + k].face + 1
      BY DEF Steps
    <3> QED BY <2>1, <3>1, <3>2
  <2>5. j \in (a + 4)..l /\ ~(m <= j)
    BY <1>1, <1>8, <2>3, <2>4
  <2>6. Reach(f[j], x)
    BY <1>7, <2>5
  <2> QED BY <1>8, <2>2, <2>6
<1> QED BY <1>9, <1>10

Has(s, f) == \E i \in 1..Len(s) : s[i].face = f

\* Faces that follow each other are side by side in a sorted list.
LEMMA SideBySide ==
  ASSUME NEW s, Own(s), Strict(s), NEW f \in Nat, \A k \in 0..4 : Has(s, f + k)
  PROVE  \E a \in Nat \ {0} : a + 4 <= Len(s) /\ Steps(s, a) /\ s[a + 4].face = f + 4
<1>1. Len(s) \in Nat /\ \A i \in 1..Len(s) : s[i].face \in Faces
  <2>1. s \in Seq(Card) /\ Len(s) \in Nat
    BY LenProperties DEF Own
  <2> QED BY <2>1, ElementOfSeq, CardFacts
<1>2. ASSUME NEW i \in 1..Len(s), NEW j \in 1..Len(s), s[j].face = s[i].face + 1
      PROVE  j = i + 1
  <2>0. s[i].face \in Int /\ s[j].face \in Int
    <3>1. s[i].face \in Faces /\ s[j].face \in Faces
      BY <1>1
    <3>2. \A x \in Faces : x \in Int
      BY DEF Faces
    <3> QED BY <3>1, <3>2
  <2>1. s[i].face \in Int /\ s[j].face \in Int /\ s[i].face < s[j].face
    <3>1. PICK x \in Int, y \in Int : x = s[i].face /\ y = s[j].face
      BY <2>0
    <3>2. y = x + 1
      BY <1>2, <3>1
    <3>3. x < y
      BY <3>2
    <3> QED BY <3>1, <3>3
  <2>2. ~(j < i) /\ j # i
    BY <2>1 DEF Strict
  <2>3. ~(i + 1 < j)
    <3> SUFFICES ASSUME i + 1 < j PROVE FALSE
      OBVIOUS
    <3>1. i + 1 \in 1..Len(s) /\ i < i + 1
      BY <1>1
    <3>2. PICK h \in 1..Len(s) : h = i + 1 /\ i < h /\ h < j
      BY <3>1
    <3>3. s[i].face < s[h].face /\ s[h].face < s[j].face
      BY <3>2 DEF Strict
    <3>4. s[h].face \in Int
      BY <1>1 DEF Faces
    <3> QED BY <1>2, <2>0, <3>3, <3>4
  <2> QED BY <1>1, <2>2, <2>3
<1>3. PICK a \in 1..Len(s), b \in 1..Len(s), c \in 1..Len(s), d \in 1..Len(s), e \in 1..Len(s) :
        s[a].face = f /\ s[b].face = f + 1 /\ s[c].face = f + 2 /\ s[d].face = f + 3 /\ s[e].face = f + 4
  <2>1. Has(s, f) /\ Has(s, f + 1) /\ Has(s, f + 2) /\ Has(s, f + 3) /\ Has(s, f + 4)
    <3>1. Has(s, f + 0) /\ Has(s, f + 1) /\ Has(s, f + 2) /\ Has(s, f + 3) /\ Has(s, f + 4)
      OBVIOUS
    <3>2. f + 0 = f
      OBVIOUS
    <3> QED BY <3>1, <3>2
  <2>2. PICK a \in 1..Len(s) : s[a].face = f
    BY <2>1 DEF Has
  <2>3. PICK b \in 1..Len(s) : s[b].face = f + 1
    BY <2>1 DEF Has
  <2>4. PICK c \in 1..Len(s) : s[c].face = f + 2
    BY <2>1 DEF Has
  <2>5. PICK d \in 1..Len(s) : s[d].face = f + 3
    BY <2>1 DEF Has
  <2>6. PICK e \in 1..Len(s) : s[e].face = f + 4
    BY <2>1 DEF Has
  <2> QED BY <2>2, <2>3, <2>4, <2>5, <2>6
<1>4. b = a + 1 /\ c = b + 1 /\ d = c + 1 /\ e = d + 1
  <2>1. s[b].face = s[a].face + 1 /\ s[c].face = s[b].face + 1 /\ s[d].face = s[c].face + 1
        /\ s[e].face = s[d].face + 1
    BY <1>3
  <2> QED BY <1>2, <2>1
<1>5. b = a + 1 /\ c = a + 2 /\ d = a + 3 /\ e = a + 4 /\ a \in Nat \ {0} /\ a + 4 <= Len(s)
  BY <1>1, <1>4
<1>6. Steps(s, a)
  <2>1. /\ s[a + 0 + 1].face = s[a + 0].face + 1 /\ s[a + 1 + 1].face = s[a + 1].face + 1
        /\ s[a + 2 + 1].face = s[a + 2].face + 1 /\ s[a + 3 + 1].face = s[a + 3].face + 1
    <3>1. /\ a + 0 + 1 = b /\ a + 0 = a /\ a + 1 + 1 = c /\ a + 1 = b
          /\ a + 2 + 1 = d /\ a + 2 = c /\ a + 3 + 1 = e /\ a + 3 = d
      BY <1>5
    <3>2. f + 1 = f + 1 /\ f + 2 = (f + 1) + 1 /\ f + 3 = (f + 2) + 1 /\ f + 4 = (f + 3) + 1
      OBVIOUS
    <3> QED BY <1>3, <3>1, <3>2
  <2>2. \A k \in 0..3 : k = 0 \/ k = 1 \/ k = 2 \/ k = 3
    OBVIOUS
  <2> QED BY <2>1, <2>2 DEF Steps
<1> QED BY <1>3, <1>5, <1>6

\* Five different faces in a row, the ace before the 2 or behind the K.
LEMMA RowIsTold ==
  ASSUME NEW P, FiveOwn(P), Rising(P), InARow(ToSet(P))
  PROVE  /\ Strict(P)
         /\ \/ Consecutive(P) /\ Top(ToSet(P)) = P[5].face
            \/ /\ P[1].face = 1 /\ P[2].face = 2 /\ P[3].face = 3 /\ P[4].face = 4 /\ P[5].face = Ace
               /\ Top(ToSet(P)) = 4
<1> DEFINE t == ByTimes(ToSet(P))
<1>1. /\ Five(P) /\ P \in Seq(Card) /\ P \in Seq(Poker) /\ Len(P) = 5
      /\ \A i \in 1..5 : P[i].face \in Faces
  BY FiveOwnFacts, MadeIsDistinct
<1>2. Tells(t, P) /\ Adds(P, t) /\ Len(t) = 5
  <2>1. Tells(t, P)
    BY <1>1, ByTimesTells
  <2> HIDE DEF t
  <2>2. Len(t) = Cardinality(FacesIn(ToSet(P)))
    BY <1>1, <2>1, ByTimesIs
  <2> QED BY <1>1, <2>1, <2>2, TimesAddUp DEF InARow
<1> HIDE DEF t
<1>3. \A k \in 1..5 : CountIn(P, t[k]) = 1
  <2> DEFINE c(k) == TimesAt(P, t, k)
  <2>1. /\ c(1) \in 0..5 /\ c(2) \in 0..5 /\ c(3) \in 0..5 /\ c(4) \in 0..5 /\ c(5) \in 0..5
        /\ c(1) > 0 /\ c(2) > 0 /\ c(3) > 0 /\ c(4) > 0 /\ c(5) > 0
        /\ c(1) + c(2) + c(3) + c(4) + c(5) = 5
    <3>1. /\ \A k \in 1..5 : c(k) \in 0..5 /\ (c(k) > 0 <=> k <= Len(t))
          /\ c(1) + c(2) + c(3) + c(4) + c(5) = 5
      BY <1>2 DEF Adds
    <3> HIDE DEF c
    <3>2. \A k \in 1..5 : c(k) \in 0..5 /\ c(k) > 0
      BY <1>2, <3>1
    <3> QED BY <3>1, <3>2
  <2>2. \A k \in 1..5 : c(k) = CountIn(P, t[k])
    BY <1>2 DEF TimesAt
  <2> HIDE DEF c
  <2>3. c(1) = 1 /\ c(2) = 1 /\ c(3) = 1 /\ c(4) = 1 /\ c(5) = 1
    BY <2>1
  <2>4. \A k \in 1..5 : k = 1 \/ k = 2 \/ k = 3 \/ k = 4 \/ k = 5
    OBVIOUS
  <2> QED BY <2>2, <2>3, <2>4
<1>4. Strict(P)
  <2> SUFFICES ASSUME NEW i \in 1..5, NEW j \in 1..5, i < j
               PROVE  P[i].face < P[j].face
    BY <1>1 DEF Strict
  <2>0. P[i].face <= P[j].face /\ P[i].face \in Int /\ P[j].face \in Int
    BY <1>1 DEF Rising, Faces
  <2>1. P[i].face = P[j].face => CountIn(P, P[i].face) > 1
    <3>1. i \in 1..Len(P) /\ j \in 1..Len(P) /\ i # j /\ P \in Seq(Poker)
      BY <1>1
    <3> QED BY <3>1, TwoSpots
  <2>2. PICK k \in 1..5 : t[k] = P[i].face
    BY <1>2 DEF Tells
  <2>3. P[i].face # P[j].face
    BY <1>3, <2>1, <2>2
  <2> QED BY <2>0, <2>3
<1>5. /\ FacesIn(ToSet(P)) = {P[i].face : i \in 1..5}
      /\ Max(FacesIn(ToSet(P))) = P[5].face /\ Min(FacesIn(ToSet(P))) = P[1].face
  BY <1>1, <1>4, EndsOfStrict
<1>6. CASE Consecutive(P)
  <2>1. P[5].face = P[1].face + 4
    BY <1>1, <1>6 DEF Consecutive, Faces
  <2>2. ~IsWheel(ToSet(P))
    <3> SUFFICES ASSUME IsWheel(ToSet(P)) PROVE FALSE
      OBVIOUS
    <3>1. FacesIn(ToSet(P)) = {13, 1, 2, 3, 4}
      BY DEF IsWheel
    <3>2. \A i \in 1..5 : P[i].face \in {13, 1, 2, 3, 4}
      BY <1>5, <3>1
    <3>3. PICK i \in 1..5 : P[i].face = 13
      BY <1>5, <3>1
    <3>4. PICK j \in 1..5 : P[j].face = 1
      BY <1>5, <3>1
    <3>5. P[5].face >= P[i].face /\ P[1].face <= P[j].face
      <4>1. i = 5 \/ i < 5
        OBVIOUS
      <4>2. j = 1 \/ 1 < j
        OBVIOUS
      <4>3. i < 5 => P[i].face <= P[5].face
        BY <1>1 DEF Rising
      <4>4. 1 < j => P[1].face <= P[j].face
        BY <1>1 DEF Rising
      <4>5. P[5].face \in Int /\ P[1].face \in Int
        BY <1>1 DEF Faces
      <4>6. i = 5 => P[5].face >= P[i].face
        BY <4>5
      <4>7. j = 1 => P[1].face <= P[j].face
        BY <4>5
      <4> QED BY <1>1, <4>1, <4>2, <4>3, <4>4, <4>6, <4>7 DEF Faces
    <3>6. P[5].face \in 1..13 /\ P[1].face \in 1..13
      BY <1>1 DEF Faces
    <3> QED BY <2>1, <3>3, <3>4, <3>5, <3>6
  <2> QED BY <1>4, <1>5, <1>6, <2>2 DEF Top
<1>7. CASE ~Consecutive(P)
  <2>1. P[1].face = 1 /\ P[2].face = 2 /\ P[3].face = 3 /\ P[4].face = 4 /\ P[5].face = Ace
    BY <1>1, <1>4, <1>7, RowOfStrict
  <2>2. {P[i].face : i \in 1..5} = {13, 1, 2, 3, 4}
    <3>1. 1..5 = {1, 2, 3, 4, 5}
      OBVIOUS
    <3> QED BY <2>1, <3>1 DEF Ace
  <2>3. IsWheel(ToSet(P))
    BY <1>5, <2>2 DEF IsWheel
  <2> QED BY <1>4, <2>1, <2>3 DEF Top
<1> QED BY <1>6, <1>7

\* What a row that is found is worth.
LEMMA RowReachesFour ==
  ASSUME NEW R, NEW K, Straight(R, K)
  PROVE  /\ Reach(R, 4) /\ R[5].face \in Faces /\ Len(R) = 5 /\ R # <<>>
         /\ (IF Wheel(R) THEN 4 ELSE R[5].face) = R[5].face
<1>1. Five(R) /\ Len(R) = 5 /\ \A i \in 1..5 : R[i].face \in Faces
  BY MadeIsDistinct DEF Straight
<1>2. Len(<<>>) = 0
  OBVIOUS
<1>3. R # <<>>
  <2>1. Len(R) # Len(<<>>)
    BY <1>1, <1>2
  <2> QED BY <2>1, Zenon
<1>4. CASE Wheel(R)
  <2>1. FacesOf(R)[5] = 4
    BY <1>4 DEF Wheel, Smallest
  <2>2. DOMAIN R = 1..5
    BY <1>1, MadeIsDistinct
  <2>3. R[5].face = 4
    BY <2>1, <2>2 DEF FacesOf
  <2> QED BY <1>1, <1>3, <1>4, <2>3 DEF Reach
<1>5. CASE ~Wheel(R)
  <2>1. Consecutive(R)
    BY <1>5 DEF Straight
  <2>2. R[5].face >= 4
    <3>1. /\ R[1].face \in 1..13 /\ R[2].face \in 1..13 /\ R[3].face \in 1..13
          /\ R[4].face \in 1..13 /\ R[5].face \in 1..13
      BY <1>1 DEF Faces
    <3>2. /\ R[1 + 1].face = R[1].face + 1 /\ R[2 + 1].face = R[2].face + 1
          /\ R[3 + 1].face = R[3].face + 1 /\ R[4 + 1].face = R[4].face + 1
      BY <2>1 DEF Consecutive
    <3> QED BY <3>1, <3>2
  <2> QED BY <1>1, <1>3, <1>5, <2>2 DEF Reach
<1> QED BY <1>4, <1>5

LEMMA RowReaches ==
  ASSUME NEW s, Own(s), Strict(s), ~HaveLz, NEW P, FiveOwn(P), Rising(P), InARow(ToSet(P)),
         \A i \in 1..5 : Has(s, P[i].face)
  PROVE  Reach(RowIn(s), Top(ToSet(P)))
<1>1. /\ Strict(P)
      /\ \/ Consecutive(P) /\ Top(ToSet(P)) = P[5].face
         \/ /\ P[1].face = 1 /\ P[2].face = 2 /\ P[3].face = 3 /\ P[4].face = 4 /\ P[5].face = Ace
            /\ Top(ToSet(P)) = 4
  BY RowIsTold
<1>2. RowIn(s) = IF CutSZForCheck(s, 5) = <<>> /\ HaveA /\ Len(s) > 4
                 THEN HaveSmallestSZ(s) ELSE CutSZForCheck(s, 5)
  BY DEF RowIn, CheckSZNotFormat
<1>3. CASE Consecutive(P) /\ Top(ToSet(P)) = P[5].face
  <2>1. PICK f \in Nat : f = P[1].face
    BY FiveOwnFacts DEF Faces
  <2>2. P[1].face = f + 0 /\ P[2].face = f + 1 /\ P[3].face = f + 2 /\ P[4].face = f + 3 /\ P[5].face = f + 4
    <3>1. /\ P[1 + 1].face = P[1].face + 1 /\ P[2 + 1].face = P[2].face + 1
          /\ P[3 + 1].face = P[3].face + 1 /\ P[4 + 1].face = P[4].face + 1
      BY <1>3 DEF Consecutive
    <3> QED BY <2>1, <3>1
  <2>3. \A k \in 0..4 : Has(s, f + k)
    <3>1. Has(s, f + 0) /\ Has(s, f + 1) /\ Has(s, f + 2) /\ Has(s, f + 3) /\ Has(s, f + 4)
      <4>1. /\ Has(s, P[1].face) /\ Has(s, P[2].face) /\ Has(s, P[3].face) /\ Has(s, P[4].face)
            /\ Has(s, P[5].face)
        OBVIOUS
      <4> QED BY <2>2, <4>1
    <3>2. \A k \in 0..4 : k = 0 \/ k = 1 \/ k = 2 \/ k = 3 \/ k = 4
      OBVIOUS
    <3> QED BY <3>1, <3>2
  <2>4. PICK a \in Nat \ {0} : a + 4 <= Len(s) /\ Steps(s, a) /\ s[a + 4].face = f + 4
    BY <2>3, SideBySide
  <2>5. Reach(CutSZForCheck(s, 5), s[a + 4].face)
    BY <2>4, CutReaches
  <2>6. RowIn(s) = CutSZForCheck(s, 5)
    BY <1>2, <2>5 DEF Reach
  <2> QED BY <1>3, <2>2, <2>4, <2>5, <2>6
<1>4. CASE /\ P[1].face = 1 /\ P[2].face = 2 /\ P[3].face = 3 /\ P[4].face = 4 /\ P[5].face = Ace
           /\ Top(ToSet(P)) = 4
  <2>1. Has(s, 1) /\ Has(s, 2) /\ Has(s, 3) /\ Has(s, 4) /\ Has(s, Ace)
    <3>1. /\ Has(s, P[1].face) /\ Has(s, P[2].face) /\ Has(s, P[3].face) /\ Has(s, P[4].face)
          /\ Has(s, P[5].face)
      OBVIOUS
    <3> QED BY <1>4, <3>1
  <2>2. RowIn(s) # <<>>
    <3> SUFFICES ASSUME RowIn(s) = <<>> PROVE FALSE
      OBVIOUS
    <3>1. HaveA
      <4>1. P[5] \in originPokers
        BY FiveOwnFacts
      <4> QED BY <1>4, <4>1 DEF HaveA
    <3>2. Len(s) > 4
      <4>1. PICK a \in 1..Len(s) : s[a].face = 1
        BY <2>1 DEF Has
      <4>2. PICK b \in 1..Len(s) : s[b].face = 2
        BY <2>1 DEF Has
      <4>3. PICK c \in 1..Len(s) : s[c].face = 3
        BY <2>1 DEF Has
      <4>4. PICK d \in 1..Len(s) : s[d].face = 4
        BY <2>1 DEF Has
      <4>5. PICK e \in 1..Len(s) : s[e].face = 13
        BY <2>1 DEF Has, Ace
      <4>6. Len(s) \in Nat
        BY LenProperties DEF Own
      <4>7. ASSUME NEW i \in 1..Len(s), NEW j \in 1..Len(s), NEW f \in Nat, NEW g \in Nat,
                   s[i].face = f, s[j].face = g, f < g
            PROVE  i < j
        <5>1. ~(j < i) /\ j # i
          BY <4>7 DEF Strict
        <5> QED BY <4>6, <5>1
      <4>8. a < b /\ b < c /\ c < d /\ d < e
        BY <4>1, <4>2, <4>3, <4>4, <4>5, <4>7
      <4> QED BY <4>6, <4>8
    <3>3. SmallestSZ(s, 0) # <<>>
      <4>1. \A k \in 1..5 : \E i \in 1..Len(s) : s[i].face = Smallest[k]
        <5>1. \A k \in 1..5 : Has(s, Smallest[k])
          <6>1. \A k \in 1..5 : k = 1 \/ k = 2 \/ k = 3 \/ k = 4 \/ k = 5
            OBVIOUS
          <6> QED BY <2>1, <6>1 DEF Smallest
        <5> QED BY <5>1 DEF Has
      <4>2. PICK n \in 0..5, l \in {0, 1} : n = 0 /\ l = 0
        OBVIOUS
      <4>3. SmallestSZ(s, l) # <<>>
        BY <4>1, <4>2, SmallestIsFound
      <4> QED BY <4>2, <4>3
    <3>4. CutSZForCheck(s, 5) # <<>>
      BY <1>2, <3>1, <3>2, <3>3 DEF HaveSmallestSZ
    <3> QED BY <1>2, <3>4
  <2>3. ColoredIn(s, Colors)
    <3>1. \A i \in 1..Len(s) : s[i] \in Card
      BY ElementOfSeq DEF Own
    <3> QED BY <3>1, CardFacts DEF ColoredIn
  <2>4. Straight(RowIn(s), Colors)
    BY <2>2, <2>3, RowFacts
  <2>5. Reach(RowIn(s), 4)
    BY <2>4, RowReachesFour
  <2> QED BY <1>4, <2>5
<1> QED BY <1>1, <1>3, <1>4

\* The search through the colors ends with a row no smaller than that of any color.
LEMMA ColorReaches ==
  ASSUME NEW row, row = <<>> \/ OfOneColor(row), NEW c \in Colors,
         RowIn(th[c]) = <<>> \/ OfOneColor(RowIn(th[c])), NEW x \in 0..Ace,
         Reach(row, x) \/ Reach(RowIn(th[c]), x)
  PROVE  Reach(SearchColor(row, c), x)
<1> DEFINE second == RowIn(th[c])
<1>1. row # <<>> => row[5].face \in 1..13 /\ Last(row) = row[5]
  BY RowReachesFour DEF OfOneColor, Last, Faces
<1>2. second # <<>> => second[5].face \in 1..13 /\ Last(second) = second[5]
  BY RowReachesFour DEF OfOneColor, Last, Faces
<1> HIDE DEF second
<1>3. CASE IsBiggestSZ(row)
  <2>1. row # <<>> /\ row[5].face = Ace
    BY <1>3 DEF IsBiggestSZ
  <2>2. SearchColor(row, c) = row
    BY <1>3 DEF SearchColor
  <2> QED BY <2>1, <2>2 DEF Reach, Ace
<1>4. CASE ~IsBiggestSZ(row)
  <2>1. SearchColor(row, c) = IF row = <<>> \/ (second # <<>> /\ Last(row).face < Last(second).face)
                              THEN second ELSE row
    BY <1>4 DEF SearchColor, BiggerSZ, second
  <2>2. Reach(row, x) \/ Reach(second, x)
    BY DEF second
  <2>3. CASE row = <<>>
    BY <2>1, <2>2, <2>3 DEF Reach
  <2>4. CASE row # <<>> /\ second = <<>>
    BY <2>1, <2>2, <2>4 DEF Reach
  <2>5. CASE row # <<>> /\ second # <<>>
    <3> DEFINE a == row[5].face
               b == second[5].face
    <3>1. a \in 1..13 /\ b \in 1..13 /\ Last(row).face = a /\ Last(second).face = b
      BY <1>1, <1>2, <2>5
    <3>2. SearchColor(row, c) = IF a < b THEN second ELSE row
      BY <2>1, <2>5, <3>1
    <3>3. a >= x \/ b >= x
      BY <2>2 DEF Reach
    <3> HIDE DEF a, b
    <3>4. (a < b => b >= x) /\ (~(a < b) => a >= x)
      BY <3>1, <3>3 DEF Ace
    <3> QED BY <2>5, <3>2, <3>4 DEF Reach, a, b
  <2> QED BY <2>3, <2>4, <2>5
<1> QED BY <1>3, <1>4

LEMMA RowOfColorReaches ==
  ASSUME Listed, NEW k \in Colors, NEW x \in 0..Ace, Reach(RowIn(th[k]), x)
  PROVE  Reach(RowOfColor, x)
<1> DEFINE Fine(row) == row = <<>> \/ OfOneColor(row)
<1>1. ASSUME NEW c \in Colors PROVE Fine(RowIn(th[c]))
  <2>1. Own(th[c]) /\ Strict(th[c]) /\ ColoredIn(th[c], {c})
    BY DEF Listed, InColor, ColoredIn
  <2>2. RowIn(th[c]) = <<>> \/ Straight(RowIn(th[c]), {c})
    BY <2>1, RowFacts
  <2> QED BY <2>2 DEF OfOneColor
<1>2. ASSUME NEW row, Fine(row), NEW c \in Colors
      PROVE  /\ Fine(SearchColor(row, c))
             /\ Reach(row, x) \/ c = k => Reach(SearchColor(row, c), x)
  <2>1. Fine(RowIn(th[c]))
    BY <1>1
  <2>2. Fine(SearchColor(row, c))
    BY <1>2, <2>1 DEF SearchColor, BiggerSZ
  <2>3. Reach(row, x) \/ c = k => Reach(SearchColor(row, c), x)
    BY <1>2, <2>1, ColorReaches
  <2> QED BY <2>2, <2>3
<1> DEFINE s == SearchColor(<<>>, "s")
           h == SearchColor(s, "h")
           c == SearchColor(h, "c")
           d == SearchColor(c, "d")
<1>3. "s" \in Colors /\ "h" \in Colors /\ "c" \in Colors /\ "d" \in Colors
      /\ (k = "s" \/ k = "h" \/ k = "c" \/ k = "d")
  BY DEF Colors
<1>4. Fine(<<>>)
  OBVIOUS
<1> HIDE DEF Fine
<1>5. Fine(s) /\ (k = "s" => Reach(s, x))
  BY <1>2, <1>3, <1>4
<1> HIDE DEF s
<1>6. Fine(h) /\ (Reach(s, x) \/ k = "h" => Reach(h, x))
  BY <1>2, <1>3, <1>5
<1> HIDE DEF h
<1>7. Fine(c) /\ (Reach(h, x) \/ k = "c" => Reach(c, x))
  BY <1>2, <1>3, <1>6
<1> HIDE DEF c
<1>8. Fine(d) /\ (Reach(c, x) \/ k = "d" => Reach(d, x))
  BY <1>2, <1>3, <1>7
<1> HIDE DEF d
<1>9. RowOfColor = d
  BY DEF RowOfColor, d, c, h, s
<1> QED BY <1>3, <1>5, <1>6, <1>7, <1>8, <1>9

-----------------------------------------------------------------------------
(* What the kinds of any five cards say of the lists.                        *)

FacesListed == \A p \in ToSet(tmpPokers) : Has(shunZi, p.face)

LEMMA HandIsInLists ==
  ASSUME Listed, Complete, FacesListed, NEW P, FiveOwn(P), NEW i \in 1..5
  PROVE  /\ P[i].color \in Colors /\ P[i].face \in Faces /\ Has(shunZi, P[i].face)
         /\ \E j \in 1..Len(th[P[i].color]) : th[P[i].color][j] = P[i]
<1>1. P[i] \in Card /\ P[i].color \in Colors /\ P[i].face \in Faces
  BY FiveOwnFacts, CardFacts
<1>2. P[i] \in ToSet(tmpPokers)
  <2>1. PICK j \in 1..Len(tmpPokers) : P[i] = tmpPokers[j]
    BY HandIsListed
  <2>2. DOMAIN tmpPokers = 1..Len(tmpPokers)
    BY LenProperties DEF Listed, Own
  <2> QED BY <2>1, <2>2 DEF ToSet
<1>3. P[i] \in ToSet(th[P[i].color])
  BY <1>2 DEF Complete
<1>4. DOMAIN th[P[i].color] = 1..Len(th[P[i].color])
  <2>1. th[P[i].color] \in Seq(Card)
    BY <1>1 DEF Listed
  <2> QED BY <2>1, LenProperties
<1> QED BY <1>1, <1>2, <1>3, <1>4 DEF FacesListed, ToSet

LEMMA KindCap ==
  ASSUME Listed, Complete, FacesListed, ~HaveLz, NEW P, FiveOwn(P), Rising(P),
         NEW x, x = Value(ToSet(P))
  PROVE  /\ x.kind \in HandType
         /\ x.kind \in Unrowed => Shaped(x.kind, P, x.ranks)
         /\ x.kind \in {TH, THS, HJTHS} => Flush(th, 5)
         /\ x.kind \in {SZ, THS, HJTHS} => Reach(RowIn(shunZi), Top(ToSet(P)))
         /\ x.kind \in {THS, HJTHS} => Reach(RowOfColor, Top(ToSet(P)))
         /\ x.kind \in {SZ, THS, HJTHS} => Top(ToSet(P)) \in 0..Ace
         /\ x.kind \in {SZ, THS} => x.ranks = <<Top(ToSet(P))>>
         /\ x.kind = HJTHS => Top(ToSet(P)) = Ace
<1>1. /\ x.kind \in HandType
      /\ x.kind \in {SZ, THS, HJTHS} <=> InARow(ToSet(P))
      /\ x.kind \in {TH, THS, HJTHS} <=> OneColor(ToSet(P))
      /\ ~InARow(ToSet(P)) => x.kind \in Unrowed /\ Shaped(x.kind, P, x.ranks)
  BY ValueHasShape
<1>2. Unrowed \intersect {SZ, THS, HJTHS} = {}
  BY DEF Unrowed, SZ, THS, HJTHS, DZ, YD, LD, ST3, TH, HL, ST4
<1>3. Five(P) /\ Len(P) = 5
  BY FiveOwnFacts
<1>4. OneColor(ToSet(P)) => Flush(th, 5)
  BY <1>3, NoFlushIsMixed
<1>5. ASSUME InARow(ToSet(P))
      PROVE  Reach(RowIn(shunZi), Top(ToSet(P))) /\ Top(ToSet(P)) \in 0..Ace
  <2>1. Reach(RowIn(shunZi), Top(ToSet(P)))
    <3>1. Own(shunZi) /\ Strict(shunZi) /\ \A i \in 1..5 : Has(shunZi, P[i].face)
      BY HandIsInLists DEF Listed
    <3> QED BY <1>5, <3>1, RowReaches
  <2>2. Top(ToSet(P)) = 4 \/ Top(ToSet(P)) = P[5].face
    BY <1>5, RowIsTold
  <2>3. P[5].face \in Faces
    BY FiveOwnFacts
  <2> QED BY <2>1, <2>2, <2>3 DEF Faces, Ace
<1>6. ASSUME InARow(ToSet(P)), OneColor(ToSet(P))
      PROVE  Reach(RowOfColor, Top(ToSet(P)))
  <2> DEFINE c == P[1].color
  <2>1. c \in Colors /\ \A i \in 1..5 : P[i].color = c
    BY <1>3, <1>6, HandIsInLists, ColorOfAll
  <2> HIDE DEF c
  <2>2. \A i \in 1..5 : Has(th[c], P[i].face)
    <3> SUFFICES ASSUME NEW i \in 1..5 PROVE Has(th[c], P[i].face)
      OBVIOUS
    <3>1. P[i].color = c
      BY <2>1
    <3>2. \E j \in 1..Len(th[c]) : th[c][j] = P[i]
      BY <3>1, HandIsInLists
    <3> QED BY <3>2 DEF Has
  <2>3. Own(th[c]) /\ Strict(th[c])
    BY <2>1 DEF Listed, InColor
  <2>4. Reach(RowIn(th[c]), Top(ToSet(P)))
    BY <1>6, <2>2, <2>3, RowReaches
  <2> QED BY <1>5, <1>6, <2>1, <2>4, RowOfColorReaches
<1>7. ASSUME InARow(ToSet(P))
      PROVE  /\ x.kind \in {SZ, THS} => x.ranks = <<Top(ToSet(P))>>
             /\ x.kind = HJTHS => Top(ToSet(P)) = Ace
  BY <1>7 DEF Value, SZ, THS, HJTHS, Ace
<1> QED BY <1>1, <1>2, <1>4, <1>5, <1>6, <1>7

-----------------------------------------------------------------------------
(* Nothing is over a hand.                                                   *)

Barred(kind) == \A P : FiveOwn(P) /\ Rising(P) => Value(ToSet(P)).kind # kind

Even(kind, v) ==
  \A P : FiveOwn(P) /\ Rising(P) /\ Value(ToSet(P)).kind = kind => ~RanksAbove(Value(ToSet(P)).ranks, v)

LEMMA NoneOver ==
  ASSUME NEW kind \in HandType, NEW v, Even(kind, v), \A k \in HandType : k > kind => Barred(k)
  PROVE  NoneBeats([kind |-> kind, ranks |-> v])
<1> SUFFICES ASSUME NEW P, FiveOwn(P), Rising(P)
             PROVE  ~Beats(Value(ToSet(P)), [kind |-> kind, ranks |-> v])
  BY DEF NoneBeats
<1> DEFINE x == Value(ToSet(P))
<1>1. x.kind \in HandType
  BY ValueHasShape
<1>2. ~(x.kind > kind)
  BY <1>1 DEF Barred
<1>3. x.kind = kind => ~RanksAbove(x.ranks, v)
  BY DEF Even
<1> HIDE DEF x
<1>4. ~Beats(x, [kind |-> kind, ranks |-> v])
  BY <1>2, <1>3 DEF Beats
<1> QED BY <1>4 DEF x

AllKept(kind, Q) ==
  \A P : FiveOwn(P) /\ Rising(P) /\ Value(ToSet(P)).kind = kind => Kept(P, Q)

HeadsTop(kind, v) == \A P, u : FiveOwn(P) /\ Shaped(kind, P, u) => HeadsHold(kind, u, v)

LEMMA EvenIf ==
  ASSUME NEW kind \in Unrowed, NEW Q, FiveOwn(Q), NEW v,
         Value(ToSet(Q)) = [kind |-> kind, ranks |-> v], AllKept(kind, Q), HeadsTop(kind, v)
  PROVE  Even(kind, v)
<1>0. kind \notin {SZ, THS, HJTHS}
  BY DEF Unrowed, SZ, THS, HJTHS, DZ, YD, LD, ST3, TH, HL, ST4
<1>1. Shaped(kind, Q, v)
  <2> DEFINE w == Value(ToSet(Q))
  <2>1. w.kind = kind /\ w.ranks = v
    OBVIOUS
  <2>2. /\ w.kind \in {SZ, THS, HJTHS} <=> InARow(ToSet(Q))
        /\ ~InARow(ToSet(Q)) => Shaped(w.kind, Q, w.ranks)
    BY ValueHasShape
  <2> HIDE DEF w
  <2> QED BY <1>0, <2>1, <2>2
<1> SUFFICES ASSUME NEW P, FiveOwn(P), Rising(P), Value(ToSet(P)).kind = kind
             PROVE  ~RanksAbove(Value(ToSet(P)).ranks, v)
  BY DEF Even
<1> DEFINE w == Value(ToSet(P))
<1>2. Shaped(kind, P, w.ranks)
  <2>1. /\ w.kind \in {SZ, THS, HJTHS} <=> InARow(ToSet(P))
        /\ ~InARow(ToSet(P)) => Shaped(w.kind, P, w.ranks)
    BY ValueHasShape
  <2>2. w.kind = kind
    OBVIOUS
  <2> HIDE DEF w
  <2> QED BY <1>0, <2>1, <2>2
<1>3. Kept(P, Q)
  BY DEF AllKept
<1> DEFINE u == w.ranks
<1>4. Shaped(kind, P, u)
  BY <1>2
<1> HIDE DEF w, u
<1>5. HeadsHold(kind, u, v)
  BY <1>4 DEF HeadsTop
<1>6. ~RanksAbove(u, v)
  BY <1>1, <1>3, <1>4, <1>5, NotOutranked
<1> QED BY <1>6 DEF u, w

\* The faces a hand has more than once decide first.
LEMMA HeadsAre ==
  ASSUME NEW kind, NEW u, Len(u) = Len(ShapeOf(kind)), NEW v,
         kind \in {YD, LD, ST3, HL, ST4} => u[1] <= v[1],
         kind \in {LD, HL} /\ u[1] = v[1] => u[2] <= v[2]
  PROVE  HeadsHold(kind, u, v)
<1> SUFFICES ASSUME NEW k \in 1..Len(u), ShapeOf(kind)[k] > 1, \A j \in 1..(k - 1) : u[j] = v[j]
             PROVE  u[k] <= v[k]
  BY DEF HeadsHold
<1>1. CASE kind = YD
  <2>1. ShapeOf(kind) = <<2, 1, 1, 1>>
    BY <1>1 DEF ShapeOf, YD, LD, ST3, HL, ST4
  <2>2. k = 1
    BY <2>1
  <2> QED BY <1>1, <2>2
<1>2. CASE kind = ST3
  <2>1. ShapeOf(kind) = <<3, 1, 1>>
    BY <1>2 DEF ShapeOf, YD, LD, ST3, HL, ST4
  <2>2. k = 1
    BY <2>1
  <2> QED BY <1>2, <2>2
<1>3. CASE kind = ST4
  <2>1. ShapeOf(kind) = <<4, 1>>
    BY <1>3 DEF ShapeOf, YD, LD, ST3, HL, ST4
  <2>2. k = 1
    BY <2>1
  <2> QED BY <1>3, <2>2
<1>4. CASE kind \in {LD, HL}
  <2>1. ShapeOf(kind) = <<2, 2, 1>> \/ ShapeOf(kind) = <<3, 2>>
    BY <1>4 DEF ShapeOf, YD, LD, ST3, HL, ST4
  <2>2. k = 1 \/ k = 2
    BY <2>1
  <2>3. CASE k = 2
    <3>1. 1 \in 1..(k - 1)
      BY <2>3
    <3>2. u[1] = v[1]
      BY <3>1
    <3> QED BY <1>4, <2>3, <3>2
  <2> QED BY <1>4, <2>2, <2>3
<1>5. CASE kind \notin {YD, LD, ST3, HL, ST4}
  <2>1. ShapeOf(kind) = <<1, 1, 1, 1, 1>>
    BY <1>5 DEF ShapeOf
  <2>2. k \in 1..5
    BY <2>1
  <2> QED BY <2>1, <2>2
<1> QED BY <1>1, <1>2, <1>3, <1>4, <1>5

\* The last five of a list leave only smaller ones out.
LEMMA LastKeep ==
  ASSUME NEW s, Own(s), Strict(s), Len(s) >= 5, NEW P, FiveOwn(P),
         \A i \in 1..5 : \E j \in 1..Len(s) : P[i] = s[j]
  PROVE  Kept(P, LastOf(s, 5))
<1> DEFINE Q == LastOf(s, 5)
           n == Len(s) - 5
<1>0. s \in Seq(Card) /\ Len(s) \in Nat
  BY LenProperties DEF Own
<1>1. n \in Nat /\ Len(s) = n + 5
  BY <1>0
<1>6. \A i \in 1..Len(s) : s[i].face \in Int
  <2>1. \A i \in 1..Len(s) : s[i] \in Card
    BY <1>0, ElementOfSeq
  <2>2. \A i \in 1..Len(s) : s[i].face \in Faces
    BY <2>1, CardFacts
  <2> QED BY <2>2 DEF Faces
<1>2. \A k \in 1..5 : Q[k] = s[n + k]
  <2>1. PICK a \in Nat \ {0}, b \in Nat : a = Len(s) - 5 + 1 /\ b = Len(s)
    <3> DEFINE l == Len(s)
    <3>0. l \in Nat /\ l >= 5
      BY <1>0
    <3> HIDE DEF l
    <3>1. l - 5 + 1 \in Nat \ {0}
      BY <3>0
    <3> QED BY <3>0, <3>1 DEF l
  <2>2. a <= b /\ b <= Len(s) /\ b - a + 1 = 5 /\ a = n + 1
    BY <1>0, <1>1, <2>1
  <2>3. \A i \in 1..b - a + 1 : SubSeq(s, a, b)[i] = s[a + i - 1]
    BY <2>2, StrictPart
  <2>4. Q = SubSeq(s, a, b)
    BY <2>1 DEF LastOf
  <2> HIDE DEF Q, n
  <2> SUFFICES ASSUME NEW k \in 1..5 PROVE Q[k] = s[n + k]
    OBVIOUS
  <2>5. k \in 1..b - a + 1 /\ a + k - 1 = n + k
    BY <1>1, <2>1, <2>2
  <2> QED BY <2>3, <2>4, <2>5
<1> HIDE DEF Q
<1> SUFFICES ASSUME NEW i \in 1..5
             PROVE  \/ \E j \in 1..5 : Q[j].face = P[i].face
                    \/ \A j \in 1..5 : P[i].face <= Q[j].face
  BY DEF Kept, Q
<1>3. PICK j \in 1..Len(s) : P[i] = s[j]
  OBVIOUS
<1>4. CASE j > n
  <2> HIDE DEF n
  <2>1. j - n \in 1..5 /\ n + (j - n) = j
    BY <1>1, <1>4
  <2>2. Q[j - n] = s[j]
    BY <1>2, <2>1
  <2> QED BY <1>3, <2>1, <2>2
<1>5. CASE ~(j > n)
  <2> SUFFICES ASSUME NEW k \in 1..5 PROVE P[i].face <= Q[k].face
    OBVIOUS
  <2> HIDE DEF n
  <2>1. j < n + k /\ n + k \in 1..Len(s)
    BY <1>1, <1>5, SMTT(20)
  <2>2. s[j].face < s[n + k].face
    BY <2>1 DEF Strict
  <2>3. s[j].face \in Int /\ s[n + k].face \in Int
    BY <1>6, <2>1
  <2>4. P[i].face = s[j].face /\ Q[k].face = s[n + k].face
    BY <1>2, <1>3
  <2> DEFINE x == s[j].face
             y == s[n + k].face
  <2>5. x <= y
    <3> HIDE DEF x, y
    <3>1. x < y /\ x \in Int /\ y \in Int
      BY <2>2, <2>3 DEF x, y
    <3> QED BY <3>1
  <2> QED BY <2>4, <2>5
<1> QED BY <1>4, <1>5

LEMMA FiveAreFive ==
  ASSUME NEW Q, FiveOwn(Q)
  PROVE  ToSet(Q) \in SUBSET originPokers /\ IsFiniteSet(ToSet(Q)) /\ Cardinality(ToSet(Q)) = 5
<1>1. /\ DOMAIN Q = 1..5 /\ Len(Q) = 5 /\ \A i \in 1..5 : Q[i] \in originPokers
      /\ \A i, j \in 1..5 : i # j => Q[i] # Q[j]
  BY FiveOwnFacts, LenProperties
<1> DEFINE T == ToSet(Q)
           g == [i \in 1..5 |-> Q[i]]
<1>2. g \in [1..5 -> T] /\ T \in SUBSET originPokers
  BY <1>1 DEF ToSet
<1>3. \A a, b \in 1..5 : g[a] = g[b] => a = b
  BY <1>1
<1>4. \A x \in T : \E a \in 1..5 : g[a] = x
  BY <1>1 DEF ToSet
<1>5. PICK n \in Nat : n = 5
  OBVIOUS
<1> HIDE DEF T, g
<1>6. g \in [1..n -> T] /\ (\A a, b \in 1..n : g[a] = g[b] => a = b)
      /\ \A x \in T : \E a \in 1..n : g[a] = x
  BY <1>2, <1>3, <1>4, <1>5
<1>7. IsFiniteSet(T) /\ Cardinality(T) = n
  BY <1>6, CountTo
<1> QED BY <1>2, <1>5, <1>7 DEF T

\* Seven cards have five of one color only.
LEMMA CommonColor ==
  ASSUME Dealt, NEW P, FiveOwn(P), NEW Q, FiveOwn(Q), NEW c, \A i \in 1..5 : P[i].color = c,
         NEW d, \A i \in 1..5 : Q[i].color = d
  PROVE  c = d
<1> SUFFICES ASSUME c # d PROVE FALSE
  OBVIOUS
<1> DEFINE A == ToSet(P)
           B == ToSet(Q)
<1>1. /\ A \in SUBSET originPokers /\ IsFiniteSet(A) /\ Cardinality(A) = 5
      /\ B \in SUBSET originPokers /\ IsFiniteSet(B) /\ Cardinality(B) = 5
  BY FiveAreFive
<1>2. A \intersect B = {}
  <2>1. DOMAIN P = 1..5 /\ DOMAIN Q = 1..5
    BY FiveOwnFacts, LenProperties
  <2>2. (\A p \in A : p.color = c) /\ \A p \in B : p.color = d
    BY <2>1 DEF ToSet
  <2> QED BY <2>2
<1> HIDE DEF A, B
<1>3. Cardinality(A \union B) = 10
  <2>1. Cardinality(A \union B) = Cardinality(A) + Cardinality(B) - Cardinality(A \intersect B)
    BY <1>1, FS_Union
  <2>2. Cardinality(A \intersect B) = 0
    BY <1>2, FS_EmptySet
  <2> QED BY <1>1, <2>1, <2>2
<1>4. Cardinality(A \union B) <= Cardinality(originPokers) /\ Cardinality(originPokers) \in Nat
  BY <1>1, FS_Subset, FS_CardinalityType DEF Dealt
<1>5. Cardinality(originPokers) <= Total /\ Total \in 5..7
  BY WithinTotal DEF Dealt
<1> QED BY <1>3, <1>4, <1>5

\* What the lists lack, no five cards make.
LEMMA KindsBarred ==
  ASSUME Listed, Complete, FacesListed, ~HaveLz
  PROVE  /\ Seen(seems, 4) = {} => Barred(ST4)
         /\ Seen(seems, 4) = {} /\ ~PreCheckHaveHL(seems, FALSE) => Barred(HL)
         /\ ~Flush(th, 5) => Barred(TH) /\ Barred(THS) /\ Barred(HJTHS)
         /\ RowOfColor = <<>> => Barred(THS) /\ Barred(HJTHS)
         /\ RowIn(shunZi) = <<>> => Barred(SZ)
         /\ Seen(seems, 3) = {} /\ Seen(seems, 4) = {} => Barred(ST3)
         /\ Often = {} => Barred(YD)
         /\ (\A f, g \in Often : f = g) => Barred(LD)
<1>1. ASSUME NEW P, FiveOwn(P), Rising(P), NEW x, x = Value(ToSet(P))
      PROVE  /\ x.kind = ST4 => Seen(seems, 4) # {}
             /\ x.kind = HL => Seen(seems, 4) # {} \/ PreCheckHaveHL(seems, FALSE)
             /\ x.kind \in {TH, THS, HJTHS} => Flush(th, 5)
             /\ x.kind \in {THS, HJTHS} => RowOfColor # <<>>
             /\ x.kind = SZ => RowIn(shunZi) # <<>>
             /\ x.kind = ST3 => Seen(seems, 3) # {} \/ Seen(seems, 4) # {}
             /\ x.kind = YD => Often # {}
             /\ x.kind = LD => \E f, g \in Often : f # g
  <2>1. /\ x.kind \in Unrowed => Shaped(x.kind, P, x.ranks)
        /\ x.kind \in {TH, THS, HJTHS} => Flush(th, 5)
        /\ x.kind \in {SZ, THS, HJTHS} => Reach(RowIn(shunZi), Top(ToSet(P)))
        /\ x.kind \in {THS, HJTHS} => Reach(RowOfColor, Top(ToSet(P)))
    BY <1>1, KindCap
  <2> DEFINE kind == x.kind
             u == x.ranks
  <2>2. kind \in {YD, LD, ST3, HL, ST4} => Shaped(kind, P, u)
    BY <2>1 DEF Unrowed
  <2>3. /\ x.kind \in {THS, HJTHS} => RowOfColor # <<>>
        /\ x.kind = SZ => RowIn(shunZi) # <<>>
    BY <2>1 DEF Reach
  <2> HIDE DEF kind, u
  <2>4. Shaped(kind, P, u) =>
          /\ kind = YD => u[1] \in Often
          /\ kind = LD => u[1] \in Often /\ u[2] \in Often /\ u[1] > u[2]
          /\ kind = ST3 => u[1] \in Seen(seems, 3) \union Seen(seems, 4)
          /\ kind = HL => /\ u[1] \in Seen(seems, 3) \union Seen(seems, 4)
                          /\ u[2] \in Often /\ u[1] # u[2]
          /\ kind = ST4 => u[1] \in Seen(seems, 4)
    BY <1>1, KindNeeds
  <2>5. kind = LD => \E f, g \in Often : f # g
    <3> SUFFICES ASSUME kind = LD PROVE \E f, g \in Often : f # g
      OBVIOUS
    <3>1. u[1] \in Often /\ u[2] \in Often /\ u[1] > u[2]
      BY <2>2, <2>4
    <3>2. Often \in SUBSET Int
      BY DEF Often, Seen, Faces
    <3>3. u[1] # u[2]
      <4> DEFINE a == u[1]
                 b == u[2]
      <4>1. a \in Int /\ b \in Int /\ a > b
        BY <3>1, <3>2
      <4> HIDE DEF a, b
      <4>2. a # b
        BY <4>1
      <4> QED BY <4>2 DEF a, b
    <3> QED BY <3>1, <3>3
  <2>6. kind = HL => Seen(seems, 4) # {} \/ PreCheckHaveHL(seems, FALSE)
    <3> SUFFICES ASSUME kind = HL, Seen(seems, 4) = {} PROVE PreCheckHaveHL(seems, FALSE)
      OBVIOUS
    <3>1. u[1] \in Seen(seems, 3) /\ u[2] \in Seen(seems, 2) \union Seen(seems, 3) /\ u[1] # u[2]
      BY <2>2, <2>4 DEF Often
    <3>2. CASE Seen(seems, 2) # {}
      BY <3>1, <3>2 DEF PreCheckHaveHL
    <3>3. CASE Seen(seems, 2) = {}
      <4>1. u[1] \in Seen(seems, 3) /\ u[2] \in Seen(seems, 3) /\ u[1] # u[2]
        BY <3>1, <3>3
      <4> DEFINE S == Seen(seems, 3)
      <4>2. IsFiniteSet(S) /\ Cardinality(S) \in Nat
        <5>0. PICK last \in Nat : last = 13
          OBVIOUS
        <5>1. IsFiniteSet(Faces)
          BY <5>0, SizeOfPlaces DEF Faces
        <5>2. S \in SUBSET Faces
          BY DEF Seen
        <5> HIDE DEF S
        <5> QED BY <5>1, <5>2, FS_Subset, FS_CardinalityType
      <4>3. ~(Cardinality(S) <= 1)
        BY <4>1, <4>2, MostOne
      <4>4. Cardinality(S) > 1
        BY <4>2, <4>3
      <4> QED BY <3>3, <4>4 DEF PreCheckHaveHL
    <3> QED BY <3>2, <3>3
  <2>7. /\ kind = ST4 => Seen(seems, 4) # {}
        /\ kind = ST3 => Seen(seems, 3) # {} \/ Seen(seems, 4) # {}
        /\ kind = YD => Often # {}
    BY <2>2, <2>4
  <2> QED BY <2>1, <2>3, <2>5, <2>6, <2>7 DEF kind
<1>2. ASSUME NEW P, FiveOwn(P), Rising(P)
      PROVE  /\ Value(ToSet(P)).kind = ST4 => Seen(seems, 4) # {}
             /\ Value(ToSet(P)).kind = HL => Seen(seems, 4) # {} \/ PreCheckHaveHL(seems, FALSE)
             /\ Value(ToSet(P)).kind \in {TH, THS, HJTHS} => Flush(th, 5)
             /\ Value(ToSet(P)).kind \in {THS, HJTHS} => RowOfColor # <<>>
             /\ Value(ToSet(P)).kind = SZ => RowIn(shunZi) # <<>>
             /\ Value(ToSet(P)).kind = ST3 => Seen(seems, 3) # {} \/ Seen(seems, 4) # {}
             /\ Value(ToSet(P)).kind = YD => Often # {}
             /\ Value(ToSet(P)).kind = LD => \E f, g \in Often : f # g
  BY <1>1, <1>2
<1> QED BY <1>2 DEF Barred

-----------------------------------------------------------------------------
(* No hand is over the one a check finds.                                    *)

LEMMA FiveIsOwn ==
  ASSUME ~HaveLz, NEW P, Five(P)
  PROVE  FiveOwn(P)
<1>1. \A i \in 1..5 : P[i] \in Card /\ P[i] \in originPokers
  BY OwnOrBorn
<1>2. P \in Seq(Poker) /\ Len(P) = 5 /\ DOMAIN P = 1..5 /\ Distinct(P)
  BY MadeIsDistinct
<1>3. P = [i \in 1..5 |-> P[i]]
  BY <1>2
<1>4. P \in Seq(Card)
  BY <1>1, <1>3, SeqOfFunction
<1> QED BY <1>1, <1>2, <1>4 DEF FiveOwn, Own, Distinct

\* A face the hand has is told, at a place for how often it has it.
LEMMA HeadIsTold ==
  ASSUME NEW kind, NEW Q, FiveOwn(Q), NEW v, Shaped(kind, Q, v), NEW f, CountIn(Q, f) > 0
  PROVE  \E k \in 1..Len(ShapeOf(kind)) : v[k] = f /\ ShapeOf(kind)[k] = CountIn(Q, f)
<1>1. \E i \in 1..5 : Q[i].face = f
  <2>1. DOMAIN Q = 1..5
    BY FiveOwnFacts, LenProperties
  <2>2. Spots(Q, {f}) # {}
    <3>1. Spots(Q, {f}) = {} => CountIn(Q, f) = 0
      BY FS_EmptySet DEF CountIn
    <3> QED BY <3>1
  <2> QED BY <2>1, <2>2 DEF Spots
<1>2. PICK k \in 1..Len(v) : v[k] = f
  BY <1>1 DEF Shaped, Tells
<1> QED BY <1>2 DEF Shaped

\* Whatever five cards there are, the faces they have more than once are no larger.
LEMMA HeadsAreTop ==
  ASSUME Listed, NEW kind, NEW v,
         kind = YD => \A f \in Often : f <= v[1],
         kind \in {ST3, HL} => \A f \in Seen(seems, 3) \union Seen(seems, 4) : f <= v[1],
         kind = ST4 => \A f \in Seen(seems, 4) : f <= v[1],
         kind = LD => \A f \in Often : f <= v[1],
         kind \in {LD, HL} => \A f \in Often \ {v[1]} : f <= v[2]
  PROVE  HeadsTop(kind, v)
<1> SUFFICES ASSUME NEW P, NEW u, FiveOwn(P), Shaped(kind, P, u) PROVE HeadsHold(kind, u, v)
  BY DEF HeadsTop
<1>1. Len(u) = Len(ShapeOf(kind))
  BY DEF Shaped
<1>2. /\ kind = YD => u[1] \in Often
      /\ kind = LD => u[1] \in Often /\ u[2] \in Often /\ u[1] > u[2]
      /\ kind = ST3 => u[1] \in Seen(seems, 3) \union Seen(seems, 4)
      /\ kind = HL => /\ u[1] \in Seen(seems, 3) \union Seen(seems, 4)
                      /\ u[2] \in Often /\ u[1] # u[2]
      /\ kind = ST4 => u[1] \in Seen(seems, 4)
  BY KindNeeds
<1>3. kind = LD => u[1] # u[2]
  <2> SUFFICES ASSUME kind = LD PROVE u[1] # u[2]
    OBVIOUS
  <2> DEFINE a == u[1]
             b == u[2]
  <2>1. a \in Int /\ b \in Int /\ a > b
    BY <1>2 DEF Often, Seen, Faces
  <2> HIDE DEF a, b
  <2>2. a # b
    BY <2>1
  <2> QED BY <2>2 DEF a, b
<1>4. kind \in {YD, LD, ST3, HL, ST4} => u[1] <= v[1]
  BY <1>2
<1>5. kind \in {LD, HL} /\ u[1] = v[1] => u[2] <= v[2]
  BY <1>2, <1>3
<1> QED BY <1>1, <1>4, <1>5, HeadsAre

\* Given faces and the largest others.
LEMMA PlacesAreBest ==
  ASSUME Listed, ~HaveLz, NEW F \in SUBSET Faces, NEW n \in Nat, Cardinality(PlacesOf(F, n)) = 5,
         \A f \in F : Count({f}) > 1, NEW Q, Picks(Q, tmpPokers, PlacesOf(F, n))
  PROVE  /\ \A f \in F : CountIn(Q, f) = Count({f})
         /\ \A kind : AllKept(kind, Q)
<1> DEFINE S == PlacesOf(F, n)
<1>1. Own(tmpPokers) /\ S \in SUBSET (1..Len(tmpPokers)) /\ S \intersect Spots(tmpPokers, F) = Spots(tmpPokers, F)
      /\ Picks(Q, tmpPokers, S)
  BY PlacesOfFacts DEF Listed
<1>2. FiveOwn(Q) /\ Taken(Q, S)
  BY <1>1, PickedAreTaken
<1>3. ASSUME NEW f \in F PROVE CountIn(Q, f) = Count({f})
  <2>1. Spots(tmpPokers, {f}) \in SUBSET S
    BY <1>1 DEF Spots
  <2> HIDE DEF S
  <2>2. f \in Faces /\ Own(tmpPokers) /\ S \in SUBSET (1..Len(tmpPokers)) /\ Picks(Q, tmpPokers, S)
    BY <1>1
  <2>3. CountIn(Q, f) = Count({f})
    BY <2>1, <2>2, PickedOften
  <2> QED BY <2>3
<1>4. ASSUME NEW j \in 1..5, Q[j].face \in F PROVE CountIn(Q, Q[j].face) # 1
  <2> DEFINE f == Q[j].face
             m == Count({f})
  <2>1. CountIn(Q, f) = m /\ m > 1
    BY <1>3, <1>4
  <2> HIDE DEF m
  <2>2. m # 1
    BY <2>1
  <2> QED BY <2>1, <2>2
<1>5. ASSUME NEW P, FiveOwn(P) PROVE Kept(P, Q)
  BY <1>2, <1>4, <1>5, PlacesKeep
<1> QED BY <1>3, <1>5 DEF AllKept

\* A hand that is worth what it says, and that nothing is over.
LEMMA BestOfKind ==
  ASSUME NEW kind \in HandType, kind \in Unrowed, NEW Q, FiveOwn(Q), NEW w, Worth(kind, w, Q),
         AllKept(kind, Q), HeadsTop(kind, ToldBy(kind, w)),
         \A k \in HandType : k > kind => Barred(k)
  PROVE  NoneBeats([kind |-> kind, ranks |-> ToldBy(kind, w)])
<1> DEFINE v == ToldBy(kind, w)
<1>1. Value(ToSet(Q)) = [kind |-> kind, ranks |-> v] /\ HeadsTop(kind, v)
  BY DEF Worth
<1> HIDE DEF v
<1>2. Even(kind, v)
  BY <1>1, EvenIf
<1>3. NoneBeats([kind |-> kind, ranks |-> v])
  BY <1>2, NoneOver
<1> QED BY <1>3 DEF v

LEMMA WorthIsShaped ==
  ASSUME NEW kind \in Unrowed, NEW Q, FiveOwn(Q), NEW w, Worth(kind, w, Q)
  PROVE  Shaped(kind, Q, ToldBy(kind, w))
<1> DEFINE x == Value(ToSet(Q))
           v == ToldBy(kind, w)
<1>1. x = [kind |-> kind, ranks |-> v]
  BY DEF Worth
<1>2. /\ x.kind \in {SZ, THS, HJTHS} <=> InARow(ToSet(Q))
      /\ ~InARow(ToSet(Q)) => Shaped(x.kind, Q, x.ranks)
  BY ValueHasShape
<1> HIDE DEF x, v
<1>3. kind \notin {SZ, THS, HJTHS}
  BY DEF Unrowed, SZ, THS, HJTHS, DZ, YD, LD, ST3, TH, HL, ST4
<1>4. Shaped(kind, Q, v)
  BY <1>1, <1>2, <1>3
<1> QED BY <1>4 DEF v

\* What the checks before the next one have left out, without the wild card.
Late ==
  /\ next \in {ST3, LD, YD, DZ} => RowIn(shunZi) = <<>>
  /\ next \in {SZ, LD} => Seen(seems, 4) = {} /\ ~PreCheckHaveHL(seems, FALSE)
  /\ next = LD => Seen(seems, 3) = {}
  /\ next \in {ST4, HL} /\ Flush(th, 5) => RowOfColor = <<>>

Ready == AnalystInv /\ Complete /\ FacesListed /\ Late /\ ~HaveLz

LEMMA ReadyFacts ==
  ASSUME Ready, next # NoMore
  PROVE  /\ Listed /\ Own(tmpPokers) /\ Total \in 5..7 /\ Len(tmpPokers) = Total
         /\ next \in HandType /\ Fits(next, seems, th, HaveLz, playChain)
<1>1. /\ Total \in 5..7 /\ Len(tmpPokers) = Total - WithLz /\ Own(tmpPokers)
      /\ next \in HandType /\ Fits(next, seems, th, HaveLz, playChain)
  BY AtACheck DEF Ready
<1>2. WithLz = 0
  BY DEF Ready, WithLz
<1> QED BY <1>1, <1>2 DEF Ready, AnalystInv

LEMMA FullNeedsTriple ==
  /\ Seen(seems, 3) = {} => ~PreCheckHaveHL(seems, FALSE)
  /\ Seen(seems, 2) = {} /\ Cardinality(Seen(seems, 3)) <= 1 => ~PreCheckHaveHL(seems, FALSE)
<1>1. Cardinality({}) = 0
  BY FS_EmptySet
<1>2. IsFiniteSet(Seen(seems, 3)) /\ Cardinality(Seen(seems, 3)) \in Nat
  <2>0. PICK last \in Nat : last = 13
    OBVIOUS
  <2>1. IsFiniteSet(Faces)
    BY <2>0, SizeOfPlaces DEF Faces
  <2>2. Seen(seems, 3) \in SUBSET Faces
    BY DEF Seen
  <2> QED BY <2>1, <2>2, FS_Subset, FS_CardinalityType
<1> QED BY <1>1, <1>2 DEF PreCheckHaveHL

\* A set of one face.
LEMMA OneIsTop ==
  ASSUME NEW n, One(seems, n), NEW f \in Seen(seems, n), NEW g \in Seen(seems, n)
  PROVE  f = g /\ f <= g
<1>1. IsFiniteSet(Seen(seems, n)) /\ Seen(seems, n) \in SUBSET Faces
  <2>0. PICK last \in Nat : last = 13
    OBVIOUS
  <2>1. IsFiniteSet(Faces)
    BY <2>0, SizeOfPlaces DEF Faces
  <2>2. Seen(seems, n) \in SUBSET Faces
    BY DEF Seen
  <2> QED BY <2>1, <2>2, FS_Subset
<1>2. f = g
  BY <1>1, MostOne DEF One
<1>3. f \in Int /\ g \in Int
  BY DEF Seen, Faces
<1> QED BY <1>2, <1>3

LEMMA FiveOfPlaces ==
  ASSUME Own(tmpPokers), Len(tmpPokers) \in 5..7, NEW F, NEW n \in Nat, Count(F) + n = 5
  PROVE  PlacesOf(F, n) \in SUBSET (1..Len(tmpPokers)) /\ Cardinality(PlacesOf(F, n)) = 5
<1> DEFINE l == Len(tmpPokers)
           m == Count(F)
           c == Cardinality(PlacesOf(F, n))
<1>1. /\ PlacesOf(F, n) \in SUBSET (1..Len(tmpPokers))
      /\ c = m + IF n <= l - m THEN n ELSE l - m
      /\ m \in Nat /\ l \in 5..7 /\ m + n = 5
  BY PlacesOfFacts
<1> HIDE DEF l, m, c
<1>2. c = 5
  BY <1>1
<1> QED BY <1>1, <1>2 DEF c

LEMMA YDIsBest ==
  ASSUME Ready, next = YD
  PROVE  LET f == YDFace
             q == Singles(YDPokers(f), {f})
         IN  NoneBeats([kind |-> YD, ranks |-> ToldBy(YD, <<f, q[3], q[2], q[1], 0, 0>>)])
<1> DEFINE f == YDFace
           Q == YDPokers(f)
           q == Singles(Q, {f})
           w == <<f, q[3], q[2], q[1], 0, 0>>
           v == ToldBy(YD, w)
           F == {f}
<1>1. /\ Listed /\ Own(tmpPokers) /\ Len(tmpPokers) \in 5..7 /\ One(seems, 2)
      /\ Seen(seems, 3) = {} /\ Seen(seems, 4) = {} /\ ~Flush(th, 5)
      /\ RowIn(shunZi) = <<>> /\ ~HaveLz /\ Complete /\ FacesListed
  <2>1. next # NoMore
    BY DEF YD, NoMore
  <2> QED BY <2>1, ReadyFacts DEF Ready, Late, Fits, None
<1>2. f \in Seen(seems, 2) /\ f \in Faces /\ Count({f}) = 2
  <2>1. f = Max(Seen(seems, 2))
    BY <1>1 DEF YDFace
  <2>2. Seen(seems, 2) \in SUBSET Faces /\ \A g \in Seen(seems, 2) : Count({g}) = 2
    BY <1>1, SeenFacts
  <2> HIDE DEF f
  <2> QED BY <1>1, <2>1, <2>2, MaxFace DEF One
<1>3. Worth(YD, w, Q) /\ FiveOwn(Q)
  <2>1. Five(Q)
    BY YDShown DEF Ready
  <2> QED BY <1>1, <2>1, FiveIsOwn, YDIsWorth DEF Ready
<1>4. Q = Upwards(PlacesOf(F, 3))
  BY <1>1 DEF YDPokers
<1> HIDE DEF Q, q, w, v
<1>5. CountIn(Q, f) = 2 /\ AllKept(YD, Q)
  <2>0. Count(F) = 2
    BY <1>2
  <2>1. F \in SUBSET Faces /\ \A g \in F : Count({g}) = 2
    BY <1>2
  <2>2. f \in F
    OBVIOUS
  <2> HIDE DEF F, f
  <2>3. PlacesOf(F, 3) \in SUBSET (1..Len(tmpPokers)) /\ Cardinality(PlacesOf(F, 3)) = 5
    <3>1. Count(F) + 3 = 5
      BY <2>0
    <3> QED BY <1>1, <3>1, FiveOfPlaces
  <2>5. Picks(Q, tmpPokers, PlacesOf(F, 3))
    BY <1>1, <1>4, <2>3, DownwardsFacts
  <2>6. \A g \in F : Count({g}) > 1
    BY <2>1
  <2>7. (\A g \in F : CountIn(Q, g) = Count({g})) /\ \A kind : AllKept(kind, Q)
    BY <1>1, <2>1, <2>3, <2>5, <2>6, PlacesAreBest
  <2> QED BY <2>1, <2>2, <2>7
<1>6. v[1] = f
  <2>1. Shaped(YD, Q, v)
    BY <1>3, WorthIsShaped DEF Unrowed, v
  <2>2. ShapeOf(YD) = <<2, 1, 1, 1>>
    BY DEF ShapeOf, YD, LD, ST3, HL, ST4
  <2>3. PICK k \in 1..Len(ShapeOf(YD)) : v[k] = f /\ ShapeOf(YD)[k] = CountIn(Q, f)
    BY <1>3, <1>5, <2>1, HeadIsTold
  <2>4. k = 1
    BY <1>5, <2>2, <2>3
  <2> QED BY <2>3, <2>4
<1> HIDE DEF f, F
<1>7. HeadsTop(YD, v)
  <2>1. \A g \in Often : g <= v[1]
    BY <1>1, <1>2, <1>6, OneIsTop DEF Often
  <2> QED BY <1>1, <2>1, HeadsAreTop DEF YD, LD, ST3, HL, ST4
<1>8. \A k \in HandType : k > YD => Barred(k)
  <2>1. \A a, b \in Often : a = b
    BY <1>1, OneIsTop DEF Often
  <2>2. ~PreCheckHaveHL(seems, FALSE)
    BY <1>1, FullNeedsTriple
  <2>3. \A k \in {LD, ST3, SZ, TH, HL, ST4, THS, HJTHS} : Barred(k)
    BY <1>1, <2>1, <2>2, KindsBarred
  <2>4. YD \in HandType
    BY DEF YD, HandType, DZ, HJTHS
  <2> QED BY <2>3, <2>4, KindsAbove
<1>9. NoneBeats([kind |-> YD, ranks |-> v])
  BY <1>3, <1>5, <1>7, <1>8, BestOfKind DEF v, Unrowed, HandType, YD, DZ, HJTHS
<1> QED BY <1>9 DEF v, w, q, Q, f

LEMMA LDIsBest ==
  ASSUME Ready, next = LD
  PROVE  LET Q == LDPokers(LDBigger, LDSmaller)
         IN  NoneBeats([kind |-> LD, ranks |->
               ToldBy(LD, <<LDBigger, LDSmaller, Singles(Q, {LDBigger, LDSmaller})[1], 0, 0, 0>>)])
<1> DEFINE f == LDBigger
           g == LDSmaller
           Q == LDPokers(f, g)
           w == <<f, g, Singles(Q, {f, g})[1], 0, 0, 0>>
           v == ToldBy(LD, w)
           F == {f, g}
           S == Seen(seems, 2)
<1>1. /\ Listed /\ Own(tmpPokers) /\ Len(tmpPokers) \in 5..7 /\ Cardinality(S) > 1
      /\ Seen(seems, 3) = {} /\ Seen(seems, 4) = {} /\ ~Flush(th, 5)
      /\ RowIn(shunZi) = <<>> /\ ~HaveLz /\ Complete /\ FacesListed
  <2>1. next # NoMore
    BY DEF LD, NoMore
  <2> QED BY <2>1, ReadyFacts DEF Ready, Late, Fits, None
<1>2. /\ f \in S /\ g \in S /\ f # g /\ Count({f}) = 2 /\ Count({g}) = 2 /\ S \in SUBSET Faces
      /\ (\A h \in S : h <= f) /\ \A h \in S \ {f} : h <= g
  <2>1. S \in SUBSET Faces /\ \A h \in S : Count({h}) = 2
    BY <1>1, SeenFacts
  <2>2. f = Max(S) /\ g = Max(S \ {f})
    BY DEF LDBigger, LDSmaller
  <2> HIDE DEF f, g, S
  <2>3. S # {} /\ \A h \in S : S \ {h} # {}
    BY <1>1, <2>1, OthersThere
  <2>4. f \in S /\ \A h \in S : h <= f
    BY <2>1, <2>2, <2>3, MaxFace
  <2>5. g \in S \ {f} /\ \A h \in S \ {f} : h <= g
    <3>1. S \ {f} \in SUBSET Faces /\ S \ {f} # {}
      BY <2>1, <2>3, <2>4
    <3> QED BY <2>2, <3>1, MaxFace
  <2> QED BY <2>1, <2>4, <2>5
<1>3. Worth(LD, w, Q) /\ FiveOwn(Q)
  <2>1. Five(Q)
    BY LDShown DEF Ready
  <2> QED BY <1>1, <2>1, FiveIsOwn, LDIsWorth DEF Ready
<1>4. Q = Downwards(PlacesOf(F, 1)) /\ AnalystInv
  BY DEF LDPokers, Ready
<1>5. CountIn(Q, f) = 2 /\ CountIn(Q, g) = 2
  BY <1>4, LDShown
<1> HIDE DEF Q, w, v, f, g
<1>6. AllKept(LD, Q)
  <2>1. Count(F) + 1 = 5
    <3>1. Count(F) = Count({f}) + Count({g})
      BY <1>1, <1>2, CountOfTwo
    <3> QED BY <1>2, <3>1
  <2>2. F \in SUBSET Faces /\ \A h \in F : Count({h}) > 1
    BY <1>2
  <2> HIDE DEF F
  <2>3. PlacesOf(F, 1) \in SUBSET (1..Len(tmpPokers)) /\ Cardinality(PlacesOf(F, 1)) = 5
    BY <1>1, <2>1, FiveOfPlaces
  <2>4. Picks(Q, tmpPokers, PlacesOf(F, 1))
    BY <1>1, <1>4, <2>3, DownwardsFacts
  <2> QED BY <1>1, <2>2, <2>3, <2>4, PlacesAreBest
<1>7. v[1] = f /\ v[2] = g
  <2>1. Shaped(LD, Q, v)
    BY <1>3, WorthIsShaped DEF Unrowed, v
  <2>2. ShapeOf(LD) = <<2, 2, 1>>
    BY DEF ShapeOf, YD, LD, ST3, HL, ST4
  <2>3. PICK k \in 1..Len(ShapeOf(LD)) : v[k] = f /\ ShapeOf(LD)[k] = CountIn(Q, f)
    BY <1>3, <1>5, <2>1, HeadIsTold
  <2>4. PICK l \in 1..Len(ShapeOf(LD)) : v[l] = g /\ ShapeOf(LD)[l] = CountIn(Q, g)
    BY <1>3, <1>5, <2>1, HeadIsTold
  <2>5. k \in 1..2 /\ l \in 1..2 /\ k # l
    BY <1>2, <1>5, <2>2, <2>3, <2>4
  <2>6. v[1] \in S /\ v[2] \in S
    BY <1>2, <2>3, <2>4, <2>5
  <2>7. v[1] > v[2]
    <3>1. v[1] \in Often /\ v[2] \in Often /\ v[1] > v[2]
      BY <1>1, <1>3, <2>1, KindNeeds
    <3> QED BY <3>1
  <2>8. ~(k = 2 /\ l = 1)
    <3> SUFFICES ASSUME k = 2, l = 1 PROVE FALSE
      OBVIOUS
    <3>1. v[1] = g /\ v[2] = f /\ g <= f /\ g > f
      BY <1>2, <2>3, <2>4, <2>7
    <3>2. f \in Int /\ g \in Int
      BY <1>2 DEF Faces
    <3> QED BY <3>1, <3>2
  <2> QED BY <2>3, <2>4, <2>5, <2>8
<1>8. HeadsTop(LD, v)
  <2>1. Often = S
    BY <1>1 DEF Often
  <2> HIDE DEF S
  <2>2. (\A h \in Often : h <= v[1]) /\ \A h \in Often \ {v[1]} : h <= v[2]
    BY <1>2, <1>7, <2>1
  <2> QED BY <1>1, <2>2, HeadsAreTop DEF YD, LD, ST3, HL, ST4
<1>9. \A k \in HandType : k > LD => Barred(k)
  <2>1. ~PreCheckHaveHL(seems, FALSE)
    BY <1>1, FullNeedsTriple
  <2>2. \A k \in {ST3, SZ, TH, HL, ST4, THS, HJTHS} : Barred(k)
    BY <1>1, <2>1, KindsBarred
  <2>3. LD \in HandType
    BY DEF LD, HandType, DZ, HJTHS
  <2> QED BY <2>2, <2>3, KindsAbove
<1>10. NoneBeats([kind |-> LD, ranks |-> v])
  BY <1>3, <1>6, <1>8, <1>9, BestOfKind DEF v, Unrowed, HandType, LD, DZ, HJTHS
<1> QED BY <1>10 DEF v, w, Q, f, g

\* Three or four of a face, and the largest others.
LEMMA ManyAreBest ==
  ASSUME Ready, NEW kind \in {ST3, ST4}, NEW f \in Faces, NEW n \in 3..4,
         n = IF kind = ST3 THEN 3 ELSE 4, Count({f}) = n, NEW m \in Nat, n + m = 5,
         Len(tmpPokers) \in 5..7, NEW Q, NEW five, five = FiveDownwards(PlacesOf({f}, m), f),
         Q = five \/ Q = Reverse(five), NEW w, Worth(kind, w, Q),
         \A g \in (IF kind = ST3 THEN Seen(seems, 3) \union Seen(seems, 4) ELSE Seen(seems, 4)) : g <= f,
         \A k \in HandType : k > kind => Barred(k)
  PROVE  NoneBeats([kind |-> kind, ranks |-> ToldBy(kind, w)])
<1> DEFINE v == ToldBy(kind, w)
           F == {f}
<1>1. Listed /\ Own(tmpPokers) /\ ~HaveLz
  BY DEF Ready, AnalystInv, Listed
<1>2. FiveOwn(Q) /\ CountIn(Q, f) = n /\ AllKept(kind, Q)
  <2>1. F \in SUBSET Faces /\ Count(F) + m = 5 /\ Count(F) = n
    OBVIOUS
  <2>2. \A g \in F : Count({g}) > 1
    OBVIOUS
  <2>3. f \in F
    OBVIOUS
  <2>4. five = FiveDownwards(PlacesOf(F, m), f)
    OBVIOUS
  <2>5. \A g \in F : CountIn(Q, g) = Count({g}) => CountIn(Q, g) = n
    OBVIOUS
  <2> HIDE DEF F
  <2>6. PlacesOf(F, m) \in SUBSET (1..Len(tmpPokers)) /\ Cardinality(PlacesOf(F, m)) = 5
    BY <1>1, <2>1, FiveOfPlaces
  <2>7. Picks(Q, tmpPokers, PlacesOf(F, m))
    BY <1>1, <2>4, <2>6, FiveAreAll
  <2>8. (\A g \in F : CountIn(Q, g) = Count({g})) /\ AllKept(kind, Q)
    BY <1>1, <2>1, <2>2, <2>6, <2>7, PlacesAreBest
  <2>9. FiveOwn(Q)
    BY <1>1, <2>6, <2>7, PickedAreTaken
  <2> QED BY <2>3, <2>5, <2>8, <2>9
<1>3. kind \in Unrowed /\ kind \in HandType
  BY DEF Unrowed, HandType, ST3, ST4, DZ, HJTHS
<1> HIDE DEF v
<1>4. v[1] = f
  <2>1. Shaped(kind, Q, v)
    BY <1>2, <1>3, WorthIsShaped DEF v
  <2>2. PICK k \in 1..Len(ShapeOf(kind)) : v[k] = f /\ ShapeOf(kind)[k] = n
    <3>1. CountIn(Q, f) > 0
      BY <1>2
    <3> QED BY <1>2, <2>1, <3>1, HeadIsTold
  <2>3. ShapeOf(kind) = IF kind = ST3 THEN <<3, 1, 1>> ELSE <<4, 1>>
    BY DEF ShapeOf, YD, LD, ST3, HL, ST4
  <2>4. k = 1
    BY <2>2, <2>3 DEF ST3, ST4
  <2> QED BY <2>2, <2>4
<1>5. HeadsTop(kind, v)
  <2>1. /\ kind \in {ST3, HL} => \A g \in Seen(seems, 3) \union Seen(seems, 4) : g <= v[1]
        /\ kind = ST4 => \A g \in Seen(seems, 4) : g <= v[1]
    BY <1>4 DEF ST3, ST4, HL
  <2>2. kind \notin {YD, LD, HL}
    BY DEF YD, LD, HL, ST3, ST4
  <2> QED BY <1>1, <2>1, <2>2, HeadsAreTop
<1>6. NoneBeats([kind |-> kind, ranks |-> v])
  BY <1>2, <1>3, <1>5, BestOfKind DEF v
<1> QED BY <1>6 DEF v

LEMMA TZ3IsBest ==
  ASSUME Ready, next = ST3
  PROVE  LET q == Singles(TZ3Pokers(TZ3Face), {TZ3Face})
         IN  NoneBeats([kind |-> ST3, ranks |-> ToldBy(ST3, <<TZ3Face, 0, q[2], q[1], 0, 0>>)])
<1> DEFINE f == TZ3Face
           Q == TZ3Pokers(f)
           q == Singles(Q, {f})
           w == <<f, 0, q[2], q[1], 0, 0>>
           five == FiveDownwards(PlacesOf({f}, 2), f)
<1>1. /\ Listed /\ Len(tmpPokers) \in 5..7 /\ One(seems, 3)
      /\ Seen(seems, 2) = {} /\ Seen(seems, 4) = {} /\ ~Flush(th, 5)
      /\ RowIn(shunZi) = <<>> /\ ~HaveLz /\ Complete /\ FacesListed
  <2>1. next # NoMore
    BY DEF ST3, NoMore
  <2> QED BY <2>1, ReadyFacts DEF Ready, Late, Fits, None
<1>2. f \in Seen(seems, 3) /\ f \in Faces /\ Count({f}) = 3
  <2>1. f = Max(Seen(seems, 3))
    BY <1>1 DEF TZ3Face
  <2>2. Seen(seems, 3) \in SUBSET Faces /\ \A g \in Seen(seems, 3) : Count({g}) = 3
    BY <1>1, SeenFacts
  <2> HIDE DEF f
  <2> QED BY <1>1, <2>1, <2>2, MaxFace DEF One
<1>3. Worth(ST3, w, Q)
  BY TZ3IsWorth DEF Ready
<1>4. Q = Reverse(five)
  BY DEF TZ3Pokers
<1> HIDE DEF Q, q, w, f
<1>5. \A g \in Seen(seems, 3) \union Seen(seems, 4) : g <= f
  BY <1>1, <1>2, OneIsTop
<1>6. \A k \in HandType : k > ST3 => Barred(k)
  <2>1. ~PreCheckHaveHL(seems, FALSE)
    BY <1>1, FullNeedsTriple DEF One
  <2>2. \A k \in {SZ, TH, HL, ST4, THS, HJTHS} : Barred(k)
    BY <1>1, <2>1, KindsBarred
  <2>3. ST3 \in HandType
    BY DEF ST3, HandType, DZ, HJTHS
  <2> QED BY <2>2, <2>3, KindsAbove
<1>7. NoneBeats([kind |-> ST3, ranks |-> ToldBy(ST3, w)])
  <2>1. PICK kind \in {ST3, ST4}, n \in 3..4, m \in Nat : kind = ST3 /\ n = 3 /\ m = 2
    OBVIOUS
  <2>2. Q = Reverse(FiveDownwards(PlacesOf({f}, m), f)) /\ Count({f}) = n /\ n + m = 5
        /\ n = (IF kind = ST3 THEN 3 ELSE 4) /\ Worth(kind, w, Q)
        /\ \A k \in HandType : k > kind => Barred(k)
    BY <1>2, <1>3, <1>4, <1>6, <2>1
  <2> HIDE DEF five
  <2>3. NoneBeats([kind |-> kind, ranks |-> ToldBy(kind, w)])
    BY <1>1, <1>2, <1>5, <2>1, <2>2, ManyAreBest
  <2> QED BY <2>1, <2>3
<1> QED BY <1>7 DEF w, q, Q, f

LEMMA TZ4IsBest ==
  ASSUME Ready, next = ST4
  PROVE  LET q == Singles(TZ4Pokers(TZ4Face), {TZ4Face})
         IN  NoneBeats([kind |-> ST4, ranks |->
               ToldBy(ST4, <<TZ4Face, IF q = <<>> THEN 0 ELSE q[1], 0, 0, 0, 0>>)])
<1> DEFINE f == TZ4Face
           Q == TZ4Pokers(f)
           q == Singles(Q, {f})
           w == <<f, IF q = <<>> THEN 0 ELSE q[1], 0, 0, 0, 0>>
           five == FiveDownwards(PlacesOf({f}, 1), f)
<1>1. /\ Listed /\ Len(tmpPokers) \in 5..7 /\ Seen(seems, 4) # {}
      /\ Flush(th, 5) => RowOfColor = <<>>
      /\ ~HaveLz /\ Complete /\ FacesListed
  <2>1. next # NoMore
    BY DEF ST4, NoMore
  <2> QED BY <2>1, ReadyFacts DEF Ready, Late, Fits, PreCheckHaveTZ4
<1>2. f \in Faces /\ Count({f}) = 4 /\ \A g \in Seen(seems, 4) : g <= f
  <2>1. f = Max(Seen(seems, 4))
    <3>1. Seen(seems, 4) \union {} = Seen(seems, 4)
      OBVIOUS
    <3> QED BY <1>1, <3>1 DEF TZ4Face
  <2>2. Seen(seems, 4) \in SUBSET Faces /\ \A g \in Seen(seems, 4) : Count({g}) = 4
    BY <1>1, SeenFacts
  <2> HIDE DEF f
  <2> QED BY <1>1, <2>1, <2>2, MaxFace
<1>3. Worth(ST4, w, Q)
  BY TZ4IsWorth DEF Ready, FourAndLz
<1>4. Q = five
  BY DEF TZ4Pokers
<1> HIDE DEF Q, q, w, f
<1>5. \A k \in HandType : k > ST4 => Barred(k)
  <2>1. \A k \in {THS, HJTHS} : Barred(k)
    BY <1>1, KindsBarred
  <2>2. ST4 \in HandType
    BY DEF ST4, HandType, DZ, HJTHS
  <2> QED BY <2>1, <2>2, KindsAbove
<1>6. NoneBeats([kind |-> ST4, ranks |-> ToldBy(ST4, w)])
  <2>1. PICK kind \in {ST3, ST4}, n \in 3..4, m \in Nat : kind = ST4 /\ n = 4 /\ m = 1
    OBVIOUS
  <2>2. Q = FiveDownwards(PlacesOf({f}, m), f) /\ Count({f}) = n /\ n + m = 5
        /\ n = (IF kind = ST3 THEN 3 ELSE 4) /\ Worth(kind, w, Q)
        /\ (\A k \in HandType : k > kind => Barred(k)) /\ kind # ST3
    BY <1>2, <1>3, <1>4, <1>5, <2>1 DEF ST3, ST4
  <2> HIDE DEF five
  <2>3. NoneBeats([kind |-> kind, ranks |-> ToldBy(kind, w)])
    BY <1>1, <1>2, <2>1, <2>2, ManyAreBest
  <2> QED BY <2>1, <2>3
<1> QED BY <1>6 DEF w, q, Q, f

LEMMA HLIsBest ==
  ASSUME Ready, next = HL
  PROVE  NoneBeats([kind |-> HL, ranks |-> ToldBy(HL, <<HLBigger, HLSmaller, 0, 0, 0, 0>>)])
<1> DEFINE f == HLBigger
           g == HLSmaller
           Q == HLPokers(f, g)
           w == <<f, g, 0, 0, 0, 0>>
           v == ToldBy(HL, w)
           S == Seen(seems, 2) \union Seen(seems, 3)
<1>1. /\ Listed /\ PreCheckHaveHL(seems, HaveLz)
      /\ Flush(th, 5) => RowOfColor = <<>>
      /\ ~HaveLz /\ Complete /\ FacesListed
  <2>1. next # NoMore
    BY DEF HL, NoMore
  <2>2. PreCheckHaveHL(seems, HaveLz)
    BY <2>1, ReadyFacts DEF Fits
  <2>3. Listed /\ (Flush(th, 5) => RowOfColor = <<>>)
    BY <2>1, ReadyFacts DEF Ready, Late
  <2> QED BY <2>2, <2>3 DEF Ready
<1>2. Seen(seems, 4) = {} /\ Seen(seems, 3) # {} /\ S \in SUBSET Faces
  <2>1. Cardinality({}) = 0
    BY FS_EmptySet
  <2>2. Seen(seems, 4) = {} /\ (Seen(seems, 3) # {} \/ Cardinality(Seen(seems, 3)) > 1)
    <3> HIDE DEF S
    <3> QED BY <1>1, Zenon DEF PreCheckHaveHL
  <2>3. Seen(seems, 3) # {}
    BY <2>1, <2>2
  <2> QED BY <2>2, <2>3 DEF Seen
<1>3. Five(Q) /\ f # g /\ CountIn(Q, f) = 3 /\ CountIn(Q, g) = 2 /\ f \in Faces /\ g \in Faces
  BY HLShown DEF Ready
<1>4. Worth(HL, w, Q)
  BY HLIsWorth DEF Ready
<1>5. FiveOwn(Q)
  <2> HIDE DEF Q
  <2> QED BY <1>1, <1>3, FiveIsOwn
<1>6. f = Max(Seen(seems, 3)) /\ g = Max(S \ {f})
  BY <1>1 DEF HLBigger, HLSmaller
<1> HIDE DEF f, g, Q, w, v
<1>7. Shaped(HL, Q, v) /\ ShapeOf(HL) = <<3, 2>>
  BY <1>4, <1>5, WorthIsShaped DEF Unrowed, v, ShapeOf, YD, LD, ST3, HL, ST4
<1>8. v[1] = f /\ v[2] = g
  <2>1. PICK k \in 1..Len(ShapeOf(HL)) : v[k] = f /\ ShapeOf(HL)[k] = CountIn(Q, f)
    BY <1>3, <1>5, <1>7, HeadIsTold
  <2>2. PICK l \in 1..Len(ShapeOf(HL)) : v[l] = g /\ ShapeOf(HL)[l] = CountIn(Q, g)
    BY <1>3, <1>5, <1>7, HeadIsTold
  <2>3. k = 1 /\ l = 2
    BY <1>3, <1>7, <2>1, <2>2
  <2> QED BY <2>1, <2>2, <2>3
<1>9. AllKept(HL, Q)
  <2>1. ASSUME NEW j \in 1..5 PROVE CountIn(Q, Q[j].face) # 1
    <3>1. PICK k \in 1..Len(v) : v[k] = Q[j].face
      BY <1>7 DEF Shaped, Tells
    <3>2. CountIn(Q, v[k]) = <<3, 2>>[k] /\ k \in 1..2
      BY <1>7 DEF Shaped
    <3> QED BY <3>1, <3>2
  <2> QED BY <2>1 DEF AllKept, Kept
<1>10. HeadsTop(HL, v)
  <2>1. \A h \in Seen(seems, 3) \union Seen(seems, 4) : h <= v[1]
    <3>1. Seen(seems, 3) \in SUBSET Faces
      BY DEF Seen
    <3> QED BY <1>2, <1>6, <1>8, <3>1, MaxFace
  <2>2. \A h \in Often \ {v[1]} : h <= v[2]
    <3>1. Often = S
      BY <1>2 DEF Often
    <3> HIDE DEF S
    <3>2. ASSUME NEW h \in S \ {f} PROVE h <= g
      <4>1. S \ {f} \in SUBSET Faces /\ S \ {f} # {}
        BY <1>2
      <4> QED BY <1>6, <4>1, MaxFace
    <3> QED BY <1>8, <3>1, <3>2
  <2> QED BY <1>1, <2>1, <2>2, HeadsAreTop DEF YD, LD, ST3, HL, ST4
<1>11. \A k \in HandType : k > HL => Barred(k)
  <2>1. \A k \in {ST4, THS, HJTHS} : Barred(k)
    BY <1>1, <1>2, KindsBarred
  <2>2. HL \in HandType
    BY DEF HL, HandType, DZ, HJTHS
  <2> QED BY <2>1, <2>2, KindsAbove
<1>12. NoneBeats([kind |-> HL, ranks |-> v])
  BY <1>4, <1>5, <1>9, <1>10, <1>11, BestOfKind DEF v, Unrowed, HandType, HL, DZ, HJTHS
<1> QED BY <1>12 DEF v, w, f, g

\* A row tells its last card, and no row that cards make ends above it.
LEMMA RowIsEven ==
  ASSUME Listed, Complete, FacesListed, ~HaveLz, NEW kind \in {SZ, THS}, NEW row, NEW K,
         Straight(row, K), row = IF kind = SZ THEN RowIn(shunZi) ELSE RowOfColor
  PROVE  Even(kind, ToldBy(kind, WeightOfSZ(row)))
<1> DEFINE b == row[5].face
<1>1. ToldBy(kind, WeightOfSZ(row)) = <<b>> /\ b \in Int
  <2>1. ~LzLiftsSmallest
    BY DEF LzLiftsSmallest
  <2>2. (IF Wheel(row) THEN 4 ELSE row[5].face) = b /\ b \in Faces
    BY RowReachesFour
  <2> QED BY <2>1, <2>2, WeightOfStraight DEF Faces
<1> SUFFICES ASSUME NEW P, FiveOwn(P), Rising(P), Value(ToSet(P)).kind = kind
             PROVE  ~RanksAbove(Value(ToSet(P)).ranks, <<b>>)
  BY <1>1 DEF Even
<1> DEFINE x == Value(ToSet(P))
           t == Top(ToSet(P))
<1>2. x.ranks = <<t>> /\ t \in 0..Ace /\ Reach(row, t)
  <2>1. /\ x.kind \in {SZ, THS, HJTHS} => Reach(RowIn(shunZi), t)
        /\ x.kind \in {THS, HJTHS} => Reach(RowOfColor, t)
        /\ x.kind \in {SZ, THS, HJTHS} => t \in 0..Ace
        /\ x.kind \in {SZ, THS} => x.ranks = <<t>>
    BY KindCap
  <2>2. x.kind = kind
    OBVIOUS
  <2> HIDE DEF x, t
  <2> QED BY <2>1, <2>2
<1> HIDE DEF t, x
<1>3. b >= t
  BY <1>2 DEF Reach
<1> HIDE DEF b
<1>4. ~RanksAbove(<<t>>, <<b>>)
  <2>1. \A i \in DOMAIN <<t>> : ~(<<t>>[i] > <<b>>[i])
    BY <1>1, <1>2, <1>3 DEF Ace
  <2> QED BY <2>1 DEF RanksAbove
<1> QED BY <1>2, <1>4 DEF x

LEMMA SZIsBest ==
  ASSUME Ready, next = SZ, RowIn(shunZi) # <<>>
  PROVE  NoneBeats([kind |-> SZ, ranks |-> ToldBy(SZ, WeightOfSZ(RowIn(shunZi)))])
<1> DEFINE row == RowIn(shunZi)
<1>1. /\ Listed /\ Seen(seems, 4) = {} /\ ~PreCheckHaveHL(seems, FALSE) /\ ~Flush(th, 5)
      /\ ~HaveLz /\ Complete /\ FacesListed
  <2>1. next # NoMore
    BY DEF SZ, NoMore
  <2> QED BY <2>1, ReadyFacts DEF Ready, Late, Fits
<1>2. Straight(row, Colors)
  BY SZShown DEF Ready
<1>3. Even(SZ, ToldBy(SZ, WeightOfSZ(row)))
  BY <1>1, <1>2, RowIsEven
<1>4. \A k \in HandType : k > SZ => Barred(k)
  <2>1. \A k \in {TH, HL, ST4, THS, HJTHS} : Barred(k)
    BY <1>1, KindsBarred
  <2> QED BY <2>1, KindsAbove DEF SZ, HandType, DZ, HJTHS
<1> HIDE DEF row
<1>5. NoneBeats([kind |-> SZ, ranks |-> ToldBy(SZ, WeightOfSZ(row))])
  BY <1>3, <1>4, NoneOver DEF SZ, HandType, DZ, HJTHS
<1> QED BY <1>5 DEF row

LEMMA THSIsBest ==
  ASSUME Ready, next = TH, RowOfColor # <<>>
  PROVE  IF IsBiggestSZ(RowOfColor)
         THEN NoneBeats([kind |-> HJTHS, ranks |-> ToldBy(HJTHS, NoWeight)])
         ELSE NoneBeats([kind |-> THS, ranks |-> ToldBy(THS, WeightOfSZ(RowOfColor))])
<1> DEFINE row == RowOfColor
<1>1. Listed /\ ~HaveLz /\ Complete /\ FacesListed
  BY DEF Ready, AnalystInv
<1>2. PICK K : Straight(row, K)
  BY THShown DEF Ready, OfOneColor
<1>3. Even(THS, ToldBy(THS, WeightOfSZ(row)))
  BY <1>1, <1>2, RowIsEven DEF SZ, THS
<1>4. ASSUME ~IsBiggestSZ(row) PROVE Barred(HJTHS)
  <2> SUFFICES ASSUME NEW P, FiveOwn(P), Rising(P), Value(ToSet(P)).kind = HJTHS PROVE FALSE
    BY DEF Barred
  <2> DEFINE x == Value(ToSet(P))
  <2>1. Reach(row, Top(ToSet(P))) /\ Top(ToSet(P)) = Ace
    <3>1. /\ x.kind \in {THS, HJTHS} => Reach(RowOfColor, Top(ToSet(P)))
          /\ x.kind = HJTHS => Top(ToSet(P)) = Ace
      BY <1>1, KindCap
    <3> QED BY <3>1
  <2>2. row[5].face \in Faces /\ (IF Wheel(row) THEN 4 ELSE row[5].face) = row[5].face
    BY <1>2, RowReachesFour
  <2> HIDE DEF row
  <2>3. row[5].face = Ace
    BY <2>1, <2>2 DEF Reach, Faces, Ace
  <2> QED BY <1>2, <1>4, <2>2, <2>3, BiggestIsRoyal
<1>5. Even(HJTHS, <<>>)
  <2> SUFFICES ASSUME NEW P, FiveOwn(P), Rising(P), Value(ToSet(P)).kind = HJTHS
               PROVE  ~RanksAbove(Value(ToSet(P)).ranks, <<>>)
    BY DEF Even
  <2> DEFINE five == ToSet(P)
  <2>1. InARow(five) /\ OneColor(five)
    BY ValueHasShape
  <2> HIDE DEF five
  <2>2. Value(five).kind = HJTHS => Value(five).ranks = <<>>
    BY <2>1 DEF Value, HJTHS
  <2>3. Value(five).ranks = <<>>
    BY <2>2 DEF five
  <2>4. DOMAIN <<>> = {}
    OBVIOUS
  <2> QED BY <2>3, <2>4 DEF RanksAbove, five
<1>6. ToldBy(HJTHS, NoWeight) = <<>>
  BY ToldNothing DEF ToldBy, HJTHS, SZ, THS
<1> HIDE DEF row
<1>7. THS \in HandType /\ HJTHS \in HandType
  BY DEF THS, HJTHS, HandType, DZ
<1>8. CASE IsBiggestSZ(row)
  <2>1. \A k \in HandType : ~(k > HJTHS)
    BY DEF HJTHS, HandType, DZ
  <2>2. NoneBeats([kind |-> HJTHS, ranks |-> <<>>])
    BY <1>5, <1>7, <2>1, NoneOver
  <2> QED BY <1>6, <1>8, <2>2 DEF row
<1>9. CASE ~IsBiggestSZ(row)
  <2>1. \A k \in HandType : k > THS => Barred(k)
    BY <1>4, <1>7, <1>9, KindsAbove
  <2>2. NoneBeats([kind |-> THS, ranks |-> ToldBy(THS, WeightOfSZ(row))])
    BY <1>3, <1>7, <2>1, NoneOver
  <2> QED BY <1>9, <2>2 DEF row
<1> QED BY <1>8, <1>9

LEMMA THIsBest ==
  ASSUME Ready, next = TH, RowOfColor = <<>>, Seen(seems, 4) = {}, ~PreCheckHaveHL(seems, FALSE)
  PROVE  NoneBeats([kind |-> TH, ranks |-> ToldBy(TH, WeightOfDZ(THPokers))])
<1> DEFINE Q == THPokers
           w == WeightOfDZ(Q)
<1>1. Listed /\ ~HaveLz /\ Complete /\ FacesListed /\ Dealt /\ AnalystInv
  BY DEF Ready, AnalystInv
<1>2. PICK c \in Colors : FlushOf(c, Q)
  BY THShown DEF Ready
<1>3. Len(th[c]) >= 5 /\ Q = LastOf(th[c], 5) /\ InColor(th[c], c)
  BY <1>1, <1>2 DEF FlushOf, Listed
<1>4. Worth(TH, w, Q) /\ FiveOwn(Q)
  <2>1. Five(Q)
    BY THShown DEF Ready
  <2> HIDE DEF Q
  <2>2. FiveOwn(Q)
    BY <1>1, <2>1, FiveIsOwn
  <2> QED BY <1>1, <2>2, THIsWorth DEF Q
<1> HIDE DEF Q, w
<1> DEFINE s == th[c]
<1>5. \A i \in 1..5 : Q[i].color = c
  <2>1. Own(s) /\ Strict(s)
    BY <1>3 DEF InColor
  <2>2. PICK n \in {4, 5} : n = 5
    OBVIOUS
  <2>3. Len(s) >= n
    BY <1>3, <2>2
  <2>4. \A j \in 1..Len(s) : s[j].color = c
    BY <1>3 DEF InColor
  <2>5. Q = LastOf(s, n)
    BY <1>3, <2>2
  <2> HIDE DEF s
  <2>6. \A i \in 1..n : \E j \in 1..Len(s) : LastOf(s, n)[i] = s[j]
    BY <2>1, <2>2, <2>3, LastOfFacts
  <2>7. \A i \in 1..5 : \E j \in 1..Len(s) : Q[i] = s[j]
    BY <2>2, <2>5, <2>6
  <2> QED BY <2>4, <2>7
<1>6. AllKept(TH, Q)
  <2> SUFFICES ASSUME NEW P, FiveOwn(P), Rising(P), Value(ToSet(P)).kind = TH PROVE Kept(P, Q)
    BY DEF AllKept
  <2>1. OneColor(ToSet(P)) /\ Five(P)
    BY ValueHasShape, FiveOwnFacts
  <2> DEFINE d == P[1].color
  <2>2. \A i \in 1..5 : P[i].color = d
    BY <2>1, ColorOfAll
  <2> HIDE DEF d
  <2>3. c = d
    BY <1>1, <1>4, <1>5, <2>2, CommonColor
  <2>4. \A i \in 1..5 : \E j \in 1..Len(th[P[i].color]) : th[P[i].color][j] = P[i]
    BY <1>1, HandIsInLists
  <2>5. \A i \in 1..5 : \E j \in 1..Len(s) : P[i] = s[j]
    BY <2>2, <2>3, <2>4
  <2>6. Own(s) /\ Strict(s) /\ Len(s) >= 5
    BY <1>3 DEF InColor
  <2> HIDE DEF s
  <2>7. Kept(P, LastOf(s, 5))
    BY <2>5, <2>6, LastKeep
  <2> QED BY <1>3, <2>7 DEF s
<1>7. HeadsTop(TH, ToldBy(TH, w))
  BY <1>1, HeadsAreTop DEF TH, YD, LD, ST3, HL, ST4
<1>8. \A k \in HandType : k > TH => Barred(k)
  <2>1. \A k \in {HL, ST4, THS, HJTHS} : Barred(k)
    BY <1>1, KindsBarred
  <2> QED BY <2>1, KindsAbove DEF TH, HandType, DZ, HJTHS
<1>9. NoneBeats([kind |-> TH, ranks |-> ToldBy(TH, w)])
  BY <1>4, <1>6, <1>7, <1>8, BestOfKind DEF Unrowed, HandType, TH, DZ, HJTHS
<1> QED BY <1>9 DEF w, Q

LEMMA DZIsBest ==
  ASSUME Ready, next = DZ
  PROVE  LET Q == SubSeq(tmpPokers, Total - 4, Total)
         IN  NoneBeats([kind |-> DZ, ranks |-> ToldBy(DZ, WeightOfDZ(Q))])
<1> DEFINE Q == SubSeq(tmpPokers, Total - 4, Total)
           w == WeightOfDZ(Q)
<1>1. /\ Listed /\ Total \in 5..7 /\ Len(tmpPokers) = Total
      /\ Seen(seems, 2) = {} /\ Seen(seems, 3) = {} /\ Seen(seems, 4) = {} /\ ~Flush(th, 5)
      /\ RowIn(shunZi) = <<>> /\ ~HaveLz /\ Complete /\ FacesListed /\ AnalystInv
  <2>1. next # NoMore
    BY DEF DZ, NoMore
  <2> QED BY <2>1, ReadyFacts DEF Ready, Late, Fits, None
<1>2. shunZi = tmpPokers
  <2>1. \A f \in Faces : Count({f}) \in 0..1
    BY <1>1, SeenFacts
  <2>2. \A f \in Faces : Count({f}) <= 1
    BY <2>1
  <2> QED BY <1>1, <2>2 DEF Complete
<1>3. Q = LastOf(shunZi, 5)
  <2>1. Total - 5 + 1 = Total - 4
    BY <1>1
  <2> QED BY <1>1, <1>2, <2>1 DEF LastOf
<1>4. Worth(DZ, w, Q) /\ Five(Q)
  BY <1>1, DZIsWorth, DZShown
<1> HIDE DEF Q, w
<1>5. FiveOwn(Q)
  BY <1>1, <1>4, FiveIsOwn
<1>6. AllKept(DZ, Q)
  <2> SUFFICES ASSUME NEW P, FiveOwn(P) PROVE Kept(P, Q)
    BY DEF AllKept
  <2>1. \A i \in 1..5 : \E j \in 1..Len(shunZi) : P[i] = shunZi[j]
    BY <1>1, <1>2, HandIsListed
  <2>2. Own(shunZi) /\ Strict(shunZi) /\ Len(shunZi) >= 5
    BY <1>1, <1>2 DEF Listed
  <2> QED BY <1>3, <2>1, <2>2, LastKeep
<1>7. HeadsTop(DZ, ToldBy(DZ, w))
  BY <1>1, HeadsAreTop DEF DZ, YD, LD, ST3, HL, ST4
<1>8. \A k \in HandType : k > DZ => Barred(k)
  <2>1. ~PreCheckHaveHL(seems, FALSE) /\ Often = {}
    BY <1>1, FullNeedsTriple DEF Often
  <2>2. \A k \in {YD, LD, ST3, SZ, TH, HL, ST4, THS, HJTHS} : Barred(k)
    BY <1>1, <2>1, KindsBarred
  <2> QED BY <2>2, KindsAbove DEF HandType, DZ, HJTHS
<1>9. NoneBeats([kind |-> DZ, ranks |-> ToldBy(DZ, w)])
  BY <1>4, <1>5, <1>6, <1>7, <1>8, BestOfKind DEF Unrowed, HandType, DZ, HJTHS
<1> QED BY <1>9 DEF w, Q

-----------------------------------------------------------------------------
(* The hand that is found is the best the player has.                        *)

NoneOfBeats(from, w) ==
  \A P : OwnOf(P, from) /\ Len(P) = 5 /\ Rising(P) => ~Beats(Value(ToSet(P)), w)

\* Without the wild card no five cards are worth more than the result.
Unbeaten ==
  Finished /\ ~HaveLz =>
    NoneOfBeats(originPokers, [kind |-> handType, ranks |-> ToldBy(handType, handWeight)])

BestInv == WorthInv /\ FacesListed /\ (~HaveLz => Late) /\ Unbeaten

LEMMA NoneIsNone ==
  ASSUME NEW w
  PROVE  NoneOfBeats(originPokers, w) <=> NoneBeats(w)
<1>1. \A P : OwnOf(P, originPokers) /\ Len(P) = 5 <=> FiveOwn(P)
  BY DEF OwnOf, FiveOwn, Own
<1> QED BY <1>1 DEF NoneOfBeats, NoneBeats

LEMMA DealingShows ==
  ASSUME UNCHANGED dealing
  PROVE  /\ originPokers' = originPokers /\ HaveLz' = HaveLz /\ RowOfColor' = RowOfColor
         /\ RowIn(shunZi)' = RowIn(shunZi) /\ seems' = seems /\ th' = th /\ Total' = Total
         /\ FacesListed => FacesListed'
<1>1. /\ deal' = deal /\ originPokers' = originPokers /\ tmpPokers' = tmpPokers
      /\ th' = th /\ shunZi' = shunZi /\ seems' = seems
  BY DEF dealing
<1>2. RowOfColor' = RowOfColor /\ RowIn(shunZi)' = RowIn(shunZi)
  <2>1. HaveLz' = HaveLz /\ HaveA' = HaveA
    BY <1>1 DEF HaveLz, HaveA
  <2>2. RowIn(shunZi)' = RowIn(shunZi)
    BY <1>1, <2>1 DEF RowIn, CheckSZNotFormat, CheckSZNotFormatWithLz
  <2>3. RowOfColor' = RowOfColor
    BY <1>1, <2>1, SMTT(20) DEF RowOfColor, SearchColor, RowIn, CheckSZNotFormat, CheckSZNotFormatWithLz
  <2> QED BY <2>2, <2>3
<1>3. FacesListed => FacesListed'
  BY <1>1 DEF FacesListed
<1> QED BY <1>1, <1>2, <1>3 DEF HaveLz, Total

\* A check that finds the best hand keeps the invariant.
LEMMA FoundIsBest ==
  ASSUME BestInv, WorthInv', NEW kind, NEW weight, NEW pokers, Found(kind, weight, pokers),
         next' = NoMore, ~HaveLz => NoneBeats([kind |-> kind, ranks |-> ToldBy(kind, weight)])
  PROVE  BestInv'
<1>1. handType' = kind /\ handWeight' = weight /\ UNCHANGED dealing
  BY DEF Found
<1>2. originPokers' = originPokers /\ HaveLz' = HaveLz /\ FacesListed'
  BY <1>1, DealingShows DEF BestInv
<1> DEFINE w == [kind |-> kind, ranks |-> ToldBy(kind, weight)]
<1>3. ~HaveLz => NoneOfBeats(originPokers, w)
  BY NoneIsNone
<1>4. Unbeaten'
  BY <1>1, <1>2, <1>3 DEF Unbeaten
<1>5. Late'
  BY DEF Late, NoMore, DZ, YD, LD, ST3, SZ, HL, ST4
<1> QED BY <1>2, <1>4, <1>5 DEF BestInv

\* Where the chains begin without the wild card, and where they go on.
LateFits(chain, table, byColor) ==
  /\ chain[1] \in {TH, ST4, HL, SZ}
  /\ chain[1] = SZ =>
       /\ Seen(table, 4) = {} /\ ~PreCheckHaveHL(table, FALSE)
       /\ chain[2] \in {ST3, LD, YD, DZ}
       /\ chain[2] = LD => Seen(table, 3) = {}
  /\ chain[1] \in {ST4, HL} => ~Flush(byColor, 5)
  /\ chain[1] = TH =>
       IF Len(chain) > 1
       THEN chain[2] \in {ST4, HL}
       ELSE Seen(table, 4) = {} /\ ~PreCheckHaveHL(table, FALSE)

LEMMA ChainIsLate ==
  ASSUME NEW table, NEW byColor, NEW lz \in BOOLEAN, ~lz
  PROVE  LateFits(ChangePlayChain(table, byColor, lz), table, byColor)
<1> DEFINE chain == ChangePlayChain(table, byColor, lz)
           flush == Flush(byColor, 5)
           four == Seen(table, 4) # {}
           full == PreCheckHaveHL(table, FALSE)
<1>0. four \in BOOLEAN /\ full \in BOOLEAN
  BY DEF PreCheckHaveHL
<1>9. /\ SZ # TH /\ ST4 # SZ /\ ST4 # TH /\ HL # SZ /\ HL # TH /\ ST3 # LD /\ LD # YD /\ LD # DZ
  BY DEF DZ, YD, LD, ST3, SZ, TH, HL, ST4
<1>1. CASE flush
  <2>1. chain = <<TH>> \o Link(four, ST4) \o Link(full, HL)
    <3>1. PreCheckHaveTZ4(table, lz) = four /\ PreCheckHaveHL(table, lz) = full
      BY DEF PreCheckHaveTZ4, PreCheckHaveHL
    <3> HIDE DEF four, full
    <3>2. chain = PlayChainForTH(table, lz)
      BY <1>1 DEF ChangePlayChain, Flush
    <3> HIDE DEF chain
    <3> QED BY <3>1, <3>2 DEF PlayChainForTH
  <2> HIDE DEF chain, four, full
  <2>2. /\ chain[1] = TH
        /\ Len(chain) > 1 => chain[2] \in {ST4, HL}
    BY <1>0, <2>1, ChainOfTH
  <2>3. four \/ full => Len(chain) > 1
    <3>1. CASE four /\ full
      BY <2>1, <3>1 DEF Link
    <3>2. CASE four /\ ~full
      BY <2>1, <3>2 DEF Link
    <3>3. CASE ~four /\ full
      BY <2>1, <3>3 DEF Link
    <3> QED BY <3>1, <3>2, <3>3
  <2>4. ~(Len(chain) > 1) => Seen(table, 4) = {} /\ ~PreCheckHaveHL(table, FALSE)
    BY <2>3 DEF four, full
  <2>5. LateFits(chain, table, byColor)
    BY <1>9, <2>2, <2>4 DEF LateFits
  <2> QED BY <2>5 DEF chain
<1>2. CASE ~flush
  <2> DEFINE a == Seen(table, 3) # {}
             b == Cardinality(Seen(table, 2)) > 1
             c == Seen(table, 2) # {}
             second == IF a THEN ST3 ELSE IF b THEN LD ELSE IF c THEN YD ELSE DZ
  <2>1. chain = Link(four, ST4) \o Link(full, HL) \o <<SZ>> \o Link(a, ST3)
                  \o Link(b, LD) \o Link(c, YD) \o <<DZ>>
    BY <1>2 DEF ChangePlayChain, PlayCForUnderTH, Flush
  <2>2. a \in BOOLEAN /\ b \in BOOLEAN /\ c \in BOOLEAN
    OBVIOUS
  <2>3. second \in {ST3, LD, YD, DZ} /\ (second = LD => Seen(table, 3) = {})
    BY <1>9
  <2> HIDE DEF chain, four, full, a, b, c
  <2>4. GoesOn(chain, IF four THEN ST4 ELSE IF full THEN HL ELSE SZ, second)
    BY <1>0, <2>1, <2>2, ChainUnderTH
  <2> HIDE DEF second
  <2>5. /\ chain[1] = IF four THEN ST4 ELSE IF full THEN HL ELSE SZ
        /\ chain[1] = SZ => chain[2] = second
    BY <2>4 DEF GoesOn
  <2>6. /\ chain[1] \in {ST4, HL, SZ} /\ chain[1] # TH
        /\ chain[1] = SZ => Seen(table, 4) = {} /\ ~PreCheckHaveHL(table, FALSE)
    BY <1>9, <2>5 DEF four, full
  <2> HIDE DEF flush
  <2>7. LateFits(chain, table, byColor)
    BY <1>2, <2>3, <2>5, <2>6 DEF LateFits, flush
  <2> QED BY <2>7 DEF chain
<1> QED BY <1>1, <1>2

\* Every face of the cards stays in the list of one card of each.
LEMMA FacesStay ==
  ASSUME Listed, FacesListed, NEW poker \in Card, poker \notin originPokers,
         tmpPokers' = SortAppendPoker(tmpPokers, poker),
         shunZi' = SortAppendPokerWithoutSeem(shunZi, poker)
  PROVE  FacesListed'
<1> DEFINE from == originPokers
           all == SortAppendPoker(tmpPokers, poker)
           sorted == SortAppendPoker(shunZi, poker)
<1>1. \A p \in Card : p.face \in Faces
  BY CardFacts
<1>2. ToSet(all) = ToSet(tmpPokers) \union {poker}
  <2>1. OwnOf(tmpPokers, from) /\ Rising(tmpPokers) /\ tmpPokers \in Seq(Card)
    BY DEF Listed, Own, OwnOf
  <2>2. Placed(Card, tmpPokers, poker, all)
    BY <2>1, SortedPlaces
  <2> HIDE DEF all
  <2>3. WithCard(tmpPokers, from, poker, all)
    BY <2>1, <2>2, CardPlaced
  <2> QED BY <2>3 DEF WithCard
<1>3. ToSet(sorted) = ToSet(shunZi) \union {poker} /\ sorted \in Seq(Card) /\ shunZi \in Seq(Card)
  <2>1. OwnOf(shunZi, from) /\ Strict(shunZi) /\ shunZi \in Seq(Card)
    BY DEF Listed, Own, OwnOf
  <2>2. Rising(shunZi)
    <3>1. \A i \in 1..Len(shunZi) : shunZi[i] \in Card
      BY <2>1, ElementOfSeq
    <3>2. \A i \in 1..Len(shunZi) : shunZi[i].face \in Int
      BY <1>1, <3>1 DEF Faces
    <3> QED BY <2>1, <3>2 DEF Rising, Strict
  <2>3. Placed(Card, shunZi, poker, sorted)
    BY <2>1, <2>2, SortedPlaces
  <2> HIDE DEF sorted
  <2>4. WithCard(shunZi, from, poker, sorted)
    BY <2>1, <2>2, <2>3, CardPlaced
  <2> QED BY <2>1, <2>4 DEF WithCard, OwnOf
<1> HIDE DEF all, sorted
<1>4. ASSUME NEW s \in Seq(Card), NEW f
      PROVE  Has(s, f) <=> \E p \in ToSet(s) : p.face = f
  BY <1>4, LenProperties DEF Has, ToSet
<1>5. \A f : Has(shunZi, f) \/ f = poker.face => Has(shunZi', f)
  <2>1. CASE \E i \in DOMAIN shunZi : shunZi[i].face = poker.face
    <3>1. shunZi' = shunZi
      BY <2>1 DEF SortAppendPokerWithoutSeem
    <3> QED BY <1>3, <2>1, <3>1, LenProperties DEF Has
  <2>2. CASE ~\E i \in DOMAIN shunZi : shunZi[i].face = poker.face
    <3>1. shunZi' = sorted
      BY <2>2 DEF SortAppendPokerWithoutSeem, sorted
    <3> QED BY <1>3, <1>4, <3>1
  <2> QED BY <2>1, <2>2
<1>6. \A p \in ToSet(all) : Has(shunZi', p.face)
  BY <1>2, <1>5 DEF FacesListed
<1>7. FacesListed' <=> \A p \in ToSet(all) : Has(shunZi', p.face)
  BY DEF FacesListed, Has, all
<1> QED BY <1>6, <1>7

LEMMA TouchIsBest ==
  ASSUME BestInv, NEW poker \in deal.cards \ originPokers, TouchAPoker(poker), WorthInv'
  PROVE  BestInv'
<1>1. AnalystInv' /\ AnalystInv /\ Dealt /\ Listed /\ FacesListed /\ poker \in Card \union {LaiZi}
  BY DealsAssumption DEF BestInv, WorthInv, AnalystInv, Dealt
<1>2. FacesListed'
  <2>1. CASE poker = LaiZi
    <3>1. tmpPokers' = tmpPokers /\ shunZi' = shunZi
      BY <2>1 DEF TouchAPoker
    <3> QED BY <1>1, <3>1 DEF FacesListed, Has
  <2>2. CASE poker # LaiZi
    <3>1. /\ tmpPokers' = SortAppendPoker(tmpPokers, poker)
          /\ shunZi' = SortAppendPokerWithoutSeem(shunZi, poker)
          /\ poker \in Card /\ poker \notin originPokers
      BY <1>1, <2>2 DEF TouchAPoker
    <3> QED BY <1>1, <3>1, FacesStay
  <2> QED BY <2>1, <2>2
<1>3. (~HaveLz => Late)' /\ ~Finished'
  <2>1. /\ IsFiniteSet(originPokers') /\ Cardinality(originPokers') = Cardinality(originPokers) + 1
        /\ Cardinality(originPokers) \in Nat /\ Total' = Total
        /\ Cardinality(originPokers) < Total
    <3>1. originPokers' = originPokers \union {poker} /\ deal' = deal /\ Cardinality(originPokers) < Total
      BY DEF TouchAPoker
    <3> QED BY <1>1, <3>1, FS_AddElement, FS_CardinalityType DEF Dealt, Total
  <2>2. CASE Cardinality(originPokers) + 1 = Total
    <3>1. next' = playChain'[1] /\ playChain' = ChangePlayChain(seems', th', HaveLz')
      BY <2>2 DEF TouchAPoker
    <3>2. HaveLz' \in BOOLEAN
      BY DEF HaveLz
    <3>3. ~HaveLz' => LateFits(playChain', seems', th')
      BY <3>1, <3>2, ChainIsLate
    <3>4. ChainFits(playChain', seems', th', HaveLz')
      BY <3>1, <3>2, ChainFacts
    <3>5. next' # NoMore
      <4>1. playChain' \in Seq(HandType) /\ 1 \in 1..Len(playChain')
        BY <3>4, LenProperties DEF ChainFits
      <4>2. next' \in HandType
        BY <3>1, <4>1, ElementOfSeq
      <4> QED BY <4>2 DEF NoMore, HandType, DZ, HJTHS
    <3>6. ~HaveLz' => /\ next' \in {TH, ST4, HL, SZ}
                      /\ next' = SZ => Seen(seems', 4) = {} /\ ~PreCheckHaveHL(seems', FALSE)
                      /\ next' \in {ST4, HL} => ~Flush(th', 5)
      BY <3>1, <3>3 DEF LateFits
    <3>7. ASSUME ~HaveLz' PROVE Late'
      <4>1. next' \notin {ST3, LD, YD, DZ}
        BY <3>6, <3>7 DEF DZ, YD, LD, ST3, SZ, TH, HL, ST4
      <4> QED BY <3>6, <3>7, <4>1 DEF Late
    <3> QED BY <3>5, <3>7 DEF Finished
  <2>3. CASE Cardinality(originPokers) + 1 # Total
    <3>1. next' = next /\ Cardinality(originPokers') # Total'
      BY <2>1, <2>3 DEF TouchAPoker
    <3>2. next = NoMore
      BY <1>1, <2>1, WithinTotal DEF AnalystInv, Chained
    <3> QED BY <3>1, <3>2 DEF Finished, Late, NoMore, DZ, YD, LD, ST3, SZ, HL, ST4
  <2> QED BY <2>2, <2>3
<1> QED BY <1>2, <1>3 DEF BestInv, Unbeaten

LEMMA SZStepIsBest ==
  ASSUME BestInv, CheckSZ, WorthInv'
  PROVE  BestInv'
<1>1. AnalystInv /\ next = SZ /\ FacesListed /\ (~HaveLz => Ready)
  BY DEF BestInv, WorthInv, CheckSZ, Ready
<1>2. CASE RowIn(shunZi) # <<>>
  <2>1. next' = NoMore /\ Found(SZ, WeightOfSZ(RowIn(shunZi)), RowIn(shunZi))
    BY <1>2 DEF CheckSZ
  <2>2. ~HaveLz => NoneBeats([kind |-> SZ, ranks |-> ToldBy(SZ, WeightOfSZ(RowIn(shunZi)))])
    BY <1>1, <1>2, SZIsBest
  <2> QED BY <2>1, <2>2, FoundIsBest
<1>3. CASE RowIn(shunZi) = <<>>
  <2>1. /\ next' = DefaultNext /\ UNCHANGED dealing /\ next # NoMore
        /\ Cardinality(originPokers) = Total /\ Chained
    BY <1>1, <1>3, AtACheck DEF CheckSZ, SZ, NoMore, AnalystInv
  <2>2. /\ HaveLz' = HaveLz /\ RowIn(shunZi)' = RowIn(shunZi) /\ seems' = seems /\ FacesListed'
    BY <1>1, <2>1, DealingShows
  <2>3. /\ playChain[1] = SZ /\ DefaultNext # NoMore
        /\ DefaultNext = IF 1 < Len(playChain) THEN playChain[2] ELSE NoMore
    BY <1>1, <2>1, DefaultNextFacts
  <2>4. next' = playChain[2] /\ next' # NoMore
    BY <2>1, <2>3
  <2>5. ASSUME ~HaveLz PROVE Late'
    <3>1. playChain = ChangePlayChain(seems, th, HaveLz) /\ HaveLz \in BOOLEAN
      BY <2>1 DEF Chained, HaveLz
    <3>2. LateFits(playChain, seems, th)
      BY <2>5, <3>1, ChainIsLate
    <3>3. /\ Seen(seems, 4) = {} /\ ~PreCheckHaveHL(seems, FALSE)
          /\ next' \in {ST3, LD, YD, DZ} /\ (next' = LD => Seen(seems, 3) = {})
      BY <2>3, <2>4, <3>2 DEF LateFits
    <3>4. next' \notin {SZ, ST4, HL}
      BY <3>3 DEF DZ, YD, LD, ST3, SZ, HL, ST4
    <3> QED BY <1>3, <2>2, <3>3, <3>4 DEF Late
  <2> QED BY <2>2, <2>4, <2>5 DEF BestInv, Unbeaten, Finished
<1> QED BY <1>2, <1>3

LEMMA THStepIsBest ==
  ASSUME BestInv, CheckTH, WorthInv'
  PROVE  BestInv'
<1>1. AnalystInv /\ next = TH /\ FacesListed /\ (~HaveLz => Ready)
  BY DEF BestInv, WorthInv, CheckTH, Ready
<1>2. CASE RowOfColor # <<>> /\ IsBiggestSZ(RowOfColor)
  <2>1. next' = NoMore /\ Found(HJTHS, NoWeight, RowOfColor)
    BY <1>2 DEF CheckTH
  <2>2. ~HaveLz => NoneBeats([kind |-> HJTHS, ranks |-> ToldBy(HJTHS, NoWeight)])
    BY <1>1, <1>2, THSIsBest
  <2> QED BY <2>1, <2>2, FoundIsBest
<1>3. CASE RowOfColor # <<>> /\ ~IsBiggestSZ(RowOfColor)
  <2>1. next' = NoMore /\ Found(THS, WeightOfSZ(RowOfColor), RowOfColor)
    BY <1>3 DEF CheckTH
  <2>2. ~HaveLz => NoneBeats([kind |-> THS, ranks |-> ToldBy(THS, WeightOfSZ(RowOfColor))])
    BY <1>1, <1>3, THSIsBest
  <2> QED BY <2>1, <2>2, FoundIsBest
<1>4. CASE RowOfColor = <<>>
  <2>1. next' = DefaultNext /\ Found(TH, WeightOfDZ(THPokers), THPokers)
    BY <1>4 DEF CheckTH, THPokers
  <2>2. UNCHANGED dealing /\ Cardinality(originPokers) = Total /\ Chained
    BY <1>1, <2>1, AtACheck DEF Found, TH, NoMore, AnalystInv
  <2>3. /\ playChain[1] = TH
        /\ DefaultNext = IF 1 < Len(playChain) THEN playChain[2] ELSE NoMore
    BY <1>1, <2>2, DefaultNextFacts
  <2>4. ~HaveLz => LateFits(playChain, seems, th)
    <3>1. playChain = ChangePlayChain(seems, th, HaveLz) /\ HaveLz \in BOOLEAN
      BY <2>2 DEF Chained, HaveLz
    <3> QED BY <3>1, ChainIsLate
  <2>5. ~HaveLz => IF next' = NoMore
                   THEN Seen(seems, 4) = {} /\ ~PreCheckHaveHL(seems, FALSE)
                   ELSE next' \in {ST4, HL}
    <3>1. NoMore \notin {ST4, HL}
      BY DEF NoMore, ST4, HL
    <3> QED BY <2>1, <2>3, <2>4, <3>1 DEF LateFits
  <2>6. CASE next' = NoMore
    <3>1. ~HaveLz => NoneBeats([kind |-> TH, ranks |-> ToldBy(TH, WeightOfDZ(THPokers))])
      BY <1>1, <1>4, <2>5, <2>6, THIsBest
    <3> QED BY <2>1, <2>6, <3>1, FoundIsBest
  <2>7. CASE next' # NoMore
    <3>1. HaveLz' = HaveLz /\ RowOfColor' = RowOfColor /\ FacesListed'
      BY <1>1, <2>2, DealingShows
    <3>2. ASSUME ~HaveLz PROVE Late'
      <4>1. next' \in {ST4, HL} /\ next' \notin {ST3, LD, YD, DZ, SZ}
        BY <2>5, <2>7, <3>2 DEF DZ, YD, LD, ST3, SZ, HL, ST4
      <4> QED BY <1>4, <3>1, <4>1 DEF Late
    <3> QED BY <2>7, <3>1, <3>2 DEF BestInv, Unbeaten, Finished
  <2> QED BY <2>6, <2>7
<1> QED BY <1>2, <1>3, <1>4

LEMMA BestStep == BestInv /\ [Next]_vars => BestInv'
<1> SUFFICES ASSUME BestInv, [Next]_vars PROVE BestInv'
  OBVIOUS
<1>0. WorthInv' /\ (~HaveLz => Ready)
  BY WorthStep DEF BestInv, WorthInv, Ready
<1>1. CASE \E poker \in deal.cards \ originPokers : TouchAPoker(poker)
  BY <1>0, <1>1, TouchIsBest
<1>2. CASE IsDZ
  <2> DEFINE P == SubSeq(tmpPokers, Total - 4, Total)
             w == WeightOfDZ(P)
  <2>1. next = DZ /\ next' = NoMore /\ Found(DZ, w, P)
    BY <1>2 DEF IsDZ
  <2>2. ~HaveLz => NoneBeats([kind |-> DZ, ranks |-> ToldBy(DZ, w)])
    BY <1>0, <2>1, DZIsBest
  <2> HIDE DEF P, w
  <2> QED BY <1>0, <2>1, <2>2, FoundIsBest
<1>3. CASE CheckYD
  <2> DEFINE f == YDFace
             P == YDPokers(f)
             s == Singles(P, {f})
             w == <<f, s[3], s[2], s[1], 0, 0>>
  <2>1. next = YD /\ next' = NoMore /\ Found(YD, w, P)
    BY <1>3 DEF CheckYD, YDFace, YDPokers
  <2>2. ~HaveLz => NoneBeats([kind |-> YD, ranks |-> ToldBy(YD, w)])
    BY <1>0, <2>1, YDIsBest
  <2> HIDE DEF P, w
  <2> QED BY <1>0, <2>1, <2>2, FoundIsBest
<1>4. CASE CheckLD
  <2> DEFINE f == LDBigger
             g == LDSmaller
             P == LDPokers(f, g)
             s == Singles(P, {f, g})
             w == <<f, g, s[1], 0, 0, 0>>
  <2>1. next = LD /\ next' = NoMore /\ Found(LD, w, P)
    BY <1>4 DEF CheckLD, LDBigger, LDSmaller, LDPokers
  <2>2. ~HaveLz => NoneBeats([kind |-> LD, ranks |-> ToldBy(LD, w)])
    BY <1>0, <2>1, LDIsBest
  <2> HIDE DEF P, w
  <2> QED BY <1>0, <2>1, <2>2, FoundIsBest
<1>5. CASE CheckTZ3
  <2> DEFINE f == TZ3Face
             P == TZ3Pokers(f)
             s == Singles(P, {f})
             w == <<f, 0, s[2], s[1], 0, 0>>
  <2>1. next = ST3 /\ next' = NoMore /\ Found(ST3, w, P)
    BY <1>5 DEF CheckTZ3, TZ3Face, TZ3Pokers
  <2>2. ~HaveLz => NoneBeats([kind |-> ST3, ranks |-> ToldBy(ST3, w)])
    BY <1>0, <2>1, TZ3IsBest
  <2> HIDE DEF P, w
  <2> QED BY <1>0, <2>1, <2>2, FoundIsBest
<1>6. CASE CheckSZ
  BY <1>0, <1>6, SZStepIsBest
<1>7. CASE CheckTH
  BY <1>0, <1>7, THStepIsBest
<1>8. CASE CheckHL
  <2> DEFINE f == HLBigger
             g == HLSmaller
             P == HLPokers(f, g)
             w == <<f, g, 0, 0, 0, 0>>
  <2>1. next = HL /\ next' = NoMore /\ Found(HL, w, P)
    BY <1>8 DEF CheckHL, HLBigger, HLSmaller, HLPokers, LastTwo
  <2>2. ~HaveLz => NoneBeats([kind |-> HL, ranks |-> ToldBy(HL, w)])
    BY <1>0, <2>1, HLIsBest
  <2> HIDE DEF P, w
  <2> QED BY <1>0, <2>1, <2>2, FoundIsBest
<1>9. CASE CheckTZ4
  <2> DEFINE f == TZ4Face
             P == TZ4Pokers(f)
             s == Singles(P, {f})
             w == <<f, IF s = <<>> THEN 0 ELSE s[1], 0, 0, 0, 0>>
  <2>1. next = ST4 /\ next' = NoMore /\ Found(ST4, w, P)
    BY <1>9 DEF CheckTZ4, TZ4Face, TZ4Pokers
  <2>2. ~HaveLz => NoneBeats([kind |-> ST4, ranks |-> ToldBy(ST4, w)])
    BY <1>0, <2>1, TZ4IsBest
  <2> HIDE DEF P, w
  <2> QED BY <1>0, <2>1, <2>2, FoundIsBest
<1>10. CASE UNCHANGED vars
  <2>1. /\ UNCHANGED dealing /\ next' = next /\ handType' = handType
        /\ handWeight' = handWeight
    BY <1>10 DEF vars, dealing
  <2>2. /\ originPokers' = originPokers /\ HaveLz' = HaveLz /\ RowOfColor' = RowOfColor
        /\ RowIn(shunZi)' = RowIn(shunZi) /\ seems' = seems /\ th' = th /\ Total' = Total
        /\ FacesListed'
    BY <2>1, DealingShows DEF BestInv
  <2>3. Late => Late'
    BY <2>1, <2>2 DEF Late
  <2>4. Unbeaten'
    BY <2>1, <2>2 DEF BestInv, Unbeaten, Finished
  <2> QED BY <1>0, <2>2, <2>3, <2>4 DEF BestInv
<1> QED BY <1>1, <1>2, <1>3, <1>4, <1>5, <1>6, <1>7, <1>8, <1>9, <1>10 DEF Next

LEMMA BestInit == Init => BestInv
<1> SUFFICES ASSUME Init PROVE BestInv
  OBVIOUS
<1>1. WorthInv /\ next = NoMore /\ tmpPokers = <<>>
  BY WorthInit DEF Init
<1>2. ~Finished
  <2>1. originPokers = {} /\ Total \in 5..7
    BY DealsAssumption DEF Init, Total
  <2>2. Cardinality(originPokers) = 0
    BY <2>1, FS_EmptySet
  <2> QED BY <2>1, <2>2 DEF Finished
<1>3. Late
  BY <1>1 DEF Late, NoMore, DZ, YD, LD, ST3, SZ, HL, ST4
<1> QED BY <1>1, <1>2, <1>3 DEF BestInv, Unbeaten, FacesListed, ToSet

\* A straight that is found ends the chain, and weighs what its cards weigh.
StraightsWeigh ==
  handType \in {SZ, THS} =>
    /\ next = NoMore /\ Cardinality(originPokers) = Total
    /\ \E K : Straight(checkedPokers, K)
    /\ handWeight = WeightOfSZ(checkedPokers)

LEMMA StraightIsWeighed ==
  ASSUME UNCHANGED dealing, Cardinality(originPokers) = Total, NEW P, NEW K, Straight(P, K),
         next' = NoMore, checkedPokers' = P, handWeight' = WeightOfSZ(P)
  PROVE  StraightsWeigh'
<1>1. originPokers' = originPokers /\ tmpPokers' = tmpPokers /\ Total' = Total
  BY DEF dealing, Total
<1>2. Straight(checkedPokers, K)'
  BY <1>1 DEF Straight, Five, Made, Consecutive, Wheel, ColoredIn, FacesOf
<1>3. WeightOfSZ(checkedPokers)' = WeightOfSZ(P)
  BY <1>1 DEF WeightOfSZ, HaveA
<1> QED BY <1>1, <1>2, <1>3 DEF StraightsWeigh

LEMMA StraightsStep == AnalystInv /\ StraightsWeigh /\ [Next]_vars => StraightsWeigh'
<1> SUFFICES ASSUME AnalystInv, StraightsWeigh, [Next]_vars PROVE StraightsWeigh'
  OBVIOUS
<1>1. CASE \E poker \in deal.cards \ originPokers : TouchAPoker(poker)
  <2>1. Cardinality(originPokers) < Total /\ handType' = handType /\ Total \in 5..7
    BY <1>1, WithinTotal DEF TouchAPoker, AnalystInv
  <2> QED BY <2>1 DEF StraightsWeigh
<1>2. ASSUME next # NoMore, handType' = handType PROVE StraightsWeigh'
  BY <1>2 DEF StraightsWeigh
<1>3. ASSUME handType' \in {DZ, YD, LD, ST3, TH, HL, ST4, HJTHS} PROVE StraightsWeigh'
  BY <1>3 DEF StraightsWeigh, DZ, YD, LD, ST3, SZ, TH, HL, ST4, THS, HJTHS
<1>4. CASE IsDZ \/ CheckYD \/ CheckLD \/ CheckTZ3 \/ CheckHL \/ CheckTZ4
  BY <1>3, <1>4 DEF IsDZ, CheckYD, CheckLD, CheckTZ3, CheckHL, CheckTZ4, Found
<1>5. CASE CheckSZ
  <2>1. next = SZ /\ next # NoMore
    BY <1>5 DEF CheckSZ, SZ, NoMore
  <2>2. CASE RowIn(shunZi) = <<>>
    BY <1>2, <1>5, <2>1, <2>2 DEF CheckSZ
  <2>3. CASE RowIn(shunZi) # <<>>
    <3>1. next' = NoMore /\ Found(SZ, WeightOfSZ(RowIn(shunZi)), RowIn(shunZi))
      BY <1>5, <2>3 DEF CheckSZ
    <3>2. Straight(RowIn(shunZi), Colors) /\ Cardinality(originPokers) = Total
      BY <2>1, <2>3, SZShown, AtACheck
    <3> QED BY <3>1, <3>2, StraightIsWeighed DEF Found
  <2> QED BY <2>2, <2>3
<1>6. CASE CheckTH
  <2>1. next = TH /\ next # NoMore
    BY <1>6 DEF CheckTH, TH, NoMore
  <2>2. CASE RowOfColor = <<>> \/ IsBiggestSZ(RowOfColor)
    BY <1>3, <1>6, <2>2 DEF CheckTH, Found
  <2>3. CASE RowOfColor # <<>> /\ ~IsBiggestSZ(RowOfColor)
    <3>1. next' = NoMore /\ Found(THS, WeightOfSZ(RowOfColor), RowOfColor)
      BY <1>6, <2>3 DEF CheckTH
    <3>2. PICK c \in Colors : Straight(RowOfColor, {c})
      BY <2>1, <2>3, THShown DEF OfOneColor
    <3>3. Cardinality(originPokers) = Total
      BY <2>1, AtACheck
    <3> QED BY <3>1, <3>2, <3>3, StraightIsWeighed DEF Found
  <2> QED BY <2>2, <2>3
<1>7. CASE UNCHANGED vars
  <2>1. /\ UNCHANGED dealing /\ next' = next /\ handType' = handType
        /\ handWeight' = handWeight /\ checkedPokers' = checkedPokers
    BY <1>7 DEF vars, dealing
  <2>2. CASE handType \in {SZ, THS}
    <3>1. PICK K : Straight(checkedPokers, K)
      BY <2>2 DEF StraightsWeigh
    <3> QED BY <2>1, <2>2, <3>1, StraightIsWeighed DEF StraightsWeigh
  <2> QED BY <2>1, <2>2 DEF StraightsWeigh
<1> QED BY <1>1, <1>4, <1>5, <1>6, <1>7 DEF Next

LEMMA StraightsInit == Init => StraightsWeigh
BY DEF Init, StraightsWeigh, DZ, SZ, THS

\* Five cards that have the faces of A2345 are those, in order.
LEMMA SmallestInOrder ==
  ASSUME Listed, Len(tmpPokers) = 5,
         \A k \in 1..5 : \E i \in 1..5 : tmpPokers[i].face = Smallest[k]
  PROVE  HaveA /\ FacesOf(tmpPokers) = <<1, 2, 3, 4, Ace>>
<1>0. Own(tmpPokers) /\ Rising(tmpPokers)
  BY DEF Listed
<1>1. /\ tmpPokers \in Seq(Card) /\ DOMAIN tmpPokers = 1..5
      /\ \A i \in 1..5 : tmpPokers[i] \in originPokers /\ tmpPokers[i] \in Card
  <2>1. tmpPokers \in Seq(Card) /\ DOMAIN tmpPokers = 1..Len(tmpPokers)
    BY <1>0, LenProperties DEF Own
  <2> QED BY <1>0, <2>1, ElementOfSeq DEF Own
<1>2. \A i \in 1..5 : tmpPokers[i].face \in Faces
  BY <1>1, CardFacts
<1>3. Smallest[1] = 13 /\ Smallest[2] = 1 /\ Smallest[3] = 2 /\ Smallest[4] = 3 /\ Smallest[5] = 4
  BY DEF Smallest, Ace
<1> DEFINE f == [i \in 1..5 |-> tmpPokers[i].face]
<1>4. /\ f[1] \in Int /\ f[2] \in Int /\ f[3] \in Int /\ f[4] \in Int /\ f[5] \in Int
      /\ f[1] <= f[2] /\ f[2] <= f[3] /\ f[3] <= f[4] /\ f[4] <= f[5]
  <2>1. \A i \in 1..5 : f[i] \in Int
    BY <1>2 DEF Faces
  <2>2. \A i, j \in 1..5 : i < j => f[i] <= f[j]
    BY <1>0 DEF Rising
  <2> HIDE DEF f
  <2> QED BY <2>1, <2>2
<1>5. \A x \in {13, 1, 2, 3, 4} : x \in {f[1], f[2], f[3], f[4], f[5]}
  <2>1. \A k \in 1..5 : Smallest[k] \in {f[1], f[2], f[3], f[4], f[5]}
    <3> TAKE k \in 1..5
    <3>1. PICK i \in 1..5 : f[i] = Smallest[k]
      OBVIOUS
    <3> QED BY <3>1
  <2> QED BY <1>3, <2>1
<1>6. FacesOf(tmpPokers) = f
  BY <1>1 DEF FacesOf
<1>7. f[1] = 1 /\ f[2] = 2 /\ f[3] = 3 /\ f[4] = 4 /\ f[5] = 13
  <2> HIDE DEF f
  <2> QED BY <1>4, <1>5
<1>8. HaveA
  BY <1>1, <1>7 DEF HaveA, Ace
<1>9. f = <<1, 2, 3, 4, Ace>>
  BY <1>7 DEF Ace
<1> QED BY <1>6, <1>8, <1>9

\* The straight A2345 weighs nothing where the hand has no other card, and only
\* there.
LEMMA SmallestWeighs ==
  ASSUME AnalystInv, StraightsWeigh, ~HaveLz, handType \in {SZ, THS},
         ToldBy(handType, handWeight) = << 4 >>
  PROVE  handWeight = NoWeight <=> Total = 5
<1> DEFINE P == checkedPokers
           all == HaveA /\ FacesOf(tmpPokers) = <<1, 2, 3, 4, Ace>>
<1>1. PICK K : Straight(P, K)
  BY DEF StraightsWeigh
<1>2. /\ Five(P) /\ Len(P) = 5 /\ DOMAIN P = 1..5 /\ \A i \in 1..5 : P[i].face \in Faces
      /\ Consecutive(P) \/ Wheel(P)
  BY <1>1, MadeIsDistinct DEF Straight
<1>3. Listed /\ Len(tmpPokers) = Total
  <2>1. Cardinality(originPokers) = Total /\ originPokers \ {LaiZi} = originPokers
    BY DEF StraightsWeigh, HaveLz
  <2> QED BY <2>1 DEF AnalystInv, Listed
<1>4. handWeight = NoWeight <=> all
  <2>1. P[5].face # 0
    BY <1>2 DEF Faces
  <2>2. [NoWeight EXCEPT ![6] = P[5].face] # NoWeight
    <3>1. [NoWeight EXCEPT ![6] = P[5].face][6] = P[5].face /\ NoWeight[6] = 0
      BY DEF NoWeight
    <3> QED BY <2>1, <3>1
  <2> QED BY <1>2, <2>2 DEF StraightsWeigh, WeightOfSZ
<1>5. all => Total = 5
  <2>1. SUFFICES ASSUME all PROVE Total = 5
    OBVIOUS
  <2>2. DOMAIN tmpPokers = 1..5
    <3>1. DOMAIN FacesOf(tmpPokers) = DOMAIN tmpPokers
      BY DEF FacesOf
    <3>2. DOMAIN <<1, 2, 3, 4, Ace>> = 1..5
      OBVIOUS
    <3> QED BY <2>1, <3>1, <3>2
  <2>3. tmpPokers \in Seq(Card)
    BY <1>3 DEF Listed, Own
  <2>4. DOMAIN tmpPokers = 1..Len(tmpPokers) /\ Len(tmpPokers) \in Nat
    BY <2>3, LenProperties
  <2>5. Len(tmpPokers) = 5
    BY <2>2, <2>4
  <2> QED BY <1>3, <2>5
<1>6. Wheel(P)
  <2>1. SUFFICES ASSUME ~Wheel(P) PROVE FALSE
    OBVIOUS
  <2>2. ~LzLiftsSmallest
    BY DEF LzLiftsSmallest
  <2>3. ToldBy(handType, handWeight) = <<P[5].face>>
    BY <1>1, <1>3, <2>1, <2>2, WeightOfStraight DEF StraightsWeigh
  <2>4. P[5].face = 4
    BY <2>3
  <2>5. /\ P[2].face = P[1].face + 1 /\ P[3].face = P[2].face + 1
        /\ P[4].face = P[3].face + 1 /\ P[5].face = P[4].face + 1
    BY <1>2, <2>1 DEF Consecutive
  <2>6. P[1].face \in Int /\ P[1].face >= 1
    BY <1>2 DEF Faces
  <2> QED BY <2>4, <2>5, <2>6
<1>7. Total = 5 => all
  <2>1. SUFFICES ASSUME Total = 5 PROVE all
    OBVIOUS
  <2>2. ASSUME NEW k \in 1..5 PROVE \E i \in 1..5 : tmpPokers[i].face = Smallest[k]
    <3>1. P[k].face = Smallest[k]
      BY <1>2, <1>6 DEF Wheel, FacesOf
    <3>2. P[k] \in originPokers \ {LaiZi}
      BY <1>2, OwnOrBorn
    <3>0. P[k] \in ToSet(tmpPokers)
      BY <1>3, <3>2 DEF Listed
    <3>3. PICK i \in DOMAIN tmpPokers : tmpPokers[i] = P[k]
      BY <3>0 DEF ToSet
    <3>4. DOMAIN tmpPokers = 1..5
      BY <1>3, <2>1, LenProperties DEF Listed, Own
    <3> QED BY <3>1, <3>3, <3>4
  <2> QED BY <1>3, <2>1, <2>2, SmallestInOrder
<1> QED BY <1>4, <1>5, <1>7

\* Without the wild card, as every game is played, the hand the analyst finds is
\* the best the player has by the rules of poker: the kind and the ranks of five
\* cards of his that no other five are worth more than, whatever five to seven
\* cards he was handed and in whatever order.
THEOREM OrdinaryHandsAreRankedRight == Spec => [](~HaveLz => RankIsRight)
<1>1. Init => BestInv /\ StraightsWeigh
  BY BestInit, StraightsInit
<1>2. BestInv /\ StraightsWeigh /\ [Next]_vars => (BestInv /\ StraightsWeigh)'
  BY BestStep, StraightsStep DEF BestInv, WorthInv
<1>3. BestInv /\ StraightsWeigh => (~HaveLz => RankIsRight)
  <2> SUFFICES ASSUME BestInv, StraightsWeigh, ~HaveLz, Finished
               PROVE  /\ [kind |-> handType, ranks |-> Told] = BestValue(originPokers)
                      /\ handType \in {SZ, THS} /\ Told = <<4>> =>
                           (handWeight = NoWeight <=> Total = 5)
    BY DEF RankIsRight
  <2> DEFINE w == [kind |-> handType, ranks |-> ToldBy(handType, handWeight)]
  <2>1. Listed /\ Five(checkedPokers) /\ w = Value(ToSet(checkedPokers)) /\ NoneBeats(w)
    <3>1. ~FourAndLz /\ ~LzLiftsSmallest
      BY DEF FourAndLz, LzLiftsSmallest
    <3>2. w = Value(ToSet(checkedPokers))
      BY <3>1 DEF BestInv, WorthInv, Weighed, Worth
    <3>3. NoneOfBeats(originPokers, w)
      BY DEF BestInv, Unbeaten
    <3> HIDE DEF w
    <3> QED BY <3>2, <3>3, NoneIsNone DEF BestInv, WorthInv, AnalystInv, Judged
  <2>2. FiveOwn(checkedPokers)
    BY <2>1, FiveIsOwn
  <2>3. w = BestValue(originPokers)
    <3> HIDE DEF w
    <3> QED BY <2>1, <2>2, BestIs
  <2>4. Told = ToldBy(handType, handWeight)
    BY DEF Told, ToldBy, NotZero
  <2>5. handType \in {SZ, THS} /\ Told = <<4>> => (handWeight = NoWeight <=> Total = 5)
    BY <2>4, SmallestWeighs DEF BestInv, WorthInv
  <2> QED BY <2>3, <2>4, <2>5
<1> QED BY <1>1, <1>2, <1>3, PTL DEF Spec

=============================================================================
