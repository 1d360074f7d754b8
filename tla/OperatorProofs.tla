--------------------------- MODULE OperatorProofs ---------------------------
(***************************************************************************)
(* What holds of the operators the modules are built from, for all          *)
(* arguments: sums, the pools of a hand and their settlement, the weights   *)
(* of hands, and sorted cards and those taken from them.                    *)
(***************************************************************************)
EXTENDS ChipPoolOps, HandMatcher, FiniteSetTheorems, SequenceTheorems, WellFoundedInduction, TLAPS

-----------------------------------------------------------------------------
(* Induction.  What is to be shown for every number or every finite set      *)
(* fails, if it fails, at a least one.                                      *)

\* Every non-empty set of natural numbers has a least element.
LEMMA LeastElement ==
  ASSUME NEW T \in SUBSET Nat, T # {}
  PROVE  \E x \in T : \A y \in T : x <= y
<1> DEFINE R == OpToRel(<, Nat)
<1>1. \E x \in T : \A y \in T : ~(<<y, x>> \in R)
  BY NatLessThanWellFounded, WFMin
<1>2. \A x, y \in Nat : <<y, x>> \in R <=> y < x
  BY DEF OpToRel
<1> HIDE DEF R
<1>3. PICK x \in T : \A y \in T : ~(<<y, x>> \in R)
  BY <1>1
<1>4. ASSUME NEW y \in T PROVE x <= y
  <2>1. x \in Nat /\ y \in Nat /\ ~(y < x)
    BY <1>2, <1>3
  <2> QED BY <2>1
<1> QED BY <1>3, <1>4

\* Of a non-empty set of parts of a finite set, one becomes another part than
\* those when it loses any element.
LEMMA SmallestPart ==
  ASSUME NEW S, IsFiniteSet(S), NEW B \in SUBSET (SUBSET S), B # {}
  PROVE  \E T \in B : \A x \in T : T \ {x} \notin B
<1> DEFINE sizes == {Cardinality(T) : T \in B}
<1>1. \A T \in B : IsFiniteSet(T) /\ Cardinality(T) \in Nat
  BY FS_Subset, FS_CardinalityType
<1>2. PICK n \in sizes : \A m \in sizes : n <= m
  <2>1. sizes \in SUBSET Nat /\ sizes # {}
    BY <1>1
  <2> HIDE DEF sizes
  <2> QED BY <2>1, LeastElement
<1>3. PICK T \in B : Cardinality(T) = n
  BY <1>2
<1>4. ASSUME NEW x \in T, T \ {x} \in B PROVE FALSE
  <2>1. Cardinality(T \ {x}) = n - 1 /\ n \in Nat
    BY <1>1, <1>3, FS_RemoveElement
  <2>2. n <= Cardinality(T \ {x})
    BY <1>2, <1>4
  <2> QED BY <2>1, <2>2
<1> QED BY <1>4

-----------------------------------------------------------------------------
(* Sums.  SumFunctionOnSet takes an element out of the set, whichever         *)
(* CHOOSE picks, and goes on with the rest.                                 *)

\* The recursive function the sum of f over S is a value of.
IsTally(f, S, g) ==
  g = [T \in SUBSET S |-> IF T = {} THEN 0
                          ELSE f[CHOOSE x \in T : TRUE] + g[T \ {CHOOSE x \in T : TRUE}]]

LEMMA SumIsTally ==
  ASSUME NEW f, NEW S
  PROVE  SumFunctionOnSet(f, S) = (CHOOSE g : IsTally(f, S, g))[S]
BY DEF SumFunctionOnSet, FoldFunctionOnSet, MapThenFoldSet, IsTally

\* What a tally says of one set.
LEMMA TallyStep ==
  ASSUME NEW f, NEW S, NEW g, IsTally(f, S, g), NEW T \in SUBSET S
  PROVE  /\ T = {} => g[T] = 0
         /\ T # {} => \E x \in T : /\ x = (CHOOSE y \in T : TRUE)
                                   /\ g[T] = f[x] + g[T \ {x}]
BY DEF IsTally

\* Restricted to the parts of a part, a tally is a tally.
LEMMA TallyOfPart ==
  ASSUME NEW f, NEW S, NEW g, IsTally(f, S, g), NEW R \in SUBSET S
  PROVE  IsTally(f, R, [T \in SUBSET R |-> g[T]])
<1> DEFINE pick(T) == CHOOSE x \in T : TRUE
           h == [T \in SUBSET R |-> g[T]]
<1>1. ASSUME NEW T \in SUBSET R
      PROVE  h[T] = IF T = {} THEN 0 ELSE f[pick(T)] + h[T \ {pick(T)}]
  <2>1. /\ T = {} => g[T] = 0
        /\ T # {} => g[T] = f[pick(T)] + g[T \ {pick(T)}]
    BY DEF IsTally
  <2> QED BY <2>1
<1>2. h = [T \in SUBSET R |-> h[T]]
  OBVIOUS
<1> HIDE DEF h
<1> QED BY <1>1, <1>2 DEF IsTally, h

\* Two tallies of f agree on the sets they have in common.
LEMMA TallyUnique ==
  ASSUME NEW f, NEW S, IsFiniteSet(S), NEW R \in SUBSET S, NEW g, NEW h,
         IsTally(f, S, g), IsTally(f, R, h), NEW T \in SUBSET R
  PROVE  g[T] = h[T]
<1> DEFINE bad == {U \in SUBSET R : g[U] # h[U]}
<1> SUFFICES ASSUME bad # {} PROVE FALSE
  OBVIOUS
<1>1. PICK U \in bad : \A x \in U : U \ {x} \notin bad
  <2>1. IsFiniteSet(R) /\ bad \in SUBSET (SUBSET R)
    BY FS_Subset
  <2> HIDE DEF bad
  <2> QED BY <2>1, SmallestPart
<1>2. U \in SUBSET R /\ U \in SUBSET S /\ g[U] # h[U]
  OBVIOUS
<1>3. U # {}
  <2>1. U = {} => g[U] = 0 /\ h[U] = 0
    BY <1>2, TallyStep
  <2> QED BY <1>2, <2>1
<1>4. PICK x \in U : x = (CHOOSE y \in U : TRUE) /\ g[U] = f[x] + g[U \ {x}]
  BY <1>2, <1>3, TallyStep
<1>5. PICK y \in U : y = (CHOOSE z \in U : TRUE) /\ h[U] = f[y] + h[U \ {y}]
  BY <1>2, <1>3, TallyStep
<1>6. x = y
  BY <1>4, <1>5
<1>7. g[U \ {x}] = h[U \ {x}]
  BY <1>1, <1>2
<1> QED BY <1>2, <1>4, <1>5, <1>6, <1>7

\* A finite set has a tally: that of a smallest part without one would be put
\* together from those of its parts.
LEMMA TallyExists ==
  ASSUME NEW f, NEW S, IsFiniteSet(S)
  PROVE  \E g : IsTally(f, S, g)
<1> DEFINE bad == {T \in SUBSET S : ~\E g : IsTally(f, T, g)}
<1> SUFFICES ASSUME bad # {} PROVE FALSE
  OBVIOUS
<1>1. PICK T \in bad : \A x \in T : T \ {x} \notin bad
  <2>1. bad \in SUBSET (SUBSET S)
    OBVIOUS
  <2> HIDE DEF bad
  <2> QED BY <2>1, SmallestPart
<1>2. T \in SUBSET S /\ IsFiniteSet(T)
  BY FS_Subset
<1>3. T # {}
  <2>1. IsTally(f, {}, [U \in SUBSET {} |-> 0])
    BY DEF IsTally
  <2> QED BY <1>1, <2>1
<1>4. \A x \in T : \E g : IsTally(f, T \ {x}, g)
  BY <1>1, <1>2
<1> DEFINE pick(U) == CHOOSE x \in U : TRUE
           part == [x \in T |-> CHOOSE g : IsTally(f, T \ {x}, g)]
           out(U) == CHOOSE x \in T : x \notin U
           h == [U \in SUBSET T |-> IF U = T THEN f[pick(T)] + part[pick(T)][T \ {pick(T)}]
                                    ELSE part[out(U)][U]]
<1>5. \A x \in T : IsTally(f, T \ {x}, part[x])
  BY <1>4
<1>6. ASSUME NEW U \in SUBSET T, U # T
      PROVE  out(U) \in T /\ U \in SUBSET (T \ {out(U)})
  BY <1>6
<1> HIDE DEF part, out
<1>7. ASSUME NEW U \in SUBSET T, NEW x \in T, x \notin U
      PROVE  h[U] = part[x][U]
  <2>1. h[U] = part[out(U)][U]
    BY <1>7
  <2> DEFINE y == out(U)
             R == T \ {x, y}
             r == [V \in SUBSET R |-> part[x][V]]
  <2>2. y \in T /\ U \in SUBSET R
    BY <1>6, <1>7
  <2>3. IsFiniteSet(T \ {x}) /\ IsFiniteSet(T \ {y})
    BY <1>2, FS_Subset
  <2>4. IsTally(f, T \ {x}, part[x]) /\ IsTally(f, T \ {y}, part[y])
    BY <1>5, <2>2
  <2> HIDE DEF y, h
  <2>5. R \in SUBSET (T \ {x}) /\ R \in SUBSET (T \ {y})
    OBVIOUS
  <2>6. IsTally(f, R, r)
    BY <2>4, <2>5, TallyOfPart
  <2> HIDE DEF R, r
  <2>7. ASSUME NEW Z, IsFiniteSet(Z), R \in SUBSET Z, NEW g, IsTally(f, Z, g)
        PROVE  g[U] = r[U]
    BY <2>2, <2>6, <2>7, TallyUnique
  <2>8. part[x][U] = r[U] /\ part[y][U] = r[U]
    BY <2>3, <2>4, <2>5, <2>7
  <2> QED BY <2>1, <2>8 DEF y
<1>8. ASSUME NEW U \in SUBSET T
      PROVE  h[U] = IF U = {} THEN 0 ELSE f[pick(U)] + h[U \ {pick(U)}]
  <2>1. CASE U = T
    <3>1. pick(T) \in T
      BY <1>3
    <3>2. h[T \ {pick(T)}] = part[pick(T)][T \ {pick(T)}]
      BY <3>1, <1>7
    <3>3. h[T] = f[pick(T)] + part[pick(T)][T \ {pick(T)}]
      OBVIOUS
    <3> HIDE DEF pick, h
    <3> QED BY <1>3, <2>1, <3>2, <3>3
  <2>2. CASE U # T
    <3>1. PICK x \in T : x \notin U
      BY <2>2
    <3>2. h[U] = part[x][U] /\ h[U \ {pick(U)}] = part[x][U \ {pick(U)}]
      BY <3>1, <1>7
    <3>3. U \in SUBSET (T \ {x})
      BY <3>1
    <3>4. IsTally(f, T \ {x}, part[x])
      BY <1>5
    <3>5. /\ U = {} => part[x][U] = 0
          /\ U # {} => \E z \in U : /\ z = (CHOOSE y \in U : TRUE)
                                    /\ part[x][U] = f[z] + part[x][U \ {z}]
      BY <3>3, <3>4, TallyStep
    <3> HIDE DEF h
    <3> QED BY <3>2, <3>5
  <2> QED BY <2>1, <2>2
<1>9. IsTally(f, T, h)
  <2>1. h = [U \in SUBSET T |-> h[U]]
    OBVIOUS
  <2> HIDE DEF h
  <2> QED BY <2>1, <1>8 DEF IsTally
<1> QED BY <1>1, <1>9

\* The sum over no element, and the sum over some: one of them and the rest.
LEMMA SumDefined ==
  ASSUME NEW f, NEW S, IsFiniteSet(S)
  PROVE  /\ S = {} => SumFunctionOnSet(f, S) = 0
         /\ S # {} => \E x \in S :
              SumFunctionOnSet(f, S) = f[x] + SumFunctionOnSet(f, S \ {x})
<1> DEFINE tally(T) == CHOOSE g : IsTally(f, T, g)
<1>1. \A T \in SUBSET S : SumFunctionOnSet(f, T) = tally(T)[T]
  BY SumIsTally
<1>2. ASSUME NEW T \in SUBSET S PROVE IsTally(f, T, tally(T))
  <2>1. IsFiniteSet(T)
    BY FS_Subset
  <2>2. \E g : IsTally(f, T, g)
    BY <2>1, TallyExists
  <2> QED BY <2>2
<1> HIDE DEF tally
<1>3. PICK g : g = tally(S)
  OBVIOUS
<1>4. IsTally(f, S, g) /\ SumFunctionOnSet(f, S) = g[S]
  BY <1>1, <1>2, <1>3
<1>5. CASE S = {}
  BY <1>4, <1>5, TallyStep
<1>6. CASE S # {}
  <2>1. PICK x \in S : g[S] = f[x] + g[S \ {x}]
    BY <1>4, <1>6, TallyStep
  <2> DEFINE R == S \ {x}
  <2>2. PICK h : h = tally(R)
    OBVIOUS
  <2>3. R \in SUBSET S
    OBVIOUS
  <2>4. IsTally(f, R, h) /\ SumFunctionOnSet(f, R) = h[R]
    BY <1>1, <1>2, <2>2, <2>3
  <2>5. g[R] = h[R]
    <3> HIDE DEF R
    <3> QED BY <1>4, <2>3, <2>4, TallyUnique
  <2> QED BY <1>4, <2>1, <2>4, <2>5
<1> QED BY <1>5, <1>6

\* A sum of natural numbers is one.
LEMMA SumType ==
  ASSUME NEW D, NEW f \in [D -> Nat], NEW S \in SUBSET D, IsFiniteSet(S)
  PROVE  SumFunctionOnSet(f, S) \in Nat
<1> DEFINE bad == {T \in SUBSET S : SumFunctionOnSet(f, T) \notin Nat}
<1> SUFFICES ASSUME bad # {} PROVE FALSE
  OBVIOUS
<1>1. PICK T \in bad : \A x \in T : T \ {x} \notin bad
  <2>1. bad \in SUBSET (SUBSET S)
    OBVIOUS
  <2> HIDE DEF bad
  <2> QED BY <2>1, SmallestPart
<1>2. IsFiniteSet(T)
  BY FS_Subset
<1>3. T # {} /\ \E x \in T : SumFunctionOnSet(f, T) = f[x] + SumFunctionOnSet(f, T \ {x})
  BY <1>2, SumDefined
<1>4. PICK x \in T : SumFunctionOnSet(f, T) = f[x] + SumFunctionOnSet(f, T \ {x})
  BY <1>3
<1>5. SumFunctionOnSet(f, T \ {x}) \in Nat /\ f[x] \in Nat
  BY <1>1
<1> QED BY <1>4, <1>5

\* Any element can be taken out of a sum.
LEMMA SumRemove ==
  ASSUME NEW D, NEW f \in [D -> Nat], NEW S \in SUBSET D, IsFiniteSet(S), NEW e \in S
  PROVE  SumFunctionOnSet(f, S) = f[e] + SumFunctionOnSet(f, S \ {e})
<1> DEFINE bad == {T \in SUBSET S : \E y \in T :
                     SumFunctionOnSet(f, T) # f[y] + SumFunctionOnSet(f, T \ {y})}
<1> SUFFICES ASSUME bad # {} PROVE FALSE
  OBVIOUS
<1>1. PICK T \in bad : \A x \in T : T \ {x} \notin bad
  <2>1. bad \in SUBSET (SUBSET S)
    OBVIOUS
  <2> HIDE DEF bad
  <2> QED BY <2>1, SmallestPart
<1>2. PICK y \in T : SumFunctionOnSet(f, T) # f[y] + SumFunctionOnSet(f, T \ {y})
  OBVIOUS
<1>3. /\ IsFiniteSet(T)
      /\ \A U \in SUBSET T : SumFunctionOnSet(f, U) \in Nat
  <2>1. \A U \in SUBSET T : IsFiniteSet(U) /\ U \in SUBSET D
    BY FS_Subset
  <2> QED BY <2>1, SumType
<1>4. PICK x \in T : SumFunctionOnSet(f, T) = f[x] + SumFunctionOnSet(f, T \ {x})
  BY <1>2, <1>3, SumDefined
<1>5. x # y
  BY <1>2, <1>4
<1> DEFINE R == (T \ {x}) \ {y}
<1>6. SumFunctionOnSet(f, T \ {x}) = f[y] + SumFunctionOnSet(f, R)
  <2>1. T \ {x} \notin bad /\ y \in T \ {x} /\ T \ {x} \in SUBSET S
    BY <1>1, <1>5
  <2> QED BY <2>1
<1>7. SumFunctionOnSet(f, T \ {y}) = f[x] + SumFunctionOnSet(f, R)
  <2>1. T \ {y} \notin bad /\ x \in T \ {y} /\ T \ {y} \in SUBSET S
    BY <1>1, <1>5
  <2>2. (T \ {y}) \ {x} = R
    OBVIOUS
  <2> QED BY <2>1, <2>2
<1>8. /\ SumFunctionOnSet(f, R) \in Nat /\ SumFunctionOnSet(f, T) \in Nat
      /\ f[x] \in Nat /\ f[y] \in Nat
  BY <1>3
<1> QED BY <1>2, <1>4, <1>6, <1>7, <1>8

\* Term by term: a sum of sums, and what is not more in any term.
LEMMA SumOfSums ==
  ASSUME NEW D, NEW f \in [D -> Nat], NEW g \in [D -> Nat], NEW h \in [D -> Nat],
         NEW S \in SUBSET D, IsFiniteSet(S), \A x \in S : h[x] = f[x] + g[x]
  PROVE  SumFunctionOnSet(h, S) = SumFunctionOnSet(f, S) + SumFunctionOnSet(g, S)
<1> DEFINE Ok(T) == SumFunctionOnSet(h, T) = SumFunctionOnSet(f, T) + SumFunctionOnSet(g, T)
           bad == {T \in SUBSET S : ~Ok(T)}
<1> SUFFICES ASSUME bad # {} PROVE FALSE
  OBVIOUS
<1>1. PICK T \in bad : \A x \in T : T \ {x} \notin bad
  <2>1. bad \in SUBSET (SUBSET S)
    OBVIOUS
  <2> HIDE DEF bad
  <2> QED BY <2>1, SmallestPart
<1>2. IsFiniteSet(T)
  BY FS_Subset
<1>3. T # {}
  <2>1. T = {} => /\ SumFunctionOnSet(f, T) = 0 /\ SumFunctionOnSet(g, T) = 0
                  /\ SumFunctionOnSet(h, T) = 0
    BY <1>2, SumDefined
  <2> QED BY <2>1
<1>4. PICK x \in T : TRUE
  BY <1>3
<1>5. /\ SumFunctionOnSet(f, T) = f[x] + SumFunctionOnSet(f, T \ {x})
      /\ SumFunctionOnSet(g, T) = g[x] + SumFunctionOnSet(g, T \ {x})
      /\ SumFunctionOnSet(h, T) = h[x] + SumFunctionOnSet(h, T \ {x})
  BY <1>2, SumRemove
<1>6. /\ T \ {x} \in SUBSET D /\ IsFiniteSet(T \ {x})
      /\ SumFunctionOnSet(f, T \ {x}) \in Nat /\ SumFunctionOnSet(g, T \ {x}) \in Nat
  <2>1. T \ {x} \in SUBSET D /\ IsFiniteSet(T \ {x})
    BY <1>2, FS_Subset
  <2> QED BY <2>1, SumType
<1>7. Ok(T \ {x})
  BY <1>1
<1>8. h[x] = f[x] + g[x] /\ f[x] \in Nat /\ g[x] \in Nat
  OBVIOUS
<1> QED BY <1>5, <1>6, <1>7, <1>8

LEMMA SumMonotonic ==
  ASSUME NEW D, NEW f \in [D -> Nat], NEW g \in [D -> Nat],
         NEW S \in SUBSET D, IsFiniteSet(S), \A x \in S : f[x] <= g[x]
  PROVE  SumFunctionOnSet(f, S) <= SumFunctionOnSet(g, S)
<1> DEFINE rest == [x \in D |-> IF x \in S THEN g[x] - f[x] ELSE 0]
<1>1. rest \in [D -> Nat] /\ \A x \in S : g[x] = f[x] + rest[x]
  OBVIOUS
<1> HIDE DEF rest
<1>2. SumFunctionOnSet(g, S) = SumFunctionOnSet(f, S) + SumFunctionOnSet(rest, S)
  BY <1>1, SumOfSums
<1>3. SumFunctionOnSet(f, S) \in Nat /\ SumFunctionOnSet(rest, S) \in Nat
  BY <1>1, SumType
<1> QED BY <1>2, <1>3

\* Less in one term and not more in any other is less.
LEMMA SumStrict ==
  ASSUME NEW D, NEW f \in [D -> Nat], NEW g \in [D -> Nat],
         NEW S \in SUBSET D, IsFiniteSet(S), \A x \in S : f[x] <= g[x],
         NEW e \in S, f[e] < g[e]
  PROVE  SumFunctionOnSet(f, S) < SumFunctionOnSet(g, S)
<1>1. SumFunctionOnSet(f, S) = f[e] + SumFunctionOnSet(f, S \ {e})
  BY SumRemove
<1>2. SumFunctionOnSet(g, S) = g[e] + SumFunctionOnSet(g, S \ {e})
  BY SumRemove
<1>3. IsFiniteSet(S \ {e}) /\ S \ {e} \in SUBSET D
  BY FS_Subset
<1>4. \A x \in S \ {e} : f[x] <= g[x]
  OBVIOUS
<1>5. PICK T : T = S \ {e}
  OBVIOUS
<1>6. SumFunctionOnSet(f, T) <= SumFunctionOnSet(g, T)
  BY <1>3, <1>4, <1>5, SumMonotonic
<1>7. SumFunctionOnSet(f, T) \in Nat /\ SumFunctionOnSet(g, T) \in Nat
  BY <1>3, <1>5, SumType
<1>8. f[e] \in Nat /\ g[e] \in Nat
  OBVIOUS
<1> QED BY <1>1, <1>2, <1>5, <1>6, <1>7, <1>8

LEMMA OneMoreTime ==
  ASSUME NEW n \in Int, NEW c \in Int
  PROVE  c + (n - 1) * c = n * c
BY SMT

\* A sum of which only some terms, all alike, are not 0.
LEMMA SumOfEqualTerms ==
  ASSUME NEW D, NEW f \in [D -> Nat], NEW S \in SUBSET D, IsFiniteSet(S),
         NEW W \in SUBSET S, NEW c \in Nat,
         \A x \in W : f[x] = c, \A x \in S \ W : f[x] = 0
  PROVE  SumFunctionOnSet(f, S) = Cardinality(W) * c
<1> DEFINE Ok(T) == SumFunctionOnSet(f, T) = Cardinality(T \cap W) * c
           bad == {T \in SUBSET S : ~Ok(T)}
<1>0. S \cap W = W
  OBVIOUS
<1> SUFFICES ASSUME bad # {} PROVE FALSE
  BY <1>0
<1>1. PICK T \in bad : \A x \in T : T \ {x} \notin bad
  <2>1. bad \in SUBSET (SUBSET S)
    OBVIOUS
  <2> HIDE DEF bad
  <2> QED BY <2>1, SmallestPart
<1>2. IsFiniteSet(T) /\ IsFiniteSet(T \cap W)
  BY FS_Subset
<1>3. T # {}
  <2>1. SUFFICES ASSUME T = {} PROVE Ok(T)
    OBVIOUS
  <2>2. SumFunctionOnSet(f, T) = 0 /\ T \cap W = {} /\ Cardinality(T \cap W) = 0
    BY <1>2, <2>1, SumDefined, FS_EmptySet
  <2>3. 0 * c = 0
    OBVIOUS
  <2> QED BY <2>2, <2>3
<1>4. PICK x \in T : TRUE
  BY <1>3
<1>5. SumFunctionOnSet(f, T) = f[x] + SumFunctionOnSet(f, T \ {x})
  BY <1>2, SumRemove
<1>6. SumFunctionOnSet(f, T \ {x}) = Cardinality((T \ {x}) \cap W) * c
  BY <1>1
<1>7. CASE x \in W
  <2>1. (T \ {x}) \cap W = (T \cap W) \ {x} /\ x \in T \cap W
    BY <1>7
  <2>2. PICK n \in Nat : Cardinality(T \cap W) = n
    BY <1>2, FS_CardinalityType
  <2>3. Cardinality((T \cap W) \ {x}) = n - 1
    BY <1>2, <2>1, <2>2, FS_RemoveElement
  <2>4. f[x] = c
    BY <1>7
  <2>5. SumFunctionOnSet(f, T) = c + (n - 1) * c
    BY <1>5, <1>6, <2>1, <2>3, <2>4
  <2>6. c + (n - 1) * c = n * c
    BY OneMoreTime
  <2> QED BY <2>2, <2>5, <2>6
<1>8. CASE x \notin W
  <2>1. (T \ {x}) \cap W = T \cap W /\ f[x] = 0
    BY <1>8
  <2>2. Cardinality(T \cap W) \in Nat
    BY <1>2, FS_CardinalityType
  <2>3. \A n \in Nat : 0 + n * c = n * c
    OBVIOUS
  <2> QED BY <1>5, <1>6, <2>1, <2>2, <2>3
<1> QED BY <1>7, <1>8

LEMMA SumOfZeros ==
  ASSUME NEW D, NEW f \in [D -> Nat], NEW S \in SUBSET D, IsFiniteSet(S), \A x \in S : f[x] = 0
  PROVE  SumFunctionOnSet(f, S) = 0
<1>1. SumFunctionOnSet(f, S) = Cardinality({}) * 0
  <2>1. {} \in SUBSET S /\ (\A x \in {} : f[x] = 0) /\ (\A x \in S \ {} : f[x] = 0) /\ 0 \in Nat
    OBVIOUS
  <2> QED BY <2>1, SumOfEqualTerms
<1>2. Cardinality({}) = 0
  BY FS_EmptySet
<1> QED BY <1>1, <1>2

\* A common factor can be taken out of a sum.
LEMMA SumScaled ==
  ASSUME NEW D, NEW f \in [D -> Nat], NEW g \in [D -> Nat], NEW c \in Nat,
         NEW S \in SUBSET D, IsFiniteSet(S), \A x \in S : g[x] = c * f[x]
  PROVE  SumFunctionOnSet(g, S) = c * SumFunctionOnSet(f, S)
<1> DEFINE Ok(T) == SumFunctionOnSet(g, T) = c * SumFunctionOnSet(f, T)
           bad == {T \in SUBSET S : ~Ok(T)}
<1> SUFFICES ASSUME bad # {} PROVE FALSE
  OBVIOUS
<1>1. PICK T \in bad : \A x \in T : T \ {x} \notin bad
  <2>1. bad \in SUBSET (SUBSET S)
    OBVIOUS
  <2> HIDE DEF bad
  <2> QED BY <2>1, SmallestPart
<1>2. IsFiniteSet(T)
  BY FS_Subset
<1>3. T # {}
  <2>1. SUFFICES ASSUME T = {} PROVE Ok(T)
    OBVIOUS
  <2>2. SumFunctionOnSet(f, T) = 0 /\ SumFunctionOnSet(g, T) = 0
    BY <1>2, <2>1, SumDefined
  <2>3. c * 0 = 0
    OBVIOUS
  <2> QED BY <2>2, <2>3
<1>4. PICK x \in T : TRUE
  BY <1>3
<1>5. /\ SumFunctionOnSet(f, T) = f[x] + SumFunctionOnSet(f, T \ {x})
      /\ SumFunctionOnSet(g, T) = g[x] + SumFunctionOnSet(g, T \ {x})
  BY <1>2, SumRemove
<1>6. PICK n \in Nat : n = SumFunctionOnSet(f, T \ {x})
  <2>1. T \ {x} \in SUBSET D /\ IsFiniteSet(T \ {x})
    BY <1>2, FS_Subset
  <2> QED BY <2>1, SumType
<1>7. Ok(T \ {x})
  BY <1>1
<1>8. PICK m \in Nat : f[x] = m
  OBVIOUS
<1>9. c * (m + n) = c * m + c * n
  OBVIOUS
<1>10. g[x] = c * m
  BY <1>8
<1>11. SumFunctionOnSet(g, T) = c * m + c * n
  BY <1>5, <1>6, <1>7, <1>10
<1>12. c * SumFunctionOnSet(f, T) = c * (m + n)
  BY <1>5, <1>6, <1>8
<1> QED BY <1>9, <1>11, <1>12

\* A sum of terms none of which exceeds c.
LEMMA SumAtMost ==
  ASSUME NEW D, IsFiniteSet(D), NEW f \in [D -> Nat], NEW c \in Nat, \A x \in D : f[x] <= c
  PROVE  SumFunctionOnSet(f, D) <= Cardinality(D) * c
<1>1. PICK g \in [D -> Nat] : \A x \in D : g[x] = c
  <2>1. [x \in D |-> c] \in [D -> Nat]
    OBVIOUS
  <2> QED BY <2>1
<1>2. D \in SUBSET D /\ \A x \in D : f[x] <= g[x]
  BY <1>1
<1>3. SumFunctionOnSet(f, D) <= SumFunctionOnSet(g, D)
  BY <1>2, SumMonotonic
<1>4. SumFunctionOnSet(g, D) = Cardinality(D) * c
  <2>1. (\A x \in D : g[x] = c) /\ \A x \in D \ D : g[x] = 0
    BY <1>1
  <2> QED BY <1>2, <2>1, SumOfEqualTerms
<1> QED BY <1>3, <1>4

LEMMA SumOfMultiples ==
  ASSUME NEW D, IsFiniteSet(D), NEW f \in [D -> Nat], NEW c \in Nat
  PROVE  /\ [x \in D |-> c * f[x]] \in [D -> Nat]
         /\ SumFunctionOnSet([x \in D |-> c * f[x]], D) = c * SumFunctionOnSet(f, D)
<1>1. [x \in D |-> c * f[x]] \in [D -> Nat]
  OBVIOUS
<1>2. PICK g \in [D -> Nat] : g = [x \in D |-> c * f[x]]
  BY <1>1, Zenon
<1>3. D \in SUBSET D /\ \A x \in D : g[x] = c * f[x]
  BY <1>2
<1>4. SumFunctionOnSet(g, D) = c * SumFunctionOnSet(f, D)
  BY <1>3, SumScaled
<1> QED BY <1>1, <1>2, <1>4

\* A positive factor can be taken out of an inequality.
LEMMA FactorOut ==
  ASSUME NEW s \in Nat \ {0}, NEW x \in Nat, NEW r \in Nat, s * x <= s * r
  PROVE  x <= r
<1> SUFFICES ASSUME x >= r + 1 PROVE FALSE
  OBVIOUS
<1>1. PICK d \in Nat : x = r + 1 + d
  <2>1. x - (r + 1) \in Nat /\ x = r + 1 + (x - (r + 1))
    OBVIOUS
  <2> QED BY <2>1
<1>2. s * x = s * r + s + s * d
  BY <1>1
<1>3. s * d \in Nat /\ s * r \in Nat
  OBVIOUS
<1> QED BY <1>2, <1>3

\* Shares in proportion, each rounded down, are together not more than what is
\* shared.
LEMMA SharesInProportion ==
  ASSUME NEW D, IsFiniteSet(D), NEW stake \in [D -> Nat], NEW share \in [D -> Nat],
         NEW prize \in Nat, NEW total \in Nat \ {0}, total = SumFunctionOnSet(stake, D),
         \A x \in D : total * share[x] <= prize * stake[x]
  PROVE  SumFunctionOnSet(share, D) <= prize
<1>1. PICK g \in [D -> Nat] : g = [x \in D |-> total * share[x]]
  <2>1. [x \in D |-> total * share[x]] \in [D -> Nat]
    OBVIOUS
  <2> QED BY <2>1, Zenon
<1>2. PICK h \in [D -> Nat] : h = [x \in D |-> prize * stake[x]]
  <2>1. [x \in D |-> prize * stake[x]] \in [D -> Nat]
    OBVIOUS
  <2> QED BY <2>1, Zenon
<1>3. D \in SUBSET D /\ \A x \in D : g[x] <= h[x]
  BY <1>1, <1>2
<1>4. SumFunctionOnSet(g, D) <= SumFunctionOnSet(h, D)
  BY <1>3, SumMonotonic
<1>5. SumFunctionOnSet(g, D) = total * SumFunctionOnSet(share, D)
  BY <1>1, SumOfMultiples
<1>6. SumFunctionOnSet(h, D) = prize * total
  BY <1>2, SumOfMultiples
<1>7. SumFunctionOnSet(share, D) \in Nat
  BY <1>3, SumType
<1>8. prize * total = total * prize
  OBVIOUS
<1> QED BY <1>4, <1>5, <1>6, <1>7, <1>8, FactorOut

\* F is a table with the sums of its rows and of its columns.
IsTable(F, D, E, row, col) ==
  /\ IsFiniteSet(D) /\ IsFiniteSet(E)
  /\ F \in [D -> [E -> Nat]] /\ row \in [D -> Nat] /\ col \in [E -> Nat]
  /\ \A d \in D : row[d] = SumFunctionOnSet(F[d], E)
  /\ \A e \in E : col[e] = SumFunctionOnSet([d \in D |-> F[d][e]], D)

\* A sum over rows is the sum over columns.
LEMMA SumExchange ==
  ASSUME NEW D, NEW E, NEW F, NEW row, NEW col, IsTable(F, D, E, row, col)
  PROVE  SumFunctionOnSet(row, D) = SumFunctionOnSet(col, E)
<1>0. /\ IsFiniteSet(D) /\ IsFiniteSet(E)
      /\ F \in [D -> [E -> Nat]] /\ row \in [D -> Nat] /\ col \in [E -> Nat]
      /\ \A d \in D : row[d] = SumFunctionOnSet(F[d], E)
      /\ \A e \in E : col[e] = SumFunctionOnSet([d \in D |-> F[d][e]], D)
  BY DEF IsTable
<1> USE <1>0
<1> DEFINE at(e) == [d \in D |-> F[d][e]]
           part(S) == [e \in E |-> SumFunctionOnSet(at(e), S)]
           Ok(S) == SumFunctionOnSet(row, S) = SumFunctionOnSet(part(S), E)
           bad == {S \in SUBSET D : ~Ok(S)}
<1>1. \A e \in E : at(e) \in [D -> Nat] /\ \A d \in D : at(e)[d] = F[d][e]
  OBVIOUS
<1>2. SUFFICES ASSUME bad # {} PROVE FALSE
  <2>1. part(D) = col
    OBVIOUS
  <2>2. bad = {} => Ok(D)
    OBVIOUS
  <2> HIDE DEF part
  <2> QED BY <2>1, <2>2
<1>3. PICK S \in bad : \A x \in S : S \ {x} \notin bad
  <2>1. bad \in SUBSET (SUBSET D)
    OBVIOUS
  <2> HIDE DEF bad
  <2> QED BY <1>2, <2>1, SmallestPart
<1> HIDE DEF at
<1>4. ASSUME NEW T \in SUBSET D PROVE part(T) \in [E -> Nat]
  <2>1. IsFiniteSet(T)
    BY FS_Subset
  <2>2. ASSUME NEW e \in E PROVE SumFunctionOnSet(at(e), T) \in Nat
    <3>1. PICK f \in [D -> Nat] : f = at(e)
      BY <1>1
    <3> QED BY <2>1, <3>1, SumType
  <2> QED BY <2>2
<1>5. IsFiniteSet(S)
  BY FS_Subset
<1>6. S # {}
  <2>1. SUFFICES ASSUME S = {} PROVE Ok(S)
    OBVIOUS
  <2>2. SumFunctionOnSet(row, S) = 0
    BY <1>5, <2>1, SumDefined
  <2>3. \A e \in E : part(S)[e] = 0
    BY <1>5, <2>1, SumDefined
  <2>4. PICK f \in [E -> Nat] : f = part(S)
    BY <1>4
  <2>5. SumFunctionOnSet(f, E) = 0
    BY <2>3, <2>4, SumOfZeros
  <2> QED BY <2>2, <2>4, <2>5
<1>7. PICK x \in S : TRUE
  BY <1>6
<1> DEFINE R == S \ {x}
<1>8. SumFunctionOnSet(row, S) = SumFunctionOnSet(F[x], E) + SumFunctionOnSet(row, R)
  BY <1>5, SumRemove
<1>9. ASSUME NEW e \in E
      PROVE  SumFunctionOnSet(at(e), S) = F[x][e] + SumFunctionOnSet(at(e), R)
  <2>1. PICK f \in [D -> Nat] : f = at(e) /\ f[x] = F[x][e]
    BY <1>1
  <2>2. SumFunctionOnSet(f, S) = f[x] + SumFunctionOnSet(f, S \ {x})
    <3>1. S \in SUBSET D /\ x \in S
      OBVIOUS
    <3> HIDE DEF bad
    <3> QED BY <1>5, <3>1, SumRemove
  <2> QED BY <2>1, <2>2
<1>10. PICK f \in [E -> Nat], g \in [E -> Nat], h \in [E -> Nat] :
         f = F[x] /\ g = part(R) /\ h = part(S)
  BY <1>4
<1>11. \A e \in E : h[e] = f[e] + g[e]
  BY <1>9, <1>10
<1>12. SumFunctionOnSet(h, E) = SumFunctionOnSet(f, E) + SumFunctionOnSet(g, E)
  <2>1. E \in SUBSET E
    OBVIOUS
  <2> HIDE DEF bad, part
  <2> QED BY <1>11, <2>1, SumOfSums
<1>13. Ok(R)
  BY <1>3
<1> HIDE DEF part, R
<1> QED BY <1>8, <1>10, <1>12, <1>13

-----------------------------------------------------------------------------
(* One pool.                                                                *)

\* A pool in good order: capped by its maximum, which somebody has staked.
Sound(pool) == /\ \A q \in Players : pool.total[q] <= pool.max
               /\ pool.max > 0 => \E q \in Players : pool.total[q] = pool.max
               /\ pool.haveAllIn => pool.max > 0

\* Cutting a pool at the level of a smaller stake: both halves are pools in good
\* order, and their maxima and totals add up to those of the pool (splitByLess).
LEMMA SplitByLessFacts ==
  ASSUME NEW pool \in Pool, NEW p \in Players, NEW cur \in Nat \ {0},
         Sound(pool), cur < pool.max, pool.total[p] < cur
  PROVE  LET s == SplitByLess(pool, p, cur)
         IN  /\ s.kept \in Pool /\ s.kept.max = cur /\ s.kept.total[p] = cur
             /\ s.side \in Pool /\ s.side.max = pool.max - cur /\ s.side.total[p] = 0
             /\ \A q \in Players : 
                  /\ s.side.total[q] > 0 => s.kept.total[q] = cur
                  /\ q # p => s.kept.total[q] + s.side.total[q] = pool.total[q]
             /\ Sound(s.kept) /\ Sound(s.side)
<1> DEFINE s == SplitByLess(pool, p, cur)
           excess == Excess(pool, p, cur)
           best == {excess[q] : q \in Players}
           top == CHOOSE m \in best : \A q \in Players : excess[q] <= m
<1>0. pool.max \in Nat /\ pool.total \in [Players -> Nat] /\ pool.haveAllIn \in BOOLEAN
  BY DEF Pool
<1>1. /\ excess \in [Players -> Nat]
      /\ \A q \in Players : 
           excess[q] = IF q # p /\ pool.total[q] > cur THEN pool.total[q] - cur ELSE 0
  BY <1>0 DEF Excess
<1>2. PICK a \in Players : pool.total[a] = pool.max
  BY <1>0 DEF Sound
<1>3. a # p /\ excess[a] = pool.max - cur
  BY <1>0, <1>1, <1>2
<1>4. \A q \in Players : excess[q] <= pool.max - cur
  BY <1>0, <1>1 DEF Sound
<1> HIDE DEF excess
<1>5. top = pool.max - cur
  <2>1. \E m \in best : \A q \in Players : excess[q] <= m
    BY <1>3, <1>4
  <2>2. top \in best /\ \A q \in Players : excess[q] <= top
    BY <2>1
  <2>3. top >= excess[a] /\ \E q \in Players : top = excess[q]
    BY <2>2
  <2> HIDE DEF top
  <2> QED BY <2>3, <1>0, <1>1, <1>3, <1>4
<1>6. /\ s.kept = [max |-> cur, haveAllIn |-> pool.haveAllIn,
                   total |-> [q \in Players |->
                         IF q = p \/ pool.total[q] > cur THEN cur ELSE pool.total[q]]]
      /\ s.side = [max |-> top, haveAllIn |-> FALSE, total |-> excess]
  BY DEF SplitByLess, excess
<1> HIDE DEF s, top, best
<1>7. /\ s.kept.max = cur
      /\ s.kept.total = [q \in Players |->
                         IF q = p \/ pool.total[q] > cur THEN cur ELSE pool.total[q]]
      /\ s.kept \in Pool
      /\ s.side.max = pool.max - cur
      /\ s.side.total = excess /\ ~s.side.haveAllIn
      /\ s.side \in Pool
  BY <1>6, <1>0, <1>1, <1>5 DEF Pool
<1>8. \A q \in Players : 
        /\ s.side.total[q] > 0 => s.kept.total[q] = cur
        /\ q # p => s.kept.total[q] + s.side.total[q] = pool.total[q]
        /\ s.kept.total[q] <= cur
  BY <1>7, <1>1, <1>0
<1>9. s.kept.total[p] = cur /\ s.side.total[p] = 0
  BY <1>7, <1>1, <1>0
<1>10. Sound(s.kept) /\ Sound(s.side)
  BY <1>7, <1>8, <1>9, <1>3, <1>4 DEF Sound
<1> QED BY <1>7, <1>8, <1>9, <1>10 DEF s

\* Opening a side pool above a capped pool (splitByMore).
LEMMA SplitByMoreFacts ==
  ASSUME NEW pool \in Pool, NEW p \in Players, NEW cur \in Nat, NEW allIn \in BOOLEAN,
         Sound(pool), cur > pool.max
  PROVE  LET s == SplitByMore(pool, p, cur, allIn)
         IN  /\ s.kept \in Pool /\ s.kept.max = pool.max /\ s.kept.total[p] = pool.max
             /\ s.side \in Pool /\ s.side.max = cur - pool.max
             /\ s.side.total[p] = cur - pool.max
             /\ \A q \in Players \ {p} :
                  s.kept.total[q] = pool.total[q] /\ s.side.total[q] = 0
             /\ Sound(s.kept) /\ Sound(s.side)
<1> DEFINE s == SplitByMore(pool, p, cur, allIn)
<1>0. pool.max \in Nat /\ pool.total \in [Players -> Nat] /\ pool.haveAllIn \in BOOLEAN
  BY DEF Pool
<1>1. /\ s.kept = [max |-> pool.max, haveAllIn |-> pool.haveAllIn,
                   total |-> [pool.total EXCEPT ![p] = pool.max]]
      /\ s.side = [max |-> cur - pool.max, haveAllIn |-> allIn,
                   total |-> [q \in Players |-> IF q = p THEN cur - pool.max ELSE 0]]
  BY DEF SplitByMore
<1> HIDE DEF s
<1>2. /\ s.kept \in Pool /\ s.kept.max = pool.max /\ s.kept.total[p] = pool.max
      /\ s.side \in Pool /\ s.side.max = cur - pool.max
      /\ s.side.total[p] = cur - pool.max
      /\ \A q \in Players \ {p} :
           s.kept.total[q] = pool.total[q] /\ s.side.total[q] = 0
      /\ s.kept.haveAllIn = pool.haveAllIn
  BY <1>0, <1>1 DEF Pool
<1>3. Sound(s.kept) /\ Sound(s.side)
  BY <1>0, <1>2 DEF Sound
<1> QED BY <1>2, <1>3 DEF s

\* What a pool that has taken a bet looks like.  r.behind is the new pool behind
\* it, if the pool was split.
Behind(r, q) == IF r.behind = <<>> THEN 0 ELSE r.behind[1].total[q]
Back(r)      == IF r.behind = <<>> THEN r.kept ELSE r.behind[1]

\* What a bet keeps of a pool: the pool and its side pool are in good order, the
\* chips of every player are where they were, the rest goes on only past a pool
\* the bettor has filled, and who had filled the pool has filled what it became.
KeepsOrder(r) ==
  /\ r.kept \in Pool /\ Sound(r.kept) /\ r.kept.max > 0
  /\ \/ r.behind = <<>>
     \/ \E side \in Pool :
          /\ r.behind = <<side>> /\ Sound(side)
          /\ side.max > 0
          /\ \A q \in Players : side.total[q] > 0 => r.kept.total[q] = r.kept.max

KeepsChips(pool, p, amount, r) ==
  /\ r.remain \in Nat /\ r.remain <= amount
  /\ r.kept.total[p] + Behind(r, p) + r.remain = pool.total[p] + amount
  /\ \A q \in Players \ {p} : r.kept.total[q] + Behind(r, q) = pool.total[q]

KeepsFull(pool, r) ==
  \A q \in Players : pool.total[q] = pool.max => Back(r).total[q] = Back(r).max

KeepsPlace(pool, p, isLast, r) ==
  /\ r.remain > 0 => ~isLast /\ r.behind = <<>> /\ r.kept.total[p] = r.kept.max
  /\ ~isLast => KeepsFull(pool, r)

\* One pool takes a bet (chipPool.bet).
LEMMA PoolBetFacts ==
  ASSUME NEW pool \in Pool, NEW p \in Players, NEW amount \in Nat \ {0},
         NEW allIn \in BOOLEAN, NEW isLast \in BOOLEAN, Sound(pool), pool.max > 0 \/ isLast
  PROVE  LET r == PoolBet(pool, p, amount, allIn, isLast)
         IN  KeepsOrder(r) /\ KeepsChips(pool, p, amount, r) /\ KeepsPlace(pool, p, isLast, r)
<1> DEFINE r == PoolBet(pool, p, amount, allIn, isLast)
           cur == pool.total[p] + amount
           marked == [max |-> pool.max, haveAllIn |-> pool.haveAllIn \/ allIn,
                      total |-> pool.total]
           goal == /\ KeepsOrder(r)
                   /\ KeepsChips(pool, p, amount, r)
                   /\ KeepsPlace(pool, p, isLast, r)
<1>0. /\ pool.max \in Nat /\ pool.total \in [Players -> Nat] /\ pool.haveAllIn \in BOOLEAN
      /\ pool.total[p] \in Nat /\ cur \in Nat \ {0} /\ pool.total[p] < cur
      /\ marked \in Pool /\ marked.total[p] < cur
      /\ pool.max > 0 => Sound(marked)
      /\ marked.max = pool.max /\ marked.total = pool.total
  BY DEF Pool, Sound
<1>1. CASE isLast /\ pool.haveAllIn /\ cur > pool.max
  <2> DEFINE s == SplitByMore(pool, p, cur, allIn)
  <2>1. r = [kept |-> s.kept, behind |-> <<s.side>>, remain |-> 0]
    BY <1>1 DEF PoolBet
  <2>2. /\ s.kept \in Pool /\ s.kept.max = pool.max /\ s.kept.total[p] = pool.max
        /\ s.side \in Pool /\ s.side.max = cur - pool.max
        /\ s.side.total[p] = cur - pool.max
        /\ \A q \in Players \ {p} :
             s.kept.total[q] = pool.total[q] /\ s.side.total[q] = 0
        /\ Sound(s.kept) /\ Sound(s.side)
    BY <1>0, <1>1, SplitByMoreFacts
  <2> HIDE DEF s, r
  <2>3. r.kept = s.kept /\ r.behind = <<s.side>> /\ r.behind # <<>> /\ r.remain = 0
        /\ r.behind[1] = s.side
    BY <2>1
  <2>4. KeepsOrder(r)
    BY <2>2, <2>3, <1>0, <1>1 DEF KeepsOrder, Sound
  <2>5. KeepsChips(pool, p, amount, r)
    BY <2>2, <2>3, <1>0, <1>1 DEF KeepsChips, Behind, Pool
  <2>6. KeepsPlace(pool, p, isLast, r)
    BY <2>3, <1>1 DEF KeepsPlace, KeepsFull
  <2> QED BY <2>4, <2>5, <2>6 DEF r
<1>2. CASE ~(isLast /\ pool.haveAllIn /\ cur > pool.max) /\ cur < pool.max
  <2> DEFINE s == SplitByLess(marked, p, cur)
  <2>1. r = [kept |-> s.kept, behind |-> <<s.side>>, remain |-> 0]
    BY <1>2 DEF PoolBet
  <2>2. /\ s.kept \in Pool /\ s.kept.max = cur /\ s.kept.total[p] = cur
        /\ s.side \in Pool /\ s.side.max = pool.max - cur /\ s.side.total[p] = 0
        /\ \A q \in Players : 
             /\ s.side.total[q] > 0 => s.kept.total[q] = cur
             /\ q # p => s.kept.total[q] + s.side.total[q] = pool.total[q]
        /\ Sound(s.kept) /\ Sound(s.side)
    BY <1>0, <1>2, SplitByLessFacts
  <2> HIDE DEF s, r
  <2>3. r.kept = s.kept /\ r.behind = <<s.side>> /\ r.behind # <<>> /\ r.remain = 0
        /\ r.behind[1] = s.side
    BY <2>1
  <2>4. KeepsOrder(r)
    BY <2>2, <2>3, <1>0, <1>2 DEF KeepsOrder
  <2>5. KeepsChips(pool, p, amount, r)
    BY <2>2, <2>3, <1>0, <1>2 DEF KeepsChips, Behind, Pool
  <2>6. KeepsPlace(pool, p, isLast, r)
    <3>1. \A q \in Players : pool.total[q] = pool.max => s.side.total[q] = s.side.max
      BY <2>2, <1>0, <1>2 DEF Pool, Sound
    <3>2. Back(r) = s.side
      BY <2>3 DEF Back
    <3> QED BY <2>3, <3>1, <3>2 DEF KeepsPlace, KeepsFull
  <2> QED BY <2>4, <2>5, <2>6 DEF r
<1>3. CASE ~(isLast /\ pool.haveAllIn /\ cur > pool.max) /\ ~(cur < pool.max)
  <2> DEFINE top == IF isLast THEN cur ELSE pool.max
  <2>1. r = [kept   |-> [max |-> top, haveAllIn |-> marked.haveAllIn,
                         total |-> [pool.total EXCEPT ![p] = top]],
             behind |-> <<>>,
             remain |-> cur - top]
    BY <1>3 DEF PoolBet
  <2>2. top \in Nat \ {0} /\ top <= cur /\ pool.max <= top
    BY <1>0, <1>3
  <2> HIDE DEF r
  <2>3. /\ r.kept.max = top /\ r.kept.total = [pool.total EXCEPT ![p] = top]
        /\ r.kept \in Pool /\ r.behind = <<>> /\ r.remain = cur - top
    BY <2>1, <2>2, <1>0 DEF Pool
  <2>4. r.kept.total[p] = top /\ \A q \in Players \ {p} : r.kept.total[q] = pool.total[q]
    BY <2>3, <1>0
  <2>5. KeepsOrder(r)
    BY <2>2, <2>3, <2>4, <1>0 DEF KeepsOrder, Sound
  <2>6. KeepsChips(pool, p, amount, r)
    <3>1. cur - top \in Nat /\ cur - top <= amount
      BY <1>0, <2>2 DEF Sound
    <3>2. top + 0 + (cur - top) = pool.total[p] + amount
      BY <1>0, <2>2
    <3>3. \A q \in Players : Behind(r, q) = 0
      BY <2>3 DEF Behind
    <3>4. \A q \in Players \ {p} : r.kept.total[q] + 0 = pool.total[q]
      BY <2>4, <1>0
    <3> HIDE DEF cur, top
    <3> QED BY <2>3, <2>4, <3>1, <3>2, <3>3, <3>4 DEF KeepsChips
  <2>7. KeepsPlace(pool, p, isLast, r)
    BY <2>2, <2>3, <2>4, <1>0 DEF KeepsPlace, KeepsFull, Back
  <2> QED BY <2>5, <2>6, <2>7 DEF r
<1> QED BY <1>1, <1>2, <1>3

-----------------------------------------------------------------------------
(* The list of pools, under the walk of a bet.                               *)

IsInserted(S, s, n, e, t) ==
  /\ t \in Seq(S) /\ Len(t) = Len(s) + 1
  /\ \A k \in 1..n - 1 : t[k] = s[k]
  /\ t[n] = e
  /\ \A k \in n..Len(s) : t[k + 1] = s[k]

\* Inserting an element into a sequence moves the rest back by one place.
LEMMA InsertFacts ==
  ASSUME NEW S, NEW s \in Seq(S), NEW n \in 1..Len(s) + 1, NEW e \in S
  PROVE  IsInserted(S, s, n, e, InsertAt(s, n, e))
<1> DEFINE front == SubSeq(s, 1, n - 1)
           back  == SubSeq(s, n, Len(s))
           mid   == front \o <<e>>
           whole == mid \o back
<1>1. /\ front \in Seq(S) /\ Len(front) = n - 1 /\ \A k \in 1..n - 1 : front[k] = s[k]
      /\ back \in Seq(S) /\ Len(back) = Len(s) - n + 1
      /\ \A k \in 1..Len(s) - n + 1 : back[k] = s[n + k - 1]
  BY SubSeqProperties
<1> HIDE DEF front, back
<1>2. /\ mid \in Seq(S) /\ Len(mid) = n /\ mid[n] = e
      /\ \A k \in 1..n - 1 : mid[k] = s[k]
  <2>1. <<e>> \in Seq(S) /\ Len(<<e>>) = 1 /\ <<e>>[1] = e
    OBVIOUS
  <2>2. /\ mid \in Seq(S) /\ Len(mid) = Len(front) + Len(<<e>>)
        /\ \A k \in 1..Len(front) + Len(<<e>>) :
             mid[k] = IF k <= Len(front) THEN front[k] ELSE <<e>>[k - Len(front)]
    BY <1>1, <2>1, ConcatProperties
  <2> HIDE DEF mid
  <2>3. Len(front) + Len(<<e>>) = n
    BY <1>1, <2>1
  <2>4. mid[n] = e
    <3>1. n \in 1..Len(front) + Len(<<e>>) /\ ~(n <= Len(front)) /\ n - Len(front) = 1
      BY <1>1, <2>3
    <3> QED BY <2>1, <2>2, <3>1
  <2>5. ASSUME NEW k \in 1..n - 1
        PROVE  mid[k] = s[k]
    <3>1. k \in 1..Len(front) + Len(<<e>>) /\ k <= Len(front)
      BY <1>1, <2>3
    <3> QED BY <1>1, <2>2, <3>1
  <2> QED BY <2>2, <2>3, <2>4, <2>5
<1> HIDE DEF mid
<1>3. /\ whole \in Seq(S) /\ Len(whole) = Len(s) + 1
      /\ \A k \in 1..Len(s) + 1 : whole[k] = IF k <= n THEN mid[k] ELSE back[k - n]
  <2>1. /\ whole \in Seq(S) /\ Len(whole) = Len(mid) + Len(back)
        /\ \A k \in 1..Len(mid) + Len(back) :
             whole[k] = IF k <= Len(mid) THEN mid[k] ELSE back[k - Len(mid)]
    BY <1>1, <1>2, ConcatProperties
  <2> HIDE DEF whole
  <2>2. Len(mid) + Len(back) = Len(s) + 1
    BY <1>1, <1>2
  <2> QED BY <1>2, <2>1, <2>2
<1> HIDE DEF whole
<1>4. ASSUME NEW k \in n..Len(s)
      PROVE  whole[k + 1] = s[k]
  <2>1. k + 1 \in 1..Len(s) + 1 /\ ~(k + 1 <= n) /\ k + 1 - n \in 1..Len(s) - n + 1
    OBVIOUS
  <2>2. whole[k + 1] = back[k + 1 - n]
    BY <1>3, <2>1
  <2>3. back[k + 1 - n] = s[n + (k + 1 - n) - 1]
    BY <1>1, <2>1
  <2>4. n + (k + 1 - n) - 1 = k
    OBVIOUS
  <2> QED BY <2>2, <2>3, <2>4
<1>5. whole[n] = e /\ \A k \in 1..n - 1 : whole[k] = s[k]
  BY <1>2, <1>3
<1>6. IsInserted(S, s, n, e, whole)
  BY <1>3, <1>4, <1>5 DEF IsInserted
<1> QED BY <1>6 DEF InsertAt, whole, mid, front, back

\* Who is in a pool has filled the one in front of it.
Layers(list) ==
  \A k \in 1..Len(list) - 1 : \A q \in Players :
    list[k + 1].total[q] > 0 => list[k].total[q] = list[k].max

\* A list of pools in good order: every pool is, none is empty if there are
\* several, and the list is layered.
GoodList(list) ==
  /\ list \in Seq(Pool) /\ list # <<>>
  /\ \A k \in 1..Len(list) : Sound(list[k]) /\ (Len(list) > 1 => list[k].max > 0)
  /\ Layers(list)

\* A walk that has come to place i has filled the pools it passed.
Filled(list, i, p) == \A k \in 1..i - 1 : list[k].total[p] = list[k].max

\* What a visit makes of the list: the pool at i replaced, or replaced with a side
\* pool right behind it.
Unsplit(list, new, i, r) ==
  /\ r.behind = <<>>
  /\ Len(new) = Len(list)
  /\ new[i] = r.kept
  /\ \A k \in 1..Len(list) \ {i} : new[k] = list[k]

SplitAt(list, new, i, r, side) ==
  /\ r.behind = <<side>>
  /\ Len(new) = Len(list) + 1
  /\ \A k \in 1..i - 1 : new[k] = list[k]
  /\ new[i] = r.kept
  /\ new[i + 1] = side
  /\ \A k \in i + 1..Len(list) : new[k + 1] = list[k]

Replaced(list, new, i, r) ==
  /\ new \in Seq(Pool) /\ new # <<>>
  /\ Unsplit(list, new, i, r) \/ \E side \in Pool : SplitAt(list, new, i, r, side)

\* One iteration of the loop of termChipPool.bet.
LEMMA VisitReplaces ==
  ASSUME NEW list, GoodList(list), NEW i \in 1..Len(list), NEW p \in Players,
         NEW amount \in Nat \ {0}, NEW allIn \in BOOLEAN
  PROVE  LET r == PoolBet(list[i], p, amount, allIn, i = Len(list))
             v == VisitAt(list, i, p, amount, allIn)
         IN  /\ \A k \in 1..Len(list) : list[k] \in Pool
             /\ KeepsOrder(r)
             /\ KeepsChips(list[i], p, amount, r)
             /\ KeepsPlace(list[i], p, i = Len(list), r)
             /\ v.remain = r.remain
             /\ Replaced(list, v.list, i, r)
<1> DEFINE r == PoolBet(list[i], p, amount, allIn, i = Len(list))
           v == VisitAt(list, i, p, amount, allIn)
           stay == [list EXCEPT ![i] = r.kept]
<1>1. list \in Seq(Pool) /\ Len(list) \in Nat /\ \A k \in 1..Len(list) : list[k] \in Pool
  BY DEF GoodList
<1>2. Sound(list[i]) /\ (list[i].max > 0 \/ i = Len(list))
  BY <1>1 DEF GoodList
<1>3. /\ KeepsOrder(r)
      /\ KeepsChips(list[i], p, amount, r)
      /\ KeepsPlace(list[i], p, i = Len(list), r)
  <2>1. list[i] \in Pool /\ (i = Len(list)) \in BOOLEAN
    BY <1>1
  <2> QED BY <1>2, <2>1, PoolBetFacts
<1>4. /\ v.list = IF r.behind = <<>> THEN stay ELSE InsertAt(stay, i + 1, Head(r.behind))
      /\ v.remain = r.remain
  BY DEF VisitAt
<1>5. r.kept \in Pool
  BY <1>3 DEF KeepsOrder
<1> HIDE DEF r, v
<1>6. /\ stay \in Seq(Pool) /\ Len(stay) = Len(list) /\ stay[i] = r.kept
      /\ \A k \in 1..Len(list) \ {i} : stay[k] = list[k]
  BY <1>1, <1>5
<1> HIDE DEF stay
<1>7. Replaced(list, v.list, i, r)
  <2>1. CASE r.behind = <<>>
    <3>1. v.list = stay
      BY <1>4, <2>1
    <3>2. v.list # <<>>
      BY <1>1, <1>6, <3>1
    <3> QED BY <2>1, <3>1, <3>2, <1>1, <1>6 DEF Replaced, Unsplit
  <2>2. CASE r.behind # <<>>
    <3>1. PICK side \in Pool : r.behind = <<side>>
      BY <1>3, <2>2 DEF KeepsOrder
    <3>2. v.list = InsertAt(stay, i + 1, side)
      BY <1>4, <2>2, <3>1
    <3>3. IsInserted(Pool, stay, i + 1, side, v.list)
      <4>1. i + 1 \in 1..Len(stay) + 1
        BY <1>1, <1>6
      <4> QED BY <3>2, <4>1, <1>6, InsertFacts
    <3>4. SplitAt(list, v.list, i, r, side)
      BY <3>1, <3>3, <1>1, <1>6 DEF SplitAt, IsInserted
    <3>5. v.list # <<>> /\ v.list \in Seq(Pool)
      BY <3>3, <1>1, <1>6 DEF IsInserted
    <3> QED BY <3>4, <3>5 DEF Replaced
  <2> QED BY <2>1, <2>2
<1> QED BY <1>1, <1>3, <1>4, <1>7 DEF r, v

\* A step of the walk leaves every pool within its maximum, and every pool but
\* an empty first one with a player who has put in that maximum: the visited
\* pool, the one split off behind it, and the untouched others.
LEMMA VisitKeepsPools ==
  ASSUME NEW list, GoodList(list), NEW i \in 1..Len(list), NEW r, KeepsOrder(r),
         NEW new, Replaced(list, new, i, r)
  PROVE  \A k \in 1..Len(new) : Sound(new[k]) /\ (Len(new) > 1 => new[k].max > 0)
<1>1. /\ list \in Seq(Pool) /\ new \in Seq(Pool)
      /\ \A k \in 1..Len(list) : list[k] \in Pool
      /\ \A k \in 1..Len(list) : Sound(list[k])
      /\ Len(list) > 1 => \A k \in 1..Len(list) : list[k].max > 0
      /\ Unsplit(list, new, i, r) \/ \E side \in Pool : SplitAt(list, new, i, r, side)
  BY DEF GoodList, Replaced
<1>2. ASSUME NEW k \in 1..Len(new)
      PROVE  /\ Sound(new[k])
             /\ Len(new) > 1 => new[k].max > 0
  <2>1. CASE Unsplit(list, new, i, r)
    <3>1. CASE k = i
      BY <1>1, <2>1, <3>1 DEF Unsplit, KeepsOrder
    <3>2. CASE k # i
      <4>1. new[k] = list[k] /\ Len(new) = Len(list) /\ k \in 1..Len(list)
        BY <2>1, <3>2 DEF Unsplit
      <4>2. Sound(list[k]) /\ (Len(list) > 1 => list[k].max > 0)
        BY <1>1, <4>1
      <4> QED BY <4>1, <4>2
    <3> QED BY <3>1, <3>2
  <2>2. CASE \E side \in Pool : SplitAt(list, new, i, r, side)
    <3>1. PICK side \in Pool : SplitAt(list, new, i, r, side)
      BY <2>2
    <3>2. Sound(side) /\ side.max > 0
      <4>1. r.behind = <<side>>
        BY <3>1 DEF SplitAt
      <4>2. r.behind # <<>> /\ r.behind[1] = side
        BY <4>1
      <4>3. PICK s \in Pool : r.behind = <<s>> /\ Sound(s) /\ s.max > 0
        BY <1>1, <4>2 DEF KeepsOrder
      <4>4. r.behind[1] = s
        BY <4>3
      <4> QED BY <4>2, <4>3, <4>4
    <3>3. CASE k < i
      <4>1. new[k] = list[k] /\ k \in 1..Len(list) /\ Len(list) > 1
        BY <1>1, <3>1, <3>3 DEF SplitAt
      <4>2. Sound(list[k]) /\ list[k].max > 0
        BY <1>1, <4>1
      <4> QED BY <4>1, <4>2
    <3>4. CASE k = i
      <4>1. new[k] = r.kept
        BY <3>1, <3>4 DEF SplitAt
      <4>2. Sound(r.kept) /\ r.kept.max > 0
        BY <1>1, <3>1 DEF SplitAt, KeepsOrder
      <4> QED BY <4>1, <4>2
    <3>5. CASE k = i + 1
      <4>1. new[k] = side
        BY <3>1, <3>5 DEF SplitAt
      <4> QED BY <3>2, <4>1
    <3>6. CASE k > i + 1
      <4>1. k - 1 \in i + 1..Len(list) /\ k - 1 \in 1..Len(list) /\ Len(list) > 1
        BY <1>1, <3>1, <3>6 DEF SplitAt
      <4>2. new[(k - 1) + 1] = list[k - 1]
        BY <3>1, <4>1 DEF SplitAt
      <4>3. new[k] = list[k - 1]
        BY <4>2, <1>1
      <4>4. Sound(list[k - 1]) /\ list[k - 1].max > 0
        BY <1>1, <4>1
      <4> QED BY <4>3, <4>4
    <3> QED BY <1>1, <3>3, <3>4, <3>5, <3>6
  <2> QED BY <1>1, <2>1, <2>2
<1> QED BY <1>2

\* Side list stay behind the list everybody in them has filled, wherever in
\* the list a visit splits a pool.
LEMMA VisitKeepsLayers ==
  ASSUME NEW list, GoodList(list), NEW i \in 1..Len(list), NEW p \in Players, Filled(list, i, p),
         NEW amount, NEW r, KeepsOrder(r), KeepsChips(list[i], p, amount, r),
         i < Len(list) => KeepsFull(list[i], r),
         NEW new, Replaced(list, new, i, r)
  PROVE  Layers(new)
<1>1. /\ list \in Seq(Pool) /\ new \in Seq(Pool)
      /\ \A k \in 1..Len(list) : list[k] \in Pool
      /\ Unsplit(list, new, i, r) \/ \E side \in Pool : SplitAt(list, new, i, r, side)
  BY DEF GoodList, Replaced
<1>2. \A k \in 1..Len(list) - 1 : \A q \in Players :
        list[k + 1].total[q] > 0 => list[k].total[q] = list[k].max
  BY DEF GoodList, Layers
<1>3. \A k \in 1..i - 1 : list[k].total[p] = list[k].max
  BY DEF Filled
<1>4. ASSUME i > 1, NEW q \in Players, r.kept.total[q] > 0
      PROVE  list[i - 1].total[q] = list[i - 1].max
  <2>1. CASE q = p
    BY <1>1, <1>3, <1>4, <2>1
  <2>2. CASE q # p
    <3>1. r.kept.total[q] + Behind(r, q) = list[i].total[q]
      BY <1>1, <2>2 DEF KeepsChips
    <3>2. Behind(r, q) \in Nat /\ r.kept.total[q] \in Nat
      <4>1. r.kept \in Pool /\ (r.behind = <<>> \/ \E s \in Pool : r.behind = <<s>>)
        BY <1>1 DEF KeepsOrder
      <4> QED BY <4>1 DEF Behind, Pool
    <3>3. list[i].total[q] > 0
      BY <3>1, <3>2, <1>4
    <3>4. i - 1 \in 1..Len(list) - 1 /\ (i - 1) + 1 = i
      BY <1>1, <1>4
    <3> QED BY <1>2, <3>3, <3>4
  <2> QED BY <2>1, <2>2
<1>5. ASSUME i < Len(list), NEW q \in Players, list[i + 1].total[q] > 0
      PROVE  Back(r).total[q] = Back(r).max
  <2>1. list[i].total[q] = list[i].max
    BY <1>1, <1>2, <1>5
  <2> QED BY <1>1, <1>5, <2>1 DEF KeepsFull
<1>6. ASSUME NEW k \in 1..Len(new) - 1, NEW q \in Players, new[k + 1].total[q] > 0
      PROVE  new[k].total[q] = new[k].max
  <2>1. CASE Unsplit(list, new, i, r)
    <3> USE <2>1 DEF Unsplit
    <3>1. CASE k + 1 = i
      BY <1>1, <1>4, <1>6, <3>1
    <3>2. CASE k = i
      <4>1. Back(r) = r.kept /\ i < Len(list) /\ new[i + 1] = list[i + 1]
        BY <1>1, <3>2 DEF Back
      <4> QED BY <1>5, <1>6, <3>2, <4>1
    <3>3. CASE k + 1 # i /\ k # i
      <4>1. new[k] = list[k] /\ new[k + 1] = list[k + 1] /\ k \in 1..Len(list) - 1
        BY <1>1, <3>3
      <4> QED BY <1>2, <1>6, <4>1
    <3> QED BY <3>1, <3>2, <3>3
  <2>2. CASE \E side \in Pool : SplitAt(list, new, i, r, side)
    <3>1. PICK side \in Pool : SplitAt(list, new, i, r, side)
      BY <2>2
    <3>2. /\ r.behind = <<side>>
          /\ Len(new) = Len(list) + 1
          /\ \A n \in 1..i - 1 : new[n] = list[n]
          /\ new[i] = r.kept
          /\ new[i + 1] = side
          /\ \A n \in i + 1..Len(list) : new[n + 1] = list[n]
      BY <3>1 DEF SplitAt
    <3>3. Back(r) = side
      BY <3>2 DEF Back
    <3>4. CASE k + 1 < i
      <4>1. new[k] = list[k] /\ new[k + 1] = list[k + 1] /\ k \in 1..Len(list) - 1
        BY <1>1, <3>2, <3>4
      <4> QED BY <1>2, <1>6, <4>1
    <3>5. CASE k + 1 = i
      <4>1. k = i - 1 /\ i > 1 /\ new[k] = list[i - 1] /\ new[k + 1] = r.kept
        BY <1>1, <3>2, <3>5
      <4> QED BY <1>4, <1>6, <4>1
    <3>6. CASE k = i
      <4>1. \A x \in Players : side.total[x] > 0 => r.kept.total[x] = r.kept.max
        <5>1. PICK s \in Pool : /\ r.behind = <<s>>
                                /\ \A x \in Players : s.total[x] > 0 => r.kept.total[x] = r.kept.max
          BY <1>1, <3>2 DEF KeepsOrder
        <5> QED BY <5>1, <3>2
      <4> QED BY <1>6, <3>2, <3>6, <4>1
    <3>7. CASE k = i + 1
      <4>1. i + 1 \in i + 1..Len(list) /\ i < Len(list)
        BY <1>1, <3>2, <3>7
      <4>2. new[(i + 1) + 1] = list[i + 1]
        BY <3>2, <4>1
      <4> QED BY <1>5, <1>6, <3>2, <3>3, <3>7, <4>1, <4>2
    <3>8. CASE k > i + 1
      <4>1. /\ k - 1 \in i + 1..Len(list) /\ k \in i + 1..Len(list)
            /\ k - 1 \in 1..Len(list) - 1 /\ (k - 1) + 1 = k
        BY <1>1, <3>2, <3>8
      <4>2. new[k] = list[k - 1] /\ new[k + 1] = list[k]
        BY <3>2, <4>1
      <4> QED BY <1>2, <1>6, <4>1, <4>2
    <3> QED BY <1>1, <3>4, <3>5, <3>6, <3>7, <3>8
  <2> QED BY <1>1, <2>1, <2>2
<1> QED BY <1>6 DEF Layers

\* A step of the walk goes on to a pool that is there, with every pool behind it
\* filled by the bettor: chips are left over only in front of a next pool.
LEMMA VisitKeepsWalk ==
  ASSUME NEW list, GoodList(list), NEW i \in 1..Len(list), NEW p \in Players, Filled(list, i, p),
         NEW r, KeepsPlace(list[i], p, i = Len(list), r), r.remain > 0,
         NEW new, Replaced(list, new, i, r)
  PROVE  Len(new) = Len(list) /\ i + 1 <= Len(new) /\ Filled(new, i + 1, p)
<1>1. i # Len(list) /\ r.behind = <<>> /\ r.kept.total[p] = r.kept.max
  BY DEF KeepsPlace
<1>2. Unsplit(list, new, i, r)
  BY <1>1 DEF Replaced, SplitAt
<1>3. Len(list) \in Nat
  BY DEF GoodList
<1>4. \A k \in 1..i : new[k].total[p] = new[k].max
  BY <1>1, <1>2, <1>3 DEF Unsplit, Filled
<1> QED BY <1>1, <1>2, <1>3, <1>4 DEF Unsplit, Filled

\* s is the sequence of partial sums of what p has in the pools.
IsSum(list, p, s) ==
  /\ s \in [0..Len(list) -> Nat]
  /\ s[0] = 0
  /\ \A k \in 1..Len(list) : s[k] = s[k - 1] + list[k].total[p]

\* The partial sums of what p has in the pools exist for every list: at the
\* least length without them they could be had from those of the length before.
LEMMA SumExists ==
  ASSUME NEW list \in Seq(Pool), NEW p \in Players
  PROVE  \E s : IsSum(list, p, s)
<1> DEFINE n == Len(list)
           Upto(m, s) == /\ s \in [0..m -> Nat] /\ s[0] = 0
                         /\ \A k \in 1..m : s[k] = s[k - 1] + list[k].total[p]
           bad == {m \in 0..n : ~\E s : Upto(m, s)}
<1>0. n \in Nat /\ \A k \in 1..n : list[k].total[p] \in Nat
  <2>1. \A k \in 1..n : list[k] \in Pool
    OBVIOUS
  <2> QED BY <2>1 DEF Pool
<1>1. SUFFICES ASSUME bad # {} PROVE FALSE
  <2>1. n \in 0..n
    BY <1>0
  <2>2. bad = {} => \E s : Upto(n, s)
    BY <2>1
  <2> QED BY <1>1, <2>2 DEF IsSum
<1>2. PICK m \in bad : \A y \in bad : m <= y
  <2>1. bad \in SUBSET Nat
    BY <1>0
  <2> HIDE DEF bad
  <2> QED BY <1>1, <2>1, LeastElement
<1>3. CASE m = 0
  <2>1. Upto(0, [k \in 0..0 |-> 0])
    OBVIOUS
  <2> QED BY <1>2, <1>3, <2>1
<1>4. CASE m # 0
  <2>1. m - 1 \in 0..n /\ m \in 1..n /\ ~(m <= m - 1)
    BY <1>0, <1>2, <1>4
  <2>2. PICK s : Upto(m - 1, s)
    BY <1>2, <2>1
  <2> DEFINE t == [k \in 0..m |-> IF k = m THEN s[m - 1] + list[m].total[p] ELSE s[k]]
  <2>3. t \in [0..m -> Nat]
    BY <1>0, <2>1, <2>2
  <2>4. t[0] = 0 /\ \A k \in 1..m : t[k] = t[k - 1] + list[k].total[p]
    BY <2>1, <2>2
  <2>5. Upto(m, t)
    BY <2>3, <2>4
  <2> QED BY <1>2, <2>5
<1> QED BY <1>3, <1>4

\* What the code adds up by following nextPool is the last partial sum.
LEMMA PlayerTotalIsSum ==
  ASSUME NEW list \in Seq(Pool), NEW p \in Players, NEW s, IsSum(list, p, s)
  PROVE  PlayerTotal(list, p) = s[Len(list)]
<1> DEFINE n == Len(list)
           IsF(g) == g = [k \in 0..n |-> IF k = 0 THEN 0 ELSE g[k - 1] + list[k].total[p]]
           f == CHOOSE g : IsF(g)
<1>0. n \in Nat
  OBVIOUS
<1>1. PlayerTotal(list, p) = f[n]
  BY DEF PlayerTotal
<1>2. IsF(s)
  BY <1>0 DEF IsSum
<1>3. IsF(f)
  BY <1>2
<1>4. \A k \in 0..n : /\ k = 0 => f[k] = 0 /\ s[k] = 0
                      /\ k # 0 => f[k] = f[k - 1] + list[k].total[p]
                      /\ k # 0 => s[k] = s[k - 1] + list[k].total[p]
  BY <1>2, <1>3
<1> HIDE DEF f, IsF
<1> DEFINE bad == {k \in 0..n : f[k] # s[k]}
<1>5. bad = {}
  <2> SUFFICES ASSUME bad # {} PROVE FALSE
    OBVIOUS
  <2>1. PICK m \in bad : \A y \in bad : m <= y
    <3>1. bad \in SUBSET Nat
      BY <1>0
    <3> HIDE DEF bad
    <3> QED BY <3>1, LeastElement
  <2>2. m \in 0..n /\ f[m] # s[m]
    BY <2>1
  <2>3. m # 0
    BY <1>4, <2>2
  <2>4. m - 1 \in 0..n /\ ~(m <= m - 1)
    BY <1>0, <2>2, <2>3
  <2>5. f[m - 1] = s[m - 1]
    BY <2>1, <2>4
  <2> QED BY <1>4, <2>2, <2>3, <2>5
<1>6. f[n] = s[n]
  BY <1>0, <1>5
<1> QED BY <1>1, <1>6

\* A visit adds to the total of a player exactly what the visited pool and its
\* side pool now hold more of him.
LEMMA VisitAddsTotal ==
  ASSUME NEW list, GoodList(list), NEW i \in 1..Len(list), NEW r, KeepsOrder(r),
         NEW new, Replaced(list, new, i, r), NEW q \in Players, NEW d \in Nat,
         r.kept.total[q] + Behind(r, q) = list[i].total[q] + d
  PROVE  /\ PlayerTotal(list, q) \in Nat
         /\ PlayerTotal(new, q) = PlayerTotal(list, q) + d
<1> DEFINE n == Len(list)
<1>1. /\ list \in Seq(Pool) /\ new \in Seq(Pool)
      /\ \A k \in 1..n : list[k] \in Pool
      /\ Unsplit(list, new, i, r) \/ \E side \in Pool : SplitAt(list, new, i, r, side)
  BY DEF GoodList, Replaced
<1>2. r.kept.total[q] + Behind(r, q) = list[i].total[q] + d
  OBVIOUS
<1>3. r.kept.total[q] \in Nat /\ list[i].total[q] \in Nat
  BY <1>1 DEF KeepsOrder, Pool
<1>4. PICK s : IsSum(list, q, s)
  BY <1>1, SumExists
<1>5. /\ s \in [0..n -> Nat] /\ s[0] = 0 /\ n \in Nat
      /\ \A k \in 1..n : s[k] = s[k - 1] + list[k].total[q]
  BY <1>1, <1>4 DEF IsSum
<1>9. ASSUME NEW k \in 1..n
      PROVE  /\ k \in 0..n /\ k - 1 \in 0..n /\ s[k] \in Nat /\ s[k - 1] \in Nat
             /\ list[k].total[q] \in Nat
             /\ s[k] = s[k - 1] + list[k].total[q]
  <2>1. k \in 0..n /\ k - 1 \in 0..n
    BY <1>5
  <2>2. s[k] \in Nat /\ s[k - 1] \in Nat
    BY <1>5, <2>1
  <2>3. list[k].total[q] \in Nat
    <3>1. list[k] \in Pool
      BY <1>1
    <3> QED BY <3>1 DEF Pool
  <2> QED BY <1>5, <2>1, <2>2, <2>3
<1>6. PlayerTotal(list, q) = s[n] /\ s[n] \in Nat
  <2>1. s[n] \in Nat
    BY <1>5
  <2>2. PlayerTotal(list, q) = s[n]
    BY <1>1, <1>4, PlayerTotalIsSum
  <2> QED BY <2>1, <2>2
<1>7. CASE Unsplit(list, new, i, r)
  <2> DEFINE t == [k \in 0..n |-> IF k < i THEN s[k] ELSE s[k] + d]
  <2>1. /\ Len(new) = n /\ new[i] = r.kept /\ Behind(r, q) = 0
        /\ \A k \in 1..n \ {i} : new[k] = list[k]
    BY <1>7 DEF Unsplit, Behind
  <2>2. t \in [0..n -> Nat] /\ t[0] = 0
    BY <1>1, <1>5
  <2>3. ASSUME NEW k \in 1..n
        PROVE  t[k] = t[k - 1] + new[k].total[q]
    <3>1. /\ s[k] = s[k - 1] + list[k].total[q] /\ s[k - 1] \in Nat /\ list[k].total[q] \in Nat
          /\ k \in 0..n /\ k - 1 \in 0..n
      BY <1>9
    <3>2. CASE k < i
      BY <1>1, <2>1, <3>1, <3>2
    <3>3. CASE k = i
      <4>1. new[k].total[q] = list[k].total[q] + d
        BY <1>2, <1>3, <2>1, <3>3
      <4>2. t[k] = s[k] + d /\ t[k - 1] = s[k - 1]
        BY <1>1, <3>1, <3>3
      <4> HIDE DEF t
      <4> QED BY <3>1, <4>1, <4>2
    <3>4. CASE k > i
      <4>1. new[k] = list[k] /\ ~(k < i) /\ ~(k - 1 < i)
        BY <1>1, <2>1, <3>4
      <4>2. t[k] = s[k] + d /\ t[k - 1] = s[k - 1] + d
        BY <3>1, <4>1
      <4> QED BY <3>1, <4>1, <4>2
    <3> QED BY <1>1, <3>2, <3>3, <3>4
  <2>4. IsSum(new, q, t)
    BY <2>1, <2>2, <2>3 DEF IsSum
  <2>5. t[n] = s[n] + d
    BY <1>1, <1>5
  <2> HIDE DEF t
  <2>6. PlayerTotal(new, q) = t[n]
    BY <1>1, <2>1, <2>4, PlayerTotalIsSum
  <2> QED BY <1>6, <2>5, <2>6
<1>8. CASE \E side \in Pool : SplitAt(list, new, i, r, side)
  <2>1. PICK side \in Pool : SplitAt(list, new, i, r, side)
    BY <1>8
  <2> DEFINE t == [k \in 0..n + 1 |-> IF k < i THEN s[k]
                                    ELSE IF k = i THEN s[k - 1] + r.kept.total[q]
                                    ELSE s[k - 1] + d]
  <2>2. /\ Len(new) = n + 1 /\ new[i] = r.kept /\ new[i + 1] = side
        /\ Behind(r, q) = side.total[q]
        /\ \A k \in 1..i - 1 : new[k] = list[k]
        /\ \A k \in i + 1..n : new[k + 1] = list[k]
    BY <2>1 DEF SplitAt, Behind
  <2>3. side.total[q] \in Nat
    BY DEF Pool
  <2>4. t \in [0..n + 1 -> Nat] /\ t[0] = 0
    <3>1. ASSUME NEW k \in 0..n + 1 PROVE t[k] \in Nat
      <4>1. CASE k < i
        <5>1. k \in 0..n
          BY <1>1, <1>5, <4>1
        <5> QED BY <1>5, <4>1, <5>1
      <4>2. CASE ~(k < i)
        <5>1. k - 1 \in 0..n
          BY <1>1, <1>5, <4>2
        <5>2. s[k - 1] \in Nat
          BY <1>5, <5>1
        <5>3. t[k] = s[k - 1] + r.kept.total[q] \/ t[k] = s[k - 1] + d
          BY <4>2
        <5> HIDE DEF t
        <5> QED BY <1>3, <5>2, <5>3
      <4> QED BY <4>1, <4>2
    <3>2. t[0] = 0
      BY <1>1, <1>5
    <3> QED BY <3>1, <3>2
  <2>5. ASSUME NEW k \in 1..n + 1
        PROVE  t[k] = t[k - 1] + new[k].total[q]
    <3>1. CASE k < i
      <4>1. s[k] = s[k - 1] + list[k].total[q] /\ new[k] = list[k]
        BY <1>1, <1>5, <2>2, <3>1
      <4> QED BY <1>1, <3>1, <4>1
    <3>2. CASE k = i
      BY <1>1, <2>2, <3>2
    <3>3. CASE k = i + 1
      <4>1. s[i] = s[i - 1] + list[i].total[q] /\ s[i - 1] \in Nat
        BY <1>1, <1>9
      <4>2. t[k] = s[i] + d /\ t[k - 1] = s[i - 1] + r.kept.total[q]
        BY <1>1, <1>5, <3>3
      <4>3. new[k].total[q] = side.total[q]
        BY <2>2, <3>3
      <4>4. r.kept.total[q] + side.total[q] = list[i].total[q] + d
        BY <1>2, <2>2
      <4> HIDE DEF t
      <4>5. (s[i - 1] + list[i].total[q]) + d = (s[i - 1] + r.kept.total[q]) + side.total[q]
        <5>1. PICK a \in Nat, b \in Nat, c \in Nat, e \in Nat :
                a = s[i - 1] /\ b = list[i].total[q] /\ c = r.kept.total[q] /\ e = side.total[q]
          BY <1>3, <2>3, <4>1
        <5>2. c + e = b + d
          BY <4>4, <5>1
        <5>3. (a + b) + d = (a + c) + e
          BY <5>2
        <5> QED BY <5>1, <5>3
      <4> QED BY <4>1, <4>2, <4>3, <4>5
    <3>4. CASE k > i + 1
      <4>1. k - 1 \in i + 1..n /\ k - 1 \in 1..n /\ (k - 1) + 1 = k
        BY <1>1, <1>5, <3>4
      <4>2. new[k] = list[k - 1]
        BY <2>2, <4>1
      <4>3. s[k - 1] = s[(k - 1) - 1] + list[k - 1].total[q]
        BY <1>5, <4>1
      <4>4. t[k] = s[k - 1] + d /\ t[k - 1] = s[(k - 1) - 1] + d
        BY <1>1, <1>5, <3>4, <4>1
      <4>5. s[(k - 1) - 1] \in Nat /\ list[k - 1].total[q] \in Nat
        BY <1>9, <4>1
      <4> QED BY <4>2, <4>3, <4>4, <4>5
    <3> QED BY <1>1, <3>1, <3>2, <3>3, <3>4
  <2>6. IsSum(new, q, t)
    BY <2>2, <2>4, <2>5 DEF IsSum
  <2>7. t[n + 1] = s[n] + d
    <3>1. n + 1 \in 0..n + 1 /\ ~(n + 1 < i) /\ n + 1 # i /\ (n + 1) - 1 = n
      BY <1>1, <1>5
    <3> QED BY <3>1
  <2> HIDE DEF t
  <2>8. PlayerTotal(new, q) = t[n + 1]
    BY <1>1, <2>2, <2>6, PlayerTotalIsSum
  <2> QED BY <1>6, <2>7, <2>8
<1> QED BY <1>1, <1>7, <1>8

\* What a player has in a list of pools is a natural number.
LEMMA PlayerTotalType ==
  ASSUME NEW list \in Seq(Pool), NEW p \in Players
  PROVE  PlayerTotal(list, p) \in Nat
<1>1. PICK s : IsSum(list, p, s)
  BY SumExists
<1> QED BY <1>1, PlayerTotalIsSum DEF IsSum

\* A visit leaves a list in good order, goes on only to a pool that is there and
\* past pools the bettor has filled, and loses no chip.
LEMMA VisitFacts ==
  ASSUME NEW list, GoodList(list), NEW i \in 1..Len(list), NEW p \in Players, Filled(list, i, p),
         NEW amount \in Nat \ {0}, NEW allIn \in BOOLEAN
  PROVE  LET v == VisitAt(list, i, p, amount, allIn)
         IN  /\ GoodList(v.list)
             /\ v.remain \in Nat /\ v.remain <= amount
             /\ v.remain > 0 => /\ Len(v.list) = Len(list) /\ i + 1 <= Len(list)
                                /\ Filled(v.list, i + 1, p)
             /\ \A q \in Players :
                  /\ PlayerTotal(list, q) \in Nat /\ PlayerTotal(v.list, q) \in Nat
                  /\ PlayerTotal(v.list, q) + (IF q = p THEN v.remain ELSE 0)
                       = PlayerTotal(list, q) + (IF q = p THEN amount ELSE 0)
<1> DEFINE r == PoolBet(list[i], p, amount, allIn, i = Len(list))
           v == VisitAt(list, i, p, amount, allIn)
           new == v.list
<1>1. /\ \A k \in 1..Len(list) : list[k] \in Pool
      /\ KeepsOrder(r)
      /\ KeepsChips(list[i], p, amount, r)
      /\ KeepsPlace(list[i], p, i = Len(list), r)
      /\ v.remain = r.remain
      /\ Replaced(list, new, i, r)
  BY VisitReplaces
<1> HIDE DEF r, v, new
<1>2. r.remain \in Nat /\ r.remain <= amount
  BY <1>1 DEF KeepsChips
<1>3. GoodList(new)
  <2>1. \A k \in 1..Len(new) : Sound(new[k]) /\ (Len(new) > 1 => new[k].max > 0)
    BY <1>1, VisitKeepsPools
  <2>2. Layers(new)
    <3>1. i < Len(list) => KeepsFull(list[i], r)
      BY <1>1 DEF KeepsPlace
    <3> QED BY <1>1, <3>1, VisitKeepsLayers
  <2> QED BY <1>1, <2>1, <2>2 DEF GoodList, Replaced
<1>4. r.remain > 0 => Len(new) = Len(list) /\ i + 1 <= Len(new) /\ Filled(new, i + 1, p)
  BY <1>1, VisitKeepsWalk
<1>5. ASSUME NEW q \in Players
      PROVE  /\ PlayerTotal(list, q) \in Nat /\ PlayerTotal(new, q) \in Nat
             /\ PlayerTotal(new, q) + (IF q = p THEN r.remain ELSE 0)
                  = PlayerTotal(list, q) + (IF q = p THEN amount ELSE 0)
  <2> DEFINE d == IF q = p THEN amount - r.remain ELSE 0
  <2>1. d \in Nat
    BY <1>2
  <2>2. r.kept.total[q] \in Nat /\ Behind(r, q) \in Nat /\ list[i].total[q] \in Nat
    <3>1. r.kept \in Pool /\ (r.behind = <<>> \/ \E side \in Pool : r.behind = <<side>>)
      BY <1>1 DEF KeepsOrder
    <3> QED BY <1>1, <3>1 DEF Behind, Pool
  <2>3. r.kept.total[q] + Behind(r, q) = list[i].total[q] + d
    <3>1. CASE q = p
      <4>1. r.kept.total[q] + Behind(r, q) + r.remain = list[i].total[q] + amount
        BY <1>1, <3>1 DEF KeepsChips
      <4>2. PICK a \in Nat, b \in Nat, c \in Nat :
              a = r.kept.total[q] /\ b = Behind(r, q) /\ c = list[i].total[q]
        BY <2>2
      <4>3. a + b + r.remain = c + amount /\ d = amount - r.remain
        BY <3>1, <4>1, <4>2
      <4>4. a + b = c + d
        BY <1>2, <4>3
      <4> QED BY <4>2, <4>4
    <3>2. CASE q # p
      <4>1. r.kept.total[q] + Behind(r, q) = list[i].total[q]
        BY <1>1, <3>2 DEF KeepsChips
      <4> QED BY <2>2, <3>2, <4>1
    <3> QED BY <3>1, <3>2
  <2> HIDE DEF d
  <2>4. PlayerTotal(list, q) \in Nat /\ PlayerTotal(new, q) = PlayerTotal(list, q) + d
    BY <1>1, <2>1, <2>3, VisitAddsTotal
  <2>5. d + (IF q = p THEN r.remain ELSE 0) = IF q = p THEN amount ELSE 0
    BY <1>2 DEF d
  <2> QED BY <1>2, <2>1, <2>4, <2>5
<1> QED BY <1>1, <1>2, <1>3, <1>4, <1>5 DEF v, new

\* A list of one new pool is in good order, and holds nothing of anybody.
LEMMA EmptyPools ==
  /\ GoodList(<<NewPool>>)
  /\ \A p \in Players : PlayerTotal(<<NewPool>>, p) = 0
<1> DEFINE list == <<NewPool>>
<1>1. NewPool \in Pool /\ NewPool.max = 0 /\ ~NewPool.haveAllIn
      /\ \A p \in Players : NewPool.total[p] = 0
  BY DEF NewPool, Pool
<1>2. list \in Seq(Pool) /\ Len(list) = 1 /\ list[1] = NewPool /\ list # <<>>
  BY <1>1
<1> HIDE DEF list
<1>3. GoodList(list)
  BY <1>1, <1>2 DEF GoodList, Layers, Sound
<1>4. ASSUME NEW p \in Players PROVE PlayerTotal(list, p) = 0
  <2>1. IsSum(list, p, [k \in 0..1 |-> 0])
    BY <1>1, <1>2 DEF IsSum
  <2> QED BY <1>2, <2>1, PlayerTotalIsSum
<1> QED BY <1>3, <1>4 DEF list

\* The loop of termChipPool.bet books the whole amount: the last pool leaves
\* nothing over, whatever the pools in front of it take.
LEMMA BetPoolsFacts ==
  ASSUME NEW list, GoodList(list), NEW p \in Players, NEW amount \in Nat \ {0},
         NEW allIn \in BOOLEAN
  PROVE  /\ GoodList(BetPools(list, p, amount, allIn))
         /\ \A q \in Players :
              /\ PlayerTotal(list, q) \in Nat
              /\ PlayerTotal(BetPools(list, p, amount, allIn), q)
                   = PlayerTotal(list, q) + (IF q = p THEN amount ELSE 0)
<1> DEFINE n == Len(list)
           Step(a, k) == IF a.remain = 0 THEN a ELSE VisitAt(a.list, k, p, a.remain, allIn)
           start == [list |-> list, remain |-> amount]
           IsWalk(w, m) == w = [k \in 0..m |-> IF k = 0 THEN start ELSE Step(w[k - 1], k)]
           IsF(w) == w = [k \in 0..n |->
                            IF k = 0 THEN [list |-> list, remain |-> amount]
                            ELSE IF w[k - 1].remain = 0 THEN w[k - 1]
                            ELSE VisitAt(w[k - 1].list, k, p, w[k - 1].remain, allIn)]
           f == CHOOSE w : IsF(w)
<1>0. list \in Seq(Pool) /\ n \in Nat /\ n > 0
  BY DEF GoodList
<1>1. BetPools(list, p, amount, allIn) = f[n].list
  BY DEF BetPools, PoolWalk
<1>2. \E w : IsF(w)
  <2> DEFINE bad == {m \in 0..n : ~\E w : IsWalk(w, m)}
  <2>1. bad = {}
    <3> SUFFICES ASSUME bad # {} PROVE FALSE
      OBVIOUS
    <3>1. PICK m \in bad : \A y \in bad : m <= y
      <4>1. bad \in SUBSET Nat
        BY <1>0
      <4> HIDE DEF bad
      <4> QED BY <4>1, LeastElement
    <3> HIDE DEF Step, start
    <3>2. m # 0
      <4>1. IsWalk([k \in 0..0 |-> start], 0)
        OBVIOUS
      <4> QED BY <3>1, <4>1
    <3>3. m - 1 \in 0..n /\ m \in 1..n /\ ~(m <= m - 1)
      BY <1>0, <3>1, <3>2
    <3>4. PICK w : IsWalk(w, m - 1)
      BY <3>1, <3>3
    <3> DEFINE g == [k \in 0..m |-> IF k = m THEN Step(w[m - 1], m) ELSE w[k]]
    <3>5. ASSUME NEW k \in 0..m
          PROVE  g[k] = IF k = 0 THEN start ELSE Step(g[k - 1], k)
      <4>1. CASE k = m
        <5>1. g[k - 1] = w[m - 1]
          BY <3>3, <4>1
        <5> QED BY <3>3, <4>1, <5>1
      <4>2. CASE k # m
        <5>1. k \in 0..m - 1 /\ g[k] = w[k] /\ (k # 0 => k - 1 \in 0..m /\ g[k - 1] = w[k - 1])
          BY <3>3, <4>2
        <5>2. w[k] = IF k = 0 THEN start ELSE Step(w[k - 1], k)
          BY <3>4, <5>1
        <5> QED BY <5>1, <5>2
      <4> QED BY <4>1, <4>2
    <3>6. IsWalk(g, m)
      <4>1. g = [k \in 0..m |-> g[k]]
        OBVIOUS
      <4> HIDE DEF g
      <4> QED BY <3>5, <4>1
    <3> QED BY <3>1, <3>6
  <2>2. \E w : IsWalk(w, n)
    BY <1>0, <2>1
  <2> QED BY <2>2
<1>3. IsF(f)
  BY <1>2
<1>4. /\ f[0] = start
      /\ \A k \in 1..n : f[k] = Step(f[k - 1], k)
  <2>1. PICK w : w = f
    OBVIOUS
  <2>2. IsF(w)
    BY <1>3, <2>1
  <2>3. \A k \in 0..n : w[k] = IF k = 0 THEN start ELSE Step(w[k - 1], k)
    BY <2>2
  <2> HIDE DEF f, IsF, Step, start
  <2>4. 0 \in 0..n /\ \A k \in 1..n : k \in 0..n /\ k # 0
    BY <1>0
  <2> QED BY <2>1, <2>3, <2>4
<1> HIDE DEF f, IsF
<1> DEFINE Ok(k) ==
             /\ GoodList(f[k].list) /\ f[k].remain \in Nat
             /\ f[k].remain > 0 => Len(f[k].list) = n /\ k + 1 <= n /\ Filled(f[k].list, k + 1, p)
             /\ \A q \in Players :
                  /\ PlayerTotal(f[k].list, q) \in Nat
                  /\ PlayerTotal(f[k].list, q) + (IF q = p THEN f[k].remain ELSE 0)
                       = PlayerTotal(list, q) + (IF q = p THEN amount ELSE 0)
           bad == {k \in 0..n : ~Ok(k)}
<1>5. \A q \in Players : PlayerTotal(list, q) \in Nat
  BY <1>0, PlayerTotalType
<1>6. bad = {}
  <2> SUFFICES ASSUME bad # {} PROVE FALSE
    OBVIOUS
  <2>1. PICK m \in bad : \A y \in bad : m <= y
    <3>1. bad \in SUBSET Nat
      BY <1>0
    <3> HIDE DEF bad
    <3> QED BY <3>1, LeastElement
  <2>2. m # 0
    <3>1. Ok(0)
      <4>1. f[0].list = list /\ f[0].remain = amount
        BY <1>4
      <4>2. Filled(list, 0 + 1, p)
        BY DEF Filled
      <4> QED BY <1>0, <1>5, <4>1, <4>2
    <3> QED BY <2>1, <3>1
  <2>3. m - 1 \in 0..n /\ m \in 1..n /\ ~(m <= m - 1)
    BY <1>0, <2>1, <2>2
  <2>4. Ok(m - 1)
    BY <2>1, <2>3
  <2>5. f[m] = Step(f[m - 1], m)
    BY <1>4, <2>3
  <2> DEFINE a == f[m - 1]
  <2>6. CASE a.remain = 0
    <3>1. f[m] = f[m - 1]
      BY <2>5, <2>6
    <3>2. Ok(m)
      BY <2>4, <2>6, <3>1
    <3> QED BY <2>1, <3>2
  <2>7. CASE a.remain # 0
    <3>1. f[m] = VisitAt(a.list, m, p, a.remain, allIn)
      BY <2>5, <2>7
    <3>2. /\ GoodList(a.list) /\ m \in 1..Len(a.list) /\ Filled(a.list, m, p)
          /\ a.remain \in Nat \ {0} /\ Len(a.list) = n
      <4>1. (m - 1) + 1 = m /\ a.remain \in Nat /\ a.remain > 0
        BY <2>3, <2>4, <2>7
      <4> QED BY <2>3, <2>4, <4>1
    <3>3. PICK x, c : x = a.list /\ c = a.remain
      OBVIOUS
    <3>4. /\ GoodList(f[m].list)
          /\ f[m].remain \in Nat /\ f[m].remain <= c
          /\ f[m].remain > 0 => /\ Len(f[m].list) = Len(x) /\ m + 1 <= Len(x)
                                /\ Filled(f[m].list, m + 1, p)
          /\ \A q \in Players :
               /\ PlayerTotal(x, q) \in Nat /\ PlayerTotal(f[m].list, q) \in Nat
               /\ PlayerTotal(f[m].list, q) + (IF q = p THEN f[m].remain ELSE 0)
                    = PlayerTotal(x, q) + (IF q = p THEN c ELSE 0)
      <4> HIDE DEF a, bad, Ok
      <4>1. /\ GoodList(x) /\ m \in 1..Len(x) /\ Filled(x, m, p) /\ c \in Nat \ {0}
            /\ f[m] = VisitAt(x, m, p, c, allIn)
        BY <3>1, <3>2, <3>3
      <4> QED BY <4>1, VisitFacts
    <3>5. Ok(m)
      BY <2>4, <3>2, <3>3, <3>4
    <3> QED BY <2>1, <3>5
  <2> QED BY <2>6, <2>7
<1>7. Ok(n)
  BY <1>0, <1>6
<1>8. f[n].remain = 0
  BY <1>0, <1>7
<1> HIDE DEF Step, start, n, bad
<1> QED BY <1>1, <1>5, <1>7, <1>8

-----------------------------------------------------------------------------
(* Settlement.                                                              *)

\* The chips of a list of pools, pool by pool and player by player.
ChipsAt(list) == [k \in 1..Len(list) |-> PoolChips(list[k])]
StakesIn(list)  == [p \in Players |-> PlayerTotal(list, p)]
InPools(list, p) == [k \in 1..Len(list) |-> list[k].total[p]]

\* Following nextPool adds up what p has in every pool.
LEMMA PlayerTotalIsSumOfPools ==
  ASSUME NEW list \in Seq(Pool), NEW p \in Players
  PROVE  /\ InPools(list, p) \in [1..Len(list) -> Nat]
         /\ PlayerTotal(list, p) = SumFunctionOnSet(InPools(list, p), 1..Len(list))
<1>1. PICK n \in Nat : n = Len(list)
  OBVIOUS
<1>0. PICK D : D = 1..n
  OBVIOUS
<1>2. PICK f \in [D -> Nat] : f = InPools(list, p)
  <2>1. ASSUME NEW k \in D PROVE list[k].total[p] \in Nat
    <3>1. list[k] \in Pool
      BY <1>0, <1>1
    <3> QED BY <3>1 DEF Pool
  <2> QED BY <1>0, <1>1, <2>1 DEF InPools
<1>3. \A k \in D : f[k] = list[k].total[p]
  BY <1>0, <1>1, <1>2 DEF InPools
<1> DEFINE s == [k \in 0..n |-> SumFunctionOnSet(f, 1..k)]
<1>4. ASSUME NEW S \in SUBSET D
      PROVE  /\ SumFunctionOnSet(f, S) \in Nat /\ IsFiniteSet(S)
             /\ \A k \in S : SumFunctionOnSet(f, S) = f[k] + SumFunctionOnSet(f, S \ {k})
  <2>1. IsFiniteSet(D)
    BY <1>0, FS_Interval
  <2>2. IsFiniteSet(S)
    BY <2>1, FS_Subset
  <2> HIDE DEF s
  <2>3. SumFunctionOnSet(f, S) \in Nat
    BY <2>2, SumType
  <2>4. \A k \in S : SumFunctionOnSet(f, S) = f[k] + SumFunctionOnSet(f, S \ {k})
    BY <2>2, SumRemove
  <2> QED BY <2>2, <2>3, <2>4
<1>5. s[0] = 0
  <2>1. 1..0 = {} /\ IsFiniteSet({})
    BY FS_EmptySet
  <2>2. SumFunctionOnSet(f, {}) = 0
    BY <2>1, SumDefined
  <2> QED BY <2>1, <2>2
<1>6. ASSUME NEW k \in 1..n PROVE s[k] = s[k - 1] + list[k].total[p]
  <2>1. /\ k \in 0..n /\ k - 1 \in 0..n /\ k \in 1..k /\ (1..k) \ {k} = 1..k - 1
        /\ 1..k \in SUBSET D /\ 1..k - 1 \in SUBSET D /\ k \in D
    BY <1>0
  <2>2. SumFunctionOnSet(f, 1..k) = f[k] + SumFunctionOnSet(f, 1..k - 1)
    BY <1>4, <2>1
  <2>3. s[k] = f[k] + s[k - 1] /\ s[k - 1] \in Nat /\ f[k] \in Nat
    BY <1>4, <2>1, <2>2
  <2> HIDE DEF s
  <2> QED BY <1>3, <2>1, <2>3
<1>7. IsSum(list, p, s)
  <2>1. s \in [0..n -> Nat]
    <3>1. \A k \in 0..n : 1..k \in SUBSET D
      BY <1>0
    <3> QED BY <1>4, <3>1
  <2> HIDE DEF s
  <2> QED BY <1>1, <1>5, <1>6, <2>1 DEF IsSum
<1>8. s[n] = SumFunctionOnSet(f, 1..n)
  OBVIOUS
<1> HIDE DEF s
<1> QED BY <1>0, <1>1, <1>2, <1>7, <1>8, PlayerTotalIsSum

\* The chips of a pool are a natural number, and those of a list are the stakes
\* of the players.
LEMMA PoolChipsType ==
  ASSUME NEW pool \in Pool
  PROVE  PoolChips(pool) = SumFunctionOnSet(pool.total, Players) /\ PoolChips(pool) \in Nat
<1>1. PICK f \in [Players -> Nat] : f = pool.total
  BY DEF Pool
<1>2. PoolChips(pool) = SumFunctionOnSet(f, Players)
  BY <1>1 DEF PoolChips, SumChips, SumFunction
<1> QED BY <1>1, <1>2, SumType, PlayersAssumption

LEMMA PotIsStakes ==
  ASSUME NEW list \in Seq(Pool)
  PROVE  /\ ChipsAt(list) \in [1..Len(list) -> Nat]
         /\ StakesIn(list) \in [Players -> Nat]
         /\ PotChips(list) = SumFunctionOnSet(ChipsAt(list), 1..Len(list))
         /\ PotChips(list) = SumFunctionOnSet(StakesIn(list), Players)
<1>a. PICK E : E = 1..Len(list)
  OBVIOUS
<1>0. DOMAIN list = E /\ IsFiniteSet(E) /\ IsFiniteSet(Players)
      /\ \A k \in E : list[k] \in Pool
  BY <1>a, FS_Interval, PlayersAssumption
<1>1. PICK F : F = [p \in Players |-> InPools(list, p)]
  OBVIOUS
<1>2. F \in [Players -> [E -> Nat]]
  BY <1>a, <1>1, PlayerTotalIsSumOfPools
<1>3. PICK row \in [Players -> Nat] : row = StakesIn(list)
  BY PlayerTotalType DEF StakesIn
<1>4. PICK col \in [E -> Nat] : col = ChipsAt(list)
  BY <1>a, <1>0, PoolChipsType DEF ChipsAt
<1>5. \A p \in Players : row[p] = SumFunctionOnSet(F[p], E)
  BY <1>a, <1>1, <1>3, PlayerTotalIsSumOfPools DEF StakesIn
<1>6. ASSUME NEW k \in E
      PROVE  col[k] = SumFunctionOnSet([p \in Players |-> F[p][k]], Players)
  <2>1. list[k] \in Pool
    BY <1>0
  <2>2. [p \in Players |-> F[p][k]] = list[k].total
    BY <1>a, <1>1, <2>1 DEF InPools, Pool
  <2> QED BY <1>a, <1>4, <2>1, <2>2, PoolChipsType DEF ChipsAt
<1>7. SumFunctionOnSet(row, Players) = SumFunctionOnSet(col, E)
  <2>1. IsTable(F, Players, E, row, col)
    BY <1>0, <1>2, <1>5, <1>6 DEF IsTable
  <2> QED BY <2>1, SumExchange
<1>8. PotChips(list) = SumFunctionOnSet(col, E)
  BY <1>a, <1>0, <1>4 DEF PotChips, SumChips, SumFunction, ChipsAt
<1> QED BY <1>a, <1>3, <1>4, <1>7, <1>8

\* A division leaves over what it leaves over.
LEMMA DivideFacts ==
  ASSUME NEW a \in Nat, NEW b \in Nat \ {0}
  PROVE  /\ a \div b \in Nat /\ b * (a \div b) <= a
         /\ a <= b * (a \div b) + (b - 1)
OBVIOUS

\* The shares of one pool together are not more than the pool, and leave over less
\* than a chip for each winner (chipPool.finalize).
LEMMA SharesWithinChips ==
  ASSUME NEW pool \in Pool, NEW rank
  PROVE  LET shares == [p \in Players |-> PoolShare(pool, rank, p)]
         IN  /\ shares \in [Players -> Nat]
             /\ \A p \in Players : PoolShare(pool, rank, p) \in Nat
             /\ SumFunctionOnSet(shares, Players) <= PoolChips(pool)
             /\ PoolWinners(pool, rank) # {} =>
                  PoolChips(pool) <= SumFunctionOnSet(shares, Players)
                                       + (Cardinality(PoolWinners(pool, rank)) - 1)
<1>0. IsFiniteSet(Players) /\ PoolChips(pool) \in Nat
  BY PlayersAssumption, PoolChipsType
<1>1. PICK W \in SUBSET Players : W = PoolWinners(pool, rank)
  BY DEF PoolWinners
<1>2. IsFiniteSet(W) /\ Cardinality(W) \in Nat /\ (Cardinality(W) = 0 <=> W = {})
  BY <1>0, FS_Subset, FS_CardinalityType, FS_EmptySet
<1> DEFINE share == PoolChips(pool) \div Cardinality(W)
<1>3. \A p \in Players : PoolShare(pool, rank, p) = IF p \in W THEN share ELSE 0
  BY <1>1 DEF PoolShare
<1>4. CASE W = {}
  <2>1. PICK f : f = [p \in Players |-> PoolShare(pool, rank, p)]
    OBVIOUS
  <2>2. f \in [Players -> Nat] /\ \A p \in Players : f[p] = 0
    BY <1>3, <1>4, <2>1
  <2>3. SumFunctionOnSet(f, Players) = 0
    BY <1>0, <2>2, SumOfZeros
  <2> QED BY <1>0, <1>1, <1>4, <2>1, <2>2, <2>3
<1>5. CASE W # {}
  <2>1. PICK f : f = [p \in Players |-> PoolShare(pool, rank, p)]
    OBVIOUS
  <2>2. /\ share \in Nat /\ Cardinality(W) * share <= PoolChips(pool)
        /\ PoolChips(pool) <= Cardinality(W) * share + (Cardinality(W) - 1)
    BY <1>0, <1>2, <1>5, DivideFacts
  <2>3. PICK c \in Nat : c = share
    BY <2>2
  <2>4. f \in [Players -> Nat] /\ (\A p \in W : f[p] = c) /\ (\A p \in Players \ W : f[p] = 0)
    BY <1>3, <2>1, <2>3
  <2>5. SumFunctionOnSet(f, Players) = Cardinality(W) * c
    BY <1>0, <2>4, SumOfEqualTerms
  <2>6. PoolChips(pool) <= SumFunctionOnSet(f, Players) + (Cardinality(W) - 1)
    BY <2>2, <2>3, <2>5
  <2>7. SumFunctionOnSet(f, Players) <= PoolChips(pool)
    BY <2>2, <2>3, <2>5
  <2> QED BY <1>1, <2>1, <2>3, <2>4, <2>6, <2>7
<1> QED BY <1>4, <1>5

\* The shares of each pool together.
SharesOf(list, rank, shares) ==
  /\ shares \in [1..Len(list) -> Nat]
  /\ \A k \in 1..Len(list) :
       shares[k] = SumFunctionOnSet([p \in Players |-> PoolShare(list[k], rank, p)], Players)

\* What a hand pays out is what its pools pay, and not more than they hold
\* (termChipPool.finalize).
LEMMA FinalizeWithinPot ==
  ASSUME NEW list \in Seq(Pool), NEW rank
  PROVE  /\ Finalize(list, rank) \in [Players -> Nat]
         /\ SumChips(Finalize(list, rank)) \in Nat
         /\ SumChips(Finalize(list, rank)) <= PotChips(list)
         /\ \E shares : /\ SharesOf(list, rank, shares)
                        /\ SumChips(Finalize(list, rank))
                             = SumFunctionOnSet(shares, 1..Len(list))
<1>a. PICK E : E = 1..Len(list)
  OBVIOUS
<1> DEFINE Share(p, k) == PoolShare(list[k], rank, p)
<1>0. DOMAIN list = E /\ IsFiniteSet(E) /\ IsFiniteSet(Players)
      /\ \A k \in E : list[k] \in Pool
  BY <1>a, FS_Interval, PlayersAssumption
<1>1. PICK F : F = [p \in Players |-> [k \in E |-> Share(p, k)]]
  OBVIOUS
<1>2. ASSUME NEW k \in E
      PROVE  /\ [p \in Players |-> F[p][k]] \in [Players -> Nat]
             /\ SumFunctionOnSet([p \in Players |-> F[p][k]], Players) \in Nat
             /\ SumFunctionOnSet([p \in Players |-> F[p][k]], Players) <= ChipsAt(list)[k]
             /\ \A p \in Players : F[p][k] \in Nat
  <2>1. list[k] \in Pool /\ ChipsAt(list)[k] = PoolChips(list[k])
    BY <1>a, <1>0 DEF ChipsAt
  <2>2. PICK g : g = [p \in Players |-> F[p][k]]
    OBVIOUS
  <2>3. g = [p \in Players |-> PoolShare(list[k], rank, p)]
    BY <1>1, <2>2
  <2>4. g \in [Players -> Nat] /\ SumFunctionOnSet(g, Players) <= PoolChips(list[k])
    BY <2>1, <2>3, SharesWithinChips
  <2>5. SumFunctionOnSet(g, Players) \in Nat
    BY <1>0, <2>4, SumType
  <2>6. \A p \in Players : F[p][k] \in Nat
    BY <2>2, <2>4
  <2> QED BY <2>1, <2>2, <2>4, <2>5, <2>6
<1>3. F \in [Players -> [E -> Nat]]
  BY <1>1, <1>2
<1>4. PICK col \in [E -> Nat] :
        \A k \in E : col[k] = SumFunctionOnSet([p \in Players |-> F[p][k]], Players)
  <2> DEFINE col == [k \in E |-> SumFunctionOnSet([p \in Players |-> F[p][k]], Players)]
  <2>1. col \in [E -> Nat]
    BY <1>2
  <2> QED BY <2>1
<1>5. PICK row \in [Players -> Nat] : \A p \in Players : row[p] = SumFunctionOnSet(F[p], E)
  <2> DEFINE row == [p \in Players |-> SumFunctionOnSet(F[p], E)]
  <2>1. ASSUME NEW p \in Players PROVE SumFunctionOnSet(F[p], E) \in Nat
    <3>1. PICK f \in [E -> Nat] : f = F[p]
      BY <1>3
    <3> QED BY <1>0, <3>1, SumType
  <2>2. row \in [Players -> Nat]
    BY <2>1
  <2> QED BY <2>2
<1>6. Finalize(list, rank) = row
  <2>1. \A p \in Players :
          SumChips([k \in DOMAIN list |-> PoolShare(list[k], rank, p)]) = row[p]
    BY <1>0, <1>1, <1>5 DEF SumChips, SumFunction
  <2>2. row = [p \in Players |-> row[p]]
    OBVIOUS
  <2> QED BY <2>1, <2>2 DEF Finalize
<1>7. SumFunctionOnSet(row, Players) = SumFunctionOnSet(col, E)
  <2>1. IsTable(F, Players, E, row, col)
    BY <1>0, <1>3, <1>4, <1>5 DEF IsTable
  <2> QED BY <2>1, SumExchange
<1>8. SumFunctionOnSet(col, E) <= PotChips(list)
  <2>1. PICK c \in [E -> Nat] : c = ChipsAt(list)
    BY <1>a, PotIsStakes
  <2>2. \A k \in E : col[k] <= c[k]
    BY <1>2, <1>4, <2>1
  <2>3. SumFunctionOnSet(col, E) <= SumFunctionOnSet(c, E)
    <3> QED BY <1>0, <2>2, SumMonotonic
  <2> QED BY <1>a, <2>1, <2>3, PotIsStakes
<1>9. SumChips(row) = SumFunctionOnSet(row, Players)
  BY DEF SumChips, SumFunction
<1>10. SumChips(row) \in Nat
  BY <1>0, <1>9, SumType
<1>11. ASSUME NEW k \in E
       PROVE  col[k] = SumFunctionOnSet([p \in Players |-> PoolShare(list[k], rank, p)], Players)
  <2>1. [p \in Players |-> F[p][k]] = [p \in Players |-> PoolShare(list[k], rank, p)]
    BY <1>1
  <2> QED BY <1>4, <2>1
<1>12. SharesOf(list, rank, col)
  BY <1>a, <1>4, <1>11 DEF SharesOf
<1>13. SumChips(row) = SumFunctionOnSet(col, 1..Len(list))
  BY <1>a, <1>7, <1>9
<1>14. SumChips(row) <= PotChips(list)
  BY <1>7, <1>8, <1>9
<1> QED BY <1>6, <1>10, <1>12, <1>13, <1>14

\* A pool keeps no more than it may.
LEMMA SharesLeaveLittle ==
  ASSUME NEW pool \in Pool, NEW rank \in [Players -> Nat]
  PROVE  LET shares == [p \in Players |-> PoolShare(pool, rank, p)]
         IN  /\ LeftOver(pool, rank) \in Nat
             /\ PoolChips(pool) <= SumFunctionOnSet(shares, Players) + LeftOver(pool, rank)
<1>0. IsFiniteSet(Players) /\ PoolChips(pool) \in Nat
  BY PlayersAssumption, PoolChipsType
<1>1. PICK J \in SUBSET Players : J = {p \in Players : rank[p] > 0 /\ pool.total[p] > 0}
  OBVIOUS
<1>2. PICK W \in SUBSET J : W = PoolWinners(pool, rank)
  BY <1>1 DEF PoolWinners
<1>3. PICK f \in [Players -> Nat] : f = [p \in Players |-> PoolShare(pool, rank, p)]
  BY SharesWithinChips
<1>4. SumFunctionOnSet(f, Players) \in Nat
  BY <1>0, SumType
<1>5. CASE J = {}
  <2>1. LeftOver(pool, rank) = PoolChips(pool)
    BY <1>1, <1>5 DEF LeftOver
  <2> QED BY <1>0, <1>3, <1>4, <2>1
<1>6. CASE J # {}
  <2>1. IsFiniteSet(J) /\ IsFiniteSet(W) /\ Cardinality(J) \in Nat \ {0}
        /\ Cardinality(W) \in Nat /\ Cardinality(W) <= Cardinality(J)
    BY <1>0, <1>6, FS_Subset, FS_CardinalityType, FS_EmptySet
  <2>2. W # {}
    <3>1. PICK R \in SUBSET Nat : R = {rank[p] : p \in J}
      OBVIOUS
    <3>2. R # {}
      BY <1>6, <3>1
    <3>3. PICK r \in R : \A y \in R : r <= y
      BY <3>2, LeastElement
    <3>4. PICK p \in J : rank[p] = r
      BY <3>1
    <3>5. \A q \in J : rank[p] <= rank[q]
      BY <3>1, <3>3, <3>4
    <3> QED BY <1>1, <1>2, <3>5 DEF PoolWinners
  <2>3. PoolChips(pool) <= SumFunctionOnSet(f, Players) + (Cardinality(W) - 1)
    BY <1>2, <1>3, <2>2, SharesWithinChips
  <2>4. LeftOver(pool, rank) = Cardinality(J) - 1
    BY <1>1, <1>6 DEF LeftOver
  <2>5. Cardinality(W) - 1 <= Cardinality(J) - 1 /\ Cardinality(J) - 1 \in Nat
    BY <2>1
  <2>6. PoolChips(pool) <= SumFunctionOnSet(f, Players) + (Cardinality(J) - 1)
    BY <1>0, <1>4, <2>1, <2>3, <2>5
  <2> QED BY <1>3, <2>4, <2>5, <2>6
<1> QED BY <1>5, <1>6

\* Adding up two stacks at once.
LEMMA SumOfBoth ==
  ASSUME NEW D, IsFiniteSet(D), NEW f \in [D -> Nat], NEW g \in [D -> Nat]
  PROVE  SumFunctionOnSet([x \in D |-> f[x] + g[x]], D)
           = SumFunctionOnSet(f, D) + SumFunctionOnSet(g, D)
<1>1. PICK h \in [D -> Nat] : h = [x \in D |-> f[x] + g[x]]
  <2>1. [x \in D |-> f[x] + g[x]] \in [D -> Nat]
    OBVIOUS
  <2> QED BY <2>1, Zenon
<1>2. \A x \in D : h[x] = f[x] + g[x]
  BY <1>1
<1>3. D \in SUBSET D
  OBVIOUS
<1>4. SumFunctionOnSet(h, D) = SumFunctionOnSet(f, D) + SumFunctionOnSet(g, D)
  BY <1>2, <1>3, SumOfSums
<1> QED BY <1>1, <1>4

\* What a hand does not pay out is what its pools may keep.
LEMMA FinalizeKeepsLittle ==
  ASSUME NEW list \in Seq(Pool), NEW rank \in [Players -> Nat]
  PROVE  PotChips(list) <= SumChips(Finalize(list, rank))
                             + SumChips([k \in DOMAIN list |-> LeftOver(list[k], rank)])
<1>a. PICK E : E = 1..Len(list)
  OBVIOUS
<1>0. DOMAIN list = E /\ IsFiniteSet(E) /\ \A k \in E : list[k] \in Pool
  BY <1>a, FS_Interval
<1>1. PICK pay \in [E -> Nat] :
        /\ SharesOf(list, rank, pay)
        /\ SumChips(Finalize(list, rank)) = SumFunctionOnSet(pay, E)
  BY <1>a, FinalizeWithinPot DEF SharesOf
<1>2. PICK kept \in [E -> Nat] : kept = [k \in E |-> LeftOver(list[k], rank)]
  BY <1>0, SharesLeaveLittle
<1>3. PICK all \in [E -> Nat] : all = ChipsAt(list)
  BY <1>a, PotIsStakes
<1>4. PICK sum \in [E -> Nat] : sum = [k \in E |-> pay[k] + kept[k]]
  <2>1. \A k \in E : pay[k] \in Nat /\ kept[k] \in Nat
    OBVIOUS
  <2>2. \A k \in E : pay[k] + kept[k] \in Nat
    BY <2>1
  <2>3. [k \in E |-> pay[k] + kept[k]] \in [E -> Nat]
    BY <2>2
  <2> QED BY <2>3, Zenon
<1>5. ASSUME NEW k \in E PROVE all[k] <= sum[k]
  <2>1. list[k] \in Pool /\ all[k] = PoolChips(list[k])
    BY <1>a, <1>0, <1>3 DEF ChipsAt
  <2>2. pay[k] = SumFunctionOnSet([p \in Players |-> PoolShare(list[k], rank, p)], Players)
    BY <1>a, <1>1 DEF SharesOf
  <2>3. PoolChips(list[k]) <= pay[k] + LeftOver(list[k], rank)
    BY <2>1, <2>2, SharesLeaveLittle
  <2>4. kept[k] = LeftOver(list[k], rank) /\ sum[k] = pay[k] + kept[k]
    BY <1>2, <1>4
  <2> QED BY <2>1, <2>3, <2>4
<1>6. SumFunctionOnSet(all, E) <= SumFunctionOnSet(sum, E)
  BY <1>0, <1>5, SumMonotonic
<1>7. SumFunctionOnSet(sum, E) = SumFunctionOnSet(pay, E) + SumFunctionOnSet(kept, E)
  <2>1. SumFunctionOnSet([k \in E |-> pay[k] + kept[k]], E)
          = SumFunctionOnSet(pay, E) + SumFunctionOnSet(kept, E)
    BY <1>0, SumOfBoth
  <2> QED BY <1>4, <2>1
<1>8. SumChips([k \in DOMAIN list |-> LeftOver(list[k], rank)]) = SumFunctionOnSet(kept, E)
  BY <1>0, <1>2 DEF SumChips, SumFunction
<1>9. PotChips(list) = SumFunctionOnSet(all, E)
  BY <1>a, <1>3, PotIsStakes
<1> QED BY <1>1, <1>6, <1>7, <1>8, <1>9

\* Who is in a pool has filled every pool in front of it.
LEMMA InAPoolFilledBefore ==
  ASSUME NEW list, GoodList(list), NEW q \in Players, NEW k \in 1..Len(list),
         list[k].total[q] > 0, NEW j \in 1..k - 1
  PROVE  list[j].total[q] = list[j].max
<1> DEFINE n == Len(list)
           bad == {d \in 1..k - 1 : list[k - d].total[q] # list[k - d].max}
<1>0. n \in Nat /\ \A i \in 1..n : list[i] \in Pool /\ (n > 1 => list[i].max > 0)
  <2>1. list \in Seq(Pool)
    BY DEF GoodList
  <2>2. \A i \in 1..n : n > 1 => list[i].max > 0
    BY DEF GoodList
  <2> QED BY <2>1, <2>2
<1>1. SUFFICES ASSUME bad # {} PROVE FALSE
  <2>1. k - j \in 1..k - 1 /\ k - (k - j) = j
    BY <1>0
  <2>2. list[k - (k - j)].total[q] = list[k - (k - j)].max
    BY <1>1, <2>1
  <2> QED BY <2>1, <2>2
<1>2. PICK d \in bad : \A y \in bad : d <= y
  <2>1. bad \in SUBSET Nat
    BY <1>0
  <2> HIDE DEF bad
  <2> QED BY <1>1, <2>1, LeastElement
<1>3. d \in 1..k - 1 /\ list[k - d].total[q] # list[k - d].max
  BY <1>2
<1>4. list[k - d + 1].total[q] > 0
  <2>1. CASE d = 1
    <3>1. k - d + 1 = k
      BY <1>0, <2>1
    <3> QED BY <3>1
  <2>2. CASE d # 1
    <3>1. d - 1 \in 1..k - 1 /\ ~(d <= d - 1) /\ k - (d - 1) = k - d + 1
      BY <1>0, <1>3, <2>2
    <3>2. d - 1 \notin bad
      BY <1>2, <3>1
    <3>3. list[k - (d - 1)].total[q] = list[k - (d - 1)].max
      BY <3>1, <3>2
    <3>4. k - d + 1 \in 1..n /\ n > 1
      BY <1>0, <1>3
    <3>5. list[k - d + 1].max > 0
      BY <1>0, <3>4
    <3> QED BY <3>1, <3>3, <3>5
  <2> QED BY <2>1, <2>2
<1>5. list[k - d].total[q] = list[k - d].max
  <2>1. k - d \in 1..n - 1
    BY <1>0, <1>3
  <2> QED BY <1>4, <2>1 DEF GoodList, Layers
<1> QED BY <1>3, <1>5

\* Of two players the one who has staked at least as much has at least as much in
\* every pool: the stakes of a layered list fill it from the front.
LEMMA StakesCompare ==
  ASSUME NEW list, GoodList(list), NEW p \in Players, NEW q \in Players,
         PlayerTotal(list, p) >= PlayerTotal(list, q), NEW k \in 1..Len(list)
  PROVE  list[k].total[q] <= list[k].total[p]
<1>0. PICK D : D = 1..Len(list)
  OBVIOUS
<1>1. /\ IsFiniteSet(D) /\ k \in D
      /\ \A i \in D : /\ list[i].total[p] \in Nat /\ list[i].total[q] \in Nat
                      /\ list[i].total[q] <= list[i].max /\ list[i].total[p] <= list[i].max
                      /\ list[i].max \in Nat
  <2>1. list \in Seq(Pool) /\ \A i \in D : Sound(list[i])
    BY <1>0 DEF GoodList
  <2>2. IsFiniteSet(D) /\ \A i \in D : list[i] \in Pool
    BY <1>0, <2>1, FS_Interval
  <2> QED BY <1>0, <2>1, <2>2 DEF Sound, Pool
<1>2. /\ InPools(list, p) \in [D -> Nat] /\ InPools(list, q) \in [D -> Nat]
      /\ PlayerTotal(list, p) = SumFunctionOnSet(InPools(list, p), D)
      /\ PlayerTotal(list, q) = SumFunctionOnSet(InPools(list, q), D)
  <2>1. list \in Seq(Pool)
    BY DEF GoodList
  <2> QED BY <1>0, <2>1, PlayerTotalIsSumOfPools
<1>3. PICK f, g : f = InPools(list, p) /\ g = InPools(list, q)
  OBVIOUS
<1>4. \A i \in D : f[i] = list[i].total[p] /\ g[i] = list[i].total[q]
  BY <1>0, <1>3 DEF InPools
<1>5. SUFFICES ASSUME list[k].total[q] > list[k].total[p] PROVE FALSE
  BY <1>1
<1>6. ASSUME NEW j \in D PROVE f[j] <= g[j]
  <2>1. CASE j < k
    <3>1. list[k].total[q] > 0
      BY <1>1, <1>5
    <3>2. j \in 1..k - 1
      BY <1>0, <2>1
    <3>3. list[j].total[q] = list[j].max
      BY <3>1, <3>2, InAPoolFilledBefore
    <3> QED BY <1>1, <1>4, <3>3
  <2>2. CASE j = k
    BY <1>1, <1>4, <1>5, <2>2
  <2>3. CASE j > k
    <3>1. k \in 1..j - 1 /\ j \in 1..Len(list)
      BY <1>0, <2>3
    <3>2. list[j].total[p] > 0 => list[k].total[p] = list[k].max
      BY <3>1, InAPoolFilledBefore
    <3>3. ~(list[j].total[p] > 0)
      BY <1>1, <1>5, <3>2
    <3> QED BY <1>1, <1>4, <3>3
  <2> QED BY <1>0, <2>1, <2>2, <2>3
<1>7. SumFunctionOnSet(f, D) < SumFunctionOnSet(g, D)
  <2>1. f[k] < g[k]
    BY <1>1, <1>4, <1>5
  <2>2. ASSUME NEW S, NEW e \in S, IsFiniteSet(S), NEW u \in [S -> Nat], NEW w \in [S -> Nat],
               \A i \in S : u[i] <= w[i], u[e] < w[e]
        PROVE  SumFunctionOnSet(u, S) < SumFunctionOnSet(w, S)
    BY ONLY <2>2, SumStrict
  <2>3. f \in [D -> Nat] /\ g \in [D -> Nat]
    BY <1>2, <1>3
  <2> QED BY <1>1, <1>6, <2>1, <2>2, <2>3
<1>8. SumFunctionOnSet(f, D) \in Nat /\ SumFunctionOnSet(g, D) \in Nat
  <2>1. list \in Seq(Pool)
    BY DEF GoodList
  <2> QED BY <1>2, <1>3, <2>1, PlayerTotalType
<1> QED BY <1>2, <1>3, <1>7, <1>8

\* A player who has at least as much in a pool as another one, and a hand that is
\* not worse, gets at least the other one's share of it; with a better hand he
\* leaves the other one nothing (chipPool.matchWinners).
LEMMA SharesCompare ==
  ASSUME NEW pool \in Pool, NEW rank \in [Players -> Nat], NEW p \in Players, NEW q \in Players,
         rank[p] > 0, rank[p] <= rank[q], pool.total[q] <= pool.total[p]
  PROVE  /\ rank[p] < rank[q] => PoolShare(pool, rank, q) = 0
         /\ rank[p] = rank[q] => PoolShare(pool, rank, q) <= PoolShare(pool, rank, p)
<1>0. pool.total[q] \in Nat /\ pool.total[p] \in Nat /\ \A x \in Players : rank[x] \in Nat
  BY DEF Pool
<1>1. \A x \in Players : PoolShare(pool, rank, x) \in Nat
  BY SharesWithinChips
<1>2. CASE q \notin PoolWinners(pool, rank)
  <2>1. PoolShare(pool, rank, q) = 0
    BY <1>2 DEF PoolShare
  <2>2. PoolShare(pool, rank, p) \in Nat
    BY <1>1
  <2> QED BY <2>1, <2>2
<1>3. CASE q \in PoolWinners(pool, rank)
  <2>1. /\ rank[q] > 0 /\ pool.total[q] > 0
        /\ \A x \in Players : rank[x] > 0 /\ pool.total[x] > 0 => rank[q] <= rank[x]
    BY <1>3 DEF PoolWinners
  <2>2. pool.total[p] > 0
    BY <1>0, <2>1
  <2>3. rank[p] = rank[q]
    BY <1>0, <2>1, <2>2
  <2>4. p \in PoolWinners(pool, rank)
    BY <2>1, <2>2, <2>3 DEF PoolWinners
  <2>5. PoolShare(pool, rank, p) = PoolShare(pool, rank, q)
    BY <1>3, <2>4 DEF PoolShare
  <2>6. PoolShare(pool, rank, p) \in Nat
    BY <1>1
  <2> QED BY <1>0, <2>3, <2>5, <2>6
<1> QED BY <1>2, <1>3

\* Settlement follows the hands: who is beaten by somebody with at least his stake
\* gets nothing (termChipPool.finalize).
LEMMA WinsFollowHands ==
  ASSUME NEW list, GoodList(list), NEW rank \in [Players -> Nat], NEW p \in Players,
         NEW q \in Players, PlayerTotal(list, p) >= PlayerTotal(list, q),
         rank[p] > 0, rank[p] <= rank[q]
  PROVE  /\ rank[p] < rank[q] => Finalize(list, rank)[q] = 0
         /\ rank[p] = rank[q] => Finalize(list, rank)[q] <= Finalize(list, rank)[p]
<1>0. PICK D : D = DOMAIN list
  OBVIOUS
<1>1. IsFiniteSet(D) /\ D = 1..Len(list) /\ \A k \in D : list[k] \in Pool
  <2>1. list \in Seq(Pool)
    BY DEF GoodList
  <2> QED BY <1>0, <2>1, FS_Interval
<1>2. \A k \in D : list[k].total[q] <= list[k].total[p]
  BY <1>1, StakesCompare
<1>3. ASSUME NEW k \in D
      PROVE  /\ rank[p] < rank[q] => PoolShare(list[k], rank, q) = 0
             /\ rank[p] = rank[q] => PoolShare(list[k], rank, q) <= PoolShare(list[k], rank, p)
             /\ \A x \in Players : PoolShare(list[k], rank, x) \in Nat
  <2>1. PICK pool \in Pool : pool = list[k] /\ pool.total[q] <= pool.total[p]
    BY <1>1, <1>2
  <2>2. /\ rank[p] < rank[q] => PoolShare(pool, rank, q) = 0
        /\ rank[p] = rank[q] => PoolShare(pool, rank, q) <= PoolShare(pool, rank, p)
    BY <2>1, SharesCompare
  <2>3. \A x \in Players : PoolShare(pool, rank, x) \in Nat
    BY SharesWithinChips
  <2> QED BY <2>1, <2>2, <2>3
<1> DEFINE of(x) == [k \in D |-> PoolShare(list[k], rank, x)]
<1>4. \A x \in Players : of(x) \in [D -> Nat] /\ Finalize(list, rank)[x] = SumFunctionOnSet(of(x), D)
  BY <1>0, <1>3 DEF Finalize, SumChips, SumFunction
<1>5. PICK f, g : f = of(p) /\ g = of(q)
  OBVIOUS
<1>6. f \in [D -> Nat] /\ g \in [D -> Nat]
  BY <1>4, <1>5
<1>7. ASSUME NEW S, IsFiniteSet(S), NEW u \in [S -> Nat], NEW w \in [S -> Nat]
      PROVE  /\ (\A k \in S : w[k] = 0) => SumFunctionOnSet(w, S) = 0
             /\ (\A k \in S : w[k] <= u[k]) => SumFunctionOnSet(w, S) <= SumFunctionOnSet(u, S)
  <2>1. (\A k \in S : w[k] = 0) => SumFunctionOnSet(w, S) = 0
    BY ONLY <1>7, SumOfZeros
  <2>2. (\A k \in S : w[k] <= u[k]) => SumFunctionOnSet(w, S) <= SumFunctionOnSet(u, S)
    BY ONLY <1>7, SumMonotonic
  <2> QED BY <2>1, <2>2
<1>8. /\ (\A k \in D : g[k] = 0) => SumFunctionOnSet(g, D) = 0
      /\ (\A k \in D : g[k] <= f[k]) => SumFunctionOnSet(g, D) <= SumFunctionOnSet(f, D)
  BY <1>1, <1>6, <1>7
<1>9. CASE rank[p] < rank[q]
  <2>1. \A k \in D : g[k] = 0
    BY <1>3, <1>5, <1>9
  <2> QED BY <1>4, <1>5, <1>8, <1>9, <2>1
<1>10. CASE rank[p] = rank[q]
  <2>1. \A k \in D : g[k] <= f[k]
    BY <1>3, <1>5, <1>10
  <2> QED BY <1>4, <1>5, <1>8, <1>10, <2>1
<1> QED BY <1>9, <1>10

-----------------------------------------------------------------------------
(* What a hand can pay.                                                     *)

\* A pool pays nobody outside the ranking, so neither does the list.
LEMMA OutOfRankingUnpaid ==
  ASSUME NEW list \in Seq(Pool), NEW rank, NEW p \in Players, rank[p] = 0
  PROVE  Finalize(list, rank)[p] = 0
<1>1. PICK E : E = 1..Len(list)
  OBVIOUS
<1>2. DOMAIN list = E /\ IsFiniteSet(E)
  BY <1>1, FS_Interval
<1>3. PICK f : f = [k \in E |-> PoolShare(list[k], rank, p)]
  OBVIOUS
<1>4. ASSUME NEW k \in E PROVE PoolShare(list[k], rank, p) = 0
  <2>1. p \notin PoolWinners(list[k], rank)
    BY DEF PoolWinners
  <2> QED BY <2>1 DEF PoolShare
<1>5. f \in [E -> Nat] /\ \A k \in E : f[k] = 0
  BY <1>3, <1>4
<1>6. SumFunctionOnSet(f, E) = 0
  BY <1>2, <1>5, SumOfZeros
<1> QED BY <1>2, <1>3, <1>6 DEF Finalize, SumChips, SumFunction

\* Chips in hand and in the pools are together not more than what was brought in
\* if they are not for any player.
LEMMA ChipsCovered ==
  ASSUME NEW list \in Seq(Pool), NEW hand \in [Players -> Nat], NEW brought \in [Players -> Nat],
         \A p \in Players : hand[p] + PlayerTotal(list, p) <= brought[p]
  PROVE  /\ SumChips(hand) \in Nat /\ PotChips(list) \in Nat /\ SumChips(brought) \in Nat
         /\ SumChips(hand) + PotChips(list) <= SumChips(brought)
<1>0. IsFiniteSet(Players)
  BY PlayersAssumption
<1>1. PICK stakes \in [Players -> Nat] : stakes = StakesIn(list)
  BY PotIsStakes
<1>2. PICK both : both = [p \in Players |-> hand[p] + stakes[p]]
  OBVIOUS
<1>3. both \in [Players -> Nat] /\ \A p \in Players : both[p] = hand[p] + stakes[p]
  BY <1>2
<1>4. \A p \in Players : both[p] <= brought[p]
  BY <1>1, <1>3 DEF StakesIn
<1>5. SumFunctionOnSet(both, Players)
        = SumFunctionOnSet(hand, Players) + SumFunctionOnSet(stakes, Players)
  BY <1>0, <1>2, SumOfBoth
<1>6. SumFunctionOnSet(both, Players) <= SumFunctionOnSet(brought, Players)
  BY <1>0, <1>3, <1>4, SumMonotonic
<1>7. /\ SumFunctionOnSet(hand, Players) \in Nat /\ SumFunctionOnSet(stakes, Players) \in Nat
      /\ SumFunctionOnSet(brought, Players) \in Nat
  BY <1>0, SumType
<1>8. PotChips(list) = SumFunctionOnSet(stakes, Players)
  BY <1>1, PotIsStakes
<1>9. SumChips(hand) = SumFunctionOnSet(hand, Players)
      /\ SumChips(brought) = SumFunctionOnSet(brought, Players)
  BY DEF SumChips, SumFunction
<1> QED BY <1>5, <1>6, <1>7, <1>8, <1>9

\* Fewer chips of everybody are fewer chips, and nothing of everybody is nothing.
LEMMA FewerChips ==
  ASSUME NEW f \in [Players -> Nat], NEW g \in [Players -> Nat], \A p \in Players : f[p] <= g[p]
  PROVE  SumChips(f) \in Nat /\ SumChips(g) \in Nat /\ SumChips(f) <= SumChips(g)
<1>1. PICK S : S = Players /\ IsFiniteSet(S) /\ S \in SUBSET Players
  BY PlayersAssumption
<1>2. SumFunctionOnSet(f, S) \in Nat /\ SumFunctionOnSet(g, S) \in Nat
  BY <1>1, SumType
<1>3. SumFunctionOnSet(f, S) <= SumFunctionOnSet(g, S)
  BY <1>1, SumMonotonic
<1>4. SumChips(f) = SumFunctionOnSet(f, S) /\ SumChips(g) = SumFunctionOnSet(g, S)
  BY <1>1 DEF SumChips, SumFunction
<1> QED BY <1>2, <1>3, <1>4

LEMMA NoChips ==
  ASSUME NEW f \in [Players -> Nat], \A p \in Players : f[p] = 0
  PROVE  SumChips(f) = 0
<1>1. SumFunctionOnSet(f, Players) = 0
  BY PlayersAssumption, SumOfZeros
<1> QED BY <1>1 DEF SumChips, SumFunction

-----------------------------------------------------------------------------
(* Hands.  The weights of the analyst are sums; HandRank keeps what stands  *)
(* before each multiplier.  Nothing is lost by it, and the three ways the   *)
(* code compares two hands agree and tell what the tuples do.               *)

\* faceWeightMulti summed over quanZhong (10, 10^3, 10^6, 10^10, 10^15), the
\* largest first, and the multiplier 1 that only straights use.
Sum6(a, b, c, d, e, f) ==
  a * 1000000000000000 + b * 10000000000 + c * 1000000 + d * 1000 + e * 10 + f

Weight(w) == Sum6(w[1], w[2], w[3], w[4], w[5], w[6])

\* Five places of one weight against those of another.
Ahead(a, b, c, d, e, r, s, t, u, v) ==
  \/ a > r
  \/ a = r /\ b > s
  \/ a = r /\ b = s /\ c > t
  \/ a = r /\ b = s /\ c = t /\ d > u
  \/ a = r /\ b = s /\ c = t /\ d = u /\ e > v

\* The places below one that differs can never make up for it: 13 times the
\* smaller multipliers together is less than the next one (the comment of
\* weightOfDZ, hand_analyst2.go:410).
LEMMA SumsCompare ==
  ASSUME NEW a \in 0..13, NEW b \in 0..13, NEW c \in 0..13, NEW d \in 0..13, NEW e \in 0..13,
         NEW r \in 0..13, NEW s \in 0..13, NEW t \in 0..13, NEW u \in 0..13, NEW v \in 0..13
  PROVE  (Sum6(a, b, c, d, e, 0) > Sum6(r, s, t, u, v, 0))
           <=> Ahead(a, b, c, d, e, r, s, t, u, v)
BY SMTT(60) DEF Sum6, Ahead

\* Of two hands of one kind the one with the greater sum is the one that is
\* above at the first place where they differ: BiggerThan and Match compare
\* sums, RankIsRight compares places.
THEOREM WeightsCompare ==
  ASSUME NEW v \in [1..6 -> Faces \union {0}], NEW w \in [1..6 -> Faces \union {0}],
         OneScale(v, w)
  PROVE  (Weight(v) > Weight(w)) <=> Above(v, w)
<1> DEFINE Decided == Ahead(v[1], v[2], v[3], v[4], v[5], w[1], w[2], w[3], w[4], w[5])
<1>1. \A i \in 1..6 : v[i] \in 0..13 /\ w[i] \in 0..13
  BY DEF Faces
<1>2. CASE v[6] = 0 /\ w[6] = 0
  <2>1. (Weight(v) > Weight(w)) <=> Decided
    <3>1. /\ v[1] \in 0..13 /\ v[2] \in 0..13 /\ v[3] \in 0..13 /\ v[4] \in 0..13 /\ v[5] \in 0..13
          /\ w[1] \in 0..13 /\ w[2] \in 0..13 /\ w[3] \in 0..13 /\ w[4] \in 0..13 /\ w[5] \in 0..13
      BY <1>1
    <3>2. /\ Weight(v) = Sum6(v[1], v[2], v[3], v[4], v[5], 0)
          /\ Weight(w) = Sum6(w[1], w[2], w[3], w[4], w[5], 0)
      BY <1>2 DEF Weight
    <3>3. (Sum6(v[1], v[2], v[3], v[4], v[5], 0) > Sum6(w[1], w[2], w[3], w[4], w[5], 0))
            <=> Decided
      BY <3>1, SumsCompare, Zenon
    <3> QED BY <3>2, <3>3, Zenon
  <2>2. Above(v, w) => Decided
    <3> SUFFICES ASSUME NEW i \in 1..6, v[i] > w[i], \A j \in 1..(i - 1) : v[j] = w[j]
                 PROVE  Decided
      BY DEF Above
    <3>1. i # 6
      BY <1>2
    <3>2. i \in {1, 2, 3, 4, 5}
      BY <3>1
    <3> QED BY <3>2 DEF Ahead
  <2>3. Decided => Above(v, w)
    BY DEF Above, Ahead
  <2> QED BY <2>1, <2>2, <2>3
<1>3. CASE \A i \in 1..5 : v[i] = 0 /\ w[i] = 0
  <2>1. /\ v[1] = 0 /\ v[2] = 0 /\ v[3] = 0 /\ v[4] = 0 /\ v[5] = 0
        /\ w[1] = 0 /\ w[2] = 0 /\ w[3] = 0 /\ w[4] = 0 /\ w[5] = 0
    BY <1>3
  <2>2. Weight(v) = v[6] /\ Weight(w) = w[6]
    BY <1>1, <2>1 DEF Weight, Sum6
  <2>3. Above(v, w) <=> v[6] > w[6]
    BY <1>1, <1>3 DEF Above
  <2> QED BY <2>2, <2>3
<1> QED BY <1>2, <1>3 DEF OneScale

\* The three comparisons agree, and Cmp orders the hands: neither of two hands is
\* larger than the other only if they are worth the same, and what is larger than
\* a larger hand is larger (rankPlayers puts players of one rank together by it).
THEOREM ComparisonsAgree ==
  ASSUME NEW g \in HandOf, NEW h \in HandOf, NEW k \in HandOf
  PROVE  /\ Cmp(g, h) = 1 <=> BiggerThan(g, h)
         /\ Cmp(g, h) = 0 <=> EqualsTo(g, h)
         /\ Match(g, h) = 1 <=> Cmp(g, h) = 1
         /\ Match(g, h) = 2 <=> Cmp(h, g) = 1
         /\ Cmp(h, g) = -Cmp(g, h)
         /\ Cmp(g, h) >= 0 /\ Cmp(h, k) >= 0 => Cmp(g, k) >= 0
         /\ Cmp(g, h) = 0 /\ Cmp(h, k) = 0 => Cmp(g, k) = 0
<1>1. /\ g.type \in Int /\ h.type \in Int /\ k.type \in Int
      /\ g.weight \in Nat /\ h.weight \in Nat /\ k.weight \in Nat
  BY DEF HandOf, HandType, DZ, HJTHS
<1> QED BY <1>1 DEF Cmp, Match, BiggerThan, EqualsTo

\* Two hands as the analyst finds them: Cmp puts first the one of the larger kind
\* and, of one kind, the one that is above at the first place where they differ.
\* (TypeOK of HandRank has it that hands of one kind weigh on one scale.)
THEOREM CmpByPlaces ==
  ASSUME NEW v \in [1..6 -> Faces \union {0}], NEW w \in [1..6 -> Faces \union {0}],
         NEW t \in HandType, NEW u \in HandType, t = u => OneScale(v, w)
  PROVE  Cmp([type |-> t, weight |-> Weight(v)], [type |-> u, weight |-> Weight(w)]) = 1
           <=> t > u \/ (t = u /\ Above(v, w))
<1>1. t \in Int /\ u \in Int
  BY DEF HandType, DZ, HJTHS
<1>2. Weight(v) \in Int /\ Weight(w) \in Int
  <2>1. \A i \in 1..6 : v[i] \in Int /\ w[i] \in Int
    BY DEF Faces
  <2> QED BY <2>1 DEF Weight, Sum6
<1>3. t = u => ((Weight(v) > Weight(w)) <=> Above(v, w))
  BY WeightsCompare
<1> HIDE DEF Weight, Above
<1> QED BY <1>1, <1>2, <1>3 DEF Cmp

-----------------------------------------------------------------------------
(* Sets of places.                                                           *)

\* A non-empty set of places has a last one and a first one.
LEMMA MaxOfPlaces ==
  ASSUME NEW n \in Nat, NEW S \in SUBSET (0..n), S # {}
  PROVE  Max(S) \in S /\ \A y \in S : y <= Max(S)
<1> DEFINE T == {n - x : x \in S}
<1>1. PICK z \in T : \A y \in T : z <= y
  <2>1. \A x \in S : n - x \in Nat
    OBVIOUS
  <2>2. T \in SUBSET Nat /\ T # {}
    BY <2>1
  <2> HIDE DEF T
  <2> QED BY <2>2, LeastElement
<1>2. PICK x \in S : z = n - x
  BY <1>1
<1>3. \A y \in S : x >= y
  <2>1. \A y \in S : n - x <= n - y
    BY <1>1, <1>2
  <2> QED BY <2>1
<1> QED BY <1>3 DEF Max

LEMMA MinOfPlaces ==
  ASSUME NEW S \in SUBSET Nat, S # {}
  PROVE  Min(S) \in S /\ \A y \in S : Min(S) <= y
BY LeastElement DEF Min

\* How many of a set of places lie before each of them numbers them, without a
\* gap, from nothing up.
LEMMA PlacesAreNumbered ==
  ASSUME NEW n \in Nat, NEW S \in SUBSET (1..n)
  PROVE  LET before(i) == Cardinality({j \in S : j < i})
         IN  /\ IsFiniteSet(S) /\ Cardinality(S) \in Nat
             /\ \A i \in S : before(i) \in 0..(Cardinality(S) - 1)
             /\ \A i, j \in S : i < j => before(i) < before(j)
             /\ \A m \in 0..(Cardinality(S) - 1) : \E i \in S : before(i) = m
<1> DEFINE below(i) == {j \in S : j < i}
           before(i) == Cardinality(below(i))
<1>1. IsFiniteSet(S) /\ Cardinality(S) \in Nat
  <2>1. IsFiniteSet(1..n)
    BY FS_Interval
  <2> QED BY <2>1, FS_Subset, FS_CardinalityType
<1>2. \A i \in S : IsFiniteSet(below(i)) /\ before(i) \in Nat
  <2>1. \A i \in S : below(i) \in SUBSET S
    OBVIOUS
  <2> QED BY <1>1, <2>1, FS_Subset, FS_CardinalityType
<1>3. ASSUME NEW i \in S, NEW T, IsFiniteSet(T), below(i) \in SUBSET T, i \in T
      PROVE  before(i) < Cardinality(T)
  <2>1. Cardinality(T) \in Nat
    BY <1>3, FS_CardinalityType
  <2>2. before(i) <= Cardinality(T) /\ (before(i) = Cardinality(T) => below(i) = T)
    BY <1>3, FS_Subset
  <2>3. i \notin below(i)
    OBVIOUS
  <2> QED BY <1>2, <1>3, <2>1, <2>2, <2>3
<1>4. \A i \in S : before(i) \in 0..(Cardinality(S) - 1)
  <2>1. \A i \in S : before(i) < Cardinality(S)
    BY <1>1, <1>3
  <2>2. ASSUME NEW i \in S PROVE before(i) \in 0..(Cardinality(S) - 1)
    <3>1. before(i) < Cardinality(S) /\ before(i) \in Nat
      BY <1>2, <2>1
    <3> HIDE DEF before
    <3> QED BY <1>1, <3>1
  <2> QED BY <2>2
<1>5. ASSUME NEW i \in S, NEW j \in S, i < j
      PROVE  before(i) < before(j)
  <2>1. below(i) \in SUBSET below(j) /\ i \in below(j)
    <3>1. i \in Int /\ j \in Int /\ \A k \in S : k \in Int
      OBVIOUS
    <3>2. \A k \in S : k < i => k < j
      BY <1>5, <3>1
    <3> QED BY <1>5, <3>2
  <2> QED BY <1>2, <1>3, <2>1
<1>6. ASSUME NEW m \in 0..(Cardinality(S) - 1)
      PROVE  \E i \in S : before(i) = m
  <2> DEFINE T == 0..(Cardinality(S) - 1)
             f == [i \in S |-> before(i)]
  <2>1. IsFiniteSet(T) /\ Cardinality(T) = Cardinality(S)
    <3>1. Cardinality(S) - 1 \in Int
      BY <1>1
    <3>2. \A b \in Int : IsFiniteSet(0..b)
                         /\ Cardinality(0..b) = IF 0 > b THEN 0 ELSE b - 0 + 1
      BY FS_Interval
    <3>3. IsFiniteSet(T) /\ Cardinality(T) = IF 0 > Cardinality(S) - 1 THEN 0
                                             ELSE Cardinality(S) - 1 - 0 + 1
      BY <3>1, <3>2
    <3> HIDE DEF T
    <3> QED BY <1>1, <3>3
  <2>2. f \in Injection(S, T)
    <3> HIDE DEF before
    <3>1. f \in [S -> T]
      BY <1>4
    <3>2. ASSUME NEW i \in S, NEW j \in S, f[i] = f[j]
          PROVE  i = j
      <4>1. before(i) = before(j) /\ i \in Int /\ j \in Int /\ before(i) \in Int
        BY <3>2, <1>4
      <4>2. ~(i < j) /\ ~(j < i)
        BY <4>1, <1>5
      <4> QED BY <4>1, <4>2
    <3> QED BY <3>1, <3>2 DEF Injection, IsInjective
  <2>3. f \in Surjection(S, T)
    <3> HIDE DEF f, T
    <3> QED BY <1>1, <2>1, <2>2, FS_Injection
  <2>4. \E i \in S : f[i] = m
    BY <2>3 DEF Surjection
  <2> QED BY <2>4
<1> QED BY <1>1, <1>4, <1>5, <1>6

\* Sets of the same size, by a one-to-one map onto one of them.
LEMMA SameCount ==
  ASSUME NEW S, IsFiniteSet(S), NEW T, NEW f \in [S -> T],
         \A a, b \in S : f[a] = f[b] => a = b, \A t \in T : \E a \in S : f[a] = t
  PROVE  IsFiniteSet(T) /\ Cardinality(T) = Cardinality(S)
<1>1. f \in Bijection(S, T)
  BY DEF Bijection, Injection, Surjection, IsInjective
<1>2. ExistsBijection(S, T)
  BY <1>1 DEF ExistsBijection
<1> QED BY <1>2, FS_Bijection

\* The n largest of some places are n, or all of them.
LEMMA LargestAreCounted ==
  ASSUME NEW n \in Nat, NEW S \in SUBSET (1..n), NEW m \in Nat
  PROVE  LET largest == {i \in S : Cardinality({j \in S : j > i}) < m}
         IN  /\ IsFiniteSet(largest)
             /\ Cardinality(largest) = IF m <= Cardinality(S) THEN m ELSE Cardinality(S)
<1> DEFINE below(i) == {j \in S : j < i}
           above(i) == {j \in S : j > i}
           before(i) == Cardinality(below(i))
           after(i) == Cardinality(above(i))
           c == Cardinality(S)
           largest == {i \in S : after(i) < m}
           size == IF m <= c THEN m ELSE c
           T == (c - size)..(c - 1)
           f == [i \in largest |-> before(i)]
<1>1. /\ IsFiniteSet(S) /\ c \in Nat
      /\ \A i \in S : before(i) \in 0..(c - 1)
      /\ \A i, j \in S : i < j => before(i) < before(j)
      /\ \A k \in 0..(c - 1) : \E i \in S : before(i) = k
  BY PlacesAreNumbered
<1>2. ASSUME NEW i \in S
      PROVE  after(i) = c - 1 - before(i)
  <2>1. /\ IsFiniteSet(below(i)) /\ Cardinality(below(i)) \in Nat
        /\ IsFiniteSet(above(i)) /\ Cardinality(above(i)) \in Nat
    <3>1. below(i) \in SUBSET S /\ above(i) \in SUBSET S
      OBVIOUS
    <3> QED BY <1>1, <3>1, FS_Subset, FS_CardinalityType
  <2>2. i \in Int /\ \A j \in S : j \in Int
    OBVIOUS
  <2>3. /\ below(i) \union above(i) = S \ {i}
        /\ below(i) \intersect above(i) = {}
    <3>1. \A j \in S : (j # i <=> j < i \/ j > i) /\ ~(j < i /\ j > i)
      BY <2>2
    <3> QED BY <3>1
  <2>4. Cardinality(below(i) \union above(i)) =
          Cardinality(below(i)) + Cardinality(above(i)) - Cardinality(below(i) \intersect above(i))
    <3> HIDE DEF below, above
    <3> QED BY <2>1, FS_Union
  <2>5. Cardinality(S \ {i}) = c - 1
    BY <1>1, FS_RemoveElement
  <2>6. Cardinality({}) = 0
    BY FS_EmptySet
  <2>7. Cardinality(below(i)) + Cardinality(above(i)) = c - 1
    <3> HIDE DEF below, above, c
    <3>1. Cardinality(below(i) \union above(i)) = c - 1
      BY <2>3, <2>5, Zenon
    <3>2. Cardinality(below(i) \intersect above(i)) = 0
      BY <2>3, <2>6, Zenon
    <3> QED BY <2>1, <2>4, <3>1, <3>2
  <2>8. c \in Nat
    BY <1>1
  <2> HIDE DEF below, above, c
  <2> QED BY <2>1, <2>7, <2>8
<1>3. /\ size \in 0..c
      /\ \A i \in S : after(i) < m <=> before(i) \in T
  <2>1. ASSUME NEW i \in S
        PROVE  after(i) < m <=> before(i) \in T
    <3>1. after(i) = c - 1 - before(i) /\ before(i) \in 0..(c - 1) /\ c \in Nat
      BY <1>1, <1>2
    <3> HIDE DEF after, before, c
    <3> QED BY <3>1
  <2>2. size \in 0..c
    BY <1>1
  <2> QED BY <2>1, <2>2
<1>4. IsFiniteSet(T) /\ Cardinality(T) = size
  <2>1. \A a, b \in Int : IsFiniteSet(a..b)
                          /\ Cardinality(a..b) = IF a > b THEN 0 ELSE b - a + 1
    BY FS_Interval
  <2>2. c - size \in Int /\ c - 1 \in Int
    BY <1>1, <1>3
  <2>3. /\ IsFiniteSet(T)
        /\ Cardinality(T) = IF c - size > c - 1 THEN 0 ELSE c - 1 - (c - size) + 1
    <3> HIDE DEF c, size
    <3> QED BY <2>1, <2>2
  <2> HIDE DEF T, c, size
  <2> QED BY <1>1, <1>3, <2>3
<1>5. IsFiniteSet(largest)
  <2>1. largest \in SUBSET S
    OBVIOUS
  <2> QED BY <1>1, <2>1, FS_Subset
<1>6. f \in [largest -> T]
  <2> HIDE DEF before, after, T
  <2> QED BY <1>3
<1>7. \A a, b \in largest : f[a] = f[b] => a = b
  <2>1. ASSUME NEW a \in largest, NEW b \in largest, f[a] = f[b]
        PROVE  a = b
    <3>1. /\ a \in S /\ b \in S /\ a \in Int /\ b \in Int
          /\ before(a) = before(b) /\ before(a) \in Int
      BY <1>1, <2>1
    <3> HIDE DEF before
    <3>2. ~(a < b) /\ ~(b < a)
      BY <1>1, <3>1
    <3> QED BY <3>1, <3>2
  <2> QED BY <2>1
<1>8. \A t \in T : \E a \in largest : f[a] = t
  <2>1. ASSUME NEW t \in T
        PROVE  \E a \in largest : f[a] = t
    <3>1. t \in 0..(c - 1)
      <4> HIDE DEF c, size
      <4> QED BY <1>1, <1>3
    <3>2. PICK i \in S : before(i) = t
      <4> HIDE DEF before
      <4> QED BY <1>1, <3>1
    <3>3. i \in largest
      <4> HIDE DEF before, after, T
      <4> QED BY <1>3, <3>2
    <3> QED BY <3>2, <3>3
  <2> QED BY <2>1
<1>9. Cardinality(T) = Cardinality(largest)
  <2> HIDE DEF f, T, largest
  <2> QED BY <1>5, <1>6, <1>7, <1>8, SameCount
<1> QED BY <1>4, <1>5, <1>9

-----------------------------------------------------------------------------
(* Cards taken from a sequence, in whatever order.                           *)

\* Where a sequence has cards of some faces.
Spots(s, F) == {i \in DOMAIN s : s[i].face \in F}

\* t is what s has at the places S, each once.
PicksBy(f, m, t, s, S) ==
  /\ f \in [1..m -> S]
  /\ \A k, l \in 1..m : f[k] = f[l] => k = l
  /\ \A i \in S : \E k \in 1..m : f[k] = i
  /\ t = [k \in 1..m |-> s[f[k]]]

Picks(t, s, S) == \E f : PicksBy(f, Cardinality(S), t, s, S)

LEMMA SizeOfInterval ==
  \A a, b \in Int : IsFiniteSet(a..b) /\ Cardinality(a..b) = IF a > b THEN 0 ELSE b - a + 1
BY FS_Interval

LEMMA SizeOfPlaces ==
  ASSUME NEW n \in Nat
  PROVE  IsFiniteSet(1..n) /\ Cardinality(1..n) = n
<1>1. IsFiniteSet(1..n) /\ Cardinality(1..n) = IF 1 > n THEN 0 ELSE n - 1 + 1
  BY SizeOfInterval
<1> QED BY <1>1

LEMMA SpotsType ==
  ASSUME NEW X, NEW s \in Seq(X), NEW F
  PROVE  /\ Len(s) \in Nat /\ DOMAIN s = 1..Len(s)
         /\ Spots(s, F) \in SUBSET (1..Len(s)) /\ IsFiniteSet(Spots(s, F))
         /\ Cardinality(Spots(s, F)) \in 0..Len(s)
<1>1. Len(s) \in Nat /\ DOMAIN s = 1..Len(s) /\ Spots(s, F) \in SUBSET (1..Len(s))
  BY LenProperties DEF Spots
<1>2. IsFiniteSet(1..Len(s)) /\ Cardinality(1..Len(s)) = Len(s)
  BY <1>1, SizeOfPlaces
<1>3. /\ IsFiniteSet(Spots(s, F)) /\ Cardinality(Spots(s, F)) \in Nat
      /\ Cardinality(Spots(s, F)) <= Len(s)
  BY <1>1, <1>2, FS_Subset, FS_CardinalityType
<1> QED BY <1>1, <1>3

\* What that says of the cards: each is one of s, and no two are the same place's.
Among(t, s, S) ==
  /\ \A k \in 1..Len(t) : \E i \in S : t[k] = s[i]
  /\ \A k, l \in 1..Len(t) : k # l => \E i, j \in S : i # j /\ t[k] = s[i] /\ t[l] = s[j]

\* What is picked is as long as there are places, and each of it has one.
LEMMA PicksFacts ==
  ASSUME NEW X, NEW s \in Seq(X), NEW S \in SUBSET (1..Len(s)), NEW t, Picks(t, s, S)
  PROVE  /\ Cardinality(S) \in Nat
         /\ t \in Seq(X) /\ Len(t) = Cardinality(S) /\ Among(t, s, S)
<1> DEFINE m == Cardinality(S)
<1>1. PICK f \in [1..m -> S] : /\ \A k, l \in 1..m : f[k] = f[l] => k = l
                               /\ \A i \in S : \E k \in 1..m : f[k] = i
                               /\ t = [k \in 1..m |-> s[f[k]]]
  BY DEF Picks, PicksBy
<1>2. m \in Nat /\ Len(s) \in Nat /\ \A i \in S : s[i] \in X
  <2>1. Len(s) \in Nat
    BY LenProperties
  <2>2. m \in Nat
    BY <2>1, SizeOfPlaces, FS_Subset, FS_CardinalityType
  <2>3. \A i \in S : s[i] \in X
    BY ElementOfSeq
  <2> QED BY <2>1, <2>2, <2>3
<1> HIDE DEF m
<1>3. t \in Seq(X) /\ Len(t) = m /\ DOMAIN t = 1..m
  <2>1. t \in [1..m -> X]
    BY <1>1, <1>2
  <2> QED BY <1>2, <2>1
<1>4. \A k \in 1..m : f[k] \in S /\ t[k] = s[f[k]]
  BY <1>1
<1>6. ASSUME NEW k \in 1..m, NEW l \in 1..m, k # l
      PROVE  \E i, j \in S : i # j /\ t[k] = s[i] /\ t[l] = s[j]
  <2>1. f[k] \in S /\ f[l] \in S /\ f[k] # f[l] /\ t[k] = s[f[k]] /\ t[l] = s[f[l]]
    BY <1>1, <1>4, <1>6
  <2> QED BY <2>1
<1>7. \A k \in 1..m : \E i \in S : t[k] = s[i]
  BY <1>4
<1> QED BY <1>2, <1>3, <1>6, <1>7 DEF m, Among

\* So it has a face as often as there are places with it.
LEMMA PicksCount ==
  ASSUME NEW X, NEW s \in Seq(X), NEW S \in SUBSET (1..Len(s)), NEW t, Picks(t, s, S), NEW F
  PROVE  Cardinality(Spots(t, F)) = Cardinality(S \intersect Spots(s, F))
<1> DEFINE m == Cardinality(S)
<1>1. PICK f \in [1..m -> S] : /\ \A k, l \in 1..m : f[k] = f[l] => k = l
                               /\ \A i \in S : \E k \in 1..m : f[k] = i
                               /\ t = [k \in 1..m |-> s[f[k]]]
  BY DEF Picks, PicksBy
<1>2. t \in Seq(X) /\ Len(t) = m /\ DOMAIN t = 1..m
  BY PicksFacts, LenProperties
<1> HIDE DEF m
<1>3. \A k \in 1..m : f[k] \in S /\ t[k] = s[f[k]]
  BY <1>1
<1> DEFINE A == Spots(t, F)
           B == S \intersect Spots(s, F)
           g == [k \in A |-> f[k]]
<1>4. \A k \in A : k \in 1..m /\ t[k].face \in F
  BY <1>2 DEF Spots
<1>5. \A i : i \in B <=> i \in S /\ s[i].face \in F
  BY LenProperties DEF Spots
<1>6. IsFiniteSet(A)
  BY <1>2, SpotsType
<1>7. g \in [A -> B]
  <2> HIDE DEF A, B
  <2> QED BY <1>3, <1>4, <1>5
<1>8. \A a, b \in A : g[a] = g[b] => a = b
  <2> HIDE DEF A, B
  <2> QED BY <1>1, <1>4
<1>9. ASSUME NEW i \in B PROVE \E a \in A : g[a] = i
  <2>1. i \in S /\ s[i].face \in F
    BY <1>5
  <2>2. PICK k \in 1..m : f[k] = i
    BY <1>1, <2>1
  <2>3. k \in A
    BY <1>2, <1>3, <2>1, <2>2 DEF Spots
  <2> QED BY <2>2, <2>3
<1> HIDE DEF A, B, g
<1>10. Cardinality(B) = Cardinality(A)
  BY <1>6, <1>7, <1>8, <1>9, SameCount
<1> QED BY <1>10 DEF A, B

\* Upside down it is the same cards.
LEMMA ReversePicks ==
  ASSUME NEW X, NEW s \in Seq(X), NEW S \in SUBSET (1..Len(s)), NEW t, Picks(t, s, S)
  PROVE  Picks(Reverse(t), s, S)
<1> DEFINE m == Cardinality(S)
<1>1. PICK f \in [1..m -> S] : /\ \A k, l \in 1..m : f[k] = f[l] => k = l
                               /\ \A i \in S : \E k \in 1..m : f[k] = i
                               /\ t = [k \in 1..m |-> s[f[k]]]
  BY DEF Picks, PicksBy
<1>2. m \in Nat /\ Len(t) = m
  BY PicksFacts
<1> DEFINE g == [k \in 1..m |-> f[(m - k) + 1]]
<1> HIDE DEF m
<1>3. \A k \in 1..m : (m - k) + 1 \in 1..m /\ m - ((m - k) + 1) + 1 = k
  BY <1>2
<1>4. g \in [1..m -> S]
  BY <1>1, <1>3
<1>5. ASSUME NEW k \in 1..m, NEW l \in 1..m, g[k] = g[l]
      PROVE  k = l
  <2>1. (m - k) + 1 = (m - l) + 1
    BY <1>1, <1>3, <1>5
  <2> QED BY <1>3, <2>1
<1>6. ASSUME NEW i \in S PROVE \E k \in 1..m : g[k] = i
  <2>1. PICK k \in 1..m : f[k] = i
    BY <1>1
  <2>2. g[(m - k) + 1] = i
    BY <1>3, <2>1
  <2> QED BY <1>3, <2>2
<1>7. Reverse(t) = [k \in 1..m |-> s[g[k]]]
  <2>1. Reverse(t) = [k \in 1..m |-> t[(m - k) + 1]]
    BY <1>2 DEF Reverse
  <2>2. \A k \in 1..m : t[(m - k) + 1] = s[g[k]]
    BY <1>1, <1>3
  <2> QED BY <2>1, <2>2
<1> HIDE DEF g
<1>8. PicksBy(g, m, Reverse(t), s, S)
  BY <1>4, <1>5, <1>6, <1>7 DEF PicksBy
<1> QED BY <1>8 DEF Picks, m

\* A part of a sequence is picked from it.
LEMMA SubSeqPicks ==
  ASSUME NEW X, NEW s \in Seq(X), NEW a \in Nat \ {0}, NEW b \in Nat, a <= b, b <= Len(s)
  PROVE  /\ a..b \in SUBSET (1..Len(s)) /\ Cardinality(a..b) = b - a + 1
         /\ Picks(SubSeq(s, a, b), s, a..b)
<1> DEFINE m == b - a + 1
           f == [k \in 1..m |-> a + k - 1]
<1>1. Cardinality(a..b) = m /\ m \in Nat /\ a..b \in SUBSET (1..Len(s)) /\ Len(s) \in Nat
  <2>1. Cardinality(a..b) = IF a > b THEN 0 ELSE b - a + 1
    BY SizeOfInterval
  <2>2. Len(s) \in Nat
    BY LenProperties
  <2> QED BY <2>1, <2>2
<1>2. f \in [1..m -> a..b]
  OBVIOUS
<1>3. \A k, l \in 1..m : f[k] = f[l] => k = l
  OBVIOUS
<1>4. ASSUME NEW i \in a..b PROVE \E k \in 1..m : f[k] = i
  <2>1. i - a + 1 \in 1..m /\ f[i - a + 1] = i
    OBVIOUS
  <2> QED BY <2>1
<1>5. SubSeq(s, a, b) = [k \in 1..m |-> s[f[k]]]
  <2>1. \A i \in a..b : s[i] \in X
    BY <1>1, ElementOfSeq
  <2>2. /\ SubSeq(s, a, b) \in Seq(X) /\ Len(SubSeq(s, a, b)) = m
        /\ \A k \in 1..m : SubSeq(s, a, b)[k] = s[a + k - 1]
    BY <2>1, SubSeqProperties
  <2>3. SubSeq(s, a, b) = [k \in 1..m |-> SubSeq(s, a, b)[k]]
    BY <2>2, LenProperties
  <2> QED BY <2>2, <2>3
<1> HIDE DEF m, f
<1>6. PicksBy(f, m, SubSeq(s, a, b), s, a..b)
  BY <1>2, <1>3, <1>4, <1>5 DEF PicksBy
<1>7. Picks(SubSeq(s, a, b), s, a..b)
  BY <1>1, <1>6 DEF Picks
<1> QED BY <1>1, <1>7 DEF m

LEMMA FirstFivePicks ==
  ASSUME NEW X, NEW s \in Seq(X), 5 <= Len(s)
  PROVE  /\ 1..5 \in SUBSET (1..Len(s)) /\ Cardinality(1..5) = 5
         /\ Picks(SubSeq(s, 1, 5), s, 1..5)
<1>1. PICK a \in Nat \ {0}, b \in Nat : a = 1 /\ b = 5
  OBVIOUS
<1>2. a <= b /\ b <= Len(s)
  BY <1>1
<1>3. /\ a..b \in SUBSET (1..Len(s)) /\ Cardinality(a..b) = b - a + 1
      /\ Picks(SubSeq(s, a, b), s, a..b)
  BY <1>2, SubSeqPicks
<1> QED BY <1>1, <1>3

\* So is a whole sequence, upside down or not.
LEMMA ReverseFacts ==
  ASSUME NEW X, NEW s \in Seq(X)
  PROVE  /\ Cardinality(1..Len(s)) = Len(s)
         /\ Picks(Reverse(s), s, 1..Len(s))
<1>1. Len(s) \in Nat /\ s \in [1..Len(s) -> X] /\ Cardinality(1..Len(s)) = Len(s)
  BY LenProperties, SizeOfPlaces
<1> DEFINE f == [k \in 1..Len(s) |-> k]
<1>2. /\ f \in [1..Len(s) -> 1..Len(s)]
      /\ \A k, l \in 1..Len(s) : f[k] = f[l] => k = l
      /\ \A i \in 1..Len(s) : \E k \in 1..Len(s) : f[k] = i
      /\ s = [k \in 1..Len(s) |-> s[f[k]]]
  BY <1>1
<1>3. Picks(s, s, 1..Len(s))
  <2>1. PicksBy(f, Len(s), s, s, 1..Len(s))
    BY <1>2 DEF PicksBy
  <2> HIDE DEF f
  <2> QED BY <1>1, <2>1 DEF Picks
<1> QED BY <1>1, <1>3, ReversePicks

\* What is inserted is one more.
LEMMA InsertCounts ==
  ASSUME NEW X, NEW s \in Seq(X), NEW n \in 1..Len(s) + 1, NEW e \in X, NEW t,
         IsInserted(X, s, n, e, t), NEW F
  PROVE  Cardinality(Spots(t, F)) =
           Cardinality(Spots(s, F)) + IF e.face \in F THEN 1 ELSE 0
<1> DEFINE S == (1..Len(t)) \ {n}
           f == [k \in 1..Len(s) |-> IF k < n THEN k ELSE k + 1]
<1>1. /\ t \in Seq(X) /\ Len(t) = Len(s) + 1 /\ Len(s) \in Nat /\ t[n] = e
      /\ \A k \in 1..n - 1 : t[k] = s[k]
      /\ \A k \in n..Len(s) : t[k + 1] = s[k]
      /\ s \in [1..Len(s) -> X] /\ DOMAIN t = 1..Len(t) /\ n \in 1..Len(t)
  BY LenProperties DEF IsInserted
<1>2. Cardinality(S) = Len(s)
  <2>1. IsFiniteSet(1..Len(t)) /\ Cardinality(1..Len(t)) = Len(s) + 1
    BY <1>1, SizeOfPlaces
  <2>2. Cardinality((1..Len(t)) \ {n}) = Cardinality(1..Len(t)) - 1
    BY <1>1, <2>1, FS_RemoveElement
  <2> QED BY <1>1, <2>1, <2>2
<1>3. f \in [1..Len(s) -> S]
  BY <1>1
<1>4. \A k, l \in 1..Len(s) : f[k] = f[l] => k = l
  BY <1>1
<1>5. ASSUME NEW i \in S PROVE \E k \in 1..Len(s) : f[k] = i
  <2>1. CASE i < n
    BY <1>1, <2>1
  <2>2. CASE i > n
    <3>1. i - 1 \in 1..Len(s) /\ f[i - 1] = i
      BY <1>1, <2>2
    <3> QED BY <3>1
  <2> QED BY <1>1, <2>1, <2>2
<1>6. s = [k \in 1..Len(s) |-> t[f[k]]]
  <2>1. ASSUME NEW k \in 1..Len(s) PROVE s[k] = t[f[k]]
    <3>1. CASE k < n
      BY <1>1, <3>1
    <3>2. CASE ~(k < n)
      BY <1>1, <3>2
    <3> QED BY <3>1, <3>2
  <2> QED BY <1>1, <2>1
<1>7. Picks(s, t, S)
  <2> HIDE DEF f, S
  <2>1. PicksBy(f, Len(s), s, t, S)
    BY <1>3, <1>4, <1>5, <1>6 DEF PicksBy
  <2> QED BY <1>2, <2>1 DEF Picks
<1>8. Cardinality(Spots(s, F)) = Cardinality(S \intersect Spots(t, F))
  <2>1. S \in SUBSET (1..Len(t))
    OBVIOUS
  <2> HIDE DEF S
  <2> QED BY <1>1, <1>7, <2>1, PicksCount
<1>9. S \intersect Spots(t, F) = Spots(t, F) \ {n}
  BY <1>1 DEF Spots
<1>10. /\ IsFiniteSet(Spots(t, F)) /\ Cardinality(Spots(t, F)) \in Nat
       /\ (n \in Spots(t, F) <=> e.face \in F)
  <2>1. IsFiniteSet(Spots(t, F)) /\ Cardinality(Spots(t, F)) \in 0..Len(t) /\ Len(t) \in Nat
    BY <1>1, SpotsType
  <2>2. n \in Spots(t, F) <=> e.face \in F
    BY <1>1 DEF Spots
  <2> QED BY <2>1, <2>2
<1>11. Cardinality(Spots(t, F) \ {n}) =
         IF n \in Spots(t, F) THEN Cardinality(Spots(t, F)) - 1 ELSE Cardinality(Spots(t, F))
  BY <1>10, FS_RemoveElement
<1>12. Cardinality(Spots(s, F)) = Cardinality(Spots(t, F) \ {n})
  BY <1>8, <1>9, Zenon
<1> QED BY <1>10, <1>11, <1>12

\* A set whose elements are numbered from 1 to n.
LEMMA CountTo ==
  ASSUME NEW n \in Nat, NEW T, NEW g \in [1..n -> T],
         \A a, b \in 1..n : g[a] = g[b] => a = b, \A x \in T : \E a \in 1..n : g[a] = x
  PROVE  IsFiniteSet(T) /\ Cardinality(T) = n
<1>1. IsFiniteSet(1..n) /\ Cardinality(1..n) = n
  BY SizeOfPlaces
<1> QED BY <1>1, SameCount

\* A set of at most one element.
LEMMA MostOne ==
  ASSUME NEW S, IsFiniteSet(S), Cardinality(S) <= 1, NEW a \in S, NEW b \in S
  PROVE  a = b
<1>1. SUFFICES ASSUME a # b PROVE FALSE
  OBVIOUS
<1>2. IsFiniteSet(S \ {a}) /\ Cardinality(S \ {a}) = Cardinality(S) - 1
  BY FS_RemoveElement
<1>3. Cardinality(S) \in Nat /\ Cardinality(S \ {a}) \in Nat
  BY <1>2, FS_CardinalityType
<1>4. Cardinality(S \ {a}) = 0
  BY <1>2, <1>3
<1>5. S \ {a} = {}
  BY <1>2, <1>4, FS_EmptySet
<1> QED BY <1>1, <1>5

-----------------------------------------------------------------------------
(* The search for a straight.                                                *)

\* What cutSZForCheck finds up to each card, from what the looks find.
LookedUpTo(f, found, n, i) ==
  IF i < n THEN <<>>
  ELSE IF found[i].break = 0 THEN found[i].row
  ELSE f[i - n + found[i].break]

IsSearch(f, found, n, l) == f = [i \in 0..l |-> LookedUpTo(f, found, n, i)]

\* After a break the search goes back, so it comes to an end: at the least length
\* at which it would not, it could be had from that of the length before.
LEMMA SearchExists ==
  ASSUME NEW l \in Nat, NEW n \in Nat \ {0}, NEW found,
         \A k \in n..l : found[k].break = 0 \/ found[k].break \in 1..n - 1
  PROVE  \E f : IsSearch(f, found, n, l)
<1> DEFINE bad == {m \in 0..l : ~\E f : IsSearch(f, found, n, m)}
<1>1. SUFFICES ASSUME bad # {} PROVE FALSE
  <2>1. l \in 0..l
    OBVIOUS
  <2> QED BY <1>1, <2>1
<1>2. PICK m \in bad : \A y \in bad : m <= y
  <2>1. bad \in SUBSET Nat
    OBVIOUS
  <2> HIDE DEF bad
  <2> QED BY <1>1, <2>1, LeastElement
<1>3. m \in 0..l /\ ~\E f : IsSearch(f, found, n, m)
  OBVIOUS
<1>4. CASE m = 0
  <2> DEFINE f == [i \in 0..0 |-> <<>>]
  <2>1. \A i \in 0..0 : LookedUpTo(f, found, n, i) = <<>>
    BY DEF LookedUpTo
  <2>2. f = [i \in 0..0 |-> LookedUpTo(f, found, n, i)]
    <3> HIDE DEF f
    <3>1. f = [i \in 0..0 |-> <<>>]
      BY DEF f
    <3> QED BY <2>1, <3>1
  <2>3. IsSearch(f, found, n, m)
    <3> HIDE DEF f
    <3> QED BY <1>4, <2>2 DEF IsSearch
  <2> QED BY <1>3, <2>3
<1>5. CASE m # 0
  <2>1. m - 1 \in 0..l /\ ~(m <= m - 1)
    BY <1>3, <1>5
  <2>2. PICK f : IsSearch(f, found, n, m - 1)
    BY <1>2, <2>1
  <2> DEFINE g == [i \in 0..m |-> IF i = m THEN LookedUpTo(f, found, n, m) ELSE f[i]]
  <2>3. ASSUME NEW i \in 0..m PROVE LookedUpTo(g, found, n, i) = LookedUpTo(f, found, n, i)
    <3>1. CASE i < n \/ found[i].break = 0
      BY <3>1 DEF LookedUpTo
    <3>2. CASE ~(i < n) /\ found[i].break # 0
      <4>1. found[i].break \in 1..n - 1
        <5>1. i \in n..l
          BY <1>3, <3>2
        <5> QED BY <3>2, <5>1
      <4> DEFINE j == i - n + found[i].break
      <4>2. j \in 0..m /\ j # m
        BY <1>3, <3>2, <4>1
      <4> HIDE DEF j
      <4>3. g[j] = f[j]
        BY <4>2
      <4> HIDE DEF g
      <4> QED BY <3>2, <4>3 DEF LookedUpTo, j
    <3> QED BY <3>1, <3>2
  <2>4. ASSUME NEW i \in 0..m PROVE g[i] = LookedUpTo(f, found, n, i)
    <3>1. CASE i = m
      BY <3>1
    <3>2. CASE i # m
      <4>1. i \in 0..m - 1 /\ g[i] = f[i]
        BY <1>3, <3>2
      <4> HIDE DEF g
      <4> QED BY <2>2, <4>1 DEF IsSearch
    <3> QED BY <3>1, <3>2
  <2>5. g = [i \in 0..m |-> g[i]]
    OBVIOUS
  <2> HIDE DEF g
  <2>6. IsSearch(g, found, n, m)
    BY <2>3, <2>4, <2>5 DEF IsSearch
  <2> QED BY <1>3, <2>6
<1> QED BY <1>4, <1>5

-----------------------------------------------------------------------------
(* Sorted cards.                                                             *)

Rising(s) == \A i, j \in 1..Len(s) : i < j => s[i].face <= s[j].face
Strict(s) == \A i, j \in 1..Len(s) : i < j => s[i].face < s[j].face
Falling(s) == \A i, j \in 1..Len(s) : i < j => s[i].face >= s[j].face

\* A card goes where it belongs: no smaller one after it, no larger one before.
GoesTo(X, s, n, new, t) ==
  /\ IsInserted(X, s, n, new, t) /\ t = InsertAt(s, n, new)
  /\ \A i \in 1..n - 1 : s[i].face <= new.face
  /\ \A i \in n..Len(s) : new.face < s[i].face

\* So the list stays in order, strictly if no face of it is the new one.
LEMMA SortedStays ==
  ASSUME NEW X, \A p \in X : p.face \in Faces, NEW s \in Seq(X), Rising(s), NEW new \in X,
         NEW n \in 1..Len(s) + 1, NEW t, GoesTo(X, s, n, new, t)
  PROVE  /\ Rising(t)
         /\ Strict(s) /\ (\A i \in 1..Len(s) : s[i].face # new.face) => Strict(t)
<1>1. /\ Len(s) \in Nat /\ new.face \in Int
      /\ \A i \in 1..Len(s) : s[i].face \in Int
  <2>1. \A i \in 1..Len(s) : s[i] \in X
    BY ElementOfSeq
  <2>2. \A p \in X : p.face \in Int
    BY DEF Faces
  <2> QED BY <2>1, <2>2, LenProperties
<1>2. /\ Len(t) = Len(s) + 1
      /\ \A k \in 1..n - 1 : t[k] = s[k] /\ s[k].face <= new.face
      /\ t[n] = new
      /\ \A k \in n..Len(s) : t[k + 1] = s[k] /\ new.face < s[k].face
  BY DEF GoesTo, IsInserted
<1>3. ASSUME NEW i \in 1..Len(t), NEW j \in 1..Len(t), i < j
      PROVE  /\ t[i].face <= t[j].face
             /\ Strict(s) /\ (\A k \in 1..Len(s) : s[k].face # new.face) => t[i].face < t[j].face
  <2>1. CASE j < n
    <3>1. i \in 1..Len(s) /\ j \in 1..Len(s) /\ t[i] = s[i] /\ t[j] = s[j]
      BY <1>1, <1>2, <1>3, <2>1
    <3> QED BY <1>3, <3>1 DEF Rising, Strict
  <2>2. CASE j = n
    <3>1. i \in 1..Len(s) /\ t[i] = s[i] /\ s[i].face <= new.face /\ t[j] = new
      BY <1>1, <1>2, <1>3, <2>2
    <3> QED BY <1>1, <3>1
  <2>3. CASE j > n /\ i = n
    <3>1. j - 1 \in n..Len(s) /\ t[(j - 1) + 1] = s[j - 1] /\ (j - 1) + 1 = j /\ t[i] = new
          /\ new.face < s[j - 1].face /\ j - 1 \in 1..Len(s)
      BY <1>1, <1>2, <1>3, <2>3
    <3> QED BY <1>1, <3>1
  <2>4. CASE j > n /\ i < n
    <3>1. j - 1 \in n..Len(s) /\ t[(j - 1) + 1] = s[j - 1] /\ (j - 1) + 1 = j
          /\ new.face < s[j - 1].face /\ j - 1 \in 1..Len(s)
      BY <1>1, <1>2, <1>3, <2>4
    <3>2. i \in 1..Len(s) /\ t[i] = s[i] /\ s[i].face <= new.face
      BY <1>1, <1>2, <1>3, <2>4
    <3> QED BY <1>1, <3>1, <3>2
  <2>5. CASE j > n /\ i > n
    <3>1. j - 1 \in n..Len(s) /\ t[(j - 1) + 1] = s[j - 1] /\ (j - 1) + 1 = j
          /\ j - 1 \in 1..Len(s)
      BY <1>1, <1>2, <1>3, <2>5
    <3>2. i - 1 \in n..Len(s) /\ t[(i - 1) + 1] = s[i - 1] /\ (i - 1) + 1 = i
          /\ i - 1 \in 1..Len(s) /\ i - 1 < j - 1
      BY <1>1, <1>2, <1>3, <2>5
    <3>3. t[i] = s[i - 1] /\ t[j] = s[j - 1]
      BY <3>1, <3>2
    <3> QED BY <3>1, <3>2, <3>3 DEF Rising, Strict
  <2> QED BY <1>1, <1>2, <2>1, <2>2, <2>3, <2>4, <2>5
<1> QED BY <1>3 DEF Rising, Strict

-----------------------------------------------------------------------------
(* Faces and kinds.                                                          *)

\* Of some faces there is a largest.
LEMMA MaxFace ==
  ASSUME NEW S \in SUBSET Faces, S # {}
  PROVE  Max(S) \in S /\ Max(S) \in Faces /\ \A f \in S : f <= Max(S)
<1>1. PICK n \in Nat : n = 13
  OBVIOUS
<1>2. S \in SUBSET (0..n)
  BY <1>1 DEF Faces
<1>3. Max(S) \in S /\ \A f \in S : f <= Max(S)
  BY <1>2, MaxOfPlaces
<1> QED BY <1>3

\* Of more than one face there are others than any one.
LEMMA OthersThere ==
  ASSUME NEW T \in SUBSET Faces, Cardinality(T) > 1
  PROVE  T # {} /\ \A f \in T : T \ {f} # {}
<1>1. IsFiniteSet(T)
  <2>1. IsFiniteSet(Faces)
    <3>1. PICK n \in Nat : n = 13
      OBVIOUS
    <3>2. IsFiniteSet(1..n)
      BY SizeOfPlaces
    <3> QED BY <3>1, <3>2 DEF Faces
  <2> QED BY <2>1, FS_Subset
<1>2. T # {}
  BY FS_EmptySet
<1>3. ASSUME NEW f \in T PROVE T \ {f} # {}
  <2>1. IsFiniteSet(T \ {f}) /\ Cardinality(T \ {f}) = Cardinality(T) - 1
    BY <1>1, <1>3, FS_RemoveElement
  <2>2. Cardinality(T) \in Nat /\ Cardinality(T) > 1
    BY <1>1, FS_CardinalityType
  <2>3. Cardinality(T \ {f}) # 0
    BY <2>1, <2>2
  <2> QED BY <2>1, <2>3, FS_EmptySet
<1> QED BY <1>2, <1>3

\* The kinds above one.
LEMMA KindsAbove ==
  ASSUME NEW kind \in HandType, NEW k \in HandType, k > kind
  PROVE  /\ kind = DZ => k \in {YD, LD, ST3, SZ, TH, HL, ST4, THS, HJTHS}
         /\ kind = YD => k \in {LD, ST3, SZ, TH, HL, ST4, THS, HJTHS}
         /\ kind = LD => k \in {ST3, SZ, TH, HL, ST4, THS, HJTHS}
         /\ kind = ST3 => k \in {SZ, TH, HL, ST4, THS, HJTHS}
         /\ kind = SZ => k \in {TH, HL, ST4, THS, HJTHS}
         /\ kind = TH => k \in {HL, ST4, THS, HJTHS}
         /\ kind = HL => k \in {ST4, THS, HJTHS}
         /\ kind = ST4 => k \in {THS, HJTHS}
         /\ kind = THS => k \in {HJTHS}
         /\ kind # HJTHS
BY DEF HandType, DZ, YD, LD, ST3, SZ, TH, HL, ST4, THS, HJTHS

\* t begins with the checks of s; if that is the straight, it is not made again.
Begins(s, t) ==
  /\ t \in Seq(HandType) /\ Len(s) <= Len(t) /\ \A i \in 1..Len(s) : t[i] = s[i]
  /\ s[1] = SZ => \A i \in 1..Len(t) : t[i] = SZ => i <= Len(s)

LEMMA BeginsOn ==
  ASSUME NEW s \in Seq(HandType), NEW t, Begins(s, t), NEW u \in Seq(HandType),
         s[1] = SZ => \A i \in 1..Len(u) : u[i] # SZ
  PROVE  Begins(s, t \o u)
<1>1. /\ t \o u \in Seq(HandType) /\ Len(t \o u) = Len(t) + Len(u)
      /\ \A i \in 1..Len(t) + Len(u) : (t \o u)[i] = IF i <= Len(t) THEN t[i] ELSE u[i - Len(t)]
  BY ConcatProperties DEF Begins
<1>2. Len(s) \in Nat /\ Len(t) \in Nat /\ Len(u) \in Nat
  BY LenProperties DEF Begins
<1>3. \A i \in 1..Len(s) : i \in 1..Len(t) + Len(u) /\ i <= Len(t)
  BY <1>2 DEF Begins
<1>4. ASSUME s[1] = SZ, NEW i \in 1..Len(t \o u), (t \o u)[i] = SZ
      PROVE  i <= Len(s)
  <2>1. CASE i <= Len(t)
    BY <1>1, <1>2, <1>4, <2>1 DEF Begins
  <2>2. CASE ~(i <= Len(t))
    <3>1. i - Len(t) \in 1..Len(u) /\ (t \o u)[i] = u[i - Len(t)]
      BY <1>1, <1>2, <2>2
    <3> QED BY <1>4, <3>1
  <2> QED BY <2>1, <2>2
<1>5. Len(s) <= Len(t \o u)
  BY <1>1, <1>2 DEF Begins
<1> QED BY <1>1, <1>3, <1>4, <1>5 DEF Begins

-----------------------------------------------------------------------------
(* Places, and the cards at them.                                            *)

\* The k-th of some places.
LEMMA NthFacts ==
  ASSUME NEW n \in Nat, NEW S \in SUBSET (1..n)
  PROVE  /\ IsFiniteSet(S) /\ Cardinality(S) \in Nat
         /\ \A k \in 1..Cardinality(S) : NthOf(S, k) \in S
         /\ \A k, l \in 1..Cardinality(S) : NthOf(S, k) = NthOf(S, l) => k = l
         /\ \A i \in S : \E k \in 1..Cardinality(S) : NthOf(S, k) = i
<1> DEFINE before(i) == Cardinality({j \in S : j < i})
<1>1. /\ IsFiniteSet(S) /\ Cardinality(S) \in Nat
      /\ \A i \in S : before(i) \in 0..(Cardinality(S) - 1)
      /\ \A i, j \in S : i < j => before(i) < before(j)
      /\ \A m \in 0..(Cardinality(S) - 1) : \E i \in S : before(i) = m
  BY PlacesAreNumbered
<1>2. ASSUME NEW k \in 1..Cardinality(S)
      PROVE  NthOf(S, k) \in S /\ before(NthOf(S, k)) = k - 1
  <2>1. k - 1 \in 0..(Cardinality(S) - 1)
    BY <1>1
  <2>2. \E i \in S : before(i) = k - 1
    BY <1>1, <2>1
  <2>3. NthOf(S, k) = CHOOSE i \in S : before(i) = k - 1
    BY DEF NthOf
  <2> HIDE DEF before
  <2> QED BY <2>2, <2>3
<1> HIDE DEF before
<1>3. ASSUME NEW k \in 1..Cardinality(S), NEW l \in 1..Cardinality(S),
             NthOf(S, k) = NthOf(S, l)
      PROVE  k = l
  <2>1. k - 1 = l - 1 /\ k \in Int /\ l \in Int
    BY <1>1, <1>2, <1>3
  <2> QED BY <2>1
<1>4. ASSUME NEW i \in S
      PROVE  \E k \in 1..Cardinality(S) : NthOf(S, k) = i
  <2>1. before(i) \in 0..(Cardinality(S) - 1)
    BY <1>1
  <2> DEFINE k == before(i) + 1
  <2>2. k \in 1..Cardinality(S) /\ k - 1 = before(i)
    BY <1>1, <2>1
  <2> HIDE DEF k
  <2>3. NthOf(S, k) \in S /\ before(NthOf(S, k)) = before(i)
    BY <1>2, <2>2
  <2>4. i \in Int /\ NthOf(S, k) \in Int /\ before(i) \in Int
    <3>1. \A j \in S : j \in Int
      OBVIOUS
    <3>2. before(i) \in Int
      BY <1>1, <2>1
    <3> QED BY <2>3, <3>1, <3>2
  <2>5. ~(i < NthOf(S, k)) /\ ~(NthOf(S, k) < i)
    <3>1. i < NthOf(S, k) => before(i) < before(NthOf(S, k))
      BY <1>1, <2>3
    <3>2. NthOf(S, k) < i => before(NthOf(S, k)) < before(i)
      BY <1>1, <2>3
    <3> QED BY <2>3, <2>4, <3>1, <3>2
  <2> QED BY <2>2, <2>4, <2>5
<1> QED BY <1>1, <1>2, <1>3, <1>4

\* They are in order.
LEMMA NthRises ==
  ASSUME NEW n \in Nat, NEW S \in SUBSET (1..n),
         NEW k \in 1..Cardinality(S), NEW l \in 1..Cardinality(S), k < l
  PROVE  NthOf(S, k) < NthOf(S, l)
<1> DEFINE before(i) == Cardinality({j \in S : j < i})
<1>1. /\ IsFiniteSet(S) /\ Cardinality(S) \in Nat
      /\ \A i \in S : before(i) \in 0..(Cardinality(S) - 1)
      /\ \A i, j \in S : i < j => before(i) < before(j)
      /\ \A m \in 0..(Cardinality(S) - 1) : \E i \in S : before(i) = m
  BY PlacesAreNumbered
<1>2. k - 1 \in 0..(Cardinality(S) - 1) /\ l - 1 \in 0..(Cardinality(S) - 1)
  BY <1>1
<1>3. NthOf(S, k) \in S /\ before(NthOf(S, k)) = k - 1
  BY <1>1, <1>2 DEF NthOf
<1>4. NthOf(S, l) \in S /\ before(NthOf(S, l)) = l - 1
  BY <1>1, <1>2 DEF NthOf
<1> HIDE DEF before
<1> DEFINE i == NthOf(S, k)
           j == NthOf(S, l)
<1>5. i \in S /\ j \in S /\ before(i) = k - 1 /\ before(j) = l - 1
  BY <1>3, <1>4
<1> HIDE DEF i, j
<1>6. i \in Nat /\ j \in Nat
  BY <1>5
<1>7. ~(j < i) /\ i # j
  BY <1>1, <1>5
<1>8. i < j
  BY <1>6, <1>7
<1> QED BY <1>8 DEF i, j

LEMMA AtPlacesPicks ==
  ASSUME NEW X, NEW s \in Seq(X), NEW S \in SUBSET (1..Len(s))
  PROVE  Picks(AtPlaces(s, S), s, S)
<1> DEFINE f == [k \in 1..Cardinality(S) |-> NthOf(S, k)]
<1>1. Len(s) \in Nat
  BY LenProperties
<1>2. /\ \A k \in 1..Cardinality(S) : NthOf(S, k) \in S
      /\ \A k, l \in 1..Cardinality(S) : NthOf(S, k) = NthOf(S, l) => k = l
      /\ \A i \in S : \E k \in 1..Cardinality(S) : NthOf(S, k) = i
  BY <1>1, NthFacts
<1>3. /\ f \in [1..Cardinality(S) -> S]
      /\ \A k, l \in 1..Cardinality(S) : f[k] = f[l] => k = l
      /\ \A i \in S : \E k \in 1..Cardinality(S) : f[k] = i
      /\ AtPlaces(s, S) = [k \in 1..Cardinality(S) |-> s[f[k]]]
  BY <1>2 DEF AtPlaces
<1> HIDE DEF f
<1> QED BY <1>3 DEF Picks, PicksBy

\* e lists the places S, which are within 1..m, from the first to the last of n.
Lists(e, n, m, S) ==
  /\ e \in [1..n -> 1..m]
  /\ \A k, l \in 1..n : k < l => e[k] < e[l]
  /\ \A k \in 1..n : e[k] \in S
  /\ \A i \in S : \E k \in 1..n : e[k] = i

LEMMA NthIs ==
  ASSUME NEW m \in Nat, NEW n \in Nat, NEW e, NEW S, Lists(e, n, m, S)
  PROVE  Cardinality(S) = n /\ \A k \in 1..n : NthOf(S, k) = e[k]
<1> USE DEF Lists
<1>1. S \in SUBSET (1..m)
  OBVIOUS
<1>2. IsFiniteSet(1..n) /\ Cardinality(1..n) = n
  BY SizeOfPlaces
<1>3. \A k, l \in 1..n : e[k] = e[l] => k = l
  <2> TAKE k, l \in 1..n
  <2> HAVE e[k] = e[l]
  <2>1. ~(k < l) /\ ~(l < k)
    OBVIOUS
  <2> QED BY <2>1
<1>4. Cardinality(S) = n
  <2>1. e \in [1..n -> S] /\ \A i \in S : \E k \in 1..n : e[k] = i
    OBVIOUS
  <2> QED BY <1>2, <1>3, <2>1, SameCount
<1> DEFINE before(i) == {j \in S : j < i}
<1>5. ASSUME NEW k \in 1..n PROVE Cardinality(before(e[k])) = k - 1
  <2> DEFINE at == [i \in 1..k - 1 |-> e[i]]
             T == before(e[k])
  <2>1. k - 1 \in Nat /\ IsFiniteSet(1..k - 1) /\ Cardinality(1..k - 1) = k - 1
    <3>1. k - 1 \in Nat
      OBVIOUS
    <3> QED BY <3>1, SizeOfPlaces
  <2>2. \A i \in 1..k - 1 : i \in 1..n /\ i < k
    OBVIOUS
  <2>3. at \in [1..k - 1 -> T]
    BY <2>2
  <2>4. \A a, b \in 1..k - 1 : at[a] = at[b] => a = b
    BY <1>3, <2>2
  <2>5. \A i \in T : \E a \in 1..k - 1 : at[a] = i
    <3> TAKE i \in T
    <3>1. PICK l \in 1..n : e[l] = i
      OBVIOUS
    <3>2. e[l] < e[k]
      BY <3>1
    <3>3. l < k
      <4>1. ~(k < l) /\ k # l
        BY <3>2
      <4> QED BY <4>1
    <3>4. l \in 1..k - 1
      BY <3>3
    <3> QED BY <3>1, <3>4
  <2>6. Cardinality(T) = k - 1
    <3> HIDE DEF at, T
    <3>1. PICK o \in Nat : o = k - 1
      BY <2>1
    <3>2. at \in [1..o -> T] /\ (\A a, b \in 1..o : at[a] = at[b] => a = b)
      BY <2>3, <2>4, <3>1
    <3>3. \A i \in T : \E a \in 1..o : at[a] = i
      BY <2>5, <3>1
    <3> QED BY <3>1, <3>2, <3>3, CountTo
  <2> QED BY <2>6
<1>6. ASSUME NEW k \in 1..n PROVE NthOf(S, k) = e[k]
  <2> DEFINE one == CHOOSE i \in S : Cardinality(before(i)) = k - 1
  <2>0. NthOf(S, k) = one
    BY DEF NthOf
  <2> HIDE DEF before
  <2>1. one \in S /\ Cardinality(before(one)) = k - 1
    <3>1. e[k] \in S
      OBVIOUS
    <3> QED BY <1>5, <3>1
  <2> HIDE DEF one
  <2>2. PICK l \in 1..n : e[l] = one
    BY <2>1
  <2>3. l - 1 = k - 1
    BY <1>5, <2>1, <2>2
  <2> QED BY <2>0, <2>2, <2>3
<1> QED BY <1>4, <1>6

-----------------------------------------------------------------------------
(* How often a face is in a list.                                            *)

CountIn(s, f) == Cardinality(Spots(s, {f}))

LEMMA TwoSpots ==
  ASSUME NEW X, NEW s \in Seq(X), NEW i \in 1..Len(s), NEW j \in 1..Len(s), i # j,
         s[i].face = s[j].face
  PROVE  CountIn(s, s[i].face) > 1
<1>1. /\ Spots(s, {s[i].face}) \in SUBSET (1..Len(s)) /\ IsFiniteSet(Spots(s, {s[i].face}))
      /\ CountIn(s, s[i].face) \in Nat
  BY SpotsType DEF CountIn
<1>2. i \in Spots(s, {s[i].face}) /\ j \in Spots(s, {s[i].face})
  BY DEF Spots
<1> QED BY <1>1, <1>2, MostOne DEF CountIn

LEMMA SeenOnce ==
  ASSUME NEW X, NEW s \in Seq(X), NEW i \in 1..Len(s), CountIn(s, s[i].face) <= 1
  PROVE  CountIn(s, s[i].face) = 1
<1>1. /\ Spots(s, {s[i].face}) \in SUBSET (1..Len(s)) /\ IsFiniteSet(Spots(s, {s[i].face}))
      /\ CountIn(s, s[i].face) \in Nat
  BY SpotsType DEF CountIn
<1>2. i \in Spots(s, {s[i].face})
  BY DEF Spots
<1>3. CountIn(s, s[i].face) # 0
  BY <1>1, <1>2, FS_EmptySet DEF CountIn
<1> QED BY <1>1, <1>3

LEMMA SeqOfFunction ==
  ASSUME NEW X, NEW n \in Nat, NEW f \in [1..n -> X]
  PROVE  f \in Seq(X) /\ Len(f) = n
OBVIOUS

=============================================================================
