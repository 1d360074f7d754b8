--------------------------- MODULE ChipPoolProofs ---------------------------
(***************************************************************************)
(* Proofs about ChipPool, for every finite set of players, every stack size *)
(* and every order of bets.  What one visit does to the list of pools, and  *)
(* what a settlement takes out of it, is shown in OperatorProofs.           *)
(***************************************************************************)
EXTENDS ChipPool, OperatorProofs

-----------------------------------------------------------------------------
(* The inductive invariant.                                                 *)

\* Capped and Layered alone are not inductive: a split needs a player at the
\* maximum of the pool (Attained), and a bet that reaches a later pool needs
\* to have filled the pools in front of it (WalkInList).
PoolInv == TypeOK /\ Capped /\ Attained /\ Layered /\ WalkInList

\* Capped, Attained and Layered say that the list is in good order.
LEMMA GoodOrder ==
  ASSUME pools \in Seq(Pool) \ {<<>>}
  PROVE  GoodList(pools) <=> Capped /\ Attained /\ Layered
<1>1. Len(pools) \in Nat /\ \A k \in 1..Len(pools) : pools[k] \in Pool
  OBVIOUS
<1>2. Layered <=> Layers(pools)
  BY DEF Layered, Layers
<1>3. ASSUME Capped, Attained, NEW k \in 1..Len(pools)
      PROVE  Sound(pools[k]) /\ (Len(pools) > 1 => pools[k].max > 0)
  BY <1>3 DEF Capped, Attained, Sound
<1>4. ASSUME \A k \in 1..Len(pools) : Sound(pools[k]) /\ (Len(pools) > 1 => pools[k].max > 0)
      PROVE  Capped /\ Attained
  BY <1>4 DEF Capped, Attained, Sound
<1> QED BY <1>2, <1>3, <1>4 DEF GoodList

\* A bet on its way finds a list in good order, and a place in it.
LEMMA CallInList ==
  ASSUME PoolInv, call # Idle
  PROVE  /\ GoodList(pools) /\ call \in Call /\ call.at \in 1..Len(pools)
         /\ call.player \in Players /\ call.remain \in Nat \ {0} /\ call.allIn \in BOOLEAN
         /\ Filled(pools, call.at, call.player)
<1>1. pools \in Seq(Pool) \ {<<>>} /\ call \in Call
  BY DEF PoolInv, TypeOK
<1>2. GoodList(pools)
  BY <1>1, GoodOrder DEF PoolInv
<1>3. call.at <= Len(pools) /\ Filled(pools, call.at, call.player)
  BY DEF PoolInv, WalkInList, Filled
<1> QED BY <1>1, <1>2, <1>3 DEF Call

\* A step of the walk keeps the list in good order, and goes on to a pool that is
\* there with every pool behind it filled by the bettor.
LEMMA VisitKeepsInv ==
  ASSUME PoolInv, VisitPool
  PROVE  PoolInv'
<1> DEFINE v == VisitAt(pools, call.at, call.player, call.remain, call.allIn)
<1>1. /\ call # Idle /\ pools' = v.list
      /\ call' = IF v.remain = 0 THEN Idle
                 ELSE [call EXCEPT !.remain = v.remain, !.at = call.at + 1]
      /\ UNCHANGED <<chips, round, roundMax, roundBet>>
  BY DEF VisitPool
<1>2. /\ call \in Call /\ call.at \in 1..Len(pools)
      /\ call.player \in Players /\ call.remain \in Nat \ {0}
  BY <1>1, CallInList
<1>3. /\ GoodList(v.list)
      /\ v.remain \in Nat
      /\ v.remain > 0 => /\ Len(v.list) = Len(pools) /\ call.at + 1 <= Len(pools)
                         /\ Filled(v.list, call.at + 1, call.player)
  BY <1>1, CallInList, VisitFacts
<1> HIDE DEF v
<1>4. pools' \in Seq(Pool) \ {<<>>}
  BY <1>1, <1>3 DEF GoodList
<1>5. call' \in Call \cup {Idle} /\ (call' # Idle => v.remain > 0 /\ call'.at = call.at + 1
                                                   /\ call'.player = call.player)
  <2>1. CASE v.remain = 0
    BY <1>1, <2>1
  <2>2. CASE v.remain # 0
    <3>1. call' = [call EXCEPT !.remain = v.remain, !.at = call.at + 1]
      BY <1>1, <2>2
    <3>2. v.remain \in Nat \ {0} /\ v.remain > 0 /\ call.at + 1 \in Nat \ {0}
      BY <1>2, <1>3, <2>2
    <3>3. call' = [player |-> call.player, allIn |-> call.allIn,
                   remain |-> v.remain, at |-> call.at + 1]
      BY <1>2, <3>1 DEF Call
    <3>4. call.player \in Players /\ call.allIn \in BOOLEAN
      BY <1>2 DEF Call
    <3>5. call' \in Call
      BY <3>2, <3>3, <3>4 DEF Call
    <3> QED BY <3>2, <3>3, <3>5
  <2> QED BY <2>1, <2>2
<1>6. TypeOK'
  BY <1>1, <1>4, <1>5 DEF PoolInv, TypeOK
<1>7. Capped' /\ Attained' /\ Layered'
  <2> PICK list : list = pools'
    OBVIOUS
  <2>1. GoodList(list)
    BY <1>1, <1>3
  <2>2. \A k \in 1..Len(list) : \A p \in Players : list[k].total[p] <= list[k].max
    BY <2>1 DEF GoodList, Sound
  <2>3. \A k \in 1..Len(list) :
          /\ list[k].max > 0 => \E p \in Players : list[k].total[p] = list[k].max
          /\ list[k].haveAllIn \/ Len(list) > 1 => list[k].max > 0
    BY <2>1 DEF GoodList, Sound
  <2>4. \A k \in 1..Len(list) - 1 : \A p \in Players :
          list[k + 1].total[p] > 0 => list[k].total[p] = list[k].max
    BY <2>1 DEF GoodList, Layers
  <2> QED BY <2>2, <2>3, <2>4 DEF Capped, Attained, Layered
<1>8. WalkInList'
  BY <1>1, <1>3, <1>5 DEF WalkInList, Filled
<1> QED BY <1>6, <1>7, <1>8 DEF PoolInv

\* The invariant holds initially and survives every step.
THEOREM PoolSafety == Spec => []PoolInv
<1>1. Init => PoolInv
  <2> SUFFICES ASSUME Init PROVE PoolInv
    OBVIOUS
  <2>1. NewPool \in Pool /\ NewPool.max = 0 /\ ~NewPool.haveAllIn
        /\ \A p \in Players : NewPool.total[p] = 0
    BY DEF NewPool, Pool
  <2>2. pools = <<NewPool>> /\ Len(pools) = 1 /\ pools[1] = NewPool /\ call = Idle
    BY DEF Init
  <2>3. TypeOK
    BY <2>1, <2>2, MaxBringInAssumption DEF Init, TypeOK, Rounds
  <2>4. Capped /\ Attained /\ Layered /\ WalkInList
    BY <2>1, <2>2 DEF Capped, Attained, Layered, WalkInList
  <2> QED BY <2>3, <2>4 DEF PoolInv
<1>2. PoolInv /\ [Next]_vars => PoolInv'
  <2> SUFFICES ASSUME PoolInv, [Next]_vars PROVE PoolInv'
    OBVIOUS
  <2>1. ASSUME NEW p \in Players, NEW amount \in 1..MaxBringIn, PlaceBet(p, amount)
        PROVE  PoolInv'
    <3>1. /\ chips \in [Players -> 0..MaxBringIn] /\ round \in Rounds
          /\ roundMax \in [Rounds -> Nat] /\ roundBet \in [Rounds -> [Players -> Nat]]
          /\ pools \in Seq(Pool) /\ pools # <<>>
      BY DEF PoolInv, TypeOK
    <3>2. amount \in Nat \ {0} /\ amount <= chips[p] /\ chips[p] \in 0..MaxBringIn
      BY <2>1, <3>1, MaxBringInAssumption DEF PlaceBet
    <3>3. roundBet[round][p] + amount \in Nat
      BY <3>1, <3>2
    <3>4. chips' \in [Players -> 0..MaxBringIn]
      BY <2>1, <3>1, <3>2, MaxBringInAssumption DEF PlaceBet
    <3>5. roundMax' \in [Rounds -> Nat]
      BY <2>1, <3>1, <3>3 DEF PlaceBet
    <3>6. roundBet' \in [Rounds -> [Players -> Nat]]
      BY <2>1, <3>1, <3>3 DEF PlaceBet
    <3>7. call' \in Call /\ call'.at = 1
      BY <2>1, <3>2 DEF PlaceBet, Call
    <3>8. UNCHANGED <<round, pools>>
      BY <2>1 DEF PlaceBet
    <3>9. TypeOK'
      BY <3>1, <3>4, <3>5, <3>6, <3>7, <3>8 DEF TypeOK
    <3>10. Capped' /\ Attained' /\ Layered'
      BY <3>8 DEF PoolInv, Capped, Attained, Layered
    <3>11. WalkInList'
      BY <3>1, <3>7, <3>8 DEF WalkInList
    <3> QED BY <3>9, <3>10, <3>11 DEF PoolInv
  <2>2. ASSUME NEW p \in Players, NEW amount \in 1..MaxBringIn, RejectBet(p, amount)
        PROVE  PoolInv'
    <3>1. chips' \in [Players -> 0..MaxBringIn]
      BY <2>2, MaxBringInAssumption DEF RejectBet, PoolInv, TypeOK
    <3> QED BY <2>2, <3>1 DEF RejectBet, PoolInv, TypeOK, Capped, Attained, Layered, WalkInList
  <2>3. CASE VisitPool
    BY <2>3, VisitKeepsInv
  <2>4. CASE NextRound
    BY <2>4 DEF NextRound, PoolInv, TypeOK, Rounds, Capped, Attained, Layered, WalkInList
  <2>5. CASE UNCHANGED vars
    BY <2>5 DEF vars, PoolInv, TypeOK, Capped, Attained, Layered, WalkInList
  <2> QED BY <2>1, <2>2, <2>3, <2>4, <2>5 DEF Next
<1> QED BY <1>1, <1>2, PTL DEF Spec

-----------------------------------------------------------------------------
(* No chip is made, lost or moved.                                          *)

\* In the walk, what the bettor has in the pools grows by what is taken from the
\* amount in hand; the others keep what they have.
LEMMA VisitKeepsLedger ==
  ASSUME PoolInv, VisitPool, NEW q \in Players
  PROVE  (PlayerTotal(pools, q) + InFlight(q))' = PlayerTotal(pools, q) + InFlight(q)
<1> DEFINE v == VisitAt(pools, call.at, call.player, call.remain, call.allIn)
<1>1. /\ call # Idle /\ pools' = v.list
      /\ call' = IF v.remain = 0 THEN Idle
                 ELSE [call EXCEPT !.remain = v.remain, !.at = call.at + 1]
  BY DEF VisitPool
<1>2. call \in Call /\ call.player \in Players /\ call.remain \in Nat \ {0}
  BY <1>1, CallInList
<1>3. /\ v.remain \in Nat
      /\ PlayerTotal(pools, q) \in Nat /\ PlayerTotal(v.list, q) \in Nat
      /\ PlayerTotal(v.list, q) + (IF q = call.player THEN v.remain ELSE 0)
           = PlayerTotal(pools, q) + (IF q = call.player THEN call.remain ELSE 0)
  BY <1>1, CallInList, VisitFacts
<1> HIDE DEF v
<1>4. InFlight(q) = IF q = call.player THEN call.remain ELSE 0
  BY <1>2 DEF InFlight
<1>5. InFlight(q)' = IF q = call.player THEN v.remain ELSE 0
  <2>1. CASE v.remain = 0
    BY <1>1, <2>1 DEF InFlight, Idle
  <2>2. CASE v.remain # 0
    <3>1. call'.remain = v.remain /\ call'.player = call.player
      BY <1>1, <1>2, <2>2 DEF Call
    <3> QED BY <1>3, <2>2, <3>1 DEF InFlight
  <2> QED BY <2>1, <2>2
<1> QED BY <1>1, <1>3, <1>4, <1>5

\* What the books of the four rounds say of a player is a natural number.
LEMMA RoundTotalType ==
  ASSUME PoolInv, NEW q \in Players
  PROVE  RoundTotal(q) \in Nat
<1>1. roundBet \in [Rounds -> [Players -> Nat]]
  BY DEF PoolInv, TypeOK
<1>2. \A n \in 1..4 : roundBet[n][q] \in Nat
  BY <1>1 DEF Rounds
<1>3. /\ roundBet[1][q] \in Nat /\ roundBet[2][q] \in Nat
      /\ roundBet[3][q] \in Nat /\ roundBet[4][q] \in Nat
  BY <1>2
<1> QED BY <1>3 DEF RoundTotal

\* A bet raises the books of the bettor by its amount and leaves the others'.
LEMMA BetRaisesBooks ==
  ASSUME PoolInv, NEW p \in Players, NEW amount \in 1..MaxBringIn, PlaceBet(p, amount),
         NEW q \in Players
  PROVE  RoundTotal(q)' = RoundTotal(q) + (IF q = p THEN amount ELSE 0)
<1>1. /\ round \in Rounds /\ roundBet \in [Rounds -> [Players -> Nat]] /\ amount \in Nat
      /\ roundBet' = [roundBet EXCEPT ![round][p] = roundBet[round][p] + amount]
  BY MaxBringInAssumption DEF PoolInv, TypeOK, PlaceBet
<1>2. \A n \in Rounds : /\ roundBet[n][q] \in Nat
                        /\ roundBet'[n][q] = IF n = round /\ q = p
                                             THEN roundBet[n][q] + amount ELSE roundBet[n][q]
  BY <1>1
<1> QED BY <1>1, <1>2 DEF Rounds, RoundTotal

\* The pools and the per-round books agree at every step.
THEOREM LedgerSafety == Spec => []PoolsMatchRounds
<1>1. Init => PoolsMatchRounds
  <2> SUFFICES ASSUME Init, NEW q \in Players
               PROVE  PlayerTotal(pools, q) + InFlight(q) = RoundTotal(q)
    BY DEF PoolsMatchRounds
  <2>1. PlayerTotal(pools, q) = 0
    BY EmptyPools DEF Init
  <2>2. InFlight(q) = 0 /\ RoundTotal(q) = 0
    BY DEF Init, InFlight, Idle, RoundTotal, Rounds
  <2> QED BY <2>1, <2>2
<1>2. PoolInv /\ PoolsMatchRounds /\ [Next]_vars => PoolsMatchRounds'
  <2> SUFFICES ASSUME PoolInv, PoolsMatchRounds, [Next]_vars, NEW q \in Players
               PROVE  (PlayerTotal(pools, q) + InFlight(q) = RoundTotal(q))'
    BY DEF PoolsMatchRounds
  <2>0. PlayerTotal(pools, q) + InFlight(q) = RoundTotal(q)
    BY DEF PoolsMatchRounds
  <2>1. ASSUME NEW p \in Players, NEW amount \in 1..MaxBringIn, PlaceBet(p, amount)
        PROVE  (PlayerTotal(pools, q) + InFlight(q) = RoundTotal(q))'
    <3>1. RoundTotal(q)' = RoundTotal(q) + (IF q = p THEN amount ELSE 0)
      BY <2>1, BetRaisesBooks
    <3>2. pools' = pools /\ amount \in Nat \ {0}
      BY <2>1, MaxBringInAssumption DEF PlaceBet
    <3>3. InFlight(q) = 0
      BY <2>1 DEF PlaceBet, InFlight, Idle
    <3>4. InFlight(q)' = IF q = p THEN amount ELSE 0
      BY <2>1, <3>2 DEF PlaceBet, InFlight
    <3>5. PlayerTotal(pools, q) \in Nat
      <4>1. pools \in Seq(Pool)
        BY DEF PoolInv, TypeOK
      <4> QED BY <4>1, PlayerTotalType
    <3> QED BY <2>0, <3>1, <3>2, <3>3, <3>4, <3>5
  <2>2. ASSUME NEW p \in Players, NEW amount \in 1..MaxBringIn, RejectBet(p, amount)
        PROVE  (PlayerTotal(pools, q) + InFlight(q) = RoundTotal(q))'
    BY <2>0, <2>2 DEF RejectBet, InFlight, RoundTotal
  <2>3. CASE VisitPool
    <3>1. RoundTotal(q)' = RoundTotal(q)
      BY <2>3 DEF VisitPool, RoundTotal
    <3> QED BY <2>0, <2>3, <3>1, VisitKeepsLedger
  <2>4. CASE NextRound
    BY <2>0, <2>4 DEF NextRound, InFlight, RoundTotal
  <2>5. CASE UNCHANGED vars
    BY <2>0, <2>5 DEF vars, InFlight, RoundTotal
  <2> QED BY <2>1, <2>2, <2>3, <2>4, <2>5 DEF Next
<1> QED BY <1>1, <1>2, PoolSafety, PTL DEF Spec

\* In every reachable state the variables of the chip pool have their types
\* (game.go, termChipPool and chipPool).
THEOREM PoolTypes == Spec => []TypeOK
<1>1. PoolInv => TypeOK
  BY DEF PoolInv
<1> QED BY <1>1, PoolSafety, PTL

\* In every reachable state the pools are layered, in whatever order the bets,
\* and the splits they make, come (chipPool.bet).
THEOREM LayersHold == Spec => []Layered
<1>1. PoolInv => Layered
  BY DEF PoolInv
<1> QED BY <1>1, PoolSafety, PTL

\* In every reachable state the maxima of the pools are right and the walk of a bet
\* stays in the list (chipPool.splitByMore, splitByLess, termChipPool.bet).
THEOREM MaximaHold == Spec => []InGoodOrder
<1>1. PoolInv => InGoodOrder
  BY DEF PoolInv, InGoodOrder
<1> QED BY <1>1, PoolSafety, PTL

-----------------------------------------------------------------------------
(* Settlement.                                                              *)

\* A ranking gives every player a number.
LEMMA RankingsType ==
  ASSUME NEW rank \in Rankings
  PROVE  rank \in [Players -> Nat]
<1>1. Cardinality(Players) \in Nat
  BY PlayersAssumption, FS_CardinalityType
<1> QED BY <1>1 DEF Rankings

\* Whatever the pools and the ranking, the hand pays out no more than was put in,
\* and keeps no more than the rounding in each pool and the pools nobody in the
\* ranking has joined: the shares of a pool are at most the pool and leave over less
\* than a chip for each winner, and the pools are the stakes (termChipPool.finalize,
\* chipPool.finalize).
THEOREM PayoutsAreCovered == Spec => []PayoutWithinPot
<1>1. PoolInv => PayoutWithinPot
  <2> SUFFICES ASSUME PoolInv, NEW rank \in Rankings
               PROVE  /\ SumChips(Finalize(pools, rank)) <= PotChips(pools)
                      /\ PotChips(pools) <= SumChips(Finalize(pools, rank))
                           + SumChips([k \in DOMAIN pools |-> LeftOver(pools[k], rank)])
    BY DEF PayoutWithinPot
  <2>1. pools \in Seq(Pool)
    BY DEF PoolInv, TypeOK
  <2>2. rank \in [Players -> Nat]
    BY RankingsType
  <2> QED BY <2>1, <2>2, FinalizeWithinPot, FinalizeKeepsLittle
<1> QED BY <1>1, PoolSafety, PTL

\* However the stakes are spread over the pools, a player beaten by somebody who
\* has staked at least as much gets nothing, and equal hands are paid by their
\* stakes: who has staked as much has as much in every pool, as the list is
\* layered (chipPool.matchWinners, termChipPool.finalize).
THEOREM SettlementFollowsHands == Spec => []BetterHandTakesAll
<1>1. PoolInv => BetterHandTakesAll
  <2> SUFFICES ASSUME PoolInv, NEW rank \in Rankings, NEW p \in Players, NEW q \in Players,
                      rank[p] > 0, rank[p] <= rank[q],
                      PlayerTotal(pools, p) >= PlayerTotal(pools, q)
               PROVE  /\ rank[p] < rank[q] => Finalize(pools, rank)[q] = 0
                      /\ rank[p] = rank[q] => Finalize(pools, rank)[p] >= Finalize(pools, rank)[q]
    BY DEF BetterHandTakesAll
  <2>1. pools \in Seq(Pool) \ {<<>>}
    BY DEF PoolInv, TypeOK
  <2>2. GoodList(pools)
    BY <2>1, GoodOrder DEF PoolInv
  <2>3. rank \in [Players -> Nat]
    BY RankingsType
  <2>4. /\ rank[p] < rank[q] => Finalize(pools, rank)[q] = 0
        /\ rank[p] = rank[q] => Finalize(pools, rank)[q] <= Finalize(pools, rank)[p]
    BY <2>2, <2>3, WinsFollowHands
  <2>5. Finalize(pools, rank) \in [Players -> Nat]
    BY <2>1, FinalizeWithinPot
  <2> QED BY <2>4, <2>5
<1> QED BY <1>1, PoolSafety, PTL

-----------------------------------------------------------------------------
(* The ledger.                                                              *)

\* The pools implement the ledger of stakes: a bet is one stake, at the moment it
\* is booked, and a step of its walk through the pools changes no account.
THEOREM PoolsImplementLedger == Spec => ImplementsLedger
<1> DEFINE pot == [p \in Players |-> PlayerTotal(pools, p) + InFlight(p)]
<1>1. PoolsMatchRounds => pot = [p \in Players |-> RoundTotal(p)]
  BY DEF PoolsMatchRounds
<1>2. Init /\ PoolsMatchRounds => Ledger!Init
  <2> SUFFICES ASSUME Init, PoolsMatchRounds PROVE pot = [p \in Players |-> 0]
    BY DEF Ledger!Init
  <2>1. \A p \in Players : RoundTotal(p) = 0
    BY DEF Init, RoundTotal, Rounds
  <2> QED BY <1>1, <2>1
<1>3. PoolInv /\ PoolsMatchRounds /\ PoolsMatchRounds' /\ [Next]_vars => [Ledger!Next]_pot
  <2> SUFFICES ASSUME PoolInv, PoolsMatchRounds, PoolsMatchRounds', [Next]_vars
               PROVE  [Ledger!Next]_pot
    OBVIOUS
  <2>0. pot = [p \in Players |-> RoundTotal(p)] /\ pot' = [p \in Players |-> RoundTotal(p)']
    BY DEF PoolsMatchRounds
  <2> HIDE DEF pot
  <2>1. ASSUME NEW p \in Players, NEW amount \in 1..MaxBringIn, PlaceBet(p, amount)
        PROVE  Ledger!Next
    <3>1. \A q \in Players : RoundTotal(q)' = RoundTotal(q) + (IF q = p THEN amount ELSE 0)
      BY <2>1, BetRaisesBooks
    <3>2. \A q \in Players : RoundTotal(q) \in Nat
      BY RoundTotalType
    <3>3. pot' = [pot EXCEPT ![p] = pot[p] + amount]
      BY <2>0, <3>1, <3>2
    <3>4. Ledger!Stake(p, amount)
      BY <3>3 DEF Ledger!Stake, pot
    <3> QED BY <3>4 DEF Ledger!Next
  <2>2. ASSUME UNCHANGED roundBet
        PROVE  pot' = pot
    BY <2>0, <2>2 DEF RoundTotal
  <2> QED BY <2>1, <2>2 DEF Next, RejectBet, VisitPool, NextRound, vars
<1>4. Spec => []PoolsMatchRounds /\ []PoolInv
  BY LedgerSafety, PoolSafety
<1> HIDE DEF pot
<1> QED BY <1>2, <1>3, <1>4, PTL DEF Spec, ImplementsLedger, Ledger!Spec, pot
=============================================================================
