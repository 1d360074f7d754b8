------------------------------ MODULE ChipPool ------------------------------
(***************************************************************************)
(* The chip pool of one hand (texas/core/game.go, termChipPool) with the    *)
(* stacks of the players that feed it (texas/core/player.go, Player.Bet).   *)
(*                                                                         *)
(* termChipPool.bet books a bet in the per-round ledger and then walks down *)
(* the list of pools; the walk is one action per pool visited, so what      *)
(* holds of the walk can be stated, and proved, without unfolding the loop. *)
(* Everything runs in the goroutine of the hand: no other bet starts while  *)
(* a walk is under way.                                                     *)
(*                                                                         *)
(* The players bet in any order here; Game.tla has the order of play.       *)
(***************************************************************************)
EXTENDS ChipPoolOps

CONSTANTS MaxBringIn,       \* the largest stack a player can bring to the table
          LoopLimit         \* the pools a bet may visit: 20 in the code

ASSUME MaxBringInAssumption == MaxBringIn \in Nat \ {0} /\ LoopLimit \in Nat \ {0}

VARIABLES chips,      \* Player.remain of each player
          round,      \* the round the callers bet in
          roundMax,   \* roundMaxAmount: the highest total of a round
          roundBet,   \* roundTotalBet: what each player put in, by round
          pools,      \* the list of pools that starts at termChipPool.pool
          call        \* the bet being walked down the list, or Idle

vars == <<chips, round, roundMax, roundBet, pools, call>>

\* remainAmount = 0 ends the loop of termChipPool.bet.
Idle == [remain |-> 0]

Call == [player : Players, allIn : BOOLEAN, remain : Nat \ {0}, at : Nat \ {0}]

InFlight(p) == IF call.remain > 0 /\ call.player = p THEN call.remain ELSE 0

\* playerTotalBetByRound
RoundTotal(p) == roundBet[1][p] + roundBet[2][p] + roundBet[3][p] + roundBet[4][p]

-----------------------------------------------------------------------------
Init == /\ chips \in [Players -> 1..MaxBringIn]
        /\ round = 1
        /\ roundMax = [r \in Rounds |-> 0]
        /\ roundBet = [r \in Rounds |-> [p \in Players |-> 0]]
        /\ pools = <<NewPool>>
        /\ call = Idle

\* "bet not enough": only an all-in may stay below the highest bet.
Enough(p, amount) ==
  amount = chips[p] \/ roundBet[round][p] + amount >= roundMax[round]

\* (an error to look for: Player.Bet does not look at what the player has)
PlaceAnyBet(p, amount) ==
  LET total == roundBet[round][p] + amount
  IN  /\ call = Idle
      /\ Enough(p, amount)
      /\ chips' = [chips EXCEPT ![p] = @ - amount]
      /\ roundMax' = [roundMax EXCEPT ![round] = IF total > @ THEN total ELSE @]
      /\ roundBet' = [roundBet EXCEPT ![round][p] = total]
      /\ call' = [player |-> p, allIn |-> amount = chips[p], remain |-> amount, at |-> 1]
      /\ UNCHANGED <<round, pools>>

\* Player.Bet takes the chips and the pool books them.
PlaceBet(p, amount) ==
  LET total == roundBet[round][p] + amount
  IN  /\ call = Idle
      /\ amount <= chips[p]
      /\ Enough(p, amount)
      /\ chips' = [chips EXCEPT ![p] = @ - amount]
      /\ roundMax' = [roundMax EXCEPT ![round] = IF total > @ THEN total ELSE @]
      /\ roundBet' = [roundBet EXCEPT ![round][p] = total]
      /\ call' = [player |-> p, allIn |-> amount = chips[p], remain |-> amount, at |-> 1]
      /\ UNCHANGED <<round, pools>>

\* Player.Bet has taken the chips before the pool answers "bet not enough",
\* and the caller drops the error.
RejectBet(p, amount) ==
  /\ call = Idle
  /\ amount <= chips[p]
  /\ ~Enough(p, amount)
  /\ chips' = [chips EXCEPT ![p] = @ - amount]
  /\ UNCHANGED <<round, roundMax, roundBet, pools, call>>

\* One iteration of the loop: nextPool.bet, then on to its nextPool.  With one
\* more than LoopLimit of them the loop panics, and the process is gone.
VisitPool ==
  LET v == VisitAt(pools, call.at, call.player, call.remain, call.allIn)
  IN  /\ call # Idle /\ call.at <= LoopLimit
      /\ pools' = v.list
      /\ call' = IF v.remain = 0 THEN Idle
                 ELSE [call EXCEPT !.remain = v.remain, !.at = @ + 1]
      /\ UNCHANGED <<chips, round, roundMax, roundBet>>

\* The hand moves to its next round.
NextRound ==
  /\ call = Idle
  /\ round < 4
  /\ round' = round + 1
  /\ UNCHANGED <<chips, roundMax, roundBet, pools, call>>

Next == \/ \E p \in Players, amount \in 1..MaxBringIn :
             PlaceBet(p, amount) \/ RejectBet(p, amount)
        \/ VisitPool
        \/ NextRound

Spec == Init /\ [][Next]_vars

-----------------------------------------------------------------------------
\* Every variable has its type.
TypeOK == /\ chips \in [Players -> 0..MaxBringIn]
          /\ round \in Rounds
          /\ roundMax \in [Rounds -> Nat]
          /\ roundBet \in [Rounds -> [Players -> Nat]]
          /\ pools \in Seq(Pool) \ {<<>>}
          /\ call \in Call \cup {Idle}

\* A pool never holds more of a player than its declared maximum: a winner of
\* the pool has covered, or everybody has covered less than, that maximum
\* (chipPool.maxAmount and chipPool.total through every split).
Capped == \A k \in 1..Len(pools) : \A p \in Players :
            pools[k].total[p] <= pools[k].max

\* The list is layered: who has chips in a pool has filled every pool in front
\* of it.  Side pools are only worth their name if this survives every order
\* of splits, in particular a split in the middle of the list.
Layered == \A k \in 1..Len(pools) - 1 : \A p \in Players :
             pools[k + 1].total[p] > 0 => pools[k].total[p] = pools[k].max

\* The maximum of a pool is the stake of some player in it, and is positive
\* once somebody is all in or the list has more than one pool: no pool is empty
\* but the first one before the first bet.
Attained == \A k \in 1..Len(pools) :
              /\ pools[k].max > 0 => \E p \in Players : pools[k].total[p] = pools[k].max
              /\ pools[k].haveAllIn \/ Len(pools) > 1 => pools[k].max > 0

\* The walk of a bet never leaves the list (nextPool is never nil while chips
\* remain) and has filled every pool it has passed.
WalkInList == call # Idle =>
                /\ call.at <= Len(pools)
                /\ \A k \in 1..call.at - 1 :
                     pools[k].total[call.player] = pools[k].max

\* Every pool has a maximum that somebody has staked and nobody exceeds, and a bet
\* on its way is somewhere in the list.
InGoodOrder == Capped /\ Attained /\ WalkInList

\* The chain of pools and the per-round books agree for every player at every
\* step of the walk, chips still in hand included: no split creates, loses or
\* moves a chip (the tests assert playerTotalBetByChildPool =
\* playerTotalBetByRound after a few hand-made sequences of bets).
PoolsMatchRounds == \A p \in Players :
                      PlayerTotal(pools, p) + InFlight(p) = RoundTotal(p)

\* Rankings of the players, a rank for each place taken and 0 for a player out of
\* the ranking.
Rankings ==
  {rank \in [Players -> 0..Cardinality(Players)] :
     /\ \E p \in Players : rank[p] = 1
     /\ \A p \in Players : rank[p] > 1 => \E q \in Players : rank[q] = rank[p] - 1}

\* Whatever the pools, the hand pays out no more than was put in, and all of that
\* but for the rounding in each pool and the pools nobody in the ranking has joined
\* (termChipPool.finalize, chipPool.finalize).
PayoutWithinPot ==
  call = Idle => \A rank \in Rankings :
    LET paid == SumChips(Finalize(pools, rank))
        kept == SumChips([k \in DOMAIN pools |-> LeftOver(pools[k], rank)])
    IN  paid <= PotChips(pools) /\ PotChips(pools) <= paid + kept

\* Settlement follows the hands: a player beaten by somebody who has staked at
\* least as much gets nothing, and equal hands with equal stakes get equal
\* shares, however the stakes were spread over the pools.
BetterHandTakesAll ==
  call = Idle =>
    LET stake == [p \in Players |-> PlayerTotal(pools, p)]
    IN  \A rank \in Rankings :
          LET win == Finalize(pools, rank)
          IN  \A p, q \in Players :
                rank[p] > 0 /\ rank[p] <= rank[q] /\ stake[p] >= stake[q] =>
                  /\ rank[p] < rank[q] => win[q] = 0
                  /\ rank[p] = rank[q] => win[p] >= win[q]

\* "Marks whether somebody in this pool is all in" (comment of chipPool.haveAllIn):
\* an unmarked pool holds no chips of an all-in player.
HaveAllInMarks ==
  call = Idle => \A k \in 1..Len(pools) : \A p \in Players :
    pools[k].total[p] > 0 /\ chips[p] = 0 => pools[k].haveAllIn

-----------------------------------------------------------------------------
\* The list of pools, chips on their way included, is a ledger of stakes.
Ledger == INSTANCE PotLedger WITH
            pot <- [p \in Players |-> PlayerTotal(pools, p) + InFlight(p)]

ImplementsLedger == Ledger!Spec
=============================================================================
