---------------------------- MODULE ChipPoolOps ----------------------------
(***************************************************************************)
(* The chip pools of a hand (texas/core/game.go, chipPool): how one pool    *)
(* takes a bet, when it splits into a pool everyone covers and a side pool  *)
(* with the excess, and how a pool is paid out.                             *)
(*                                                                         *)
(* A pool is a record.  The linked list p.nextPool is a sequence of pools,  *)
(* Len(pools) = 1 at the start.  The Go map total holds a key exactly when  *)
(* the player has put chips into the pool (every assignment to it stores a  *)
(* positive number), so a total function with 0 for an absent key keeps     *)
(* what the code can tell apart.                                            *)
(***************************************************************************)
EXTENDS Naturals, Sequences, FiniteSets, SequencesExt, Functions

CONSTANT Players            \* the seats of the hand

ASSUME PlayersAssumption == IsFiniteSet(Players)

\* Rounds in which a bet can be placed: before the flop, flop, turn, river.
Rounds == 1..4

Pool == [max : Nat, haveAllIn : BOOLEAN, total : [Players -> Nat]]

\* newChipPool: the round tag of a pool is never read and is left out.
NewPool == [max |-> 0, haveAllIn |-> FALSE, total |-> [q \in Players |-> 0]]

\* (an error to look for: what stays behind is not subtracted)
SplitByMoreWhole(pool, p, cur, allIn) ==
  [ kept |-> [pool EXCEPT !.total[p] = pool.max],
    side |-> [max |-> cur, haveAllIn |-> allIn,
              total |-> [q \in Players |-> IF q = p THEN cur ELSE 0]] ]

\* The bettor has more than a pool that an all-in already capped: the bettor
\* fills that pool and opens the next one alone.
SplitByMore(pool, p, cur, allIn) ==
  [ kept |-> [max |-> pool.max, haveAllIn |-> pool.haveAllIn,
              total |-> [pool.total EXCEPT ![p] = pool.max]],
    side |-> [max |-> cur - pool.max, haveAllIn |-> allIn,
              total |-> [q \in Players |-> IF q = p THEN cur - pool.max ELSE 0]] ]

\* What the others hold above the level cur.
Excess(pool, p, cur) ==
  [q \in Players |-> IF q # p /\ pool.total[q] > cur THEN pool.total[q] - cur ELSE 0]

\* (an error to look for: the new pool gets the smallest excess as its maximum)
SplitByLessLowMax(pool, p, cur) ==
  LET excess == Excess(pool, p, cur)
  IN  [ kept |-> [pool EXCEPT !.max = cur, !.total = [q \in Players |->
                    IF q = p \/ pool.total[q] > cur THEN cur ELSE pool.total[q]]],
        side |-> [max |-> CHOOSE m \in {excess[q] : q \in Players} \ {0} :
                            \A q \in Players : excess[q] > 0 => excess[q] >= m,
                  haveAllIn |-> FALSE, total |-> excess] ]

\* The bettor has less than the pool: the pool is cut down to the bettor's
\* level and the excess of the others moves to a new pool right behind it,
\* whose haveAllIn is left FALSE.
SplitByLess(pool, p, cur) ==
  LET excess == Excess(pool, p, cur)
  IN  [ kept |-> [max |-> cur,
                  haveAllIn |-> pool.haveAllIn,
                  total |-> [q \in Players |->
                               IF q = p \/ pool.total[q] > cur THEN cur ELSE pool.total[q]]],
        side |-> [max |-> CHOOSE m \in {excess[q] : q \in Players} :
                            \A q \in Players : excess[q] <= m,
                  haveAllIn |-> FALSE,
                  total |-> excess] ]

\* (an error to look for: a split does not link the new pool)
PoolBetUnlinked(pool, p, amount, allIn, isLast) ==
  LET cur == pool.total[p] + amount
      top == IF isLast THEN cur ELSE pool.max
      marked == [pool EXCEPT !.haveAllIn = @ \/ allIn]
      Split(s) == [kept |-> s.kept, behind |-> <<>>, remain |-> 0]
  IN  IF isLast /\ pool.haveAllIn /\ cur > pool.max
      THEN Split(SplitByMore(pool, p, cur, allIn))
      ELSE IF cur < pool.max
      THEN Split(SplitByLess(marked, p, cur))
      ELSE [ kept   |-> [marked EXCEPT !.max = top, !.total[p] = top],
             behind |-> <<>>,
             remain |-> cur - top ]

\* chipPool.bet: player p brings amount > 0 to this pool.  The result is the
\* pool that stays at this place, the new pool behind it (<<>> for none) and
\* the chips left over for the next pool.
PoolBet(pool, p, amount, allIn, isLast) ==
  LET cur == pool.total[p] + amount
      top == IF isLast THEN cur ELSE pool.max
      marked == [max |-> pool.max, haveAllIn |-> pool.haveAllIn \/ allIn, total |-> pool.total]
      Split(s) == [kept |-> s.kept, behind |-> <<s.side>>, remain |-> 0]
  IN  IF isLast /\ pool.haveAllIn /\ cur > pool.max
      THEN Split(SplitByMore(pool, p, cur, allIn))
      ELSE IF cur < pool.max
      THEN Split(SplitByLess(marked, p, cur))
      ELSE [ kept   |-> [max |-> top, haveAllIn |-> marked.haveAllIn,
                         total |-> [pool.total EXCEPT ![p] = top]],
             behind |-> <<>>,
             remain |-> cur - top ]

\* (an error to look for: a new pool goes to the end of the list)
VisitAppending(list, i, p, amount, allIn) ==
  LET r == PoolBet(list[i], p, amount, allIn, i = Len(list))
  IN  [ list   |-> [list EXCEPT ![i] = r.kept] \o r.behind,
        remain |-> r.remain ]

\* One iteration of the loop of termChipPool.bet: the i-th pool takes what it can
\* of the amount, and a new pool is linked in right behind it.
VisitAt(list, i, p, amount, allIn) ==
  LET r    == PoolBet(list[i], p, amount, allIn, i = Len(list))
      stay == [list EXCEPT ![i] = r.kept]
  IN  [ list   |-> IF r.behind = <<>> THEN stay ELSE InsertAt(stay, i + 1, Head(r.behind)),
        remain |-> r.remain ]

\* The loop of termChipPool.bet: pool by pool, until nothing of the amount is left.
PoolWalk(pools, p, amount, allIn) ==
  LET walk[k \in 0..Len(pools)] ==
        IF k = 0 THEN [list |-> pools, remain |-> amount]
        ELSE IF walk[k - 1].remain = 0 THEN walk[k - 1]
        ELSE VisitAt(walk[k - 1].list, k, p, walk[k - 1].remain, allIn)
  IN  walk

BetPools(pools, p, amount, allIn) == PoolWalk(pools, p, amount, allIn)[Len(pools)].list

\* "infinity loop": something is left after so many pools, and the loop panics.
Overruns(limit, pools, p, amount, allIn) ==
  Len(pools) > limit /\ PoolWalk(pools, p, amount, allIn)[limit].remain > 0

\* playerTotalBetByChildPool: what p has in all pools together.
PlayerTotal(pools, p) ==
  LET sum[k \in 0..Len(pools)] == IF k = 0 THEN 0 ELSE sum[k - 1] + pools[k].total[p]
  IN  sum[Len(pools)]

SumChips(f) == SumFunction(f)

\* allPlayerTotalChip
PoolChips(pool) == SumChips(pool.total)
PotChips(pools) == SumChips([k \in DOMAIN pools |-> PoolChips(pools[k])])

-----------------------------------------------------------------------------
(* Settlement.  rank[p] is the place of p's hand (1 is best, equal hands     *)
(* have equal ranks); 0 stands for a player who is not in the ranking        *)
(* because he discarded.                                                     *)

\* What rankPlayers can return for the players still in: equal hands in one rank,
\* and no rank without a player.
HandRanks(in) ==
  {rank \in [Players -> 0..Cardinality(in)] :
     /\ \A p \in Players : rank[p] = 0 <=> p \notin in
     /\ \A p \in in : rank[p] = 1 \/ \E q \in in : rank[q] = rank[p] - 1}

\* (an error to look for: the ranks are walked from the last one)
WorstPlayers(pool, rank) ==
  LET eligible == {p \in Players : rank[p] > 0 /\ pool.total[p] > 0}
  IN  {p \in eligible : \A q \in eligible : rank[p] >= rank[q]}

\* matchWinners for the first rank that has somebody in the pool.
PoolWinners(pool, rank) ==
  LET eligible == {p \in Players : rank[p] > 0 /\ pool.total[p] > 0}
  IN  {p \in eligible : \A q \in eligible : rank[p] <= rank[q]}

\* (an error to look for: every winner gets the whole pool)
PoolShareUndivided(pool, rank, p) ==
  IF p \in PoolWinners(pool, rank) THEN PoolChips(pool) ELSE 0

\* chipPool.finalize: an equal share for every winner; the remainder of the
\* division stays with the house, and so does a pool that has no winner.
PoolShare(pool, rank, p) ==
  LET winners == PoolWinners(pool, rank)
  IN  IF p \in winners THEN PoolChips(pool) \div Cardinality(winners) ELSE 0

\* What the house may keep of a pool: all of it when nobody in the ranking has
\* joined it, and else what a division among some of those who have leaves over.
LeftOver(pool, rank) ==
  LET joined == {p \in Players : rank[p] > 0 /\ pool.total[p] > 0}
  IN  IF joined = {} THEN PoolChips(pool) ELSE Cardinality(joined) - 1

\* termChipPool.finalize
Finalize(pools, rank) ==
  [p \in Players |-> SumChips([k \in DOMAIN pools |-> PoolShare(pools[k], rank, p)])]
=============================================================================
