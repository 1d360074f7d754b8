-------------------------------- MODULE Game --------------------------------
(***************************************************************************)
(* One hand of poker (texas/core/game.go, Game): whose turn it is, when a   *)
(* betting round ends, when the hand ends and who is paid.                  *)
(*                                                                         *)
(* Every action is one handler run by the goroutine of Game.loop, from the  *)
(* message or timeout that started it to its return.  Seat 0 is the dealer, *)
(* seats 1 and 2 are the blinds.  Which hand beats which is left open: the  *)
(* settlement chooses any ranking of the players who have not discarded     *)
(* (Ranking has how the code finds it).                                     *)
(***************************************************************************)
EXTENDS ChipPoolOps, Integers, FiniteSetsExt

CONSTANTS NumPlayers,       \* playersLen
          Stacks,           \* the stacks a player can bring in
          Amounts,          \* what a bet carries when it is not the whole stack
          Xm,               \* xmBet, the small blind
          LoopLimit         \* the pools a bet may visit: 20 in the code

ASSUME GameAssumption ==
  /\ NumPlayers \in Nat /\ NumPlayers >= 3      \* doStart uses seats 1 and 2
  /\ Players = 0..NumPlayers - 1
  /\ Xm \in Nat \ {0} /\ LoopLimit \in Nat \ {0}
  /\ Stacks \subseteq Nat /\ IsFiniteSet(Stacks)
  /\ Amounts \subseteq Nat
  /\ \A s \in Stacks : s > 2 * Xm               \* TableLevel.MinHave > 2 * Xm

Seats == Players

VARIABLES bringIn,               \* Player.bringIn
          chips,                 \* Player.remain
          win,                   \* Player.win
          discarded,             \* the players with Player.discarded
          allInned,              \* the players with Player.allInned
          discardedPlayerCount,
          allInnedPlayerCount,
          curBetPlayer,
          curRound,
          startBetAt,
          commonPokers,          \* how many cards lie on the board
          roundMax,              \* termChipPool.roundMaxAmount
          roundBet,              \* termChipPool.roundTotalBet
          pools,                 \* termChipPool.pool and the pools behind it
          stopClosed,            \* stopChan is closed
          status                 \* of the goroutine: running, finished or panicked

money  == <<bringIn, chips, win>>
who    == <<discarded, allInned, discardedPlayerCount, allInnedPlayerCount>>
turn   == <<curBetPlayer, curRound, startBetAt>>
board  == <<commonPokers>>
book   == <<roundMax, roundBet, pools>>
ending == <<stopClosed, status>>
vars   == <<money, who, turn, board, book, ending>>

CanAct(p) == p \notin discarded \cup allInned

Level(p) == roundBet[curRound][p]

-----------------------------------------------------------------------------
\* What doStart does before the loop: two cards each (not on the board) and
\* the blinds, booked without an all-in mark; seat 3 is the first to bet.
Blind(p) == IF p = 1 THEN Xm ELSE IF p = 2 THEN 2 * Xm ELSE 0

Init ==
  /\ bringIn \in [Seats -> Stacks]
  /\ chips = [p \in Seats |-> bringIn[p] - Blind(p)]
  /\ win = [p \in Seats |-> 0]
  /\ discarded = {} /\ allInned = {}
  /\ discardedPlayerCount = 0 /\ allInnedPlayerCount = 0
  /\ curBetPlayer = 3 /\ curRound = 1 /\ startBetAt = 3
  /\ commonPokers = 0
  /\ roundMax = [r \in Rounds |-> IF r = 1 THEN 2 * Xm ELSE 0]
  /\ roundBet = [r \in Rounds |-> [p \in Seats |-> IF r = 1 THEN Blind(p) ELSE 0]]
  /\ pools = BetPools(BetPools(<<NewPool>>, 1, Xm, FALSE), 2, 2 * Xm, FALSE)
  /\ stopClosed = FALSE
  /\ status = "running"

\* nextPlayer, i seats on: seat 0 follows the last one.
Seat(i) == IF i >= NumPlayers THEN i - NumPlayers ELSE i

\* (an error to look for: only the discarded are skipped)
NextNotDiscarded(cur) ==
  LET dist == {d \in 1..NumPlayers - 1 : Seat(cur + d) \notin discarded'}
  IN  IF dist = {} THEN cur ELSE Seat(cur + Min(dist))

\* nextBetPlayer: the next seat round the table that is neither discarded nor
\* all in (as the handler leaves them), or cur itself if there is none.
NextBetPlayer(cur) ==
  LET dist == {d \in 1..NumPlayers - 1 : Seat(cur + d) \notin discarded' \cup allInned'}
  IN  IF dist = {} THEN cur ELSE Seat(cur + Min(dist))

\* dealCards: the cards a round adds to the board.
Dealt == <<0, 3, 1, 1>>

\* What the rounds from this one on add.
DealtFrom(round) ==
  LET added(r) == IF r < round THEN 0 ELSE Dealt[r]
  IN  added(1) + added(2) + added(3) + added(4)

\* (an error to look for: a second stop is let through)
SettleAgain(rank) ==
  /\ win' = LET result == Finalize(pools', rank) IN [p \in Seats |-> win[p] + result[p]]
  /\ stopClosed' = TRUE
  /\ UNCHANGED status

\* mergeResultToPlayers and stop: closing stopChan twice panics.
Settle(rank) ==
  /\ win' = LET result == Finalize(pools', rank) IN [p \in Seats |-> win[p] + result[p]]
  /\ stopClosed' = TRUE
  /\ status' = IF stopClosed THEN "panicked" ELSE status

GoOn == UNCHANGED <<win, stopClosed, status>>

\* allDiscardedEnd
AllDiscardedEnd ==
  /\ discardedPlayerCount' + 1 = NumPlayers
  /\ Settle([p \in Seats |-> IF p \in discarded' THEN 0 ELSE 1])
  /\ UNCHANGED <<turn, board>>

\* (an error to look for: the discarded are ranked too)
EndForAll == \E rank \in HandRanks(Seats) : Settle(rank)

\* end
End == \E rank \in HandRanks(Seats \ discarded') : Settle(rank)

\* (an error to look for: a round without a bet does not end)
RoundMatched(next) ==
  /\ roundMax'[curRound] # 0
  /\ roundBet'[curRound][next] = roundMax'[curRound]

\* Nobody has bet in the round and it is back at its first player, or the next
\* player has already put in the most.
RoundOver(next) ==
  \/ roundMax'[curRound] = 0 /\ startBetAt = next
  \/ roundMax'[curRound] # 0 /\ roundBet'[curRound][next] = roundMax'[curRound]

\* (an error to look for: off by one)
TwoCanAct == discardedPlayerCount' + allInnedPlayerCount' + 2 = NumPlayers

OneCanAct == discardedPlayerCount' + allInnedPlayerCount' + 1 = NumPlayers

\* (an error to look for: the cards of the current round are dealt again)
DealingAgainToEnd(next) ==
  /\ OneCanAct
  /\ curRound' = 4
  /\ curBetPlayer' = next
  /\ commonPokers' = commonPokers + DealtFrom(curRound)
  /\ UNCHANGED startBetAt
  /\ End

\* dealingCardsToEnd: the rest of the board, then the settlement.
DealingCardsToEnd(next) ==
  /\ OneCanAct
  /\ curRound' = 4
  /\ curBetPlayer' = next
  /\ commonPokers' = commonPokers + DealtFrom(curRound + 1)
  /\ UNCHANGED startBetAt
  /\ End

\* setupNewRound, and the end of the hand after round 4.
SetupNewRound ==
  LET sAt == NextBetPlayer(0)
  IN  /\ ~OneCanAct
      /\ curRound' = curRound + 1
      /\ startBetAt' = sAt
      /\ curBetPlayer' = sAt
      /\ commonPokers' = IF curRound' < 5 THEN commonPokers + Dealt[curRound']
                       ELSE commonPokers
      /\ IF curRound' > 4 THEN End ELSE GoOn

NextTurn(next) ==
  /\ curBetPlayer' = next
  /\ UNCHANGED <<curRound, startBetAt, board>>
  /\ GoOn

\* afterPlayerActionOrTimeout
AfterPlayerActionOrTimeout ==
  LET next == NextBetPlayer(curBetPlayer)
  IN  \/ AllDiscardedEnd
      \/ /\ discardedPlayerCount' + 1 # NumPlayers
         /\ IF RoundOver(next)
            THEN DealingCardsToEnd(next) \/ SetupNewRound
            ELSE NextTurn(next)

-----------------------------------------------------------------------------
\* A message for this player and this round gets past the checks of onMsg.  A
\* message can still be taken after stopChan is closed: the select of the loop
\* chooses at random.  Clients only know rounds 1 to 4.
Acting == /\ status = "running"
          /\ curRound \in Rounds
          /\ curBetPlayer \in Seats
          /\ CanAct(curBetPlayer)

\* (an error to look for: the round is booked before the bet is refused)
BookedBeforeRefused(p, amount) ==
  LET total == Level(p) + amount
  IN  /\ roundBet' = [roundBet EXCEPT ![curRound][p] = total]
      /\ IF amount > 0 /\ (amount = chips[p] \/ total >= roundMax[curRound])
         THEN /\ roundMax' = [roundMax EXCEPT ![curRound] = IF total > @ THEN total ELSE @]
              /\ pools' = BetPools(pools, p, amount, amount = chips[p])
         ELSE UNCHANGED <<roundMax, pools>>

\* (an error to look for: every bet is booked in the first round)
BookedInFirstRound(p, amount) ==
  LET total == Level(p) + amount
  IN  IF amount > 0 /\ (amount = chips[p] \/ total >= roundMax[curRound])
      THEN /\ roundMax' = [roundMax EXCEPT ![curRound] = IF total > @ THEN total ELSE @]
           /\ roundBet' = [roundBet EXCEPT ![1][p] = @ + amount]
           /\ pools' = BetPools(pools, p, amount, amount = chips[p])
      ELSE UNCHANGED book

\* termChipPool.bet refuses a bet below the highest one that is not an all-in.
Taken(p, amount) ==
  amount > 0 /\ (amount = chips[p] \/ Level(p) + amount >= roundMax[curRound])

Booked(p, amount) ==
  LET total == Level(p) + amount
  IN  IF Taken(p, amount)
      THEN /\ roundMax' = [roundMax EXCEPT ![curRound] = IF total > @ THEN total ELSE @]
           /\ roundBet' = [roundBet EXCEPT ![curRound][p] = total]
           /\ pools' = BetPools(pools, p, amount, amount = chips[p])
      ELSE UNCHANGED book

\* The loop over the pools panics when it has gone through LoopLimit of them.
Overrun(p, amount) ==
  Taken(p, amount) /\ Overruns(LoopLimit, pools, p, amount, amount = chips[p])

\* Nobody recovers the panic: the process ends with all its hands.
BetOverruns(amount) ==
  /\ Acting
  /\ amount <= chips[curBetPlayer]
  /\ Overrun(curBetPlayer, amount)
  /\ status' = "panicked"
  /\ UNCHANGED <<money, who, turn, board, book, stopClosed>>

\* onMsg, GameActionOfBet: an amount of 0 is a check; Player.Bet has taken the
\* chips before the pool refuses them, and the error is dropped.
Bet(amount) ==
  LET p == curBetPlayer
      isAllIn == amount = chips[p]
  IN  /\ Acting
      /\ amount <= chips[p]
      /\ ~Overrun(p, amount)
      /\ chips' = [chips EXCEPT ![p] = @ - amount]
      /\ allInned' = IF isAllIn THEN allInned \cup {p} ELSE allInned
      /\ allInnedPlayerCount' = IF isAllIn THEN allInnedPlayerCount + 1
                                ELSE allInnedPlayerCount
      /\ Booked(p, amount)
      /\ UNCHANGED <<bringIn, discarded, discardedPlayerCount>>
      /\ AfterPlayerActionOrTimeout

\* (an error to look for: the count is left to the caller)
FoldUncounted ==
  /\ discarded' = discarded \cup {curBetPlayer}
  /\ UNCHANGED discardedPlayerCount

\* Discard, and the count of the discarded.
Fold ==
  /\ discarded' = discarded \cup {curBetPlayer}
  /\ discardedPlayerCount' = discardedPlayerCount + 1

\* onMsg, GameActionOfDiscard
Discard ==
  /\ Acting
  /\ Fold
  /\ UNCHANGED <<bringIn, chips, allInned, allInnedPlayerCount, book>>
  /\ AfterPlayerActionOrTimeout

\* onTimeout: a check for a player at the highest bet, a discard otherwise.
\* The timer runs for seconds: it does not beat the loop to a closed stopChan.
Timeout ==
  /\ Acting
  /\ ~stopClosed
  /\ IF Level(curBetPlayer) = roundMax[curRound]
     THEN UNCHANGED <<discarded, discardedPlayerCount>>
     ELSE Fold
  /\ UNCHANGED <<bringIn, chips, allInned, allInnedPlayerCount, book>>
  /\ AfterPlayerActionOrTimeout

\* The loop takes the closed stopChan; Run sends the result to the table.
LoopExit ==
  /\ status = "running"
  /\ stopClosed
  /\ status' = "finished"
  /\ UNCHANGED <<money, who, turn, board, book, stopClosed>>

\* Besides the listed amounts a bet may carry everything the player has.
BetAmounts == Amounts \cup {chips[p] : p \in Seats \cap {curBetPlayer}}

Play == (\E amount \in BetAmounts : Bet(amount)) \/ Discard \/ Timeout

LoopPanics == \E amount \in BetAmounts : BetOverruns(amount)

Next == Play \/ LoopPanics \/ LoopExit

Spec == Init /\ [][Next]_vars

\* A player whose turn it is acts or is timed out, and the loop keeps running.
FairSpec == Spec /\ WF_vars(Play \/ LoopPanics) /\ WF_vars(LoopExit)

-----------------------------------------------------------------------------
\* playerTotalBetByRound
RoundTotal(p) == roundBet[1][p] + roundBet[2][p] + roundBet[3][p] + roundBet[4][p]

\* Every variable has its type.
TypeOK ==
  /\ bringIn \in [Seats -> Stacks]
  /\ chips \in [Seats -> Nat]
  /\ win \in [Seats -> Nat]
  /\ discarded \subseteq Seats /\ allInned \subseteq Seats
  /\ discardedPlayerCount \in 0..NumPlayers
  /\ allInnedPlayerCount \in 0..NumPlayers
  /\ curBetPlayer \in Seats \cup {3} /\ startBetAt \in Seats \cup {3}
  /\ curRound \in 1..5
  /\ commonPokers \in Nat
  /\ roundMax \in [Rounds -> Nat]
  /\ roundBet \in [Rounds -> [Seats -> Nat]]
  /\ pools \in Seq(Pool) \ {<<>>}
  /\ stopClosed \in BOOLEAN
  /\ status \in {"running", "finished", "panicked"}

\* The two counters that end the hand count the players they stand for, each
\* once, through messages, timeouts and a late message after the end
\* (discardedPlayerCount and allInnedPlayerCount in onMsg and onTimeout).
CountsMatch == /\ discardedPlayerCount = Cardinality(discarded)
               /\ allInnedPlayerCount = Cardinality(allInned)
               /\ discarded \cap allInned = {}

\* The board always has the cards of the round, also when the hand runs out
\* the board early (dealCards, dealingCardsToEnd).
BoardMatchesRound == commonPokers = <<0, 3, 4, 5, 5>>[curRound]

\* The turn rests on a player who cannot act only when no player at all can:
\* nextBetPlayer never skips somebody who still has a decision to make.
StuckOnlyWhenAllIn ==
  ~stopClosed /\ ~CanAct(curBetPlayer) => \A p \in Seats : ~CanAct(p)

\* The stakes of the players still in cover the settlement: a finished hand
\* leaves the players together with no more chips than they brought in, though
\* handlers may still have run between the settlement and the exit of the loop.
NoChipsMinted ==
  status # "panicked" =>
    SumChips(chips) + SumChips(win) <= SumChips(bringIn)

\* While the hand is played every chip of a player is in front of him, in the
\* pools, or was taken by a refused bet; the pools never hold more of a player
\* than he has parted with, and as much as the books of the rounds say.
PoolsBacked == \A p \in Seats :
                 /\ PlayerTotal(pools, p) = RoundTotal(p)
                 /\ chips[p] + PlayerTotal(pools, p) <= bringIn[p]

\* Nobody is paid who has discarded (allDiscardedEnd and rankPlayers leave him
\* out, whatever the order of discards, all-ins and timeouts).
DiscardedNeverPaid ==
  [][\A p \in Seats : win'[p] > win[p] => p \notin discarded']_vars

\* The hand only moves forward: no handler, late ones included, goes back to an
\* earlier round, takes a card off the board or brings a player back.
OnlyForward ==
  [][/\ curRound' >= curRound
     /\ commonPokers' >= commonPokers
     /\ discarded \subseteq discarded' /\ allInned \subseteq allInned'
     /\ \A r \in Rounds : r < curRound => roundBet'[r] = roundBet[r]]_vars

\* A round that is left early leaves nobody behind but those who checked: the
\* hand is settled before round 4 is over only if at most one player can act.
SettledEarlyOnlyWhenDecided ==
  [][stopClosed' /\ ~stopClosed /\ curRound' <= 4 =>
       Cardinality({p \in Seats : CanAct(p)'}) <= 1]_vars

\* A round nobody bets in ends when the turn is back at startBetAt: its opener
\* must still be in.
OpenerIn == curRound \in Rounds /\ roundMax[curRound] = 0 => startBetAt \notin discarded

\* A hand without an all-in, and in which no opener discards before the first
\* bet of his round, comes to its end, if only that of the process when a bet goes
\* through too many pools: players act or are timed out, and free checks, refused
\* bets and raises cannot go round for ever.
FinishesUnlessHeldUp ==
  [](allInned = {} /\ OpenerIn) => <>(status \in {"finished", "panicked"})

-----------------------------------------------------------------------------
\* What the comments and tests of the code say, and the code does not do.

\* "Must not be a player who discarded or went all in, or the logic gets stuck"
\* (comment in setupNewRound): while the hand goes on its turn can be played.
BettorCanAct == ~stopClosed => CanAct(curBetPlayer)

\* "With the variables in g nothing is out of range" (comment in onMsg and
\* onTimeout): the player whose turn it is sits at the table.
CurSeated == curBetPlayer \in Seats

\* betRight of the tests: what a player has parted with (HaveBet) is what the
\* rounds have booked.
HaveBetMatches == \A p \in Seats : bringIn[p] - chips[p] = RoundTotal(p)

\* "Find the one who has not discarded and give him all the chips of the pools"
\* (comment of allDiscardedEnd).
SurvivorTakesAll ==
  [][~stopClosed /\ discardedPlayerCount' + 1 = NumPlayers =>
       \E p \in Seats \ discarded' : win'[p] = PotChips(pools')]_vars

\* "Then call Run to obtain the result" (comment of NewGame): without an all-in
\* nothing can keep the hand from its result.
FinishesWithoutAllIn == [](allInned = {}) => <>(status = "finished")

\* "Blocks until the loop stops, then the hand is over: return the result"
\* (comment in Run): the loop does not end any other way.
NeverPanics == status # "panicked"
=============================================================================
