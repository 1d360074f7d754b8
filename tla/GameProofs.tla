----------------------------- MODULE GameProofs -----------------------------
(***************************************************************************)
(* Theorems about Game, for every number of players, every set of stacks   *)
(* and every set of bet amounts: the counters that end a hand count what   *)
(* they stand for, the turn never rests on a player who cannot act while   *)
(* another one can, the board has the cards of the round, the hand only    *)
(* moves forward, and it is settled early only when it is decided.         *)
(*                                                                         *)
(* The last follows from the first: the counters decide, so they have to   *)
(* count the two disjoint sets whose union leaves at most one player.      *)
(*                                                                         *)
(* The last part is about Ranking, what Game leaves open: the ranking the  *)
(* code finds is one that Game chooses from.                               *)
(***************************************************************************)
EXTENDS Game, Ranking, OperatorProofs

\* Who is out of the betting, as the handler leaves it.
Out == discarded \cup allInned

\* What the counters rest on: the two sets are sets of seats, and apart.
CountInv == /\ discarded \subseteq Seats
            /\ allInned \subseteq Seats
            /\ CountsMatch

\* The loop ends: with the result, or with a panic of its own.
Stops == LoopExit \/ LoopPanics

LEMMA StopsChangeNothing ==
  ASSUME Stops
  PROVE  /\ UNCHANGED <<money, who, turn, board, book, stopClosed>>
         /\ status = "running" /\ status' \in {"finished", "panicked"}
BY DEF Stops, LoopExit, LoopPanics, BetOverruns, Acting

-----------------------------------------------------------------------------
\* The seats are numbered from 0.
LEMMA SeatsAreNumbers ==
  Seats = 0..NumPlayers - 1 /\ IsFiniteSet(Seats) /\ Cardinality(Seats) = NumPlayers
<1>1. Seats = 0..NumPlayers - 1 /\ NumPlayers \in Nat /\ NumPlayers >= 3
  BY GameAssumption DEF Seats
<1> QED BY <1>1, FS_Interval

\* nextBetPlayer returns a seat, and one that can act unless nobody but cur can.
LEMMA NextBetPlayerFinds ==
  ASSUME NEW cur \in Seats
  PROVE  /\ NextBetPlayer(cur) \in Seats
         /\ \/ NextBetPlayer(cur) \notin Out'
            \/ NextBetPlayer(cur) = cur /\ \A q \in Seats \ {cur} : q \in Out'
<1> DEFINE dist == {d \in 1..NumPlayers - 1 : Seat(cur + d) \notin discarded' \cup allInned'}
<1>0. NumPlayers \in Nat /\ NumPlayers >= 3
  BY GameAssumption
<1>1. \A d \in 1..NumPlayers - 1 : Seat(cur + d) \in Seats
  BY <1>0, SeatsAreNumbers DEF Seat
<1>2. CASE dist = {}
  <2>1. ASSUME NEW q \in Seats \ {cur} PROVE q \in Out'
    <3>1. PICK d \in 1..NumPlayers - 1 : Seat(cur + d) = q
      <4>1. CASE q > cur
        <5>1. q - cur \in 1..NumPlayers - 1 /\ Seat(cur + (q - cur)) = q
          BY <1>0, <4>1, SeatsAreNumbers DEF Seat
        <5> QED BY <5>1
      <4>2. CASE q < cur
        <5>1. /\ q - cur + NumPlayers \in 1..NumPlayers - 1
              /\ Seat(cur + (q - cur + NumPlayers)) = q
          BY <1>0, <4>2, SeatsAreNumbers DEF Seat
        <5> QED BY <5>1
      <4> QED BY <4>1, <4>2, SeatsAreNumbers
    <3>2. d \notin dist
      BY <1>2
    <3> QED BY <3>1, <3>2 DEF Out
  <2>2. NextBetPlayer(cur) = cur
    BY <1>2 DEF NextBetPlayer
  <2> QED BY <2>1, <2>2
<1>3. CASE dist # {}
  <2>1. Min(dist) \in dist
    <3>1. dist \in SUBSET Nat
      BY <1>0
    <3> HIDE DEF dist
    <3> QED BY <3>1, <1>3, LeastElement DEF Min
  <2>2. NextBetPlayer(cur) = Seat(cur + Min(dist))
    BY <1>3 DEF NextBetPlayer
  <2> QED BY <1>1, <2>1, <2>2 DEF Out
<1> QED BY <1>2, <1>3

-----------------------------------------------------------------------------
(* The counters.                                                            *)

\* The player whose turn it is can act: to count him is to count him once.
LEMMA FoldCounts ==
  ASSUME CountInv, Acting, Fold, UNCHANGED <<allInned, allInnedPlayerCount>>
  PROVE  CountInv'
<1>1. IsFiniteSet(Seats)
  BY SeatsAreNumbers
<1>2. curBetPlayer \in Seats /\ curBetPlayer \notin discarded /\ curBetPlayer \notin allInned
  BY DEF Acting, CanAct
<1>3. IsFiniteSet(discarded)
  BY <1>1, FS_Subset DEF CountInv
<1>4. Cardinality(discarded \cup {curBetPlayer}) = Cardinality(discarded) + 1
  BY <1>2, <1>3, FS_AddElement
<1> QED BY <1>2, <1>4 DEF CountInv, CountsMatch, Fold

\* The same of a bet that is everything the player has.
LEMMA AllInCounts ==
  ASSUME CountInv, NEW amount, Bet(amount)
  PROVE  CountInv'
<1>1. IsFiniteSet(Seats)
  BY SeatsAreNumbers
<1>2. curBetPlayer \in Seats /\ curBetPlayer \notin discarded /\ curBetPlayer \notin allInned
  BY DEF Bet, Acting, CanAct
<1>3. IsFiniteSet(allInned)
  BY <1>1, FS_Subset DEF CountInv
<1>4. Cardinality(allInned \cup {curBetPlayer}) = Cardinality(allInned) + 1
  BY <1>2, <1>3, FS_AddElement
<1>5. UNCHANGED <<discarded, discardedPlayerCount>>
  BY DEF Bet
<1>6. \/ UNCHANGED <<allInned, allInnedPlayerCount>>
      \/ /\ allInned' = allInned \cup {curBetPlayer}
         /\ allInnedPlayerCount' = allInnedPlayerCount + 1
  BY DEF Bet
<1> QED BY <1>2, <1>4, <1>5, <1>6 DEF CountInv, CountsMatch

\* Every step keeps them.
LEMMA CountKept == CountInv /\ [Next]_vars => CountInv'
<1> SUFFICES ASSUME CountInv, [Next]_vars PROVE CountInv'
  OBVIOUS
<1>1. ASSUME NEW amount \in BetAmounts, Bet(amount) PROVE CountInv'
  BY <1>1, AllInCounts
<1>2. CASE Discard
  <2>1. Acting /\ Fold /\ UNCHANGED <<allInned, allInnedPlayerCount>>
    BY <1>2 DEF Discard
  <2> QED BY <2>1, FoldCounts
<1>3. CASE Timeout
  <2>1. /\ Acting
        /\ UNCHANGED <<allInned, allInnedPlayerCount>>
        /\ Fold \/ UNCHANGED <<discarded, discardedPlayerCount>>
    BY <1>3 DEF Timeout
  <2>2. CASE Fold
    BY <2>1, <2>2, FoldCounts
  <2>3. CASE UNCHANGED <<discarded, discardedPlayerCount>>
    BY <2>1, <2>3 DEF CountInv, CountsMatch
  <2> QED BY <2>1, <2>2, <2>3
<1>4. CASE Stops
  BY <1>4, StopsChangeNothing DEF who, CountInv, CountsMatch
<1>5. CASE UNCHANGED vars
  BY <1>5 DEF vars, who, CountInv, CountsMatch
<1> QED BY <1>1, <1>2, <1>3, <1>4, <1>5 DEF Next, Play, Stops

\* The counters that end a hand count the players they stand for, each once,
\* through messages, timeouts and late messages (onMsg, onTimeout).
THEOREM CountsHold == Spec => []CountsMatch
<1>1. Init => CountInv
  BY FS_EmptySet DEF Init, CountInv, CountsMatch
<1>2. CountInv => CountsMatch
  BY DEF CountInv
<1> QED BY <1>1, <1>2, CountKept, PTL DEF Spec

-----------------------------------------------------------------------------
(* The turn.                                                                *)

\* However a handler ends, the turn is with a player who can act, or with nobody
\* to wait for, or the hand is settled.
LEMMA TurnAfterHandler ==
  ASSUME Acting, AfterPlayerActionOrTimeout
  PROVE  StuckOnlyWhenAllIn'
<1> DEFINE next == NextBetPlayer(curBetPlayer)
           first == NextBetPlayer(0)
<1>0. curBetPlayer \in Seats /\ 0 \in Seats
  BY GameAssumption, SeatsAreNumbers DEF Acting
<1>1. CASE AllDiscardedEnd
  BY <1>1 DEF AllDiscardedEnd, Settle, StuckOnlyWhenAllIn
<1>2. CASE DealingCardsToEnd(next)
  BY <1>2 DEF DealingCardsToEnd, End, Settle, StuckOnlyWhenAllIn
<1>3. CASE SetupNewRound
  <2>1. curBetPlayer' = first
    BY <1>3 DEF SetupNewRound
  <2>2. \/ first \notin Out'
        \/ first = 0 /\ \A q \in Seats \ {0} : q \in Out'
    BY <1>0, NextBetPlayerFinds
  <2> HIDE DEF first
  <2> QED BY <2>1, <2>2 DEF StuckOnlyWhenAllIn, CanAct, Out
<1>4. CASE NextTurn(next)
  <2>1. curBetPlayer' = next
    BY <1>4 DEF NextTurn
  <2>2. \/ next \notin Out'
        \/ next = curBetPlayer /\ \A q \in Seats \ {curBetPlayer} : q \in Out'
    BY <1>0, NextBetPlayerFinds
  <2> HIDE DEF next
  <2> QED BY <2>1, <2>2 DEF StuckOnlyWhenAllIn, CanAct, Out
<1> QED BY <1>1, <1>2, <1>3, <1>4 DEF AfterPlayerActionOrTimeout

\* While the hand goes on the turn rests on a player who cannot act only when no
\* player can (nextBetPlayer, setupNewRound): the hang with everybody all in is
\* the only one nextBetPlayer leaves.
THEOREM TurnIsPlayable == Spec => []StuckOnlyWhenAllIn
<1>1. Init => StuckOnlyWhenAllIn
  BY DEF Init, StuckOnlyWhenAllIn, CanAct
<1>2. StuckOnlyWhenAllIn /\ [Next]_vars => StuckOnlyWhenAllIn'
  <2> SUFFICES ASSUME StuckOnlyWhenAllIn, [Next]_vars PROVE StuckOnlyWhenAllIn'
    OBVIOUS
  <2>1. ASSUME NEW amount \in BetAmounts, Bet(amount) PROVE StuckOnlyWhenAllIn'
    BY <2>1, TurnAfterHandler DEF Bet
  <2>2. CASE Discard
    BY <2>2, TurnAfterHandler DEF Discard
  <2>3. CASE Timeout
    BY <2>3, TurnAfterHandler DEF Timeout
  <2>4. CASE Stops
    BY <2>4, StopsChangeNothing DEF who, turn, StuckOnlyWhenAllIn, CanAct
  <2>5. CASE UNCHANGED vars
    BY <2>5 DEF vars, who, turn, ending, StuckOnlyWhenAllIn, CanAct
  <2> QED BY <2>1, <2>2, <2>3, <2>4, <2>5 DEF Next, Play, Stops
<1> QED BY <1>1, <1>2, PTL DEF Spec

-----------------------------------------------------------------------------
(* The rounds, the board and the end.                                       *)

BoardInv == curRound \in 1..5 /\ BoardMatchesRound

\* The board of the next round, and of the last one from any before it.
LEMMA BoardOfRounds ==
  ASSUME NEW r \in Rounds
  PROVE  LET of == <<0, 3, 4, 5, 5>>
         IN  /\ of[r] \in Nat
             /\ r < 4 => of[r + 1] = of[r] + Dealt[r + 1]
             /\ of[4] = of[r] + DealtFrom(r + 1)
             /\ Dealt[r] \in Nat /\ DealtFrom(r + 1) \in Nat
<1>1. r = 1 \/ r = 2 \/ r = 3 \/ r = 4
  BY DEF Rounds
<1> QED BY <1>1 DEF Dealt, DealtFrom

\* However a handler ends, the round goes on by one or to the last, with its cards.
LEMMA BoardAfterHandler ==
  ASSUME BoardInv, Acting, AfterPlayerActionOrTimeout
  PROVE  /\ BoardInv'
         /\ curRound' >= curRound
         /\ commonPokers' >= commonPokers
<1> DEFINE next == NextBetPlayer(curBetPlayer)
<1>0. curRound \in Rounds /\ Rounds = 1..4
  BY DEF Acting, Rounds
<1>1. CASE AllDiscardedEnd
  <2>1. curRound' = curRound /\ commonPokers' = commonPokers
    BY <1>1 DEF AllDiscardedEnd, turn, board
  <2> QED BY <2>1, <1>0, BoardOfRounds DEF BoardInv, BoardMatchesRound
<1>2. CASE DealingCardsToEnd(next)
  <2>1. curRound' = 4 /\ commonPokers' = commonPokers + DealtFrom(curRound + 1)
    BY <1>2 DEF DealingCardsToEnd
  <2> QED BY <2>1, <1>0, BoardOfRounds DEF BoardInv, BoardMatchesRound
<1>3. CASE SetupNewRound
  <2>1. /\ curRound' = curRound + 1
        /\ commonPokers' = IF curRound' < 5 THEN commonPokers + Dealt[curRound']
                           ELSE commonPokers
    BY <1>3 DEF SetupNewRound
  <2>2. CASE curRound = 4
    BY <2>1, <2>2 DEF BoardInv, BoardMatchesRound
  <2>3. CASE curRound < 4
    <3>1. curRound + 1 \in Rounds
      BY <1>0, <2>3
    <3> QED BY <2>1, <2>3, <3>1, <1>0, BoardOfRounds DEF BoardInv, BoardMatchesRound
  <2> QED BY <1>0, <2>2, <2>3
<1>4. CASE NextTurn(next)
  <2>1. curRound' = curRound /\ commonPokers' = commonPokers
    BY <1>4 DEF NextTurn, board
  <2> QED BY <2>1, <1>0, BoardOfRounds DEF BoardInv, BoardMatchesRound
<1> QED BY <1>1, <1>2, <1>3, <1>4 DEF AfterPlayerActionOrTimeout

\* Any step that is not a handler leaves round and board as they are.
LEMMA BoardKept == BoardInv /\ [Next]_vars => BoardInv'
<1> SUFFICES ASSUME BoardInv, [Next]_vars PROVE BoardInv'
  OBVIOUS
<1>1. ASSUME Acting /\ AfterPlayerActionOrTimeout PROVE BoardInv'
  BY <1>1, BoardAfterHandler
<1>2. CASE Play
  BY <1>1, <1>2 DEF Play, Bet, Discard, Timeout
<1>3. CASE Stops \/ UNCHANGED vars
  BY <1>3, StopsChangeNothing DEF vars, turn, board, BoardInv, BoardMatchesRound
<1> QED BY <1>2, <1>3 DEF Next, Stops

\* The board always has the cards of the round, also when the hand is decided
\* early and the rest of the board is dealt at once (dealingCardsToEnd).
THEOREM BoardIsRight == Spec => []BoardMatchesRound
<1>1. Init => BoardInv
  BY DEF Init, BoardInv, BoardMatchesRound
<1>2. BoardInv => BoardMatchesRound
  BY DEF BoardInv
<1> QED BY <1>1, <1>2, BoardKept, PTL DEF Spec

\* A handler changes the books of its own round only, and drops nobody from those
\* who are out.
LEMMA HandlerKeepsRest ==
  ASSUME DOMAIN roundBet = Rounds, Play
  PROVE  /\ DOMAIN roundBet' = Rounds
         /\ discarded \subseteq discarded' /\ allInned \subseteq allInned'
         /\ \A r \in Rounds : r < curRound => roundBet'[r] = roundBet[r]
<1>1. ASSUME NEW amount \in BetAmounts, Bet(amount)
      PROVE  /\ discarded' = discarded /\ allInned \subseteq allInned'
             /\ Booked(curBetPlayer, amount)
  BY <1>1 DEF Bet
<1>2. ASSUME NEW amount, Booked(curBetPlayer, amount)
      PROVE  /\ DOMAIN roundBet' = Rounds
             /\ \A r \in Rounds : r < curRound => roundBet'[r] = roundBet[r]
  <2> DEFINE total == Level(curBetPlayer) + amount
             put == [roundBet[curRound] EXCEPT ![curBetPlayer] = total]
  <2>1. roundBet' = roundBet \/ roundBet' = [roundBet EXCEPT ![curRound] = put]
    BY <1>2 DEF Booked, book
  <2>2. \A r \in Rounds : r < curRound => r # curRound
    BY DEF Rounds
  <2> HIDE DEF put
  <2> QED BY <2>1, <2>2
<1>3. CASE Discard \/ Timeout
  <2>1. discarded \subseteq discarded' /\ allInned' = allInned /\ roundBet' = roundBet
    BY <1>3 DEF Discard, Timeout, Fold, book
  <2> QED BY <2>1
<1> QED BY <1>1, <1>2, <1>3 DEF Play

\* A hand only moves forward: no handler, late ones included, goes back to an
\* earlier round, changes its books, takes a card off the board or brings a player
\* back (setupNewRound, dealingCardsToEnd, termChipPool.bet).
THEOREM HandGoesForward == Spec => OnlyForward
<1> DEFINE Inv == BoardInv /\ DOMAIN roundBet = Rounds
           Forward == /\ curRound' >= curRound
                      /\ commonPokers' >= commonPokers
                      /\ discarded \subseteq discarded' /\ allInned \subseteq allInned'
                      /\ \A r \in Rounds : r < curRound => roundBet'[r] = roundBet[r]
<1>1. Init => Inv
  BY DEF Init, BoardInv, BoardMatchesRound
<1>2. Inv /\ [Next]_vars => Inv' /\ [Forward]_vars
  <2> SUFFICES ASSUME Inv, [Next]_vars PROVE Inv' /\ [Forward]_vars
    OBVIOUS
  <2>1. BoardInv'
    BY BoardKept
  <2>2. CASE Play
    <3>1. Acting /\ AfterPlayerActionOrTimeout
      BY <2>2 DEF Play, Bet, Discard, Timeout
    <3>2. curRound' >= curRound /\ commonPokers' >= commonPokers
      BY <3>1, BoardAfterHandler
    <3> QED BY <2>1, <2>2, <3>2, HandlerKeepsRest
  <2>3. CASE Stops
    <3>1. UNCHANGED <<who, turn, board, book>>
      BY <2>3, StopsChangeNothing
    <3>2. /\ curRound' = curRound /\ commonPokers' = commonPokers /\ roundBet' = roundBet
          /\ discarded' = discarded /\ allInned' = allInned
      BY <3>1 DEF who, turn, board, book
    <3>3. curRound \in Int /\ commonPokers \in Int
      <4>1. curRound \in 1..5 /\ commonPokers = <<0, 3, 4, 5, 5>>[curRound]
        BY DEF BoardInv, BoardMatchesRound
      <4> QED BY <4>1
    <3> QED BY <2>1, <3>2, <3>3
  <2>4. CASE UNCHANGED vars
    BY <2>1, <2>4 DEF vars, book
  <2> QED BY <2>2, <2>3, <2>4 DEF Next, Stops
<1> HIDE DEF Inv
<1>3. Spec => [][Forward]_vars
  BY <1>1, <1>2, PTL DEF Spec
<1> QED BY <1>3, PTL DEF OnlyForward

-----------------------------------------------------------------------------
(* The early end.                                                           *)

\* When the counters leave one player, at most one player can act.
LEMMA OneLeft ==
  ASSUME CountInv', discardedPlayerCount' + 1 = NumPlayers \/ OneCanAct
  PROVE  Cardinality({p \in Seats : CanAct(p)'}) <= 1
<1> DEFINE D == discarded'
           A == allInned'
           left == {p \in Seats : CanAct(p)'}
<1>1. IsFiniteSet(Seats) /\ Cardinality(Seats) = NumPlayers /\ NumPlayers \in Nat
  BY GameAssumption, SeatsAreNumbers
<1>2. D \subseteq Seats /\ A \subseteq Seats /\ D \cap A = {}
  BY DEF CountInv, CountsMatch
<1>3. discardedPlayerCount' = Cardinality(D) /\ allInnedPlayerCount' = Cardinality(A)
  BY DEF CountInv, CountsMatch
<1>4. left = Seats \ (D \cup A)
  BY DEF CanAct
<1> HIDE DEF D, A, left
<1>5. IsFiniteSet(D) /\ IsFiniteSet(A) /\ IsFiniteSet(D \cup A) /\ D \cup A \subseteq Seats
  BY <1>1, <1>2, FS_Subset
<1>6. Cardinality(D \cup A) = Cardinality(D) + Cardinality(A)
  <2>1. Cardinality(D \cup A) = Cardinality(D) + Cardinality(A) - Cardinality(D \cap A)
    BY <1>5, FS_Union
  <2>2. Cardinality(D \cap A) = 0
    BY <1>2, FS_EmptySet
  <2>3. Cardinality(D) \in Nat /\ Cardinality(A) \in Nat
    BY <1>5, FS_CardinalityType
  <2> QED BY <2>1, <2>2, <2>3
<1>7. Cardinality(left) = Cardinality(Seats) - Cardinality(Seats \cap (D \cup A))
  BY <1>1, <1>4, FS_Difference
<1>8. Seats \cap (D \cup A) = D \cup A
  BY <1>5
<1>9. Cardinality(D) \in Nat /\ Cardinality(A) \in Nat
  BY <1>5, FS_CardinalityType
<1>10. Cardinality(left) = NumPlayers - (Cardinality(D) + Cardinality(A))
  BY <1>1, <1>6, <1>7, <1>8
<1>11. Cardinality(D) + 1 = NumPlayers \/ Cardinality(D) + Cardinality(A) + 1 = NumPlayers
  BY <1>3 DEF OneCanAct
<1>12. Cardinality(left) <= 1
  BY <1>1, <1>9, <1>10, <1>11
<1> QED BY <1>12 DEF left

\* A hand that is settled before its last round is over is decided: at most one
\* player could still act (allDiscardedEnd, dealingCardsToEnd).
THEOREM EarlyEndIsDecided == Spec => SettledEarlyOnlyWhenDecided
<1> DEFINE Early == stopClosed' /\ ~stopClosed /\ curRound' <= 4
           Decided == Cardinality({p \in Seats : CanAct(p)'}) <= 1
<1>1. BoardInv /\ CountInv' /\ [Next]_vars => [Early => Decided]_vars
  <2> SUFFICES ASSUME BoardInv, CountInv', [Next]_vars, Early PROVE Decided
    OBVIOUS
  <2>1. Acting /\ AfterPlayerActionOrTimeout
    <3>1. Play
      BY StopsChangeNothing DEF Next, Stops, vars, ending
    <3> QED BY <3>1 DEF Play, Bet, Discard, Timeout
  <2>2. CASE AllDiscardedEnd
    BY <2>2, OneLeft DEF AllDiscardedEnd
  <2>3. CASE DealingCardsToEnd(NextBetPlayer(curBetPlayer))
    BY <2>3, OneLeft DEF DealingCardsToEnd
  <2>4. CASE SetupNewRound
    <3>1. curRound' \in Int
      BY <2>1, BoardAfterHandler DEF BoardInv
    <3>2. curRound' > 4
      BY <2>4 DEF SetupNewRound, GoOn
    <3> QED BY <3>1, <3>2
  <2>5. CASE NextTurn(NextBetPlayer(curBetPlayer))
    BY <2>5 DEF NextTurn, GoOn
  <2> QED BY <2>1, <2>2, <2>3, <2>4, <2>5 DEF AfterPlayerActionOrTimeout
<1> HIDE DEF Early, Decided
<1>2. Init => BoardInv /\ CountInv
  BY FS_EmptySet DEF Init, BoardInv, BoardMatchesRound, CountInv, CountsMatch
<1>3. Spec => [][Early => Decided]_vars
  BY <1>1, <1>2, BoardKept, CountKept, PTL DEF Spec
<1>4. [][Early => Decided]_vars => SettledEarlyOnlyWhenDecided
  BY PTL DEF SettledEarlyOnlyWhenDecided, Early, Decided
<1> QED BY <1>3, <1>4

-----------------------------------------------------------------------------
(* The money.                                                               *)

\* What the books of a hand rest on: lists of pools in good order, and the chips
\* of every player in his hand, in the pools or lost to a refused bet.
BooksInv ==
  /\ bringIn \in [Seats -> Stacks] /\ chips \in [Seats -> Nat]
  /\ roundMax \in [Rounds -> Nat] /\ roundBet \in [Rounds -> [Seats -> Nat]]
  /\ GoodList(pools)
  /\ PoolsBacked

\* The blinds of doStart lie in the pools and in the books of round 1.
LEMMA BlindsBooked == Init => BooksInv
<1> SUFFICES ASSUME Init PROVE BooksInv
  OBVIOUS
<1>0. /\ Seats = Players /\ 1 \in Players /\ 2 \in Players
      /\ Xm \in Nat \ {0} /\ 2 * Xm \in Nat \ {0} /\ \A s \in Stacks : s \in Nat /\ s > 2 * Xm
  BY GameAssumption DEF Seats
<1>1. \A p \in Seats : Blind(p) \in Nat /\ Blind(p) <= 2 * Xm
  BY <1>0 DEF Blind
<1>2. bringIn \in [Seats -> Stacks]
  BY DEF Init
<1>3. \A p \in Seats : /\ bringIn[p] \in Nat /\ bringIn[p] > 2 * Xm
                       /\ chips[p] = bringIn[p] - Blind(p)
                       /\ chips[p] \in Nat
  <2> SUFFICES ASSUME NEW p \in Seats
               PROVE  /\ bringIn[p] \in Nat /\ bringIn[p] > 2 * Xm
                      /\ chips[p] = bringIn[p] - Blind(p)
                      /\ chips[p] \in Nat
    OBVIOUS
  <2>1. bringIn[p] \in Nat /\ bringIn[p] > 2 * Xm
    BY <1>0, <1>2
  <2>2. chips[p] = bringIn[p] - Blind(p)
    BY DEF Init
  <2>3. Blind(p) \in Nat /\ Blind(p) <= 2 * Xm
    BY <1>1
  <2> QED BY <1>0, <2>1, <2>2, <2>3
<1>4. chips \in [Seats -> Nat]
  <2>1. chips = [p \in Seats |-> bringIn[p] - Blind(p)]
    BY DEF Init
  <2> QED BY <1>3, <2>1
<1>5. roundMax \in [Rounds -> Nat] /\ roundBet \in [Rounds -> [Seats -> Nat]]
  BY <1>0, <1>1 DEF Init
<1>a. PICK small \in Nat \ {0}, big \in Nat \ {0}, no \in BOOLEAN, first \in Players,
           second \in Players :
        small = Xm /\ big = 2 * Xm /\ no = FALSE /\ first = 1 /\ second = 2
  BY <1>0
<1>b. PICK none, one, two :
        /\ none = <<NewPool>> /\ one = BetPools(none, first, small, no)
        /\ two = BetPools(one, second, big, no)
  OBVIOUS
<1>6. /\ small = Xm /\ big = 2 * Xm /\ no = FALSE /\ first = 1 /\ second = 2
      /\ none = <<NewPool>> /\ one = BetPools(none, first, small, no)
      /\ two = BetPools(one, second, big, no)
  BY <1>a, <1>b
<1>7. GoodList(none) /\ \A p \in Players : PlayerTotal(none, p) = 0
  BY <1>6, EmptyPools
<1>8. /\ GoodList(two) /\ pools = two
      /\ \A p \in Players : PlayerTotal(pools, p) = Blind(p)
  <2>1. /\ GoodList(one)
        /\ \A p \in Players : PlayerTotal(one, p)
                                = PlayerTotal(none, p) + (IF p = first THEN small ELSE 0)
    <3>1. /\ GoodList(BetPools(none, first, small, no))
          /\ \A p \in Players : PlayerTotal(BetPools(none, first, small, no), p)
                                  = PlayerTotal(none, p) + (IF p = first THEN small ELSE 0)
      BY <1>7, BetPoolsFacts
    <3> QED BY <1>6, <3>1
  <2>2. /\ GoodList(two)
        /\ \A p \in Players : PlayerTotal(two, p)
                                = PlayerTotal(one, p) + (IF p = second THEN big ELSE 0)
    <3>1. /\ GoodList(BetPools(one, second, big, no))
          /\ \A p \in Players : PlayerTotal(BetPools(one, second, big, no), p)
                                  = PlayerTotal(one, p) + (IF p = second THEN big ELSE 0)
      BY <2>1, BetPoolsFacts
    <3> QED BY <1>6, <3>1
  <2>3. pools = two
    BY <1>6 DEF Init
  <2> QED BY <1>0, <1>6, <1>7, <2>1, <2>2, <2>3 DEF Blind
<1>9. ASSUME NEW p \in Seats PROVE RoundTotal(p) = Blind(p)
  <2>1. \A r \in Rounds : roundBet[r][p] = IF r = 1 THEN Blind(p) ELSE 0
    BY DEF Init
  <2> QED BY <1>1, <2>1 DEF RoundTotal, Rounds
<1>10. PoolsBacked
  BY <1>0, <1>1, <1>3, <1>8, <1>9 DEF PoolsBacked
<1> QED BY <1>2, <1>4, <1>5, <1>8, <1>10 DEF BooksInv

\* A bet takes chips from one player and, unless it is refused, books as many of
\* them in his round and in the pools.
LEMMA BetKeepsBooks ==
  ASSUME BooksInv, NEW amount \in BetAmounts, Bet(amount)
  PROVE  BooksInv'
<1> DEFINE p == curBetPlayer
           total == Level(p) + amount
           paid(q) == IF q = p THEN amount ELSE 0
<1>0. Seats = Players /\ p \in Players /\ curRound \in Rounds /\ Rounds = 1..4
  BY DEF Seats, Bet, Acting, Rounds
<1>1. amount \in Nat
  <2>1. amount \in Amounts \/ amount = chips[p]
    BY DEF BetAmounts
  <2> QED BY <1>0, <2>1, GameAssumption DEF BooksInv
<1>2. /\ chips \in [Players -> Nat] /\ bringIn' = bringIn
      /\ bringIn \in [Players -> Stacks] /\ \A q \in Players : bringIn[q] \in Nat
  BY <1>0, GameAssumption DEF BooksInv, Bet
<1>3. /\ chips' \in [Players -> Nat]
      /\ \A q \in Players : chips[q] = chips'[q] + paid(q)
  <2>1. amount <= chips[p] /\ chips' = [chips EXCEPT ![p] = chips[p] - amount]
    BY DEF Bet
  <2>2. chips[p] \in Nat /\ chips[p] - amount \in Nat
    BY <1>0, <1>1, <1>2, <2>1
  <2> QED BY <1>0, <1>1, <1>2, <2>1, <2>2
<1>4. /\ roundMax \in [Rounds -> Nat] /\ roundBet \in [Rounds -> [Players -> Nat]]
      /\ GoodList(pools)
      /\ \A q \in Players : /\ PlayerTotal(pools, q) = RoundTotal(q)
                            /\ chips[q] + PlayerTotal(pools, q) <= bringIn[q]
  BY <1>0 DEF BooksInv, PoolsBacked
<1>5. ASSUME NEW q \in Players PROVE PlayerTotal(pools, q) \in Nat
  BY <1>4, PlayerTotalType DEF GoodList
<1>6. CASE /\ amount > 0
           /\ roundMax' = [roundMax EXCEPT ![curRound] = IF total > @ THEN total ELSE @]
           /\ roundBet' = [roundBet EXCEPT ![curRound][p] = total]
           /\ pools' = BetPools(pools, p, amount, amount = chips[p])
  <2>1. total \in Nat /\ total = roundBet[curRound][p] + amount
    BY <1>0, <1>1, <1>4 DEF Level
  <2>2. roundMax' \in [Rounds -> Nat] /\ roundBet' \in [Rounds -> [Players -> Nat]]
    <3> HIDE DEF total, p
    <3> QED BY <1>0, <1>4, <1>6, <2>1
  <2>3. /\ GoodList(pools')
        /\ \A q \in Players : PlayerTotal(pools', q) = PlayerTotal(pools, q) + paid(q)
    <3>1. PICK allIn \in BOOLEAN : allIn = (amount = chips[p])
      OBVIOUS
    <3>a. PICK bettor \in Players, chip \in Nat \ {0} : bettor = p /\ chip = amount
      BY <1>0, <1>1, <1>6
    <3>b. PICK list : list = pools
      OBVIOUS
    <3>2. bettor = p /\ chip = amount /\ list = pools /\ GoodList(list)
      BY <1>4, <3>a, <3>b
    <3>3. /\ GoodList(BetPools(list, bettor, chip, allIn))
          /\ \A q \in Players : PlayerTotal(BetPools(list, bettor, chip, allIn), q)
                                  = PlayerTotal(list, q) + (IF q = bettor THEN chip ELSE 0)
      BY <3>2, BetPoolsFacts
    <3>4. pools' = BetPools(list, bettor, chip, allIn)
      BY <1>6, <3>1, <3>2
    <3> QED BY <3>2, <3>3, <3>4
  <2>4. ASSUME NEW q \in Players PROVE RoundTotal(q)' = RoundTotal(q) + paid(q)
    <3>1. \A r \in Rounds : /\ roundBet[r][q] \in Nat
                            /\ roundBet'[r][q] = IF r = curRound /\ q = p
                                                 THEN roundBet[r][q] + amount
                                                 ELSE roundBet[r][q]
      <4> HIDE DEF p, total
      <4> QED BY <1>0, <1>1, <1>4, <1>6, <2>1
    <3> QED BY <1>0, <1>1, <3>1 DEF RoundTotal
  <2>5. ASSUME NEW q \in Players
        PROVE  /\ PlayerTotal(pools', q) = RoundTotal(q)'
               /\ chips'[q] + PlayerTotal(pools', q) <= bringIn'[q]
    <3>1. PICK c \in Nat, t \in Nat, b \in Nat, x \in Nat :
            c = chips'[q] /\ t = PlayerTotal(pools, q) /\ b = bringIn[q] /\ x = paid(q)
      BY <1>1, <1>2, <1>3, <1>5
    <3>2. (c + x) + t <= b
      BY <1>3, <1>4, <3>1
    <3>3. PlayerTotal(pools', q) = t + x /\ RoundTotal(q)' = t + x
      BY <1>4, <2>3, <2>4, <3>1
    <3> QED BY <1>2, <3>1, <3>2, <3>3
  <2>6. PoolsBacked'
    BY <1>0, <2>5 DEF PoolsBacked
  <2> QED BY <1>0, <1>2, <1>3, <2>2, <2>3, <2>6 DEF BooksInv
<1>7. CASE UNCHANGED book
  <2>1. roundMax' = roundMax /\ roundBet' = roundBet /\ pools' = pools
    BY <1>7 DEF book
  <2>2. ASSUME NEW q \in Players
        PROVE  /\ PlayerTotal(pools', q) = RoundTotal(q)'
               /\ chips'[q] + PlayerTotal(pools', q) <= bringIn'[q]
    <3>1. PICK c \in Nat, t \in Nat, b \in Nat, x \in Nat :
            c = chips'[q] /\ t = PlayerTotal(pools, q) /\ b = bringIn[q] /\ x = paid(q)
      BY <1>1, <1>2, <1>3, <1>5
    <3>2. (c + x) + t <= b
      BY <1>3, <1>4, <3>1
    <3>3. PlayerTotal(pools', q) = t /\ RoundTotal(q)' = t
      BY <1>4, <2>1, <3>1 DEF RoundTotal
    <3> QED BY <1>2, <3>1, <3>2, <3>3
  <2>3. PoolsBacked'
    BY <1>0, <2>2 DEF PoolsBacked
  <2> QED BY <1>0, <1>2, <1>3, <1>4, <2>1, <2>3 DEF BooksInv
<1>8. Booked(p, amount)
  BY DEF Bet
<1> QED BY <1>6, <1>7, <1>8 DEF Booked, Taken

\* Every step keeps the books.
LEMMA BooksKept == BooksInv /\ [Next]_vars => BooksInv'
<1> SUFFICES ASSUME BooksInv, [Next]_vars PROVE BooksInv'
  OBVIOUS
<1>1. ASSUME NEW amount \in BetAmounts, Bet(amount) PROVE BooksInv'
  BY <1>1, BetKeepsBooks
<1>2. CASE Discard \/ Timeout \/ Stops \/ UNCHANGED vars
  <2>1. UNCHANGED <<bringIn, chips, roundMax, roundBet, pools>>
    BY <1>2, StopsChangeNothing DEF Discard, Timeout, vars, money, book
  <2> QED BY <2>1 DEF BooksInv, PoolsBacked, RoundTotal
<1> QED BY <1>1, <1>2 DEF Next, Play, Stops

\* At any moment of a hand the pools hold of every player what the books of the
\* rounds say, and no more than he has parted with (termChipPool.bet, Player.Bet).
THEOREM StakesAreBacked == Spec => []PoolsBacked
<1>1. BooksInv => PoolsBacked
  BY DEF BooksInv
<1> QED BY <1>1, BlindsBooked, BooksKept, PTL DEF Spec

\* However a handler ends, the turn is with a seat, and the hand goes on or is
\* settled on a ranking without the discarded.
LEMMA HandlerEnds ==
  ASSUME Acting, AfterPlayerActionOrTimeout
  PROVE  /\ curBetPlayer' \in Seats
         /\ startBetAt' = startBetAt \/ startBetAt' \in Seats
         /\ \/ GoOn
            \/ \E rank : Settle(rank) /\ \A p \in Seats : p \in discarded' => rank[p] = 0
<1> DEFINE next == NextBetPlayer(curBetPlayer)
           first == NextBetPlayer(0)
<1>0. curBetPlayer \in Seats /\ 0 \in Seats
  BY GameAssumption, SeatsAreNumbers DEF Acting
<1>1. next \in Seats /\ first \in Seats
  BY <1>0, NextBetPlayerFinds
<1>2. ASSUME End PROVE \E rank : Settle(rank) /\ \A p \in Seats : p \in discarded' => rank[p] = 0
  <2>1. PICK rank \in HandRanks(Seats \ discarded') : Settle(rank)
    BY <1>2 DEF End
  <2>2. \A p \in Seats : p \in discarded' => rank[p] = 0
    BY DEF HandRanks, Seats
  <2> QED BY <2>1, <2>2
<1>3. CASE AllDiscardedEnd
  <2> DEFINE rank == [p \in Seats |-> IF p \in discarded' THEN 0 ELSE 1]
  <2>1. Settle(rank) /\ curBetPlayer' = curBetPlayer /\ startBetAt' = startBetAt
    BY <1>3 DEF AllDiscardedEnd, turn
  <2>2. \A p \in Seats : p \in discarded' => rank[p] = 0
    OBVIOUS
  <2> HIDE DEF rank
  <2> QED BY <1>0, <2>1, <2>2
<1>4. CASE DealingCardsToEnd(next)
  BY <1>1, <1>2, <1>4 DEF DealingCardsToEnd
<1>5. CASE SetupNewRound
  BY <1>1, <1>2, <1>5 DEF SetupNewRound
<1>6. CASE NextTurn(next)
  BY <1>1, <1>6 DEF NextTurn
<1> QED BY <1>3, <1>4, <1>5, <1>6 DEF AfterPlayerActionOrTimeout

\* What the payments rest on: nothing is paid before the settlement.
PayInv == /\ win \in [Seats -> Nat]
          /\ stopClosed \in BOOLEAN
          /\ status \in {"running", "finished", "panicked"}
          /\ ~stopClosed => \A p \in Seats : win[p] = 0
          /\ NoChipsMinted

\* A settlement pays what is in the pools, and the pools hold what the players
\* have parted with; a second one panics.
LEMMA SettleKeepsPay ==
  ASSUME PayInv, BooksInv', NEW rank, Settle(rank)
  PROVE  PayInv'
<1>0. Seats = Players
  BY DEF Seats
<1>1. PICK list, hand, brought :
        /\ list = pools' /\ hand = chips' /\ brought = bringIn'
        /\ list \in Seq(Pool) /\ hand \in [Players -> Nat] /\ brought \in [Players -> Nat]
        /\ \A p \in Players : hand[p] + PlayerTotal(list, p) <= brought[p]
  BY <1>0, GameAssumption DEF BooksInv, PoolsBacked, GoodList
<1>2. PICK result : result = Finalize(list, rank)
  OBVIOUS
<1>3. result \in [Players -> Nat] /\ SumChips(result) <= PotChips(list)
  BY <1>1, <1>2, FinalizeWithinPot
<1>4. /\ win' = [p \in Players |-> win[p] + result[p]]
      /\ stopClosed' = TRUE
      /\ status' = IF stopClosed THEN "panicked" ELSE status
  BY <1>0, <1>1, <1>2 DEF Settle
<1>5. win \in [Players -> Nat] /\ win' \in [Players -> Nat]
  BY <1>0, <1>3, <1>4 DEF PayInv
<1>6. CASE stopClosed
  BY <1>0, <1>4, <1>5, <1>6 DEF PayInv, NoChipsMinted
<1>7. CASE ~stopClosed
  <2>1. \A p \in Players : win[p] = 0
    BY <1>0, <1>7 DEF PayInv
  <2>2. win' = result
    BY <1>3, <1>4, <2>1
  <2>3. SumChips(result) \in Nat
    BY <1>3, FewerChips
  <2>4. /\ SumChips(hand) \in Nat /\ PotChips(list) \in Nat /\ SumChips(brought) \in Nat
        /\ SumChips(hand) + PotChips(list) <= SumChips(brought)
    BY <1>1, ChipsCovered
  <2>5. SumChips(hand) + SumChips(result) <= SumChips(brought)
    BY <1>3, <2>3, <2>4
  <2> QED BY <1>0, <1>1, <1>4, <1>5, <1>7, <2>2, <2>5 DEF PayInv, NoChipsMinted
<1> QED BY <1>6, <1>7

\* A step that pays nothing keeps it: chips only leave the hands of the players.
LEMMA GoOnKeepsPay ==
  ASSUME PayInv, BooksInv, BooksInv', UNCHANGED <<bringIn, win, stopClosed>>,
         status' = status \/ (status' \in {"finished", "panicked"} /\ status = "running"),
         \A p \in Seats : chips'[p] <= chips[p]
  PROVE  PayInv'
<1>0. Seats = Players
  BY DEF Seats
<1>1. PICK before, after, paid, brought :
        /\ before = chips /\ after = chips' /\ paid = win /\ brought = bringIn
        /\ before \in [Players -> Nat] /\ after \in [Players -> Nat]
        /\ paid \in [Players -> Nat] /\ brought \in [Players -> Nat]
        /\ \A p \in Players : after[p] <= before[p]
  <2>1. /\ chips \in [Players -> Nat] /\ chips' \in [Players -> Nat]
        /\ win \in [Players -> Nat] /\ bringIn \in [Players -> Nat]
    BY <1>0, GameAssumption DEF BooksInv, PayInv
  <2> QED BY <1>0, <2>1
<1>2. SumChips(after) \in Nat /\ SumChips(before) \in Nat /\ SumChips(after) <= SumChips(before)
  BY <1>1, FewerChips
<1>3. SumChips(paid) \in Nat /\ SumChips(brought) \in Nat
  BY <1>1, FewerChips
<1>4. ASSUME status # "panicked" PROVE SumChips(after) + SumChips(paid) <= SumChips(brought)
  <2>1. SumChips(before) + SumChips(paid) <= SumChips(brought)
    BY <1>1, <1>4 DEF PayInv, NoChipsMinted
  <2> QED BY <1>2, <1>3, <2>1
<1>5. NoChipsMinted'
  BY <1>1, <1>4 DEF NoChipsMinted
<1> QED BY <1>5 DEF PayInv

\* No step gives a player chips but the settlement.
LEMMA ChipsOnlyLeave ==
  ASSUME BooksInv, [Next]_vars
  PROVE  bringIn' = bringIn /\ \A p \in Seats : chips'[p] <= chips[p]
<1>0. /\ chips \in [Seats -> Nat] /\ bringIn \in [Seats -> Stacks]
  BY DEF BooksInv
<1>1. ASSUME NEW amount \in BetAmounts, Bet(amount)
      PROVE  bringIn' = bringIn /\ \A p \in Seats : chips'[p] <= chips[p]
  <2>1. amount \in Nat
    <3>1. amount \in Amounts \/ amount = chips[curBetPlayer]
      BY DEF BetAmounts
    <3> QED BY <1>0, <1>1, <3>1, GameAssumption DEF Bet, Acting
  <2>2. /\ bringIn' = bringIn
        /\ chips' = [chips EXCEPT ![curBetPlayer] = chips[curBetPlayer] - amount]
    BY <1>1 DEF Bet
  <2> QED BY <1>0, <2>1, <2>2
<1>2. CASE Discard \/ Timeout \/ Stops \/ UNCHANGED vars
  <2>1. bringIn' = bringIn /\ chips' = chips
    BY <1>2, StopsChangeNothing DEF Discard, Timeout, vars, money
  <2> QED BY <1>0, <2>1
<1> QED BY <1>1, <1>2 DEF Next, Play, Stops

\* Nothing is paid at the start.
LEMMA NothingPaidYet == Init => PayInv
<1> SUFFICES ASSUME Init PROVE PayInv
  OBVIOUS
<1>0. Seats = Players /\ BooksInv
  BY BlindsBooked DEF Seats
<1>1. PICK hand, paid, brought :
        /\ hand = chips /\ paid = win /\ brought = bringIn
        /\ hand \in [Players -> Nat] /\ paid \in [Players -> Nat] /\ brought \in [Players -> Nat]
        /\ \A p \in Players : paid[p] = 0
  <2>1. /\ chips \in [Players -> Nat] /\ bringIn \in [Players -> Nat]
        /\ win \in [Players -> Nat] /\ \A p \in Players : win[p] = 0
    BY <1>0, GameAssumption DEF Init, BooksInv
  <2> QED BY <2>1
<1>2. \A p \in Players : hand[p] <= brought[p]
  <2> SUFFICES ASSUME NEW p \in Players PROVE hand[p] <= brought[p]
    OBVIOUS
  <2>1. chips[p] + PlayerTotal(pools, p) <= bringIn[p] /\ pools \in Seq(Pool)
    BY <1>0 DEF BooksInv, PoolsBacked, GoodList
  <2>2. PlayerTotal(pools, p) \in Nat
    BY <2>1, PlayerTotalType
  <2>3. hand[p] \in Nat /\ brought[p] \in Nat
    BY <1>1
  <2> QED BY <1>1, <2>1, <2>2, <2>3
<1>3. SumChips(paid) = 0
  BY <1>1, NoChips
<1>4. SumChips(hand) \in Nat /\ SumChips(brought) \in Nat /\ SumChips(hand) <= SumChips(brought)
  BY <1>1, <1>2, FewerChips
<1>5. NoChipsMinted
  BY <1>1, <1>3, <1>4 DEF NoChipsMinted
<1> QED BY <1>0, <1>1, <1>5 DEF Init, PayInv

\* Every step keeps it.
LEMMA PayKept == PayInv /\ BooksInv /\ [Next]_vars => PayInv'
<1> SUFFICES ASSUME PayInv, BooksInv, [Next]_vars PROVE PayInv'
  OBVIOUS
<1>1. BooksInv' /\ bringIn' = bringIn /\ \A p \in Seats : chips'[p] <= chips[p]
  BY BooksKept, ChipsOnlyLeave
<1>2. CASE Play
  <2>1. Acting /\ AfterPlayerActionOrTimeout
    BY <1>2 DEF Play, Bet, Discard, Timeout
  <2>2. CASE GoOn
    BY <1>1, <2>2, GoOnKeepsPay DEF GoOn
  <2>3. CASE \E rank : Settle(rank)
    BY <1>1, <2>3, SettleKeepsPay
  <2> QED BY <2>1, <2>2, <2>3, HandlerEnds
<1>3. CASE Stops
  <2>1. /\ UNCHANGED <<win, stopClosed>>
        /\ status' \in {"finished", "panicked"} /\ status = "running"
    BY <1>3, StopsChangeNothing DEF money
  <2> QED BY <1>1, <2>1, GoOnKeepsPay
<1>4. CASE UNCHANGED vars
  <2>1. UNCHANGED <<win, stopClosed, status>>
    BY <1>4 DEF vars, money, ending
  <2> QED BY <1>1, <2>1, GoOnKeepsPay
<1> QED BY <1>2, <1>3, <1>4 DEF Next, Stops

\* The players never have more chips together than they brought in, whatever is
\* bet, refused, lost to rounding or booked by a message that comes after the
\* settlement (mergeResultToPlayers, onMsg).
THEOREM ChipsAreKept == Spec => []NoChipsMinted
<1>1. PayInv => NoChipsMinted
  BY DEF PayInv
<1> QED BY <1>1, BlindsBooked, BooksKept, NothingPaidYet, PayKept, PTL DEF Spec

-----------------------------------------------------------------------------
(* The types, and who is paid.                                              *)

TurnInv == curBetPlayer \in Seats \cup {3} /\ startBetAt \in Seats \cup {3}

LEMMA TurnKept == TurnInv /\ [Next]_vars => TurnInv'
<1> SUFFICES ASSUME TurnInv, [Next]_vars PROVE TurnInv'
  OBVIOUS
<1>1. CASE Play
  <2>1. Acting /\ AfterPlayerActionOrTimeout
    BY <1>1 DEF Play, Bet, Discard, Timeout
  <2> QED BY <2>1, HandlerEnds DEF TurnInv
<1>2. CASE Stops \/ UNCHANGED vars
  BY <1>2, StopsChangeNothing DEF vars, turn, TurnInv
<1> QED BY <1>1, <1>2 DEF Next, Stops

\* With four players or more the turn is always with a seat of the table, so that
\* onMsg and onTimeout find a player at curBetPlayer; with three it is not, as
\* NewGame lets seat 3 begin whatever the number of players (game.go:38).
THEOREM LargerHandsAreSeated ==
  ASSUME NumPlayers > 3
  PROVE  Spec => []CurSeated
<1>1. Init => CurSeated
  BY SeatsAreNumbers, GameAssumption DEF Init, CurSeated
<1>2. CurSeated /\ [Next]_vars => CurSeated'
  <2> SUFFICES ASSUME CurSeated, [Next]_vars PROVE CurSeated'
    OBVIOUS
  <2>1. CASE Play
    <3>1. Acting /\ AfterPlayerActionOrTimeout
      BY <2>1 DEF Play, Bet, Discard, Timeout
    <3> QED BY <3>1, HandlerEnds DEF CurSeated
  <2>2. CASE Stops \/ UNCHANGED vars
    BY <2>2, StopsChangeNothing DEF vars, turn, CurSeated
  <2> QED BY <2>1, <2>2 DEF Next, Stops
<1> QED BY <1>1, <1>2, PTL DEF Spec

\* The parts of the invariant are the types of the variables.
LEMMA PartsAreTypes == CountInv /\ BoardInv /\ TurnInv /\ BooksInv /\ PayInv => TypeOK
<1> SUFFICES ASSUME CountInv, BoardInv, TurnInv, BooksInv, PayInv PROVE TypeOK
  OBVIOUS
<1>1. /\ discarded \subseteq Seats /\ allInned \subseteq Seats
      /\ discardedPlayerCount = Cardinality(discarded)
      /\ allInnedPlayerCount = Cardinality(allInned)
  BY DEF CountInv, CountsMatch
<1>2. discardedPlayerCount \in 0..NumPlayers /\ allInnedPlayerCount \in 0..NumPlayers
  <2>1. IsFiniteSet(Seats) /\ Cardinality(Seats) = NumPlayers /\ NumPlayers \in Nat
    BY SeatsAreNumbers, GameAssumption
  <2>2. /\ IsFiniteSet(discarded) /\ Cardinality(discarded) <= Cardinality(Seats)
        /\ IsFiniteSet(allInned) /\ Cardinality(allInned) <= Cardinality(Seats)
    BY <1>1, <2>1, FS_Subset
  <2>3. Cardinality(discarded) \in Nat /\ Cardinality(allInned) \in Nat
    BY <2>2, FS_CardinalityType
  <2> QED BY <1>1, <2>1, <2>2, <2>3
<1>3. curRound \in 1..5 /\ commonPokers \in Nat
  BY DEF BoardInv, BoardMatchesRound
<1>4. pools \in Seq(Pool) \ {<<>>}
  BY DEF BooksInv, GoodList
<1> QED BY <1>1, <1>2, <1>3, <1>4 DEF TypeOK, TurnInv, BooksInv, PayInv

\* In every reachable state the variables of a hand have their types (the fields of
\* Game and Player).
THEOREM GameTypes == Spec => []TypeOK
<1>1. Init => CountInv /\ BoardInv /\ TurnInv
  BY FS_EmptySet DEF Init, CountInv, CountsMatch, BoardInv, BoardMatchesRound, TurnInv
<1> QED BY <1>1, BlindsBooked, NothingPaidYet, CountKept, BoardKept, TurnKept, BooksKept,
           PayKept, PartsAreTypes, PTL DEF Spec

\* Whoever has discarded is in no ranking, and is paid from no pool, whatever the
\* order of discards, all-ins and timeouts (allDiscardedEnd, rankPlayers,
\* matchWinners).
THEOREM DiscardedGetNothing == Spec => DiscardedNeverPaid
<1> DEFINE Paid == \A p \in Seats : win'[p] > win[p] => p \notin discarded'
<1>1. BooksInv /\ PayInv /\ [Next]_vars => [Paid]_vars
  <2> SUFFICES ASSUME BooksInv, PayInv, [Next]_vars, NEW p \in Seats, win'[p] > win[p],
                      p \in discarded'
               PROVE  FALSE
    OBVIOUS
  <2>0. Seats = Players /\ win[p] \in Nat
    BY DEF Seats, PayInv
  <2>1. CASE UNCHANGED win
    BY <2>0, <2>1
  <2>2. CASE \E rank : Settle(rank) /\ \A q \in Seats : q \in discarded' => rank[q] = 0
    <3>1. PICK rank : Settle(rank) /\ rank[p] = 0
      BY <2>2
    <3>2. PICK list \in Seq(Pool) : list = pools'
      BY BooksKept DEF BooksInv, GoodList
    <3>3. Finalize(list, rank)[p] = 0
      BY <2>0, <3>1, OutOfRankingUnpaid
    <3>4. win'[p] = win[p] + Finalize(list, rank)[p]
      BY <3>1, <3>2 DEF Settle
    <3> QED BY <2>0, <3>3, <3>4
  <2>3. CASE Play
    BY <2>1, <2>2, <2>3, HandlerEnds DEF Play, Bet, Discard, Timeout, GoOn
  <2>4. CASE Stops \/ UNCHANGED vars
    BY <2>1, <2>4, StopsChangeNothing DEF vars, money
  <2> QED BY <2>3, <2>4 DEF Next, Stops
<1> HIDE DEF Paid
<1>2. Spec => [][Paid]_vars
  BY <1>1, BlindsBooked, NothingPaidYet, BooksKept, PayKept, PTL DEF Spec
<1>3. [][Paid]_vars => DiscardedNeverPaid
  BY PTL DEF DiscardedNeverPaid, Paid
<1> QED BY <1>2, <1>3

-----------------------------------------------------------------------------
(* The ranking (Ranking).  Only the first of a group is compared, so the    *)
(* groups have to be kept of one hand each and apart from each other.       *)

InSomeGroup == \A p \in StillIn \ unseen : \E i \in DOMAIN groups : p \in Range(groups[i])

OneHandEach == \A i \in DOMAIN groups : \A k \in DOMAIN groups[i] :
                 SameHand(groups[i], groups[i][k])

HandsApart == \A i, j \in DOMAIN groups : i # j => ~SameHand(groups[i], groups[j][1])

BestFirst == \A i, j \in DOMAIN groups : i < j => Before(groups[i], groups[j])

RankInv == /\ RankTypeOK /\ InSomeGroup /\ OneHandEach /\ HandsApart
           /\ ranked => unseen = {} /\ BestFirst

\* Cmp of the hands of players: an equivalence where it is 0, and an order.
LEMMA HandsCompare ==
  ASSUME hands \in [Players -> HandOf], NEW p \in Players, NEW q \in Players,
         NEW r \in Players
  PROVE  /\ Cmp(hands[p], hands[p]) = 0
         /\ Cmp(hands[p], hands[q]) \in {-1, 0, 1}
         /\ Cmp(hands[q], hands[p]) = -Cmp(hands[p], hands[q])
         /\ Cmp(hands[p], hands[q]) = 0 => Cmp(hands[p], hands[r]) = Cmp(hands[q], hands[r])
         /\ Cmp(hands[q], hands[r]) = 0 => Cmp(hands[p], hands[q]) = Cmp(hands[p], hands[r])
<1>1. PICK g, h, k : g = hands[p] /\ h = hands[q] /\ k = hands[r]
  OBVIOUS
<1>2. /\ g.type \in Int /\ h.type \in Int /\ k.type \in Int
      /\ g.weight \in Nat /\ h.weight \in Nat /\ k.weight \in Nat
  BY <1>1 DEF HandOf, HandType, DZ, HJTHS
<1> QED BY <1>1, <1>2 DEF Cmp

\* The groups are sequences, numbered from 1, of players still in.
LEMMA GroupsAreLists ==
  ASSUME RankTypeOK
  PROVE  /\ groups \in Seq(Seq(StillIn \ unseen)) /\ Len(groups) \in Nat
         /\ DOMAIN groups = 1..Len(groups)
         /\ \A i \in DOMAIN groups :
              /\ groups[i] \in Seq(StillIn \ unseen) /\ Len(groups[i]) \in Nat
              /\ DOMAIN groups[i] = 1..Len(groups[i]) /\ 1 \in DOMAIN groups[i]
              /\ \A k \in DOMAIN groups[i] : groups[i][k] \in StillIn \ unseen
<1>1. groups \in Seq(Seq(StillIn \ unseen) \ {<<>>})
  BY DEF RankTypeOK
<1>2. \A i \in DOMAIN groups : groups[i] \in Seq(StillIn \ unseen) /\ groups[i] # <<>>
  BY <1>1
<1>3. ASSUME NEW g \in Seq(StillIn \ unseen), g # <<>>
      PROVE  /\ DOMAIN g = 1..Len(g) /\ 1 \in DOMAIN g /\ Len(g) \in Nat
             /\ \A k \in DOMAIN g : g[k] \in StillIn \ unseen
  BY <1>3
<1>4. groups \in Seq(Seq(StillIn \ unseen)) /\ Len(groups) \in Nat /\ DOMAIN groups = 1..Len(groups)
  BY <1>1, <1>2
<1> QED BY <1>2, <1>3, <1>4

\* Nobody is ranked before the range begins.
LEMMA NobodyRankedYet == RankInit => RankInv
<1> SUFFICES ASSUME RankInit PROVE RankInv
  OBVIOUS
<1>1. /\ groups = <<>> /\ unseen = Players /\ ranked = FALSE
      /\ hands \in [Players -> HandOf] /\ folded \subseteq Players
  BY HandsAssumption DEF RankInit
<1>2. RankTypeOK
  <2>1. groups \in Seq(Seq(StillIn \ unseen) \ {<<>>}) /\ DOMAIN groups = {}
    BY <1>1
  <2>2. ranked \in BOOLEAN
    BY <1>1
  <2> QED BY <1>1, <2>1, <2>2 DEF RankTypeOK
<1>3. StillIn \ unseen = {} /\ DOMAIN groups = {}
  BY <1>1 DEF StillIn
<1>4. InSomeGroup /\ OneHandEach /\ HandsApart
  BY <1>3 DEF InSomeGroup, OneHandEach, HandsApart
<1>5. ~ranked
  BY <1>1
<1> QED BY <1>2, <1>4, <1>5 DEF RankInv

\* A player who has not been seen is in no group, and joins the group of his hand
\* or one of his own.
LEMMA PlacedByHand ==
  ASSUME RankInv, NEW p \in unseen, p \notin folded
  PROVE  \/ /\ Placed(p) = Append(groups, <<p>>)
            /\ \A i \in DOMAIN groups : ~SameHand(groups[i], p)
         \/ \E i \in DOMAIN groups : /\ SameHand(groups[i], p)
                                     /\ Placed(p) = [groups EXCEPT ![i] = Append(@, p)]
<1> DEFINE same == {i \in DOMAIN groups : SameHand(groups[i], p)}
<1>1. CASE same = {}
  BY <1>1 DEF Placed
<1>2. CASE same # {}
  <2>1. same \in SUBSET Nat
    BY GroupsAreLists DEF RankInv
  <2>2. \E i \in same : \A j \in same : i <= j
    <3> HIDE DEF same
    <3> QED BY <1>2, <2>1, LeastElement
  <2>3. PICK i : i = (CHOOSE k \in same : \A j \in same : k <= j)
    OBVIOUS
  <2>4. i \in same
    <3> HIDE DEF same
    <3> QED BY <2>2, <2>3
  <2>5. Placed(p) = [groups EXCEPT ![i] = Append(@, p)]
    BY <1>2, <2>3 DEF Placed
  <2> QED BY <2>4, <2>5
<1> QED BY <1>1, <1>2

\* A list is known by its length and its members.
LEMMA ListOf ==
  ASSUME NEW T, NEW n \in Nat, NEW list, list = [i \in 1..n |-> list[i]],
         \A i \in 1..n : list[i] \in T
  PROVE  list \in Seq(T)
<1>1. list \in [1..n -> T]
  BY Zenon
<1> QED BY <1>1

\* One more on a list: the list keeps its places, and none is filled twice if he was
\* not on it.
LEMMA OneMoreOnList ==
  ASSUME NEW S, NEW list \in Seq(S), NEW p
  PROVE  /\ Append(list, p) \in Seq(S \cup {p}) \ {<<>>}
         /\ DOMAIN Append(list, p) = DOMAIN list \cup {Len(list) + 1}
         /\ Len(list) + 1 \notin DOMAIN list
         /\ \A k \in DOMAIN list : Append(list, p)[k] = list[k]
         /\ Append(list, p)[Len(list) + 1] = p
         /\ Range(Append(list, p)) = Range(list) \cup {p}
         /\ IsInjective(list) /\ p \notin S => IsInjective(Append(list, p))
<1>1. /\ Append(list, p) \in Seq(S \cup {p}) \ {<<>>}
      /\ DOMAIN Append(list, p) = DOMAIN list \cup {Len(list) + 1}
      /\ Len(list) + 1 \notin DOMAIN list
      /\ \A k \in DOMAIN list : Append(list, p)[k] = list[k] /\ list[k] \in S
      /\ Append(list, p)[Len(list) + 1] = p
  OBVIOUS
<1>2. PICK longer : longer = Append(list, p)
  OBVIOUS
<1>3. Range(longer) = Range(list) \cup {p}
  BY <1>1, <1>2 DEF Range
<1>4. IsInjective(list) /\ p \notin S => IsInjective(longer)
  BY <1>1, <1>2 DEF IsInjective
<1> QED BY <1>1, <1>2, <1>3, <1>4

\* A turn of the range keeps the groups of one hand each and apart.
LEMMA VisitKeepsGroups ==
  ASSUME RankInv, NEW p \in Players, Visit(p)
  PROVE  RankInv'
<1>0. /\ p \in unseen /\ unseen' = unseen \ {p} /\ p \in Players
      /\ hands' = hands /\ folded' = folded /\ ranked' = ranked
      /\ hands \in [Players -> HandOf] /\ folded \subseteq Players /\ unseen \subseteq Players
      /\ ranked \in BOOLEAN
      /\ groups' = IF p \in folded THEN groups ELSE Placed(p)
  BY DEF Visit, RankInv, RankTypeOK
<1>1. ~ranked /\ ~ranked'
  BY <1>0 DEF RankInv
<1>2. /\ StillIn' = StillIn /\ StillIn \subseteq Players
      /\ StillIn \ unseen \subseteq (StillIn \ unseen)'
      /\ p \notin folded => (StillIn \ unseen)' = (StillIn \ unseen) \cup {p}
      /\ p \in folded => (StillIn \ unseen)' = StillIn \ unseen
      /\ p \notin StillIn \ unseen
  BY <1>0 DEF StillIn
<1>3. PICK Seen : Seen = StillIn \ unseen
  OBVIOUS
<1>4. /\ groups \in Seq(Seq(Seen)) /\ DOMAIN groups = 1..Len(groups) /\ Len(groups) \in Nat
      /\ \A i \in DOMAIN groups :
           /\ groups[i] \in Seq(Seen) /\ groups[i] # <<>> /\ IsInjective(groups[i])
           /\ 1 \in DOMAIN groups[i]
           /\ \A k \in DOMAIN groups[i] : groups[i][k] \in Seen /\ groups[i][k] \in Players
  BY <1>2, <1>3, GroupsAreLists DEF RankInv, RankTypeOK
<1>5. CASE p \in folded
  <2>1. groups' = groups /\ (StillIn \ unseen)' = StillIn \ unseen
    BY <1>0, <1>2, <1>5
  <2>2. RankTypeOK' /\ InSomeGroup' /\ OneHandEach' /\ HandsApart'
    BY <1>0, <1>2, <2>1 DEF RankInv, RankTypeOK, InSomeGroup, OneHandEach, HandsApart, SameHand
  <2> QED BY <1>1, <2>2 DEF RankInv
<1>6. ASSUME p \notin folded, groups' = Append(groups, <<p>>),
             \A i \in DOMAIN groups : ~SameHand(groups[i], p)
      PROVE  RankInv'
  <2>1. PICK n : n = Len(groups) + 1
    OBVIOUS
  <2>2. /\ DOMAIN groups' = DOMAIN groups \cup {n} /\ n \notin DOMAIN groups
        /\ groups'[n] = <<p>> /\ \A i \in DOMAIN groups : groups'[i] = groups[i]
    BY <1>4, <1>6, <2>1
  <2>3. /\ <<p>> \in Seq(Seen \cup {p}) \ {<<>>} /\ DOMAIN <<p>> = {1} /\ <<p>>[1] = p
        /\ Range(<<p>>) = {p} /\ IsInjective(<<p>>)
    BY DEF Range, IsInjective
  <2>4. groups' \in Seq(Seq(Seen \cup {p}) \ {<<>>})
    <3>1. \A i \in DOMAIN groups' : groups'[i] \in Seq(Seen \cup {p}) \ {<<>>}
      <4>1. \A i \in DOMAIN groups : groups[i] \in Seq(Seen \cup {p}) \ {<<>>}
        BY <1>4
      <4> QED BY <2>2, <2>3, <4>1
    <3>2. n \in Nat /\ groups' = [i \in 1..n |-> groups'[i]] /\ DOMAIN groups' = 1..n
      BY <1>4, <1>6, <2>1
    <3>3. PICK T : T = Seq(Seen \cup {p}) \ {<<>>}
      OBVIOUS
    <3> QED BY <3>1, <3>2, <3>3, ListOf
  <2>5. RankTypeOK'
    <3>1. \A i \in DOMAIN groups' : IsInjective(groups'[i])
      BY <1>4, <2>2, <2>3
    <3>2. unseen' \subseteq Players
      BY <1>0
    <3> QED BY <1>0, <1>2, <1>3, <1>6, <2>4, <3>1, <3>2 DEF RankTypeOK
  <2>6. InSomeGroup'
    <3>1. \A q \in Seen : \E i \in DOMAIN groups : q \in Range(groups[i])
      BY <1>3 DEF RankInv, InSomeGroup
    <3>2. \A q \in Seen \cup {p} : \E i \in DOMAIN groups' : q \in Range(groups'[i])
      BY <2>2, <2>3, <3>1
    <3> QED BY <1>2, <1>3, <1>6, <3>2 DEF InSomeGroup
  <2>7. OneHandEach'
    <3>1. ASSUME NEW i \in DOMAIN groups', NEW k \in DOMAIN groups'[i]
          PROVE  Cmp(hands[groups'[i][1]], hands[groups'[i][k]]) = 0
      <4>1. CASE i = n
        <5>1. Cmp(hands[p], hands[p]) = 0
          BY <1>0, HandsCompare
        <5> QED BY <2>2, <2>3, <4>1, <5>1, <3>1
      <4>2. CASE i # n
        BY <2>2, <3>1, <4>2 DEF RankInv, OneHandEach, SameHand
      <4> QED BY <4>1, <4>2
    <3> QED BY <1>0, <3>1 DEF OneHandEach, SameHand
  <2>8. HandsApart'
    <3>1. ASSUME NEW i \in DOMAIN groups', NEW j \in DOMAIN groups', i # j
          PROVE  Cmp(hands[groups'[i][1]], hands[groups'[j][1]]) # 0
      <4>1. CASE i \in DOMAIN groups /\ j \in DOMAIN groups
        BY <2>2, <3>1, <4>1 DEF RankInv, HandsApart, SameHand
      <4>2. CASE i \in DOMAIN groups /\ j = n
        <5>1. ~SameHand(groups[i], p)
          BY <1>6, <4>2
        <5> QED BY <2>2, <2>3, <4>2, <5>1 DEF SameHand
      <4>3. CASE i = n /\ j \in DOMAIN groups
        <5>1. Cmp(hands[groups[j][1]], hands[p]) # 0 /\ groups[j][1] \in Players
          BY <1>4, <1>6, <4>3 DEF SameHand
        <5>2. /\ Cmp(hands[p], hands[groups[j][1]]) = -Cmp(hands[groups[j][1]], hands[p])
              /\ Cmp(hands[groups[j][1]], hands[p]) \in {-1, 0, 1}
          BY <1>0, <5>1, HandsCompare
        <5>3. Cmp(hands[p], hands[groups[j][1]]) # 0
          BY <5>1, <5>2
        <5> QED BY <2>2, <2>3, <4>3, <5>3
      <4> QED BY <2>2, <3>1, <4>1, <4>2, <4>3
    <3> QED BY <1>0, <3>1 DEF HandsApart, SameHand
  <2> QED BY <1>1, <2>5, <2>6, <2>7, <2>8 DEF RankInv
<1>7. ASSUME p \notin folded, NEW m \in DOMAIN groups, SameHand(groups[m], p),
             groups' = [groups EXCEPT ![m] = Append(@, p)]
      PROVE  RankInv'
  <2>1. PICK longer : longer = Append(groups[m], p)
    OBVIOUS
  <2>2. /\ DOMAIN groups' = DOMAIN groups /\ groups'[m] = longer
        /\ \A i \in DOMAIN groups : i # m => groups'[i] = groups[i]
    BY <1>7, <2>1
  <2>3. /\ longer \in Seq(Seen \cup {p}) \ {<<>>}
        /\ DOMAIN longer = DOMAIN groups[m] \cup {Len(groups[m]) + 1}
        /\ Len(groups[m]) + 1 \notin DOMAIN groups[m]
        /\ \A k \in DOMAIN groups[m] : longer[k] = groups[m][k]
        /\ longer[Len(groups[m]) + 1] = p
        /\ Range(longer) = Range(groups[m]) \cup {p}
        /\ IsInjective(longer)
    <3>1. PICK list \in Seq(Seen) : list = groups[m]
      BY <1>4
    <3>2. p \notin Seen /\ IsInjective(list)
      BY <1>2, <1>3, <1>4, <3>1
    <3> QED BY <2>1, <3>1, <3>2, OneMoreOnList
  <2>4. \A i \in DOMAIN groups' : groups'[i][1] = groups[i][1]
    BY <1>4, <2>2, <2>3
  <2>5. groups' \in Seq(Seq(Seen \cup {p}) \ {<<>>})
    <3>1. \A i \in DOMAIN groups : groups'[i] \in Seq(Seen \cup {p}) \ {<<>>}
      <4>1. \A i \in DOMAIN groups : groups[i] \in Seq(Seen \cup {p}) \ {<<>>}
        BY <1>4
      <4> QED BY <2>2, <2>3, <4>1
    <3>2. groups' = [i \in 1..Len(groups) |-> groups'[i]]
      BY <1>4, <1>7
    <3>3. PICK T : T = Seq(Seen \cup {p}) \ {<<>>}
      OBVIOUS
    <3> QED BY <1>4, <3>1, <3>2, <3>3, ListOf
  <2>6. RankTypeOK'
    <3>1. \A i \in DOMAIN groups' : IsInjective(groups'[i])
      BY <1>4, <2>2, <2>3
    <3>2. unseen' \subseteq Players
      BY <1>0
    <3> QED BY <1>0, <1>2, <1>3, <1>7, <2>5, <3>1, <3>2 DEF RankTypeOK
  <2>7. InSomeGroup'
    <3>1. \A q \in Seen : \E i \in DOMAIN groups : q \in Range(groups[i])
      BY <1>3 DEF RankInv, InSomeGroup
    <3>2. \A i \in DOMAIN groups : Range(groups[i]) \subseteq Range(groups'[i])
      BY <2>2, <2>3
    <3>3. p \in Range(groups'[m])
      BY <2>2, <2>3
    <3>4. \A q \in Seen \cup {p} : \E i \in DOMAIN groups' : q \in Range(groups'[i])
      BY <2>2, <3>1, <3>2, <3>3
    <3> QED BY <1>2, <1>3, <1>7, <3>4 DEF InSomeGroup
  <2>8. OneHandEach'
    <3>1. ASSUME NEW i \in DOMAIN groups', NEW k \in DOMAIN groups'[i]
          PROVE  Cmp(hands[groups'[i][1]], hands[groups'[i][k]]) = 0
      <4>1. CASE k \in DOMAIN groups[i]
        <5>1. groups'[i][k] = groups[i][k]
          BY <2>2, <2>3, <4>1
        <5>2. Cmp(hands[groups[i][1]], hands[groups[i][k]]) = 0
          BY <2>2, <4>1 DEF RankInv, OneHandEach, SameHand
        <5> QED BY <2>4, <5>1, <5>2
      <4>2. CASE k \notin DOMAIN groups[i]
        <5>1. i = m /\ groups'[i][k] = p
          BY <2>2, <2>3, <3>1, <4>2
        <5> QED BY <1>7, <2>2, <2>4, <5>1 DEF SameHand
      <4> QED BY <4>1, <4>2
    <3> QED BY <1>0, <3>1 DEF OneHandEach, SameHand
  <2>9. HandsApart'
    <3>1. \A i, j \in DOMAIN groups : i # j => Cmp(hands[groups[i][1]], hands[groups[j][1]]) # 0
      BY DEF RankInv, HandsApart, SameHand
    <3>2. \A i, j \in DOMAIN groups' :
            i # j => Cmp(hands[groups'[i][1]], hands[groups'[j][1]]) # 0
      BY <2>2, <2>4, <3>1
    <3> QED BY <1>0, <3>2 DEF HandsApart, SameHand
  <2> QED BY <1>1, <2>6, <2>7, <2>8, <2>9 DEF RankInv
<1> QED BY <1>0, <1>5, <1>6, <1>7, PlacedByHand

\* What sort.Slice may return has the same groups, the larger hand always in front.
LEMMA SortKeepsGroups == RankInv /\ Sort => RankInv'
<1> SUFFICES ASSUME RankInv, Sort PROVE RankInv'
  OBVIOUS
<1>0. PICK D : D = DOMAIN groups
  OBVIOUS
<1>1. PICK order \in Bijection(D, D) :
        /\ groups' = [i \in D |-> groups[order[i]]]
        /\ \A i, j \in D : i < j => ~Before(groups[order[j]], groups[order[i]])
  BY <1>0 DEF Sort
<1>2. /\ order \in [D -> D] /\ \A i, j \in D : order[i] = order[j] => i = j
      /\ \A j \in D : \E i \in D : order[i] = j
  BY <1>1 DEF Bijection, Injection, Surjection, IsInjective
<1>3. /\ hands' = hands /\ folded' = folded /\ unseen' = unseen /\ unseen = {}
      /\ ranked' = TRUE /\ StillIn' = StillIn
  BY DEF Sort, StillIn
<1>4. /\ DOMAIN groups' = D /\ \A i \in D : groups'[i] = groups[order[i]]
      /\ D = 1..Len(groups) /\ Len(groups) \in Nat
      /\ \A i \in D : groups[i][1] \in Players
  <2>1. StillIn \subseteq Players
    BY DEF StillIn
  <2> QED BY <1>0, <1>1, <2>1, GroupsAreLists DEF RankInv
<1>5. RankTypeOK'
  <2>1. groups \in Seq(Seq(StillIn \ unseen) \ {<<>>})
    BY DEF RankInv, RankTypeOK
  <2>2. \A i \in D : groups'[i] \in Seq(StillIn \ unseen) \ {<<>>} /\ IsInjective(groups'[i])
    <3>1. \A i \in D : groups[i] \in Seq(StillIn \ unseen) \ {<<>>}
      BY <1>0, <2>1
    <3>2. \A i \in D : IsInjective(groups[i])
      BY <1>0 DEF RankInv, RankTypeOK
    <3> QED BY <1>2, <1>4, <3>1, <3>2, Zenon
  <2>3. groups' = [i \in 1..Len(groups) |-> groups'[i]]
    BY <1>1, <1>4
  <2>4. groups' \in Seq(Seq(StillIn \ unseen) \ {<<>>})
    <3>1. PICK T : T = Seq(StillIn \ unseen) \ {<<>>}
      OBVIOUS
    <3> QED BY <1>4, <2>2, <2>3, <3>1, ListOf
  <2>5. \A i \in DOMAIN groups' : IsInjective(groups'[i])
    BY <1>4, <2>2
  <2>6. /\ hands' \in [Players -> HandOf] /\ folded' \subseteq Players
        /\ unseen' \subseteq Players
    BY <1>3 DEF RankInv, RankTypeOK
  <2>7. ranked' \in BOOLEAN
    BY <1>3
  <2> QED BY <1>3, <2>4, <2>5, <2>6, <2>7 DEF RankTypeOK
<1>6. InSomeGroup'
  <2>1. \A q \in StillIn \ unseen : \E j \in D : q \in Range(groups[j])
    BY <1>0 DEF RankInv, InSomeGroup
  <2>2. \A q \in StillIn \ unseen : \E i \in D : q \in Range(groups'[i])
    BY <1>2, <1>4, <2>1
  <2> QED BY <1>3, <1>4, <2>2 DEF InSomeGroup
<1>7. OneHandEach'
  <2>1. \A i \in D : \A k \in DOMAIN groups[i] : Cmp(hands[groups[i][1]], hands[groups[i][k]]) = 0
    BY <1>0 DEF RankInv, OneHandEach, SameHand
  <2>2. \A i \in D : \A k \in DOMAIN groups'[i] :
          Cmp(hands[groups'[i][1]], hands[groups'[i][k]]) = 0
    <3> SUFFICES ASSUME NEW i \in D, NEW k \in DOMAIN groups'[i]
                 PROVE  Cmp(hands[groups'[i][1]], hands[groups'[i][k]]) = 0
      OBVIOUS
    <3>1. PICK h \in D : groups'[i] = groups[h]
      BY <1>2, <1>4
    <3> QED BY <2>1, <3>1
  <2> QED BY <1>3, <1>4, <2>2 DEF OneHandEach, SameHand
<1>8. HandsApart'
  <2>1. \A i, j \in D : i # j => Cmp(hands[groups[i][1]], hands[groups[j][1]]) # 0
    BY <1>0 DEF RankInv, HandsApart, SameHand
  <2>2. \A i, j \in D : i # j => Cmp(hands[groups'[i][1]], hands[groups'[j][1]]) # 0
    <3> SUFFICES ASSUME NEW i \in D, NEW j \in D, i # j
                 PROVE  Cmp(hands[groups'[i][1]], hands[groups'[j][1]]) # 0
      OBVIOUS
    <3>0. order[i] \in D /\ order[j] \in D /\ order[i] # order[j]
      BY <1>2
    <3>1. PICK h \in D, k \in D : groups'[i] = groups[h] /\ groups'[j] = groups[k] /\ h # k
      BY <1>4, <3>0
    <3> QED BY <2>1, <3>1
  <2> QED BY <1>3, <1>4, <2>2 DEF HandsApart, SameHand
<1>9. BestFirst'
  <2>1. ASSUME NEW i \in D, NEW j \in D, i < j
        PROVE  Cmp(hands[groups'[i][1]], hands[groups'[j][1]]) = 1
    <3>1. PICK p \in Players, q \in Players :
            p = groups[order[i]][1] /\ q = groups[order[j]][1]
      BY <1>2, <1>4
    <3>2. Cmp(hands[q], hands[p]) # 1
      BY <1>1, <2>1, <3>1 DEF Before
    <3>3. Cmp(hands[p], hands[q]) # 0
      <4>1. order[i] # order[j] /\ order[i] \in D /\ order[j] \in D
        BY <1>2, <1>4, <2>1
      <4> QED BY <1>0, <3>1, <4>1 DEF RankInv, HandsApart, SameHand
    <3>4. /\ Cmp(hands[p], hands[q]) \in {-1, 0, 1}
          /\ Cmp(hands[q], hands[p]) = -Cmp(hands[p], hands[q])
      BY HandsCompare DEF RankInv, RankTypeOK
    <3>5. Cmp(hands[p], hands[q]) = 1
      BY <3>2, <3>3, <3>4
    <3> QED BY <1>4, <3>1, <3>5
  <2> QED BY <1>3, <1>4, <2>1 DEF BestFirst, Before
<1>10. unseen' = {}
  BY <1>3
<1> QED BY <1>5, <1>6, <1>7, <1>8, <1>9, <1>10 DEF RankInv

LEMMA RankKept == RankInv /\ [RankNext]_rankVars => RankInv'
<1> SUFFICES ASSUME RankInv, [RankNext]_rankVars PROVE RankInv'
  OBVIOUS
<1>1. ASSUME NEW p \in Players, Visit(p) PROVE RankInv'
  BY <1>1, VisitKeepsGroups
<1>2. CASE Sort
  BY <1>2, SortKeepsGroups
<1>3. CASE UNCHANGED rankVars
  <2>1. RankTypeOK' /\ InSomeGroup' /\ OneHandEach' /\ HandsApart'
    BY <1>3 DEF rankVars, RankInv, RankTypeOK, StillIn, InSomeGroup, OneHandEach, HandsApart,
                SameHand
  <2>2. ranked' => unseen' = {} /\ BestFirst'
    BY <1>3 DEF rankVars, RankInv, BestFirst, Before
  <2> QED BY <2>1, <2>2 DEF RankInv
<1> QED BY <1>1, <1>2, <1>3 DEF RankNext

\* In every reachable state the groups are of players who are still in and were seen,
\* each once (notDiscardedPlayers of rankPlayers).
THEOREM RankHasTypes == RankSpec => []RankTypeOK
<1>1. RankInv => RankTypeOK
  BY DEF RankInv
<1> QED BY <1>1, NobodyRankedYet, RankKept, PTL DEF RankSpec

\* Once the groups are sorted, everybody still in has a place, nobody else has one, and
\* the places follow Cmp.
LEMMA PlacesFollowCmp ==
  ASSUME RankInv, ranked
  PROVE  /\ \A i, j \in DOMAIN groups : i # j => Range(groups[i]) \cap Range(groups[j]) = {}
         /\ \A p \in Players \ StillIn : PlaceOf(p) = 0
         /\ \A p \in StillIn : PlaceOf(p) \in DOMAIN groups /\ p \in Range(groups[PlaceOf(p)])
         /\ \A i \in DOMAIN groups : groups[i][1] \in StillIn /\ PlaceOf(groups[i][1]) = i
         /\ \A p, q \in StillIn :
              /\ PlaceOf(p) < PlaceOf(q) <=> Cmp(hands[p], hands[q]) = 1
              /\ PlaceOf(p) = PlaceOf(q) <=> Cmp(hands[p], hands[q]) = 0
<1>0. /\ unseen = {} /\ StillIn \ unseen = StillIn /\ StillIn \subseteq Players
      /\ hands \in [Players -> HandOf] /\ DOMAIN groups = 1..Len(groups) /\ Len(groups) \in Nat
  BY GroupsAreLists DEF RankInv, RankTypeOK, StillIn
<1>1. \A i \in DOMAIN groups : /\ 1 \in DOMAIN groups[i] /\ groups[i][1] \in StillIn
                               /\ Range(groups[i]) \subseteq StillIn
                               /\ groups[i][1] \in Range(groups[i])
  BY <1>0, GroupsAreLists DEF RankInv, Range
<1>2. \A i \in DOMAIN groups : \A p \in Range(groups[i]) : Cmp(hands[groups[i][1]], hands[p]) = 0
  BY DEF RankInv, OneHandEach, SameHand, Range
<1>3. \A i, j \in DOMAIN groups : i # j => Cmp(hands[groups[i][1]], hands[groups[j][1]]) # 0
  BY DEF RankInv, HandsApart, SameHand
<1>4. \A i, j \in DOMAIN groups : i < j => Cmp(hands[groups[i][1]], hands[groups[j][1]]) = 1
  BY DEF RankInv, BestFirst, Before
<1>5. ASSUME NEW i \in DOMAIN groups, NEW j \in DOMAIN groups, NEW p \in Range(groups[i]),
             NEW q \in Range(groups[j])
      PROVE  Cmp(hands[p], hands[q]) = Cmp(hands[groups[i][1]], hands[groups[j][1]])
  <2>1. PICK a, b \in Players : a = groups[i][1] /\ b = groups[j][1]
    BY <1>0, <1>1
  <2>2. p \in Players /\ q \in Players
    BY <1>0, <1>1
  <2>3. Cmp(hands[a], hands[p]) = 0 /\ Cmp(hands[b], hands[q]) = 0
    BY <1>2, <2>1
  <2>4. Cmp(hands[a], hands[q]) = Cmp(hands[p], hands[q])
    BY <1>0, <2>2, <2>1, <2>3, HandsCompare
  <2>5. Cmp(hands[a], hands[b]) = Cmp(hands[a], hands[q])
    BY <1>0, <2>2, <2>1, <2>3, HandsCompare
  <2> QED BY <2>1, <2>4, <2>5
<1>6. \A i, j \in DOMAIN groups : i # j => Range(groups[i]) \cap Range(groups[j]) = {}
  <2> SUFFICES ASSUME NEW i \in DOMAIN groups, NEW j \in DOMAIN groups, i # j,
                      NEW p \in Range(groups[i]), p \in Range(groups[j])
               PROVE  FALSE
    OBVIOUS
  <2>1. Cmp(hands[p], hands[p]) = 0
    BY <1>0, <1>1, HandsCompare
  <2>2. Cmp(hands[p], hands[p]) = Cmp(hands[groups[i][1]], hands[groups[j][1]])
    BY <1>5
  <2> QED BY <1>3, <2>1, <2>2
<1>7. ASSUME NEW p \in Players \ StillIn PROVE PlaceOf(p) = 0
  <2>1. \A i \in DOMAIN groups : p \notin Range(groups[i])
    BY <1>1
  <2> QED BY <2>1 DEF PlaceOf
<1>8. ASSUME NEW p, NEW i \in DOMAIN groups, p \in Range(groups[i]) PROVE PlaceOf(p) = i
  <2> DEFINE with == {j \in DOMAIN groups : p \in Range(groups[j])}
  <2>1. with = {i}
    BY <1>6, <1>8
  <2>2. PlaceOf(p) = IF with = {} THEN 0 ELSE CHOOSE j \in with : TRUE
    BY DEF PlaceOf
  <2> HIDE DEF with
  <2> QED BY <2>1, <2>2
<1>9. \A p \in StillIn : PlaceOf(p) \in DOMAIN groups /\ p \in Range(groups[PlaceOf(p)])
  <2>1. \A p \in StillIn : \E i \in DOMAIN groups : p \in Range(groups[i])
    BY <1>0 DEF RankInv, InSomeGroup
  <2> QED BY <1>8, <2>1
<1>10. \A i \in DOMAIN groups : groups[i][1] \in StillIn /\ PlaceOf(groups[i][1]) = i
  BY <1>1, <1>8
<1>11. ASSUME NEW p \in StillIn, NEW q \in StillIn
       PROVE  /\ PlaceOf(p) < PlaceOf(q) <=> Cmp(hands[p], hands[q]) = 1
              /\ PlaceOf(p) = PlaceOf(q) <=> Cmp(hands[p], hands[q]) = 0
  <2>1. PICK i \in DOMAIN groups, j \in DOMAIN groups :
          i = PlaceOf(p) /\ j = PlaceOf(q) /\ p \in Range(groups[i]) /\ q \in Range(groups[j])
    BY <1>9
  <2>2. PICK a \in Players, b \in Players : a = groups[i][1] /\ b = groups[j][1]
    BY <1>0, <1>1
  <2>3. Cmp(hands[p], hands[q]) = Cmp(hands[a], hands[b])
    BY <1>5, <2>1, <2>2
  <2>4. /\ Cmp(hands[a], hands[a]) = 0 /\ Cmp(hands[a], hands[b]) \in {-1, 0, 1}
        /\ Cmp(hands[b], hands[a]) = -Cmp(hands[a], hands[b])
    BY <1>0, HandsCompare
  <2>5. /\ i < j => Cmp(hands[a], hands[b]) = 1
        /\ j < i => Cmp(hands[b], hands[a]) = 1
        /\ i = j => a = b
    BY <1>4, <2>2
  <2>6. i \in Nat /\ j \in Nat
    BY <1>0
  <2> QED BY <2>1, <2>3, <2>4, <2>5, <2>6
<1> QED BY <1>6, <1>7, <1>9, <1>10, <1>11

\* There are no more groups than players still in: each has a first of its own.
LEMMA NoMoreRanksThanPlayers ==
  ASSUME RankInv, ranked
  PROVE  Len(groups) <= Cardinality(StillIn)
<1>0. /\ DOMAIN groups = 1..Len(groups) /\ Len(groups) \in Nat
      /\ \A i \in DOMAIN groups : groups[i][1] \in StillIn /\ PlaceOf(groups[i][1]) = i
  BY PlacesFollowCmp, GroupsAreLists DEF RankInv
<1>1. IsFiniteSet(StillIn)
  BY PlayersAssumption, FS_Subset DEF StillIn
<1>2. PICK f : f = [i \in 1..Len(groups) |-> groups[i][1]]
  OBVIOUS
<1>3. f \in Injection(1..Len(groups), StillIn)
  <2>1. f \in [1..Len(groups) -> StillIn] /\ \A i \in 1..Len(groups) : PlaceOf(f[i]) = i
    BY <1>0, <1>2
  <2> QED BY <2>1 DEF Injection, IsInjective
<1>4. Cardinality(1..Len(groups)) <= Cardinality(StillIn)
  BY <1>1, <1>3, FS_Injection
<1>5. Cardinality(1..Len(groups)) = Len(groups)
  <2>1. PICK n \in Nat : n = Len(groups)
    BY <1>0
  <2>2. Cardinality(1..n) = IF 1 > n THEN 0 ELSE n - 1 + 1
    BY FS_Interval
  <2> QED BY <2>1, <2>2
<1> QED BY <1>4, <1>5

\* The ranking the code finds, whatever the order of its map, is one that Game
\* chooses from, and follows Cmp (rankPlayers): the settlements of Game are those of
\* the code and more.
THEOREM RankingFollowsHands == RankSpec => []RanksFollowHands
<1>1. RankInv => RanksFollowHands
  <2> SUFFICES ASSUME RankInv, ranked PROVE RanksFollowHands
    BY DEF RanksFollowHands
  <2> DEFINE place == [p \in Players |-> PlaceOf(p)]
  <2>1. StillIn \subseteq Players /\ DOMAIN groups = 1..Len(groups) /\ Len(groups) \in Nat
    BY GroupsAreLists DEF RankInv, StillIn
  <2>2. Len(groups) <= Cardinality(StillIn) /\ Cardinality(StillIn) \in Nat
    <3>1. IsFiniteSet(StillIn)
      BY PlayersAssumption, FS_Subset DEF StillIn
    <3> QED BY <3>1, NoMoreRanksThanPlayers, FS_CardinalityType
  <2>3. \A p \in Players : place[p] \in 0..Cardinality(StillIn)
    BY <2>1, <2>2, PlacesFollowCmp
  <2>4. \A p \in Players : place[p] = 0 <=> p \notin StillIn
    BY <2>1, PlacesFollowCmp
  <2>5. ASSUME NEW p \in StillIn
        PROVE  place[p] = 1 \/ \E q \in StillIn : place[q] = place[p] - 1
    <3>1. PICK i \in 1..Len(groups) : place[p] = i
      BY <2>1, PlacesFollowCmp
    <3>2. CASE i # 1
      <4>1. i - 1 \in DOMAIN groups
        BY <2>1, <3>2
      <4>2. PICK q \in StillIn : PlaceOf(q) = i - 1
        BY <4>1, PlacesFollowCmp
      <4> QED BY <2>1, <3>1, <4>2
    <3> QED BY <3>1, <3>2
  <2>6. place \in HandRanks(StillIn)
    BY <2>3, <2>4, <2>5 DEF HandRanks
  <2>7. \A p, q \in StillIn : /\ place[p] < place[q] <=> Cmp(hands[p], hands[q]) = 1
                              /\ place[p] = place[q] <=> Cmp(hands[p], hands[q]) = 0
    BY <2>1, PlacesFollowCmp
  <2>8. \A i, j \in DOMAIN groups : i # j => Range(groups[i]) \cap Range(groups[j]) = {}
    BY PlacesFollowCmp
  <2> QED BY <2>6, <2>7, <2>8 DEF RanksFollowHands
<1> QED BY <1>1, NobodyRankedYet, RankKept, PTL DEF RankSpec

\* What the two parts of a settlement promise together: with the pools of a hand and
\* the ranking the code finds, who is still in and has a better hand than another with
\* no larger stake leaves him nothing, and with an equal hand is paid no less
\* (rankPlayers, termChipPool.finalize).
THEOREM CmpDecidesThePots ==
  Spec /\ RankSpec =>
    [](ranked =>
         \A p, q \in StillIn :
           PlayerTotal(pools, p) >= PlayerTotal(pools, q) =>
             LET paid == Finalize(pools, [x \in Players |-> PlaceOf(x)])
             IN  /\ Cmp(hands[p], hands[q]) = 1 => paid[q] = 0
                 /\ Cmp(hands[p], hands[q]) = 0 => paid[q] <= paid[p])
<1> DEFINE Decided ==
      ranked =>
        \A p, q \in StillIn :
          PlayerTotal(pools, p) >= PlayerTotal(pools, q) =>
            LET paid == Finalize(pools, [x \in Players |-> PlaceOf(x)])
            IN  /\ Cmp(hands[p], hands[q]) = 1 => paid[q] = 0
                /\ Cmp(hands[p], hands[q]) = 0 => paid[q] <= paid[p]
<1>1. BooksInv /\ RankInv => Decided
  <2> SUFFICES ASSUME BooksInv, RankInv, ranked, NEW p \in StillIn, NEW q \in StillIn,
                      PlayerTotal(pools, p) >= PlayerTotal(pools, q)
               PROVE  LET paid == Finalize(pools, [x \in Players |-> PlaceOf(x)])
                      IN  /\ Cmp(hands[p], hands[q]) = 1 => paid[q] = 0
                          /\ Cmp(hands[p], hands[q]) = 0 => paid[q] <= paid[p]
    OBVIOUS
  <2>0. GoodList(pools)
    BY DEF BooksInv
  <2>1. PICK place : place = [x \in Players |-> PlaceOf(x)]
    OBVIOUS
  <2>2. p \in Players /\ q \in Players /\ DOMAIN groups = 1..Len(groups) /\ Len(groups) \in Nat
    BY GroupsAreLists DEF RankInv, StillIn
  <2>3. place \in [Players -> Nat] /\ place[p] > 0
    BY <2>1, <2>2, PlacesFollowCmp
  <2>4. /\ Cmp(hands[p], hands[q]) = 1 => place[p] < place[q]
        /\ Cmp(hands[p], hands[q]) = 0 => place[p] = place[q]
    BY <2>1, <2>2, PlacesFollowCmp
  <2>5. place[p] <= place[q] =>
          /\ place[p] < place[q] => Finalize(pools, place)[q] = 0
          /\ place[p] = place[q] => Finalize(pools, place)[q] <= Finalize(pools, place)[p]
    BY <2>0, <2>2, <2>3, WinsFollowHands
  <2>6. ASSUME Cmp(hands[p], hands[q]) = 1 PROVE Finalize(pools, place)[q] = 0
    BY <2>2, <2>3, <2>4, <2>5, <2>6
  <2>7. ASSUME Cmp(hands[p], hands[q]) = 0
        PROVE  Finalize(pools, place)[q] <= Finalize(pools, place)[p]
    BY <2>2, <2>3, <2>4, <2>5, <2>7
  <2> QED BY <2>1, <2>6, <2>7
<1> HIDE DEF Decided
<1>2. Spec /\ RankSpec => []Decided
  BY <1>1, BlindsBooked, BooksKept, NobodyRankedYet, RankKept, PTL DEF Spec, RankSpec
<1> QED BY <1>2 DEF Decided
=============================================================================
