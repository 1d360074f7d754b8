# HoleHole in TLA+

Models, model checks and proofs for HoleHole, a Go server with two games:
Texas hold'em over WebSockets (`texas/`, `common/msg_server/`) and Rich Bet, a
betting round decided by block hashes (`rich_bet/`). Paths below are relative
to the repository's root.

## 1. The system

| part | state | operations | talks to |
|---|---|---|---|
| **WsServer** `common/msg_server/ws_server.go` | map user → peer (`sync.Map`), `peerCount`, per peer `stopChan`, `sendChan`, websocket | one goroutine `handlePeer` per connection (accept, handshake, `addPeer`, read, `removePeer`), one goroutine `wsPeer.loop` per peer (write, ping, stop), one goroutine that hands messages out | clients; calls `RoomServer.Handle` in the goroutine of the connection |
| **RoomServer** `texas/room_server.go`, `cmd/texas_room/main.go` | map user → table | `quickStart`, `leave`, `ready`, `gameMsg`; `Start`, and `Stop` at a signal | blocks on calls to tables; answers through WsServer |
| **Table** `texas/core/table.go` | seats, `preparedUsers`, a timer, the current game, `stopChan`, a channel of one place for each method | one goroutine: enter, ready, leave, action, scene, tick, result of a game, stop | starts a `Game` goroutine; receives its result |
| **Game** `texas/core/game.go`, `player.go` | players' chips, turn, round, counters, `termChipPool`, `stopChan` | one goroutine: message, timeout, scene, can-leave, stop | `gameTimer`; result channel of the table |
| **chip pools** `texas/core/game.go` | list of pools (maximum, all-in mark, chips of each player), books of each round | bet (with splits), finalize | used by Game |
| **analyst of hands** `texas/core/hand_processor/hand_analyst2.go` | cards sorted in several ways, a chain of checks | touch a card; checks; weight; export | used by `Player.GetHand` |
| **first analyst** `texas/core/hand_processor/hand_analyst.go` | five cards sorted, a chain of checks | the same | used by `Hand.analysis` of the command line |
| **comparison of hands** `texas/core/hand_matcher.go`, `hand_processor/hand.go` | none | `Cmp`, `BiggerThan`, `EqualsTo`, `Match` | used by `Game.rankPlayers` and the command line |
| **Rich Bet** `rich_bet/` | Mongo collections `bet_info`, `invalid_bet`, `reward`, `jackpot` | `Bet`, `Reward` → `Distribute` → `SaveDistribution` | a block chain, MongoDB |

### Not modelled

* Message framing (`protocol.go`: byte layout), the shuffle, the scene snapshot
  and table levels (`poker_heap.go`, `game_scene.go`, `table_level.go`), the user
  getter (its method panics with "implement me"), the players of the command line
  (`hand_processor/player.go`: files, terminal, no state between two hands),
  parsing and printing of cards, `cmd/` but for the start and stop of the room,
  logging, metrics, mongo sessions and utilities. None of them has behaviour that
  depends on an order of steps.
* What a `Table` does during and after a game (`doLeave`, `doActionChan`,
  `doGameFinished`, the broadcast). No table gets there: `getPlayersFromSeats`
  panics before the first game of any table (section 6), so a model of that code
  would be of states the program cannot be in. `GameLoop` has the calls such a
  table would make, from the side of the game.
* The delete in `leave` of the room, for the same reason: no table lets go.
* How `UserGetter` fails, and what a message's JSON may hold.

### What is hard here, and what makes each part correct

* **Pools.** A short all-in may split a pool in the middle of the list while a
  bet is walking it. Correct when no chip is made, lost or moved by any split
  (`PoolsMatchRounds`), the list stays layered (`Layered`), maxima are stakes
  and the walk stays inside the list (`InGoodOrder`), the settlement follows
  the hands (`BetterHandTakesAll`) and pays out the pot, neither more nor less but
  for the rests of divisions and the pools nobody ranked has joined
  (`PayoutWithinPot`).
* **Game.** Two counters decide when a hand is over, kept next to the flags they
  count; handlers may run once more after the hand was settled, because the
  select of the loop chooses at random. Correct when the counters count
  (`CountsMatch`), the turn goes to whoever can act (`StuckOnlyWhenAllIn`),
  money is neither minted nor paid to who discarded (`NoChipsMinted`,
  `PoolsBacked`, `DiscardedNeverPaid`), and the hand moves forward to an end
  (`OnlyForward`, `SettledEarlyOnlyWhenDecided`, `FinishesUnlessHeldUp`), which may
  be the panic of a bet that goes through more than 20 pools.
* **Loop and timer.** Three goroutines share fields without locks; an expiry may
  be in a channel when the timer is set again. Correct when the turn always has
  a deadline (`DeadlinePending`, `TurnsGoOn`) and the result arrives
  (`ReportedUnlessCallLost`).
* **Connections.** A reconnecting user has two connections whose `addPeer` and
  deferred `removePeer` interleave, and `stop` is not atomic: the second of two
  stops may close a closed channel, and the panic, which net/http recovers, leaves
  the rest of its handler undone. Correct when the peer of a handler that has ended
  is in the map only while another is about to take it out (`NoDeadEntry`), the
  counter covers the map (`CountCovers`) and no writing goroutine outlives its
  connection (`WriterEnds`).
* **Table and room.** A timer that is reset with a tick in its channel, and a map
  changed apart from the tables: `PrepareTimed`, `PreparesEnd`, `SeatsKnown`.
* **Start, stop and calls of a table.** A caller waits in two places for a loop
  that may end, or may never hear that it should, because `Stop` replaces the
  channel it closes by nil. Correct when every call returns or the process ends
  (`CallReturns`) and a call is one step of the table, made once and for the user
  who called (`CallsAreSteps`).
* **Hands.** `RankIsRight`, `HandIsOfFiveCards`, `CheckedMakeTheHand` for every
  order of cards, with the wild card too; `AnalystsAgree` for the two analysts.
* **Ranking.** Players are grouped in the random order of a map, and only the first
  of a group is ever compared: `RanksFollowHands`.
* **Rich Bet.** Any database call can fail, a read half way with its error dropped,
  the process can stop between two, `Reward` can be called again, and amounts that
  have wrapped are refused by the database: `JackpotAfterRewards`,
  `DecidedAfterClose`, `SharesWithinPool`. That the round was read in full, that
  late bets are refused and that rewards stay is not so (section 6).

`PROJECT.json` lists every hazard with its line under "hazards".

## 2. The modules

```
PotLedger <--refined by-- ChipPool --extends--> ChipPoolOps <--extends-- Game
GameLoop (the turns of a Game, abstracted)
Ranking (what Game takes any of) --extends--> ChipPoolOps, HandMatcher
                 Room --extends--> Table <--extends-- TableLoop --refines--> TableCalls
PokerRules, HandMatcher <--extends-- HandRank <--extends-- FirstAnalyst
                 WsPeers      RichBet
OperatorProofs (sums, pools, weights; places of a list, sorted cards, searches)
               <--extends-- ChipPoolProofs, GameProofs, RichBetProofs, HandRankProofs
GameProofs: Game with Ranking     TableProofs: TableLoop and Room     HandRankProofs: HandRank
```

* **ChipPoolOps** is the arithmetic of pools: `PoolBet` is `chipPool.bet` for one
  pool, with `SplitByMore` and `SplitByLess`; `VisitAt` one turn of the loop over
  the list, `PoolWalk` its turns one after the other, as a recursive function,
  `BetPools` what they leave, `Overruns` whether a bet has something left after
  `LoopLimit` of them (20), where the loop panics; `PoolShare`, `Finalize` the
  settlement. The linked list is a sequence.
* **ChipPool** adds the stacks and the books and takes the loop of
  `termChipPool.bet` one pool at a time (`VisitPool`), which is what makes the
  loop provable. `PlaceBet` is the bookkeeping before the loop, `RejectBet` a
  bet that is refused after `Player.Bet` took the chips. A walk stops for good where
  the loop panics. Players bet in any order. **PotLedger** is the abstract
  specification: an account per player which only a stake raises.
* **Game** is one hand; each action is one whole handler of `Game.loop`: `Bet`,
  `Discard`, `Timeout`, each with all of `afterPlayerActionOrTimeout` (end by
  discards, next player, end of the round, board and settlement, next round),
  `LoopExit`, and `LoopPanics`, a bet through too many pools, which nobody recovers:
  the process ends. Here `BetPools` runs the whole loop in one step, as the
  goroutine does. An action type the code does not know is handled like a check,
  so it is not a further action. The ranking of hands is any ranking.
* **Ranking** is how `rankPlayers` (`game.go:339`) finds one: `Visit` is a turn of
  its loop over the map of players, in any order, which puts a player into the
  first group whose first member has an equal hand (`Placed`), or skips him if he
  has discarded; `Sort` is `sort.Slice` by its contract, any order in which no
  group stands behind one it comes before. `PlaceOf` is what the settlement reads.
* **GameLoop** reduces the game to a sequence of turns and takes one step per
  channel operation or access to a shared field: `Reset`/`SetInfo` are the two
  halves of `gameTimer.Set`, `Enter`, `TakeExpiry`, `ReadInfo`, `Quit` its
  goroutine, `Expire` the runtime timer (one place in its channel, `Reset` does
  not empty it: the module file names no Go version, which selects the timers
  from before Go 1.23), `CallGame` the check of `stopChan` and the send that
  follows. `Start` makes the timer with `NewTimer(0)` and stops it, so that a tick
  may be there before the first turn (`NoTurn`). A `select` evaluates its channels
  on entry (`watch`).
* **WsPeers** takes one step per operation on the map, the counter, a channel or
  `stopChan`. `wsPeer.stop` is three steps; the close of a closed channel ends only
  the handler that does it, with its deferred `c.Close` (`StopClose`), because
  net/http calls `handlePeer`. `pc[c]` is where `handlePeer` of connection `c` is,
  `writer[c]` where `wsPeer.loop` is, with the message it has taken and not written.
* **Table** is what the goroutine of a table does with a message or a tick, up to
  the start of a game; `StartGameCheck` is the whole of `startGameCheck`,
  `startGame` and `getPlayersFromSeats`. **TableLoop** puts the goroutines around
  it: callers that send to a channel and wait (`Call`, `Send`), the loop that
  takes from one (`Take`, `TakeTick`, `TakeStop`) and the main goroutine that
  starts the tables one by one and stops them one by one (`CloseStop`,
  `ForgetStop`), then sleeps a second and exits. The select reads `stopChan` when
  the loop comes to it (`Look`): set, it watches; nil, it is deaf for ever.
* **TableCalls** is the abstract specification of that: a call begins, is one step
  of its table, and returns. **Room** composes tables with the handlers of
  connections and takes a call for such a step; an operation on the map is
  another.
* **HandMatcher** has the kinds and weights of hands and the ways the code
  compares two of them (`EqualsTo`, `BiggerThan`, `Match`, `Cmp`). **HandRank** is
  the analyst: `TouchAPoker` for each card, then one action per
  check of the chain. A weight is the tuple of the factors of the code's powers
  of ten. A card born by the wild one carries a mark, as in the code. **PokerRules**
  is the reference: the best of all fives by definition, the wild card standing
  for whatever makes it best. **FirstAnalyst** is the older analyst as a function
  of five cards in their order.
* **RichBet** takes one step per database operation. Amounts are computed modulo
  `Modulus`, 2^64 in the code; documents hold half of that (`Storable`: the vendored
  bson has no unsigned numbers), so an insert or the update of a jackpot that has
  wrapped is refused. `GetBetsByRound` reads the round or any part of it, as the
  error of a read that breaks off is dropped. The bit of the hash is fixed at the start.
  `DivideByZero` is the call that ends the process because the bets of its round
  add up to nothing (`distribution.go:73`).
* **MC*** modules give TLC its bounds; **\*Proofs** hold theorems, **OperatorProofs**
  those about the operators, for all arguments.

Definitions marked "an error to look for" are the code with a plausible mistake
in it; with one of them in the place of the definition below it, the property
named in `PROJECT.json` ("mutants") is violated. No behaviour uses them.

## 3. The runs

| run | instance | shows |
|---|---|---|
| MCChipPool | 3 players, stacks 1..3, 3 rounds, symmetric | all pool invariants at each step of each walk, every ranking paid rightly, ledger refined |
| MCGame | 4 players, stacks 3 or 4, bets 0, 2 or everything, blind 1; chips bet before the flop and on the river | counters, board, turn, money, direction |
| MCGameEnds | 4 players, stacks 5, bets 0, 1 or 3, at most 2 pools to a bet; chips bet before the flop and one at most on the river; only hands without an all-in whose openers stay | a hand ends unless held up |
| MCGameLoop | 3 turns of 2 players, 3 calls of the table | deadline, turns, result |
| MCWsPeers | 2 connections of 1 user, limit 2, channel of 1 | map, counter, writers |
| MCRichBet | 3 transactions (50, 60, and nothing), least bet 0, 6 blocks, rounds of 3, 2 calls, width 2^15 | order of rewards and jackpot, closing time, shares, amounts refused, rounds read in part, and a round whose bets add up to nothing |
| MCTable | a table of 2 seats, 2 users (1 without the chips) with a goroutine each that calls enter, ready, leave and scene as often as it likes; start, signal, stop, exit | timing and end of a prepare, calls that return, refinement of TableCalls |
| MCRoom | 2 tables of 2 seats, 2 users with 2 and 3 connections, 1 message each | seats and map |
| MCHandRank | all hands of 7 from decks of 14 and 12 cards, of 6 from 10 and of 7 from 11 cards and the wild card, of 5 from 12 and the wild card; beside it a ranking of 4 players of whom up to 2 discarded, with 3 hands of 2 kinds | the analyst agrees with the rules, the two analysts with each other, the ranking with `Cmp` |
| MCGameStuck, MCTableStart, MCRichJackpot | as above, smaller | violations, section 6 |

*Why the bounds are enough.* Splits need three levels of stakes: stacks 1, 2, 3
give lists of up to three pools and splits at the front, middle and end. Four
players are the fewest for which seat 3, the first to act, exists
(`game.go:38`); two stack sizes make side pools, a bet of 2 a legal raise, a call
or a refused bet depending on the round, 0 a check. On flop and turn the full
model would only repeat what the first and last rounds do, so `BetsFirstAndLast`
cuts bets there; checks, discards and timeouts stay. MCGameEnds has one stack
size, since nobody goes all in there, but one that leaves room to raise twice and
to be refused (a bet of 1 after one of 3). A player who checked while he was behind
splits a pool by a small bet in a later round, so bets that go through more than
`LoopLimit` = 2 pools come up; with the code's 20, the limit of the other runs, that
takes far larger stacks. Turn keys `a, b, a` make a late expiry of the first turn look like one of the third. One user with two
connections is what makes `addPeer` and `removePeer` meet; connections of
different users only share the counter, for which `MapCovered` is proved for
any number. The run's messages are those of the room, the
only ones the program sends: each ends the writer that takes it (section 6), a
writer goes on after pings; with messages that are frames the four properties hold
as well. Two calls of `Reward`
suffice for one round twice or two rounds in turn. The bet of nothing
(`NothingAlone`) stays in block 1 and alone in its round: beside another bet it
has no share and divides nothing, and the two others meet in every way. The width
leaves room for the products (`Narrow`) and is narrow enough for a jackpot that
wraps to be refused. The decks hold all of
23456, TJQKA and A2345 in one colour and 3 and 4 of a face; those with the wild
card rows with one gap and with two, and pairs, triples and four of a face for it
to join. The analysis and the ranking share no variable, so MCHandRank walks through
each from one state of the other (`OneTable`, `OneDeal`). Two users at a table of
two seats fill it, so that entering is refused and prepares again; as one of them is short of chips a check may leave a table that
goes on, where MCTableStart's two go straight into the panic. Two callers are what
it takes to have one message in a channel and another sender waiting for the
place; `leave` stands for `do` too, which differs in nothing but its channel.

Deadlock is not checked where a system may rightly stop (a hand that is over, no
messages left, a process that panicked); HandRank loops at its end instead.

### Fairness

* Game: `WF(Play \/ LoopPanics)` because a player acts or his timer expires,
  whatever becomes of the bet, and `WF(LoopExit)`.
* GameLoop, WsPeers: goroutines that can run do (`WF` of each goroutine's
  steps), a running timer expires. `SF` of a `select` case which is ready again
  and again, because Go chooses among ready cases at random. Nobody is required
  to call, bet, send or disconnect; pings recur (`pingPeriod`), so a writer on a
  closed websocket finds out.
* TableLoop: the main goroutine goes on (a signal need not come), a timer that is
  set fires, the loop takes a message or a tick that stays there (`WF`; a `select`
  chooses at random among those that are ready), and those who wait to send are
  served in turn (`SF` of `Send`). Nothing is said of `TakeStop`: whether a loop
  hears the close is open, which is why only the end of the process makes
  `CallReturns` true after a stop.
* RichBet and Room are checked for safety only.

## 4. What is proved

`tlapm` checks all proofs; they hold for all values of the constants under the
assumptions named `...Assumption` in the modules.

| theorem | module | argument |
|---|---|---|
| `LedgerSafety`: pools = books | ChipPoolProofs | see *Pools* below |
| `PoolTypes`, `LayersHold`, `MaximaHold`: the list is layered and in good order | ChipPoolProofs | see *Pools* below |
| `PayoutsAreCovered`, `SettlementFollowsHands`: the settlement, for every ranking | ChipPoolProofs | see *Settlement* below |
| `PoolsImplementLedger`: refinement of PotLedger | ChipPoolProofs | a bet is a stake, a visit stutters because pools + chips in hand = books |
| `StakesAreBacked`: pools = books within what was brought in | GameProofs | `BooksInv`; each turn of `BetPools` keeps the list good and adds what it takes |
| `ChipsAreKept`, `DiscardedGetNothing` | GameProofs | `PayInv`: a hand is settled once, from the pools; see *Settlement* below |
| `GameTypes` | GameProofs | the parts of the invariants of this module together |
| `CountsHold`, `TurnIsPlayable` | GameProofs | counters with the sets they count; who gets the turn by the definition of `NextBetPlayer` |
| `BoardIsRight`, `HandGoesForward` | GameProofs | the board determined by the round; a handler moves the round by one or to the last, and books in the round it finds |
| `LargerHandsAreSeated`: seat 3 and all that follow exist, from four players on | GameProofs | types; in a hand of three `CurSeated` fails at once (section 6) |
| `EarlyEndIsDecided` | GameProofs | from `CountsHold`: the two sets are apart, so their sizes add up to those who cannot act |
| `LoopTypes`, `DeadlineHolds` | GameLoopProofs | `DeadlinePending` with where the loop is in setting the timer and what the timer goroutine holds |
| `MapCovered` | WsPeersProofs | see *Connections* below |
| `EntriesAlive`, `PeerTypes` | WsPeersProofs | see *Connections* below; sequences no longer than their channel |
| `DrawAfterClose` | RichBetProofs | dates of stored bets, of accepted bets and of the bets in a call |
| `RewardsBeforeJackpot` | RichBetProofs | a call that is about to save the jackpot has stored the rewards of all bets it has read, whatever part of the round that was, and no other call runs |
| `RichBetTypes`, `SharesFitThePool` | RichBetProofs | see *Shares* below |
| `LoopTypes`, `LoopPrepareTimed` | TableProofs | see *Calls* below |
| `LoopImplementsCalls`: refinement of TableCalls | TableProofs | see *Calls* below |
| `TwoReadyEndIt`: no table of any size starts a game | TableProofs | the seat asked after a taken one is another, so the walk from the dealer never comes back to it |
| `SeatsAreKnown` | TableProofs | with: a handler that is about to store its user has a table to store, and no table is 0 |
| `RoomHasTypes` (`RoomTypeOK`) | TableProofs | inductive as it stands; a prepare has two users because only the check that ends it frees seats |
| `AnalystIsSound`, `HandRankHasTypes`, `HandsAreOfFiveCards`: any cards in any order | HandRankProofs | see *Hands* below |
| `CheckedCardsMakeTheHand`: the cards shown are worth what was found | HandRankProofs | see *What a hand is worth* below |
| `OrdinaryHandsAreRankedRight`: without the wild card no other five cards are worth more (`RankIsRight`) | HandRankProofs | see *The best hand* below |
| `RankHasTypes`, `RankingFollowsHands` | GameProofs | see *Ranking* below |
| `CmpDecidesThePots`: pools of a hand, ranking of its players | GameProofs | the settlement holds for every ranking Game may choose, and the code's is one |
| `WeightsCompare` | OperatorProofs | sums with the code's multipliers compare as tuples: each place exceeds all below it |
| `ComparisonsAgree`, `CmpByPlaces` | OperatorProofs | cases; the latter from `WeightsCompare`, for hands that weigh on one scale, which `HandRankHasTypes` proves of those of the analyst |

*Pools.* None of the pool invariants is inductive alone. That the walk stays in
the list needs layers: a bettor who has chips in pool k+1 has filled pool k, so
the loop reaches the end with exactly what is over. That layers survive a split
needs `Capped` (nobody above the maximum) and `Attained` (somebody at it: the
maximum left after a cut is still somebody's stake), and both need to know
that the walking player has filled every pool passed (`WalkInList`): the three
parts of `InGoodOrder`. The
invariant is their conjunction with the types and `PoolsMatchRounds`; there is a
lemma for each outcome of a visit (fill, raise, split above, split below) on
what it does to one pool, and on what an insertion does to the neighbours.

*Sums and loops without induction.* The prover has no induction over data, but
what fails for some number or some finite set fails for a least one, and that is
a fact about sets (`LeastElement`, `SmallestPart`). `SumRemove` takes one element
out of a sum, wherever `CHOOSE` begins; from it follow, by a smallest set that
fails, what sums are (`SumType`), how they compare (`SumMonotonic`, `SumStrict`),
add up (`SumOfSums`, `SumExchange`) and share (`SumAtMost`, `SharesInProportion`).
`BetPoolsFacts` is the same argument on the turns of the loop: each keeps the list
good and adds to the bettor's total what it takes from the bet.

*Settlement.* A pool divides its chips by the number of the winners in it, so it
pays no more than it holds, and as the winners share all but the rest of that
division, it keeps less than there are ranked players in it, or everything where
there are none (`SharesLeaveLittle`, `FinalizeKeepsLittle`): both ways
`PayoutWithinPot`. The pools together hold the stakes (`PotIsStakes`, an exchange of
two sums). Who put in no less than another is in every pool of the
other, by the layers, and with the better hand takes what the other would have won
there: hence `BetterHandTakesAll`. In Game the list is good after every bet
(`BooksInv`), and `stopClosed` says whether the one settlement is made: a second one panics at the
closed channel, which ends what `NoChipsMinted` is about, so in every hand that
goes on the pools are paid once. Who discarded is in no ranking.

*Connections.* What is in the map says nothing of who will still count down, since
a connection may remove the peer of another one and a handler may die before it has
removed any. So `Owing` counts connections: those between their increment and their
decrement, and those that died with their peer in the map; they are no more than
`peerCount`, and every peer in the map is of one of them. That a handler dies of its
own peer only when somebody else has stopped it and is about to delete or replace it
is `StopInv`: what is known of `stopChan` at each step of a handler, and
`StoppedIsSucceeded`, which the stop of a peer begins and its `Delete` or `Store` ends.

*Shares.* A transaction has one stored bet at most, of at most `MaxBet`, and the
bets a call has read are stored ones (`AmountsInv`), so they are finitely many
and their sum is a number, which `DivideByZero` leaves positive. What is shared
is `pot * bet \div sum`; if the products fit the width (`Narrow`, a hypothesis of
the property: else the code's arithmetic wraps, `Proportional` in section 6) the
shares of all bets are at most the pot.

*Calls of a table.* What makes a call one step is the last part of TableLoop's
`TypeOK`: a message in a channel is that of a caller who waits for just this
table and method. So no caller is in two channels, what the loop takes is what the
abstract call asked for, and the caller it answers is the one that asked. Every
other step of the loop, the callers and the main goroutine leaves the tables and
the mapped calls alone: a stutter. `PrepareTimed` is inductive with that.

*Hands.* The checks read lists by place and take what they look for as found, so
that a hand has its five cards depends on the order in which `doAnalysis` lays out
the chain and on what earlier checks have ruled out. The invariant has four parts.
`Dealt`: the cards touched are in `tmpPokers` once each and sorted, and `th`,
`shunZi` and `seems` are lists and counts of just those. `Listed`: no list is
longer than the cards it is of. `Chained`: while there is a check to make the
remaining chain has one that cannot fail at its end, and each check in it may be
made, which is `Fits`: two pairs are asked for only where two faces are seen twice,
a straight only where there are five faces, and so on, with one less if the wild
card is there. `Judged`: once there is none left a hand was found. A step of the
chain keeps it by one lemma for each way of putting five cards together: the cards of some
faces and the largest others, a row, a row with a gap filled, the largest of one
colour. TLC checked the parts on the run's deals before they were proved.

*What a hand is worth.* The rules tell five cards by the faces, those seen most
often first (`ByTimes`); a check tells them by picking faces into the places of a
weight. That both are one list is `ByTimesIs`: a list of all the faces in that order
is the only one, so each check needs just to be shown to give such a list
(`PairedIsTold`, `StrictIsTold`). What the check does not look at must be ruled out:
a pair is one colour nowhere (`NoFlushIsMixed`, for which the lists of the colours
must have every card: `Complete`), what is left when no check found anything is no
row (`LastFiveNoRow`, with the wild card `LastFourNoRow`: had the last cards made one
the search would have found it). `WorthInv` keeps that until the last check is made.
The two hands `FourAndLz` and `LzLiftsSmallest` are where it fails (section 6).

*The best hand.* No game deals the wild card, and without it `RankIsRight` is
proved. What earlier checks left out bars the larger kinds: `Late` keeps, for each
check still to be made, which lists are known to lack what (no row before three of a
kind, no four of a kind and no full house before a straight, ...), and `KindsBarred`
that five cards of such a kind would have been in the lists; that needs
`FacesListed`, `shunZi` having every face, beside `Complete`. Within the kind found,
any five other cards are taken in order (`FiveAreListed`) and compared place by
place: the faces a hand has more than once were searched from the top (`HeadsAre`),
a larger single card would have been kept (`Kept`, `NotOutranked`), and the row found
reaches as far as any (`RowReaches`). `BestInv` adds to `WorthInv` those two and
`Unbeaten`, that nothing is worth more once a hand was found, and `BestIs` makes of it
the maximum over all fives that the rules define. That the straight A2345 weighs
nothing just where it is the whole hand is what the comparison in `getWeightOfSZ` is
made with, all the cards: `StraightsWeigh` keeps that a straight found has the weight
of the five cards shown, and `SmallestWeighs` that five of them are all there are.
The wild card is left out of it because a hand with it has two exceptions and its searches fill gaps.

*Ranking.* Only the first member of a group is compared, so what is asked of the
result says nothing of the others until it is known that `Cmp` is 0 only between
equal hands (`CmpByPlaces`), that a group has one hand (`OneHandEach`), and that two
groups have different ones (`HandsApart`), whichever player opened them. After
`Sort` no group stands behind one it beats (`BestFirst`), and as hands that are
apart are bigger or smaller, the place of a player follows his hand.

*Assumptions.* `PlayersAssumption` (finitely many players), `GameAssumption` (at
least three seats, numbered from 0, stacks above the big blind),
`RichBetAssumption` (bets close before the deciding block; the largest bet fits
the width; finitely many transactions), `WsPeersAssumption`, `TableAssumption`,
`LoopAssumption`, `RoomAssumption`, `GameLoopAssumption`: finite sets, sizes and
capacities that are not 0, names of nothing that are not names of something.

*Only model-checked*: everything temporal under fairness (`FinishesUnlessHeldUp`,
`TurnsGoOn`, `ReportedUnlessCallLost`, `WriterEnds`, `CallReturns`,
`PreparesEnd`), which is beyond the prover. `RankIsRight` for hands with the wild
card, where the maximum is also over the cards it may stand for, and `AnalystsAgree`,
which compares the results of two long chains of searches.
The types of Game, GameLoop and Ranking are proved for all constants and are not
checked by a run besides.

## 5. How a reader can repeat it

`tlc -config X.cfg M` for each run of `PROJECT.json`, `tlapm M.tla` for each
module that ends in Proofs.

## 6. Where the code does not do what is said of it

Three of these are runs that end in a violation; the others are stated at the
end of the modules, under "What the comments ... say, and the code does not do".
To see one, put it into the cfg as INVARIANT (or PROPERTY, marked P), with the
constants of the run of its module unless noted.

| property | said | done |
|---|---|---|
| `BettorCanAct` (run MCGameStuck) | `game.go:389` the next player must be able to act "or the logic gets stuck" | `game.go:383`, `431`: all in together, nobody acts, no timer |
| `GameStarts` (run MCTableStart) | `table.go:143` startGame starts the game | `table.go:174` asks the same seat again: panic "infinite for" |
| `RestOfPrize` (run MCRichJackpot) | `rich_bet/README.md:8` | `distribution.go:78`: returned stakes are taken from the jackpot, which wraps; the database refuses to save it, after the rewards |
| `HaveAllInMarks` | `game.go:611` | `game.go:698` the pool cut off is never marked |
| `CurSeated` (NumPlayers = 3, Players = {0, 1, 2}) | `game.go:162`, `426` "nothing is out of range" | `game.go:38` seat 3 |
| `HaveBetMatches` | `game_test.go:353` betRight | `game.go:179`, `190`: a refused bet is paid |
| `SurvivorTakesAll` (P) | `game.go:294`, and `732` "no refund is ever needed" | `game.go:302`, `760`: a side pool of two who discarded is lost |
| `NeverPanics` | `game.go:456` Run returns the result | `game.go:378` stopChan is closed twice |
| `FinishesWithoutAllIn` (P, FairSpec) | `game.go:24` | `game.go:240`: the opener of a round discards, then checks go round |
| `ResultReported` (P) | `table.go:40` | `game.go:149`, `207`: the table waits for a loop that has ended |
| `OwnTimeOnly` | `game.go:99` | `game.go:832`: an old expiry ends the next turn of the player |
| `LeavesDiscarded` | `game.go:130` | `game.go:207`: yes to everybody before Run |
| `CountRight` | `ws_server.go:224` | `ws_server.go:218`, `229` |
| `NewPeerStays` | `ws_server.go:226`, `ws_server_test.go:146` | `ws_server.go:213`: the old connection removes the new peer |
| `ReplacedEnds` (P) | `ws_server_test.go:146` | `ws_server.go:265`, `277` |
| `NeverTooMany` (MaxPeers = 1) | `ws_server.go:97` | `ws_server.go:96`, `229` |
| `WritesGoOut` (P) | `abstracts/types.go:10` "s - c" | `ws_server.go:309`: room types are no frame types |
| `NoLateBet` (P) | `rich_bet/game.go:54` | `rich_bet/game.go:56`, `70` |
| `StoredRewardsStay` (P) | `game_db_by_mongo_test.go:70` | `game_db_by_mongo.go:60` |
| `WholeJackpot` | `distribution.go:68` | `game_db_by_mongo.go:86` |
| `WholeRound` | `distribution.go:29` "the bets of all users of the round" | `game_db_by_mongo.go:44` drops the error of a read that breaks off |
| `Proportional` (Modulus = 256) | `rich_bet/README.md:8`, `game.go:36` | `distribution.go:73` |
| `AskedInTime` (P) | `abstracts/interface.go:52` | `table.go:316` |
| `StartsWithTwo` (P) | `table.go:109` | `table.go:110` |
| `SeatedOnce` | `room_server.go:81` | `room_server.go:82` |
| `SceneSent` (P) | `room_server.go:81` | `table.go:264` |
| `SmallestWeighsNothing` | `hand_analyst2.go:654` | `hand_analyst2.go:655` compares all the cards |

Two kinds of hands with the wild card are weighed wrong and named in
`RankIsRight` as exceptions: four of a kind (`FourAndLz`: the wild card takes the
place of the best fifth card, `hand_analyst2.go:858`) and 2345A
(`LzLiftsSmallest`: it makes 23456 and weighs as A2345, `hand_analyst2.go:655`).
`Match` and `Cmp` compare the weights as they are, and there is a third difference
to the rules, named beside them: five cards A2345 weigh 0, but 4 if one of them is the
wild card, so that it wins where the rules see a tie. In hands of more cards the
straight to the 5 weighs 4 with it and without.
`AnalystsAgree` names what the first analyst does otherwise: a straight of one
colour is weighed as a flush, and A2345 of one colour is taken for the royal one
(`hand_analyst.go:476-497`). A game deals no wild card and does not use the first
analyst.

## 7. Plan

Done: the modules above, in the order pools, game, loop, connections, Rich Bet,
table, room, hands, the loop and calls of a table, the wild card, the first
analyst, the ranking, with the theorems of section 4.

What could follow:

1. That a bet in Game is a run of ChipPool's walk, as a refinement. Both are made
   of `VisitAt` and have the same invariant proved, so nothing is known of one that
   is not of the other; the refinement would say it once.
2. Table with a running game, once `getPlayersFromSeats` lets a game start:
   `doLeave`, `doActionChan`, `doGameFinished` and the broadcast, composed with
   GameLoop's calls, and the delete of `leave` in Room.
3. `RankIsRight` by proof for hands with the wild card: that the five cards shown are
   worth what is told of them is proved of those too; left is that no other five of
   the cards, with anything in the place of the wild card, are worth more.
4. WsPeers: room handlers called from `read`; RichBet: several processes for bets.
