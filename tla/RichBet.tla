------------------------------ MODULE RichBet -------------------------------
(***************************************************************************)
(* Rich Bet (rich_bet/): bets taken from the transactions of a blockchain,  *)
(* the reward of a round when the block that decides it is mined, and the   *)
(* collections of the database both work on.                                *)
(*                                                                         *)
(* A step is what a goroutine does between two operations of the database   *)
(* or readings of the chain; each of those is atomic, a transaction over    *)
(* two of them is not.  Mongo's unique index on txid is part of its         *)
(* operations, and any operation may fail.                                  *)
(***************************************************************************)
EXTENDS Integers, FiniteSets, Functions

CONSTANTS Margin,          \* a round every Margin blocks
          EndBetMargin,    \* its bets end so many blocks before it is decided
          MinBet, MaxBet,
          Modulus,         \* amounts are computed modulo this: 2^64 in the code
          Txs,             \* the transactions with a bet,
          TxAmount,        \* the chips in each
          MaxHeight,       \* bound: the blocks mined
          MaxCalls         \* bound: the calls of Reward

ASSUME RichBetAssumption ==
  /\ EndBetMargin \in Nat /\ Margin \in Nat /\ EndBetMargin < Margin
  /\ MinBet \in Nat /\ MaxBet \in Nat /\ Modulus \in Nat \ {0, 1} /\ MaxBet < Modulus
  /\ IsFiniteSet(Txs)
  /\ TxAmount \in [Txs -> 0..(Modulus - 1)]
  /\ MaxHeight \in Nat /\ MaxCalls \in Nat

VARIABLES height,        \* ChainDB.CurrentHeight
          result,        \* what the hash of each deciding block says: 0 or 1
          block,         \* the block of each transaction
          betOn,         \* and what it bets on: 0 or 1
          betting,       \* the bets that Bet has accepted and not stored
          betInfo,       \* collection bet_info
          invalidBet,    \* collection invalid_bet
          reward,        \* collection reward
          jackpot,       \* the one document of collection jackpot
          call,          \* the call of Reward that holds rewardLock
          calls          \* the calls of Reward so far

chain == <<height, result, block, betOn>>
taken == <<betting, betInfo, invalidBet>>
vars  == <<chain, taken, reward, jackpot, call, calls>>

Heights == 1..MaxHeight

\* roundByHeight and shouldReward
RoundByHeight(h) == (h + EndBetMargin) \div Margin
ShouldReward(h)  == h # 0 /\ h % Margin = 0

Idle == [at |-> "idle"]

\* BSON has no unsigned 64 bits: a document with an amount in the upper half is
\* refused before it is sent (vendor mgo.v2/bson).
Storable(amount) == amount < Modulus \div 2

Init ==
  /\ height = 0 /\ result \in [{h \in Heights : ShouldReward(h)} -> {0, 1}]
  /\ block \in [Txs -> Heights] /\ betOn \in [Txs -> {0, 1}]
  /\ betting = {} /\ betInfo = {} /\ invalidBet = {}
  /\ reward = {} /\ jackpot = 0
  /\ call = Idle /\ calls = 0

Mine ==
  /\ height < MaxHeight /\ height' = height + 1
  /\ UNCHANGED <<result, block, betOn, taken, reward, jackpot, call, calls>>

-----------------------------------------------------------------------------
(* Game.Bet                                                                 *)

Enough(amount) == amount >= MinBet /\ amount <= MaxBet

\* A transaction found in a block is checked against the current round ...
BetAccepted(tx) ==
  /\ RoundByHeight(block[tx]) >= RoundByHeight(height)
  /\ Enough(TxAmount[tx])
  /\ betting' = betting \cup {[tx |-> tx, height |-> block[tx], round |-> RoundByHeight(block[tx])]}
  /\ UNCHANGED <<chain, betInfo, invalidBet, reward, jackpot, call, calls>>

\* ... and recorded as invalid, to be returned, if it fails; a record that is not
\* stored is only logged.
BetRefused(tx) ==
  /\ RoundByHeight(block[tx]) < RoundByHeight(height) \/ ~Enough(TxAmount[tx])
  /\ \/ UNCHANGED invalidBet
     \/ Storable(TxAmount[tx]) /\ invalidBet' = invalidBet \cup {tx}
  /\ UNCHANGED <<chain, betting, betInfo, reward, jackpot, call, calls>>

\* DoBet: one document for each transaction; the caller of Bet gets the error of
\* an insert that fails.
DoBet(b) ==
  /\ betting' = betting \ {b}
  /\ \/ UNCHANGED betInfo
     \/ /\ Storable(TxAmount[b.tx]) /\ \A c \in betInfo : c.tx # b.tx
        /\ betInfo' = betInfo \cup {b}
  /\ UNCHANGED <<chain, invalidBet, reward, jackpot, call, calls>>

\* Bet is called when the block has been mined, and may be called again.
Bet == \/ \E tx \in Txs : block[tx] <= height /\ (BetAccepted(tx) \/ BetRefused(tx))
       \/ \E b \in betting : DoBet(b)

-----------------------------------------------------------------------------
(* distribution.Distribute: the amounts, as the code computes them          *)

Wrap(x) == x % Modulus

Stakes(bets) == Wrap(SumFunction([b \in bets |-> TxAmount[b.tx]]))

Lost(bets, on) == Stakes({b \in bets : betOn[b.tx] # on})

PlatformReward(bets, on) == Wrap(Lost(bets, on) * 2) \div 100

\* What is shared out: 98% of what was lost, and the jackpot.
RemainReward(bets, on, pot) == Wrap(Lost(bets, on) - PlatformReward(bets, on) + pot)

\* (an error to look for: shares of what was lost, not of all that was bet)
ShareOfLost(b, bets, on, pot) ==
  Wrap(TxAmount[b.tx] * RemainReward(bets, on, pot)) \div (IF Lost(bets, on) = 0 THEN 1 ELSE Lost(bets, on))

\* A bet's share of it, won or lost ...
Share(b, bets, on, pot) ==
  Wrap(TxAmount[b.tx] * RemainReward(bets, on, pot)) \div Stakes(bets)

\* ... and its own stake if it won.
UserReward(b, bets, on, pot) ==
  Wrap(Share(b, bets, on, pot) + (IF betOn[b.tx] = on THEN TxAmount[b.tx] ELSE 0))

\* (an error to look for: a jackpot in signed numbers)
RemainSigned(bets, on, pot) ==
  RemainReward(bets, on, pot)
    - SumFunction([b \in bets |-> UserReward(b, bets, on, pot)])

\* What is left for the jackpot: the stakes that go back are taken from it too.
RemainForJackpot(bets, on, pot) ==
  Wrap(RemainReward(bets, on, pot)
         - SumFunction([b \in bets |-> UserReward(b, bets, on, pot)]))

-----------------------------------------------------------------------------
(* Game.Reward, under rewardLock                                            *)

\* (an error to look for: the round that has just begun is rewarded)
GetBetsOfNextRound(h) ==
  /\ call = Idle /\ calls < MaxCalls
  /\ ShouldReward(h)
  /\ calls' = calls + 1
  /\ LET round == RoundByHeight(h)
     IN  call' = [at |-> "bets", height |-> h, round |-> round,
                  bets |-> {b \in betInfo : b.round = round}]
  /\ UNCHANGED <<chain, taken, reward, jackpot>>

\* The block that decides a round is in the next one.  When the read fails on its
\* way the error is dropped, and what was read so far is taken for the round.
GetBetsByRound(h) ==
  /\ call = Idle /\ calls < MaxCalls
  /\ ShouldReward(h)
  /\ calls' = calls + 1
  /\ LET round == RoundByHeight(h) - 1
     IN  \E read \in SUBSET {b \in betInfo : b.round = round} :
           call' = [at |-> "bets", height |-> h, round |-> round, bets |-> read]
  /\ UNCHANGED <<chain, taken, reward, jackpot>>

\* GetJackpot, which returns 0 for a jackpot it cannot read, and DoDistribute.
\* Without bets, or with a hash whose last digit does not parse, there are no
\* rewards, and the database refuses to insert nothing.
DoDistribute ==
  /\ call.at = "bets"
  /\ \/ call' = Idle
     \/ /\ call.bets # {} /\ Stakes(call.bets) # 0
        /\ \E pot \in {jackpot, 0} :
             call' = [at |-> "insert", height |-> call.height, round |-> call.round,
                      bets |-> call.bets, pot |-> pot]
  /\ UNCHANGED <<chain, taken, reward, jackpot, calls>>

\* Bets that add up to nothing: the share of each is a division by zero, which
\* ends the process.
DivideByZero ==
  /\ call.at = "bets"
  /\ call.bets # {} /\ Stakes(call.bets) = 0
  /\ betting' = {} /\ call' = Idle
  /\ UNCHANGED <<chain, betInfo, invalidBet, reward, jackpot, calls>>

\* The rewards a call saves.  That of the platform has an id of its own, those of
\* the users the id of their transaction; the number of the call is not stored in
\* the code: it tells the documents of two calls apart.
UserRewards(c) ==
  {[id |-> b.tx, round |-> c.round, height |-> c.height, call |-> calls,
    amount |-> UserReward(b, c.bets, result[c.height], c.pot)] : b \in c.bets}

PlatformRewards(c) ==
  {[id |-> "platform", round |-> c.round, height |-> c.height, call |-> calls,
    amount |-> PlatformReward(c.bets, result[c.height])]}

Stored(id) == \E r \in reward : r.id = id

\* SaveDistribution inserts the rewards, the platform's first ...
Insert ==
  /\ call.at = "insert"
  /\ \A b \in call.bets : ~Stored(b.tx)
  /\ \A r \in UserRewards(call) \cup PlatformRewards(call) : Storable(r.amount)
  /\ reward' = reward \cup UserRewards(call) \cup PlatformRewards(call)
  /\ call' = [call EXCEPT !.at = "update"]
  /\ UNCHANGED <<chain, taken, jackpot, calls>>

\* ... and stops at the first id that is there, at an amount that is refused, or
\* when the operation fails on its way or in its answer, ...
InsertFails ==
  /\ call.at = "insert"
  /\ \/ UNCHANGED reward
     \/ /\ \A r \in PlatformRewards(call) : Storable(r.amount)
        /\ \E some \in SUBSET {r \in UserRewards(call) : ~Stored(r.id) /\ Storable(r.amount)} :
             reward' = reward \cup PlatformRewards(call) \cup some
  /\ call' = [call EXCEPT !.at = "remove"]
  /\ UNCHANGED <<chain, taken, jackpot, calls>>

\* ... then removes what has one of the ids, whoever inserted it, and returns the
\* error; if that fails too it is logged.
RemoveAll ==
  /\ call.at = "remove"
  /\ LET removed == UNION {{r \in reward : r.id = b.tx} : b \in call.bets}
                      \cup PlatformRewards(call)
     IN  reward' \in {reward, reward \ removed}
  /\ call' = Idle
  /\ UNCHANGED <<chain, taken, jackpot, calls>>

\* (an error to look for: the jackpot is saved before the rewards)
UpdateFirst ==
  /\ call.at \in {"insert", "update"}
  /\ jackpot' = RemainForJackpot(call.bets, result[call.height], call.pot)
  /\ Storable(jackpot')
  /\ call' = Idle
  /\ UNCHANGED <<chain, taken, reward, calls>>

\* (an error to look for: the documents can hold every amount)
UpdateAny ==
  /\ call.at = "update"
  /\ jackpot' = RemainForJackpot(call.bets, result[call.height], call.pot)
  /\ call' = Idle
  /\ UNCHANGED <<chain, taken, reward, calls>>

\* The jackpot is saved after the rewards.
Update ==
  /\ call.at = "update"
  /\ jackpot' = RemainForJackpot(call.bets, result[call.height], call.pot)
  /\ Storable(jackpot')
  /\ call' = Idle
  /\ UNCHANGED <<chain, taken, reward, calls>>

\* The update of the jackpot fails, or is refused for an amount that has wrapped,
\* and Reward returns the error: the rewards stay.
UpdateFails ==
  /\ call.at = "update" /\ call' = Idle
  /\ UNCHANGED <<chain, taken, reward, jackpot, calls>>

\* Block h, once mined, triggers a call, or triggers another one: nothing keeps a
\* round from being rewarded again.
Reward == \/ \E h \in Heights : h <= height /\ GetBetsByRound(h)
          \/ DoDistribute \/ DivideByZero
          \/ Insert \/ InsertFails \/ RemoveAll \/ Update \/ UpdateFails

\* The process restarts; the database stays.
Restart ==
  /\ betting # {} \/ call # Idle
  /\ betting' = {} /\ call' = Idle
  /\ UNCHANGED <<chain, betInfo, invalidBet, reward, jackpot, calls>>

Next == Mine \/ Bet \/ Reward \/ Restart

Spec == Init /\ [][Next]_vars

-----------------------------------------------------------------------------
BetDoc == [tx : Txs, height : Nat, round : Nat]

\* What a document can hold.
Amount == {amount \in Nat : Storable(amount)}

RewardDoc == [id : Txs \cup {"platform"}, round : Int, height : Nat, call : Nat, amount : Amount]

\* Every variable has its type; no amount is stored that a document cannot hold,
\* though what is computed may wrap.
TypeOK ==
  /\ height \in 0..MaxHeight
  /\ result \in [{h \in Heights : ShouldReward(h)} -> {0, 1}]
  /\ block \in [Txs -> Heights] /\ betOn \in [Txs -> {0, 1}]
  /\ betting \subseteq BetDoc /\ betInfo \subseteq BetDoc
  /\ invalidBet \subseteq Txs
  /\ \A tx \in invalidBet \cup {b.tx : b \in betInfo} : TxAmount[tx] \in Amount
  /\ reward \subseteq RewardDoc
  /\ jackpot \in Amount
  /\ call.at \in {"idle", "bets", "insert", "remove", "update"}
  /\ calls \in 0..MaxCalls

\* No reward is for a bet made when the deciding block was near: the block of
\* every rewarded bet is more than EndBetMargin before the block whose hash
\* decides, whenever the bet was stored and Reward was called.
DecidedAfterClose ==
  \A r \in reward : r.id # "platform" =>
    \E b \in betInfo : b.tx = r.id /\ b.height + EndBetMargin < r.height

\* Rewards come before the jackpot they were taken from: when the jackpot changes,
\* all that the call distributed, to the bets it has read and to the platform, is in
\* the database, as it was computed, and no two rewards are there for one bet,
\* across failures, restarts and calls for the same round.
JackpotAfterRewards ==
  [][jackpot' # jackpot =>
       /\ UserRewards(call) \cup PlatformRewards(call) \subseteq reward
       /\ \A b \in call.bets : \A r \in reward : r.id = b.tx => r.call = calls]_vars

Distributing == call.at \in {"insert", "update"}

\* Amounts that a product of two does not wrap, as the code assumes throughout.
Narrow == MaxBet * (MaxBet * Cardinality(Txs) + call.pot) < Modulus

\* The shares of a round are never more than there is to share, stakes aside.
SharesWithinPool ==
  Distributing /\ Narrow =>
    SumFunction([b \in call.bets |-> Share(b, call.bets, result[call.height], call.pot)])
      <= RemainReward(call.bets, result[call.height], call.pot)

-----------------------------------------------------------------------------
\* What the comments, tests and README of the code say, and the code does not do.

\* "No bet on a round before the current one" (comment of Bet): when a bet is
\* stored its round is not over.
NoLateBet == [][\A b \in betInfo' \ betInfo : b.round >= RoundByHeight(height)]_vars

\* "If the insert fails the database should not change at all" (comment of
\* TestGameDBByMongo_SaveDistribution): no call removes a reward of an earlier one.
StoredRewardsStay == [][\A r \in reward : r.call # calls => r \in reward']_vars

\* "Input: the bets of all users of the round" (comment of distribution): what is
\* distributed is the round.
WholeRound == Distributing => call.bets = {b \in betInfo : b.round = call.round}

\* "98% and the prize of the jackpot" (comment of Distribute): a round is shared
\* out with the jackpot there is.
WholeJackpot == call.at = "insert" => call.pot = jackpot

\* "The prize is 98% of the losers' money and the whole jackpot" (README of
\* rich_bet): what stays in the jackpot is at most what was to share.
RestOfPrize ==
  Distributing /\ Narrow =>
    RemainForJackpot(call.bets, result[call.height], call.pot)
      <= RemainReward(call.bets, result[call.height], call.pot)

\* "Shared in proportion among all who bet" (README of rich_bet), for bets up to
\* MaxBet, which need only fit the width themselves (comment of GameConfig): a
\* share is the bet's part of what there is to share.
Proportional ==
  Distributing => \A b \in call.bets :
    Share(b, call.bets, result[call.height], call.pot)
      = (TxAmount[b.tx] * RemainReward(call.bets, result[call.height], call.pot))
          \div Stakes(call.bets)
=============================================================================
