--------------------------- MODULE RichBetProofs ----------------------------
(***************************************************************************)
(* Bets end EndBetMargin blocks before the block that decides their round, *)
(* for every Margin above EndBetMargin; the jackpot changes only after the *)
(* rewards that were taken from it are stored; no amount is stored that a  *)
(* document cannot hold; and the shares are no more than there is to share.*)
(*                                                                         *)
(* The inductive invariant of the first says of a document in flight what  *)
(* makes it true when it arrives: a bet carries the round of its block, a  *)
(* call of Reward the round before that of its block and stored bets of it *)
(* only, however old its reading of them is.  That of the second says what *)
(* a call that has inserted its rewards leaves in the database.  That of   *)
(* the third says that a transaction has one stored bet, of MaxBet at most,*)
(* and that who distributes has something to divide by; the bets of a call *)
(* are then finitely many, so that their sums are numbers.                 *)
(*                                                                         *)
(* Players is a parameter of the lemmas about pools that come with those   *)
(* about sums; nothing here depends on it.                                 *)
(***************************************************************************)
EXTENDS RichBet, OperatorProofs

BetsDated == \A b \in betting \cup betInfo :
               b.height \in Nat /\ b.round = RoundByHeight(b.height)

CallDated ==
  call # Idle => /\ call.height \in Heights /\ ShouldReward(call.height)
                 /\ call.round = RoundByHeight(call.height) - 1
                 /\ call.bets \subseteq {b \in betInfo : b.round = call.round}

DatesInv == BetsDated /\ CallDated /\ DecidedAfterClose /\ block \in [Txs -> Heights]

-----------------------------------------------------------------------------
\* What \div says of a number.
LEMMA DivBounds ==
  ASSUME NEW n \in Nat, NEW m \in Nat \ {0}
  PROVE  /\ n \div m \in Nat
         /\ m * (n \div m) <= n /\ n < m * (n \div m) + m
OBVIOUS

\* The arithmetic of the rounds (roundByHeight, and the - 1 in Reward): a block of
\* the round before that of a deciding block k is more than EndBetMargin before k.
LEMMA RoundClosed ==
  ASSUME NEW h \in Nat, NEW k \in Nat, ShouldReward(k),
         RoundByHeight(h) = RoundByHeight(k) - 1
  PROVE  h + EndBetMargin < k
<1> DEFINE m == Margin
           e == EndBetMargin
           q == k \div m
           r == (k + e) \div m
           s == (h + e) \div m
<1>1. m \in Nat \ {0} /\ e \in Nat /\ e < m
  BY RichBetAssumption
<1>2. q \in Nat /\ k = m * q
  BY <1>1, DivBounds DEF ShouldReward
<1>3. r \in Nat /\ m * r <= k + e /\ k + e < m * r + m
  BY <1>1, DivBounds
<1>4. s \in Nat /\ m * s <= h + e /\ h + e < m * s + m
  BY <1>1, DivBounds
<1>5. s = r - 1
  BY DEF RoundByHeight
<1> HIDE DEF m, e, q, r, s
<1>6. m * r = m * s + m
  BY <1>1, <1>3, <1>4, <1>5
<1>7. r <= q
  <2>1. SUFFICES ASSUME r >= q + 1 PROVE FALSE
    BY <1>2, <1>3
  <2>2. m * r >= m * (q + 1)
    BY <1>1, <1>2, <1>3, <2>1
  <2>3. m * (q + 1) = m * q + m
    BY <1>1, <1>2
  <2> QED
    BY <1>1, <1>2, <1>3, <2>2, <2>3
<1>8. m * r <= m * q
  BY <1>1, <1>2, <1>3, <1>7
<1> QED
  BY <1>1, <1>2, <1>3, <1>4, <1>6, <1>8 DEF e

-----------------------------------------------------------------------------
\* Nothing stored or in flight yet.
LEMMA DatesInitially == Init => DatesInv
BY DEF Init, DatesInv, BetsDated, CallDated, DecidedAfterClose, Idle

\* What stores or loses bets keeps the dates, if it leaves rewards and call alone.
LEMMA BetsKeepDates ==
  ASSUME DatesInv, UNCHANGED <<reward, call, block>>,
         betting' \cup betInfo' \subseteq
           betting \cup betInfo \cup {b \in betting' : b.height \in Nat /\ b.round = RoundByHeight(b.height)},
         betInfo \subseteq betInfo'
  PROVE  DatesInv'
<1>1. BetsDated'
  BY DEF DatesInv, BetsDated
<1>2. CallDated'
  BY DEF DatesInv, CallDated
<1>3. DecidedAfterClose'
  BY DEF DatesInv, DecidedAfterClose
<1> QED
  BY <1>1, <1>2, <1>3 DEF DatesInv

\* A call that is over, or only goes on, keeps the dates when the rewards are left
\* alone or some are removed.
LEMMA CallKeepsDates ==
  ASSUME DatesInv, reward' \subseteq reward, UNCHANGED <<taken, block>>,
         \/ call' = Idle
         \/ /\ call # Idle /\ call'.height = call.height /\ call'.round = call.round
            /\ call'.bets = call.bets
  PROVE  DatesInv'
<1>1. UNCHANGED <<betting, betInfo, block>>
  BY DEF taken
<1>2. BetsDated'
  BY <1>1 DEF DatesInv, BetsDated
<1>3. CallDated'
  BY <1>1 DEF DatesInv, CallDated
<1>4. DecidedAfterClose'
  BY <1>1 DEF DatesInv, DecidedAfterClose
<1> QED
  BY <1>1, <1>2, <1>3, <1>4 DEF DatesInv

\* A bet of a dated call was made before the margin.
LEMMA CallBetsClosed ==
  ASSUME DatesInv, call # Idle, NEW b \in call.bets
  PROVE  b \in betInfo /\ b.height + EndBetMargin < call.height
<1>1. b \in betInfo /\ b.round = call.round
  BY DEF DatesInv, CallDated
<1>2. b.height \in Nat /\ b.round = RoundByHeight(b.height)
  BY <1>1 DEF DatesInv, BetsDated
<1>3. call.height \in Nat /\ ShouldReward(call.height)
      /\ call.round = RoundByHeight(call.height) - 1
  BY RichBetAssumption DEF DatesInv, CallDated, Heights
<1> QED
  BY <1>1, <1>2, <1>3, RoundClosed

\* The rewards a call inserts are for bets made before the margin.
LEMMA InsertKeepsDates ==
  ASSUME DatesInv, Insert \/ InsertFails
  PROVE  DatesInv'
<1>1. call.at = "insert" /\ UNCHANGED <<betting, betInfo, block>>
  BY DEF Insert, InsertFails, taken, chain
<1>2. call # Idle
  BY <1>1 DEF Idle
<1>3. \E at \in {"update", "remove"} : call' = [call EXCEPT !.at = at]
  BY DEF Insert, InsertFails
<1>4. call'.height = call.height /\ call'.round = call.round /\ call'.bets = call.bets
  BY <1>3
<1>5. BetsDated'
  BY <1>1 DEF DatesInv, BetsDated
<1>6. CallDated'
  BY <1>1, <1>2, <1>4 DEF DatesInv, CallDated
<1>7. \A r \in UserRewards(call) : \E b \in betInfo :
        b.tx = r.id /\ b.height + EndBetMargin < r.height
  BY <1>2, CallBetsClosed DEF UserRewards
<1>8. \A r \in PlatformRewards(call) : r.id = "platform"
  BY DEF PlatformRewards
<1>9. reward' \subseteq reward \cup UserRewards(call) \cup PlatformRewards(call)
  BY DEF Insert, InsertFails
<1>10. DecidedAfterClose'
  BY <1>1, <1>7, <1>8, <1>9 DEF DatesInv, DecidedAfterClose
<1> QED
  BY <1>1, <1>5, <1>6, <1>10 DEF DatesInv

\* Reading the bets of a round gives the call its date.
LEMMA GetBetsKeepsDates ==
  ASSUME DatesInv, NEW h \in Heights, GetBetsByRound(h)
  PROVE  DatesInv'
<1>1. UNCHANGED <<betting, betInfo, block, reward>>
  BY DEF GetBetsByRound, taken, chain
<1>2. CallDated'
  BY <1>1 DEF GetBetsByRound, CallDated
<1>3. BetsDated' /\ DecidedAfterClose'
  BY <1>1 DEF DatesInv, BetsDated, DecidedAfterClose
<1> QED
  BY <1>1, <1>2, <1>3 DEF DatesInv

\* Every step keeps the dates.
LEMMA DatesInductive ==
  ASSUME DatesInv, [Next]_vars
  PROVE  DatesInv'
<1>1. CASE Mine
  BY <1>1, BetsKeepDates DEF Mine, taken
<1>2. CASE \E tx \in Txs : BetAccepted(tx) \/ BetRefused(tx)
  <2>1. PICK tx \in Txs : BetAccepted(tx) \/ BetRefused(tx)
    BY <1>2
  <2>2. block[tx] \in Nat
    BY RichBetAssumption DEF DatesInv, Heights
  <2> QED
    BY <2>1, <2>2, BetsKeepDates DEF BetAccepted, BetRefused, chain
<1>3. CASE \E b \in betting : DoBet(b)
  BY <1>3, BetsKeepDates DEF DoBet, chain
<1>4. CASE \E h \in Heights : GetBetsByRound(h)
  BY <1>4, GetBetsKeepsDates
<1>5. CASE DoDistribute
  <2>1. call # Idle
    BY <1>5 DEF DoDistribute, Idle
  <2>2. UNCHANGED <<taken, block>> /\ reward' = reward
    BY <1>5 DEF DoDistribute, chain
  <2>3. \/ call' = Idle
        \/ call'.height = call.height /\ call'.round = call.round /\ call'.bets = call.bets
    BY <1>5 DEF DoDistribute
  <2> QED
    BY <2>1, <2>2, <2>3, CallKeepsDates
<1>6. CASE Insert \/ InsertFails
  BY <1>6, InsertKeepsDates
<1>7. CASE RemoveAll \/ Update \/ UpdateFails
  <2>1. call' = Idle /\ reward' \subseteq reward /\ UNCHANGED <<taken, block>>
    BY <1>7 DEF RemoveAll, Update, UpdateFails, chain
  <2> QED
    BY <2>1, CallKeepsDates
<1>8. CASE Restart \/ DivideByZero
  <2>1. BetsDated'
    BY <1>8 DEF Restart, DivideByZero, DatesInv, BetsDated
  <2>2. CallDated' /\ DecidedAfterClose' /\ block' = block
    BY <1>8 DEF Restart, DivideByZero, DatesInv, CallDated, DecidedAfterClose, chain
  <2> QED
    BY <2>1, <2>2 DEF DatesInv
<1>9. CASE UNCHANGED vars
  BY <1>9, BetsKeepDates DEF vars, taken, chain
<1> QED
  BY <1>1, <1>2, <1>3, <1>4, <1>5, <1>6, <1>7, <1>8, <1>9 DEF Next, Bet, Reward

\* No bet is rewarded that was made within EndBetMargin blocks of the block whose
\* hash decides, whatever the order of bets, calls of Reward, failures and
\* restarts (Bet, Reward and roundByHeight in rich_bet/game.go).
THEOREM DrawAfterClose == Spec => []DecidedAfterClose
<1>1. Init => DatesInv
  BY DatesInitially
<1>2. DatesInv /\ [Next]_vars => DatesInv'
  BY DatesInductive
<1>3. DatesInv => DecidedAfterClose
  BY DEF DatesInv
<1> QED
  BY <1>1, <1>2, <1>3, PTL DEF Spec

-----------------------------------------------------------------------------
(* Rewards and jackpot                                                      *)

\* What a call that is about to save the jackpot has inserted is in the database,
\* and nothing else is there for its bets.
RewardsIn ==
  /\ UserRewards(call) \cup PlatformRewards(call) \subseteq reward
  /\ \A b \in call.bets : \A r \in reward : r.id = b.tx => r.call = calls

PaidInv == "at" \in DOMAIN call /\ (call.at = "update" => RewardsIn)

\* The rewards are computed from the chain and from what the call holds.
LEMMA RewardsUnchanged ==
  ASSUME result' = result, betOn' = betOn, calls' = calls,
         call'.height = call.height, call'.round = call.round,
         call'.bets = call.bets, call'.pot = call.pot
  PROVE  UserRewards(call)' = UserRewards(call) /\ PlatformRewards(call)' = PlatformRewards(call)
<1>1. \A bets, on : Lost(bets, on)' = Lost(bets, on)
  BY DEF Lost, Stakes
<1>2. \A bets, on : PlatformReward(bets, on)' = PlatformReward(bets, on)
  BY <1>1 DEF PlatformReward
<1>3. \A bets, on, pot : RemainReward(bets, on, pot)' = RemainReward(bets, on, pot)
  BY <1>1, <1>2 DEF RemainReward
<1>4. \A b, bets, on, pot : UserReward(b, bets, on, pot)' = UserReward(b, bets, on, pot)
  BY <1>3 DEF UserReward, Share, Stakes
<1>5. UserRewards(call)' = UserRewards(call)
  BY <1>4 DEF UserRewards
<1>6. PlatformRewards(call)' = PlatformRewards(call)
  BY <1>2 DEF PlatformRewards
<1> QED BY <1>5, <1>6

\* A reward of a call carries its number.
LEMMA RewardsOfCall ==
  \A r \in UserRewards(call) \cup PlatformRewards(call) : r.call = calls
BY DEF UserRewards, PlatformRewards

\* Insert: nothing was there for the bets.
LEMMA InsertPays ==
  ASSUME PaidInv, Insert
  PROVE  PaidInv'
<1>1. call' = [call EXCEPT !.at = "update"] /\ UNCHANGED <<result, betOn, calls>>
  BY DEF Insert, chain
<1>2. /\ "at" \in DOMAIN call'
      /\ call'.height = call.height /\ call'.round = call.round
      /\ call'.bets = call.bets /\ call'.pot = call.pot
  BY <1>1 DEF PaidInv
<1>3. UserRewards(call)' = UserRewards(call) /\ PlatformRewards(call)' = PlatformRewards(call)
  BY <1>1, <1>2, RewardsUnchanged
<1>4. reward' = reward \cup UserRewards(call) \cup PlatformRewards(call)
      /\ \A b \in call.bets : ~Stored(b.tx)
  BY DEF Insert
<1>5. \A b \in call.bets : \A r \in reward' : r.id = b.tx => r.call = calls
  BY <1>4, RewardsOfCall DEF Stored
<1> QED BY <1>1, <1>2, <1>3, <1>4, <1>5 DEF PaidInv, RewardsIn

\* Every step keeps that: only a call that is at "remove" takes rewards away.
LEMMA RewardsStayIn ==
  ASSUME PaidInv, [Next]_vars
  PROVE  PaidInv'
<1>1. CASE UNCHANGED <<call, calls, reward, result, betOn>>
  <2>1. UserRewards(call)' = UserRewards(call) /\ PlatformRewards(call)' = PlatformRewards(call)
    BY <1>1, RewardsUnchanged
  <2> QED BY <1>1, <2>1 DEF PaidInv, RewardsIn
<1>2. CASE "at" \in DOMAIN call' /\ call'.at # "update"
  BY <1>2 DEF PaidInv
<1>3. CASE \E h \in Heights : GetBetsByRound(h)
  <2>1. "at" \in DOMAIN call' /\ call'.at = "bets"
    BY <1>3 DEF GetBetsByRound
  <2> QED BY <1>2, <2>1
<1>4. CASE DoDistribute
  <2>1. "at" \in DOMAIN call' /\ call'.at \in {"idle", "insert"}
    BY <1>4 DEF DoDistribute, Idle
  <2> QED BY <1>2, <2>1
<1>5. CASE InsertFails
  <2>1. call' = [call EXCEPT !.at = "remove"]
    BY <1>5 DEF InsertFails
  <2>2. "at" \in DOMAIN call' /\ call'.at = "remove"
    BY <2>1 DEF PaidInv
  <2> QED BY <1>2, <2>2
<1>6. CASE Insert
  BY <1>6, InsertPays
<1>7. Mine \/ Bet \/ UNCHANGED vars => UNCHANGED <<call, calls, reward, result, betOn>>
  BY DEF Mine, Bet, BetAccepted, BetRefused, DoBet, vars, chain
<1>8. RemoveAll \/ Update \/ UpdateFails \/ Restart \/ DivideByZero =>
        "at" \in DOMAIN call' /\ call'.at = "idle"
  BY DEF RemoveAll, Update, UpdateFails, Restart, DivideByZero, Idle
<1> QED
  BY <1>1, <1>2, <1>3, <1>4, <1>5, <1>6, <1>7, <1>8 DEF Next, Reward

\* The jackpot changes only when all the rewards of the call that distributed it,
\* the platform's among them, are in the database as they were computed, and no
\* others for its bets, whatever fails, whatever part of the round was read and
\* whenever the process restarts (SaveDistribution in
\* rich_bet/game_db_by_mongo.go).
THEOREM RewardsBeforeJackpot == Spec => JackpotAfterRewards
<1>1. Init => PaidInv
  BY DEF Init, PaidInv, Idle
<1>2. PaidInv /\ [Next]_vars => [jackpot' # jackpot => RewardsIn]_vars
  <2> SUFFICES ASSUME PaidInv, [Next]_vars, jackpot' # jackpot PROVE RewardsIn
    OBVIOUS
  <2>1. Update
    BY DEF Next, Mine, Bet, BetAccepted, BetRefused, DoBet, Reward, GetBetsByRound,
           DoDistribute, DivideByZero, Insert, InsertFails, RemoveAll, UpdateFails, Restart, vars
  <2> QED BY <2>1 DEF Update, PaidInv
<1>3. Spec => [][jackpot' # jackpot => RewardsIn]_vars
  BY <1>1, <1>2, RewardsStayIn, PTL DEF Spec
<1> QED BY <1>3, PTL DEF JackpotAfterRewards, RewardsIn

-----------------------------------------------------------------------------
(* Amounts                                                                  *)

\* Bets as they are stored: one of each transaction, none above MaxBet.
BetsOfTxs(bets) ==
  /\ bets \subseteq BetDoc
  /\ \A b \in bets : TxAmount[b.tx] <= MaxBet
  /\ \A b, c \in bets : b.tx = c.tx => b = c

BetsInv ==
  /\ BetsOfTxs(betInfo)
  /\ betting \subseteq BetDoc /\ \A b \in betting : TxAmount[b.tx] <= MaxBet

\* A call past DoDistribute has a jackpot to share and bets to divide it by.
CallInv ==
  /\ "at" \in DOMAIN call
  /\ call.at \in {"insert", "remove", "update"} =>
       call.pot \in Amount /\ Stakes(call.bets) # 0

AmountsInv == TypeOK /\ BetsInv /\ CallInv

\* What a number of the width computed with can be: more than is stored.
Width == {amount \in Nat : amount < Modulus}

\* A number and its remainder.
LEMMA WrapFacts ==
  /\ Modulus \in Nat \ {0}
  /\ \A x \in Int : Wrap(x) \in Width
  /\ \A x \in Nat : Wrap(x) <= x /\ (x < Modulus => Wrap(x) = x)
<1>1. Modulus \in Nat \ {0}
  BY RichBetAssumption
<1>2. \A x \in Int : Wrap(x) \in Width
  BY <1>1 DEF Wrap, Width
<1>3. \A x \in Nat : Wrap(x) <= x /\ (x < Modulus => Wrap(x) = x)
  BY <1>1 DEF Wrap
<1> QED BY <1>1, <1>2, <1>3

\* No jackpot at all can be stored.
LEMMA NothingIsStorable == 0 \in Amount
<1>1. PICK m \in Nat : m = Modulus /\ m > 1
  BY RichBetAssumption
<1>2. m \div 2 \in Nat /\ m < 2 * (m \div 2) + 2
  BY DivBounds
<1> QED BY <1>1, <1>2 DEF Amount, Storable

\* There are no more bets than transactions.
LEMMA BetsAreFinite ==
  ASSUME NEW bets, BetsOfTxs(bets)
  PROVE  /\ IsFiniteSet(bets) /\ Cardinality(bets) <= Cardinality(Txs)
         /\ [b \in bets |-> TxAmount[b.tx]] \in [bets -> Nat]
<1> DEFINE txOf == [b \in bets |-> b.tx]
<1>1. txOf \in Injection(bets, Txs)
  BY DEF BetsOfTxs, BetDoc, Injection, IsInjective
<1>2. IsFiniteSet(bets) /\ Cardinality(bets) <= Cardinality(Txs)
  <2> HIDE DEF txOf
  <2> QED BY <1>1, RichBetAssumption, FS_Injection
<1>3. [b \in bets |-> TxAmount[b.tx]] \in [bets -> Nat]
  BY RichBetAssumption DEF BetsOfTxs, BetDoc
<1> QED BY <1>2, <1>3

\* So are some of them.
LEMMA SomeBets ==
  ASSUME NEW bets, BetsOfTxs(bets), NEW some \in SUBSET bets
  PROVE  BetsOfTxs(some)
BY DEF BetsOfTxs

\* What bets add up to, before and after it is wrapped.
LEMMA StakesType ==
  ASSUME NEW bets, BetsOfTxs(bets)
  PROVE  /\ SumFunctionOnSet([b \in bets |-> TxAmount[b.tx]], bets) \in Nat
         /\ Stakes(bets) = Wrap(SumFunctionOnSet([b \in bets |-> TxAmount[b.tx]], bets))
         /\ Stakes(bets) \in Width
<1>1. PICK f \in [bets -> Nat] : f = [b \in bets |-> TxAmount[b.tx]]
  BY BetsAreFinite
<1>2. SumFunctionOnSet(f, bets) \in Nat
  <2>1. IsFiniteSet(bets) /\ bets \in SUBSET bets
    BY BetsAreFinite
  <2> QED BY <2>1, SumType
<1>3. Stakes(bets) = Wrap(SumFunctionOnSet(f, bets))
  BY <1>1 DEF Stakes, SumFunction
<1>4. Wrap(SumFunctionOnSet(f, bets)) \in Width
  BY <1>2, WrapFacts
<1> QED BY <1>1, <1>2, <1>3, <1>4

\* The amounts Distribute computes fit their width.
LEMMA AmountsType ==
  ASSUME NEW bets, BetsOfTxs(bets), NEW on, NEW pot \in Nat, Stakes(bets) # 0
  PROVE  /\ PlatformReward(bets, on) \in Width /\ RemainReward(bets, on, pot) \in Width
         /\ \A b \in bets : Share(b, bets, on, pot) \in Nat
                            /\ Stakes(bets) * Share(b, bets, on, pot)
                                 <= TxAmount[b.tx] * RemainReward(bets, on, pot)
         /\ \A b \in bets : UserReward(b, bets, on, pot) \in Width
         /\ RemainForJackpot(bets, on, pot) \in Width
<1>a. Width \in SUBSET Nat
  BY DEF Width
<1>1. Lost(bets, on) \in Nat
  <2>1. {b \in bets : betOn[b.tx] # on} \in SUBSET bets
    OBVIOUS
  <2> QED BY <2>1, <1>a, SomeBets, StakesType DEF Lost
<1>2. PlatformReward(bets, on) \in Width
  <2>1. PICK w \in Width : w = Wrap(Lost(bets, on) * 2)
    BY <1>1, WrapFacts
  <2>2. w \in Nat /\ w <= Modulus - 1
    BY WrapFacts DEF Width
  <2>3. w \div 100 \in Nat /\ 100 * (w \div 100) <= w
    BY <2>2, DivideFacts
  <2>4. w \div 100 \in Width
    BY <2>2, <2>3, WrapFacts DEF Width
  <2> QED BY <2>1, <2>4 DEF PlatformReward
<1>3. RemainReward(bets, on, pot) \in Width
  <2>1. PlatformReward(bets, on) \in Nat
    BY <1>a, <1>2
  <2>2. Lost(bets, on) - PlatformReward(bets, on) + pot \in Int
    BY <1>a, <1>1, <2>1
  <2> QED BY <2>2, WrapFacts DEF RemainReward
<1>4. PICK R \in Nat : R = RemainReward(bets, on, pot)
  BY <1>a, <1>3
<1>5. PICK S \in Nat \ {0} : S = Stakes(bets)
  <2>1. Stakes(bets) \in Nat \ {0}
    BY <1>a, StakesType
  <2> QED BY <2>1
<1>6. ASSUME NEW b \in bets
      PROVE  Share(b, bets, on, pot) \in Nat /\ S * Share(b, bets, on, pot) <= TxAmount[b.tx] * R
  <2>1. PICK a \in Nat : a = TxAmount[b.tx]
    BY RichBetAssumption DEF BetsOfTxs, BetDoc
  <2>2. a * R \in Nat
    OBVIOUS
  <2>3. PICK w \in Nat : w = Wrap(a * R) /\ w <= a * R
    <3>1. PICK n \in Nat : n = a * R
      BY <2>2
    <3>2. n \in Int
      OBVIOUS
    <3>3. Wrap(n) \in Nat
      BY <1>a, <3>2, WrapFacts, Zenon
    <3>4. Wrap(n) <= n
      BY WrapFacts, Zenon
    <3> QED BY <3>1, <3>3, <3>4
  <2>4. w \div S \in Nat /\ S * (w \div S) <= w
    BY DivideFacts
  <2>5. Share(b, bets, on, pot) = w \div S
    BY <1>4, <1>5, <2>1, <2>3 DEF Share
  <2>6. S * (w \div S) <= a * R
    <3>1. S * (w \div S) \in Nat
      BY <2>4
    <3> QED BY <2>2, <2>3, <2>4, <3>1
  <2> QED BY <2>1, <2>4, <2>5, <2>6
<1>7. ASSUME NEW b \in bets PROVE UserReward(b, bets, on, pot) \in Width
  <2>1. TxAmount[b.tx] \in Nat
    BY RichBetAssumption DEF BetsOfTxs, BetDoc
  <2>2. Share(b, bets, on, pot) + (IF betOn[b.tx] = on THEN TxAmount[b.tx] ELSE 0) \in Int
    BY <1>6, <2>1
  <2> QED BY <2>2, WrapFacts DEF UserReward
<1>8. RemainForJackpot(bets, on, pot) \in Width
  <2>1. [b \in bets |-> UserReward(b, bets, on, pot)] \in [bets -> Nat]
    BY <1>a, <1>7
  <2>2. PICK f \in [bets -> Nat] : f = [b \in bets |-> UserReward(b, bets, on, pot)]
    BY <2>1
  <2>3. SumFunctionOnSet(f, bets) \in Nat
    <3>1. IsFiniteSet(bets) /\ bets \in SUBSET bets
      BY BetsAreFinite
    <3> QED BY <3>1, SumType
  <2>4. R - SumFunctionOnSet(f, bets) \in Int
    BY <2>3
  <2>5. RemainForJackpot(bets, on, pot) = Wrap(R - SumFunctionOnSet(f, bets))
    BY <1>4, <2>2 DEF RemainForJackpot, SumFunction
  <2> QED BY <2>4, <2>5, WrapFacts
<1> QED BY <1>2, <1>3, <1>4, <1>5, <1>6, <1>7, <1>8

\* What a call that distributes works with.
LEMMA CallFacts ==
  ASSUME AmountsInv, DatesInv, call.at \in {"insert", "remove", "update"}
  PROVE  /\ call # Idle /\ BetsOfTxs(call.bets) /\ call.pot \in Amount
         /\ Stakes(call.bets) # 0
         /\ call.height \in Nat /\ call.round \in Int
<1>1. call # Idle
  BY DEF Idle
<1>2. call.bets \in SUBSET betInfo
  BY <1>1 DEF DatesInv, CallDated
<1>3. BetsOfTxs(call.bets)
  BY <1>2, SomeBets DEF AmountsInv, BetsInv
<1>4. call.height \in Nat /\ call.round = RoundByHeight(call.height) - 1
  BY <1>1, RichBetAssumption DEF DatesInv, CallDated, Heights
<1>5. RoundByHeight(call.height) \in Nat
  BY <1>4, RichBetAssumption, DivBounds DEF RoundByHeight
<1> QED BY <1>1, <1>3, <1>4, <1>5 DEF AmountsInv, CallInv

\* The rewards it inserts are of their type, if a document can hold them.
LEMMA RewardsType ==
  ASSUME AmountsInv, DatesInv, call.at = "insert",
         NEW r \in UserRewards(call) \cup PlatformRewards(call), Storable(r.amount)
  PROVE  r \in RewardDoc
<1>1. /\ BetsOfTxs(call.bets) /\ call.pot \in Nat /\ Stakes(call.bets) # 0
      /\ call.height \in Nat /\ call.round \in Int
  BY CallFacts DEF Amount
<1>2. calls \in Nat
  BY RichBetAssumption DEF AmountsInv, TypeOK
<1>3. PlatformReward(call.bets, result[call.height]) \in Nat
  BY <1>1, AmountsType DEF Width
<1>4. \A b \in call.bets : UserReward(b, call.bets, result[call.height], call.pot) \in Nat
  BY <1>1, AmountsType DEF Width
<1>5. \A b \in call.bets : b.tx \in Txs
  BY <1>1 DEF BetsOfTxs, BetDoc
<1>6. CASE r \in UserRewards(call)
  BY <1>1, <1>2, <1>4, <1>5, <1>6 DEF UserRewards, RewardDoc, Amount
<1>7. CASE r \in PlatformRewards(call)
  BY <1>1, <1>2, <1>3, <1>7 DEF PlatformRewards, RewardDoc, Amount
<1> QED BY <1>6, <1>7

\* Init is typed.
LEMMA AmountsInitially == Init => AmountsInv
<1> SUFFICES ASSUME Init PROVE AmountsInv
  OBVIOUS
<1>2. TypeOK
  BY NothingIsStorable, RichBetAssumption DEF Init, TypeOK, Idle
<1> QED BY <1>2 DEF AmountsInv, Init, BetsInv, BetsOfTxs, CallInv, Idle

\* Bets taken and stored stay of their type.
LEMMA BetKeepsAmounts ==
  ASSUME AmountsInv, Bet
  PROVE  AmountsInv'
<1>1. UNCHANGED <<chain, reward, jackpot, call, calls>>
  BY DEF Bet, BetAccepted, BetRefused, DoBet
<1>2. /\ invalidBet' \subseteq Txs
      /\ \A tx \in invalidBet' \cup {b.tx : b \in betInfo'} : TxAmount[tx] \in Amount
  <2>1. \A tx \in Txs : Storable(TxAmount[tx]) => TxAmount[tx] \in Amount
    BY RichBetAssumption DEF Amount
  <2>2. ASSUME NEW tx \in Txs, BetAccepted(tx) \/ BetRefused(tx)
        PROVE  /\ invalidBet' \subseteq Txs /\ betInfo' = betInfo
               /\ \A s \in invalidBet' : s \in invalidBet \/ Storable(TxAmount[s])
    BY <2>2 DEF BetAccepted, BetRefused, AmountsInv, TypeOK, taken
  <2>3. ASSUME NEW b \in betting, DoBet(b)
        PROVE  /\ invalidBet' = invalidBet /\ b.tx \in Txs
               /\ betInfo' = betInfo \/ (betInfo' = betInfo \cup {b} /\ Storable(TxAmount[b.tx]))
    BY <2>3 DEF DoBet, AmountsInv, BetsInv, BetDoc
  <2> QED BY <2>1, <2>2, <2>3 DEF Bet, AmountsInv, TypeOK
<1>3. ASSUME NEW tx \in Txs, block[tx] <= height, BetAccepted(tx) PROVE BetsInv'
  <2> DEFINE b == [tx |-> tx, height |-> block[tx], round |-> RoundByHeight(block[tx])]
  <2>1. block[tx] \in Nat
    BY RichBetAssumption DEF AmountsInv, TypeOK, Heights
  <2>2. RoundByHeight(block[tx]) \in Nat
    BY <2>1, RichBetAssumption, DivBounds DEF RoundByHeight
  <2>3. b \in BetDoc /\ b.tx = tx /\ TxAmount[tx] <= MaxBet
    BY <1>3, <2>1, <2>2 DEF BetDoc, BetAccepted, Enough
  <2>4. betting' = betting \cup {b} /\ betInfo' = betInfo
    BY <1>3 DEF BetAccepted
  <2> HIDE DEF b
  <2> QED BY <2>3, <2>4 DEF AmountsInv, BetsInv, BetsOfTxs
<1>4. ASSUME NEW tx \in Txs, BetRefused(tx) PROVE BetsInv'
  BY <1>4 DEF BetRefused, AmountsInv, BetsInv, BetsOfTxs
<1>5. ASSUME NEW b \in betting, DoBet(b) PROVE BetsInv'
  <2>1. betting' \subseteq betting
    BY <1>5 DEF DoBet
  <2>2. \/ betInfo' = betInfo
        \/ betInfo' = betInfo \cup {b} /\ ~ \E c \in betInfo : c.tx = b.tx
    BY <1>5 DEF DoBet
  <2> QED BY <2>1, <2>2 DEF AmountsInv, BetsInv, BetsOfTxs
<1>6. BetsInv'
  BY <1>3, <1>4, <1>5 DEF Bet
<1>7. CallInv'
  BY <1>1 DEF AmountsInv, CallInv
<1>8. TypeOK'
  BY <1>1, <1>2, <1>6 DEF AmountsInv, TypeOK, BetsInv, BetsOfTxs, chain
<1> QED BY <1>6, <1>7, <1>8 DEF AmountsInv

\* What leaves bets and chain alone needs only a call, rewards and a jackpot of
\* their types.
LEMMA OthersKeepAmounts ==
  ASSUME AmountsInv, UNCHANGED <<result, block, betOn, betInfo, invalidBet>>,
         betting' \subseteq betting, height' \in 0..MaxHeight, calls' \in 0..MaxCalls,
         reward' \subseteq RewardDoc, jackpot' \in Amount,
         call'.at \in {"idle", "bets", "insert", "remove", "update"}, CallInv'
  PROVE  AmountsInv'
<1>1. TypeOK'
  BY DEF AmountsInv, TypeOK
<1>2. BetsInv'
  BY DEF AmountsInv, BetsInv, BetsOfTxs
<1> QED BY <1>1, <1>2 DEF AmountsInv

\* Every step keeps the types of the amounts.
LEMMA AmountsInductive ==
  ASSUME AmountsInv, DatesInv, [Next]_vars
  PROVE  AmountsInv'
<1> USE DEF chain, taken
<1>a. /\ height \in 0..MaxHeight /\ calls \in 0..MaxCalls
      /\ reward \subseteq RewardDoc /\ jackpot \in Amount /\ CallInv
      /\ call.at \in {"idle", "bets", "insert", "remove", "update"}
  BY DEF AmountsInv, TypeOK
<1>b. Idle.at = "idle" /\ "at" \in DOMAIN Idle
  BY DEF Idle
<1>c. call' = Idle =>
        CallInv' /\ call'.at \in {"idle", "bets", "insert", "remove", "update"}
  BY <1>b DEF CallInv
<1>1. CASE Mine
  <2>1. height' \in 0..MaxHeight
    BY <1>1, <1>a, RichBetAssumption DEF Mine
  <2>2. CallInv'
    BY <1>1, <1>a DEF Mine, CallInv
  <2> QED BY <1>1, <1>a, <2>1, <2>2, OthersKeepAmounts DEF Mine
<1>2. CASE Bet
  BY <1>2, BetKeepsAmounts
<1>3. CASE \E h \in Heights : GetBetsByRound(h)
  <2>1. calls' \in 0..MaxCalls
    BY <1>3, <1>a, RichBetAssumption DEF GetBetsByRound
  <2>2. "at" \in DOMAIN call' /\ call'.at = "bets"
    BY <1>3 DEF GetBetsByRound
  <2>3. CallInv'
    BY <2>2 DEF CallInv
  <2>4. UNCHANGED <<chain, taken, reward, jackpot>>
    BY <1>3 DEF GetBetsByRound
  <2> QED BY <1>a, <2>1, <2>2, <2>3, <2>4, OthersKeepAmounts
<1>4. CASE DoDistribute
  <2>1. UNCHANGED <<chain, taken, reward, jackpot, calls>>
    BY <1>4 DEF DoDistribute
  <2>2. CASE call' = Idle
    BY <1>a, <1>c, <2>1, <2>2, OthersKeepAmounts
  <2>3. CASE call' # Idle
    <3>2. PICK pot \in Amount :
            call' = [at |-> "insert", height |-> call.height, round |-> call.round,
                     bets |-> call.bets, pot |-> pot]
      BY <1>4, <1>a, <2>3, NothingIsStorable DEF DoDistribute
    <3>3. Stakes(call.bets) # 0
      BY <1>4, <2>3 DEF DoDistribute
    <3>4. "at" \in DOMAIN call' /\ call'.at = "insert" /\ call'.bets = call.bets
          /\ call'.pot = pot
      BY <3>2
    <3>5. CallInv'
      BY <3>2, <3>3, <3>4 DEF CallInv
    <3> QED BY <1>a, <2>1, <3>4, <3>5, OthersKeepAmounts
  <2> QED BY <2>2, <2>3
<1>5. CASE Insert \/ InsertFails
  <2>1. call.at = "insert" /\ UNCHANGED <<chain, taken, jackpot, calls>>
    BY <1>5 DEF Insert, InsertFails
  <2>2. reward' \subseteq RewardDoc
    <3>1. \A r \in reward' \ reward :
            r \in UserRewards(call) \cup PlatformRewards(call) /\ Storable(r.amount)
      BY <1>5 DEF Insert, InsertFails
    <3> QED BY <1>a, <2>1, <3>1, RewardsType
  <2>3. \E at \in {"update", "remove"} : call' = [call EXCEPT !.at = at]
    BY <1>5 DEF Insert, InsertFails
  <2>4. /\ "at" \in DOMAIN call' /\ call'.at \in {"update", "remove"}
        /\ call'.bets = call.bets /\ call'.pot = call.pot
    BY <1>a, <2>3 DEF CallInv
  <2>5. CallInv'
    BY <1>a, <2>1, <2>4 DEF CallInv
  <2> QED BY <1>a, <2>1, <2>2, <2>4, <2>5, OthersKeepAmounts
<1>6. CASE RemoveAll
  BY <1>6, <1>a, <1>c, OthersKeepAmounts DEF RemoveAll
<1>7. CASE Update
  <2>1. BetsOfTxs(call.bets) /\ call.pot \in Nat /\ Stakes(call.bets) # 0
    BY <1>7, CallFacts DEF Update, Amount
  <2>2. RemainForJackpot(call.bets, result[call.height], call.pot) \in Nat
    BY <2>1, AmountsType DEF Width
  <2>3. jackpot' \in Amount
    BY <1>7, <2>2 DEF Update, Amount
  <2> QED BY <1>7, <1>a, <1>c, <2>3, OthersKeepAmounts DEF Update
<1>8. CASE UpdateFails \/ DivideByZero \/ Restart
  BY <1>8, <1>a, <1>c, OthersKeepAmounts DEF UpdateFails, DivideByZero, Restart
<1>9. CASE UNCHANGED vars
  <2>1. CallInv'
    BY <1>9, <1>a DEF CallInv, vars
  <2> QED BY <1>9, <1>a, <2>1, OthersKeepAmounts DEF vars
<1> QED
  BY <1>1, <1>2, <1>3, <1>4, <1>5, <1>6, <1>7, <1>8, <1>9 DEF Next, Reward

\* Both invariants, of dates and of amounts, hold together.
LEMMA AmountsHold == Spec => [](AmountsInv /\ DatesInv)
<1>1. Init => AmountsInv /\ DatesInv
  BY AmountsInitially, DatesInitially
<1>2. AmountsInv /\ DatesInv /\ [Next]_vars => AmountsInv' /\ DatesInv'
  BY AmountsInductive, DatesInductive
<1> QED BY <1>1, <1>2, PTL DEF Spec

\* Documents have their types, and no amount is stored that a document cannot hold:
\* of the bets and rewards, the platform's and the jackpot, whatever the arithmetic
\* of distribution.Distribute wraps, through every failure and restart (the
\* documents of rich_bet/game_db.go).
THEOREM RichBetTypes == Spec => []TypeOK
<1>1. AmountsInv => TypeOK
  BY DEF AmountsInv
<1> QED BY <1>1, AmountsHold, PTL

-----------------------------------------------------------------------------
\* Under Narrow the bets of a call add up without wrapping.
LEMMA NarrowFacts ==
  ASSUME NEW m \in Nat, NEW k \in Nat, NEW c \in Nat, NEW pot \in Nat, NEW sum \in Nat,
         NEW modulus \in Nat \ {0},
         k <= c, sum <= k * m, m * (m * c + pot) < modulus
  PROVE  sum < modulus
<1>1. CASE m = 0
  BY <1>1
<1>2. CASE m # 0
  <2>1. k * m <= c * m
    OBVIOUS
  <2>2. PICK y \in Nat : y = m * c
    OBVIOUS
  <2>3. sum <= y
    BY <2>1, <2>2
  <2>4. y + pot <= m * (y + pot)
    <3>1. PICK z \in Nat : z = y + pot
      OBVIOUS
    <3>2. PICK d \in Nat : m = d + 1
      <4>1. m - 1 \in Nat /\ m = (m - 1) + 1
        BY <1>2
      <4> QED BY <4>1
    <3>3. m * z = d * z + z /\ d * z \in Nat
      BY <3>2
    <3> QED BY <3>1, <3>3
  <2> QED BY <2>2, <2>3, <2>4
<1> QED BY <1>1, <1>2

\* The shares Distribute gives out, the stakes that go back aside, are together
\* never more than what was to share, for any bets, amounts and jackpot whose
\* products fit the width (the loop over bets in rich_bet/distribution).
THEOREM SharesFitThePool == Spec => []SharesWithinPool
<1>1. ASSUME AmountsInv, DatesInv PROVE SharesWithinPool
  <2> DEFINE B == call.bets
             on == result[call.height]
             pot == call.pot
  <2> SUFFICES ASSUME Distributing, Narrow
               PROVE  SumFunction([b \in B |-> Share(b, B, on, pot)])
                        <= RemainReward(B, on, pot)
    BY DEF SharesWithinPool
  <2>1. BetsOfTxs(B) /\ pot \in Nat /\ Stakes(B) # 0
    BY <1>1, CallFacts DEF Distributing, Amount
  <2>2. Narrow <=> MaxBet * (MaxBet * Cardinality(Txs) + pot) < Modulus
    BY DEF Narrow
  <2> HIDE DEF B, on, pot
  <2>3. IsFiniteSet(B) /\ Cardinality(B) <= Cardinality(Txs)
        /\ [b \in B |-> TxAmount[b.tx]] \in [B -> Nat]
    BY <2>1, BetsAreFinite
  <2>4. PICK stake \in [B -> Nat] : stake = [b \in B |-> TxAmount[b.tx]]
    BY <2>3
  <2>5. PICK sum \in Nat : sum = SumFunctionOnSet(stake, B)
    BY <2>1, <2>4, StakesType
  <2>6. sum = Stakes(B) /\ sum \in Nat \ {0}
    <3>1. Stakes(B) = Wrap(sum)
      BY <2>1, <2>4, <2>5, StakesType
    <3>2. \A b \in B : stake[b] <= MaxBet
      BY <2>1, <2>4 DEF BetsOfTxs
    <3>3. MaxBet \in Nat /\ Modulus \in Nat \ {0}
      BY RichBetAssumption, WrapFacts
    <3>4. sum <= Cardinality(B) * MaxBet
      BY <2>3, <2>5, <3>2, <3>3, SumAtMost
    <3>5. Cardinality(B) \in Nat /\ Cardinality(Txs) \in Nat /\ pot \in Nat
      BY <2>1, <2>3, RichBetAssumption, FS_CardinalityType
    <3>6. sum < Modulus
      BY <2>2, <2>3, <3>3, <3>4, <3>5, NarrowFacts
    <3>7. Wrap(sum) = sum
      BY <3>6, WrapFacts
    <3> QED BY <2>1, <3>1, <3>7
  <2>7. PICK R \in Nat : R = RemainReward(B, on, pot)
    <3>1. RemainReward(B, on, pot) \in Nat
      BY <2>1, AmountsType DEF Width
    <3> QED BY <3>1
  <2>8. \A b \in B : Share(b, B, on, pot) \in Nat
                     /\ sum * Share(b, B, on, pot) <= TxAmount[b.tx] * R
    BY <2>1, <2>6, <2>7, AmountsType
  <2>9. PICK share \in [B -> Nat] : share = [b \in B |-> Share(b, B, on, pot)]
    <3>1. [b \in B |-> Share(b, B, on, pot)] \in [B -> Nat]
      BY <2>8
    <3> QED BY <3>1
  <2>10. \A b \in B : sum * share[b] <= R * stake[b]
    <3>1. ASSUME NEW b \in B PROVE sum * share[b] <= R * stake[b]
      <4>1. stake[b] \in Nat /\ R * stake[b] = stake[b] * R
        OBVIOUS
      <4>2. stake[b] = TxAmount[b.tx] /\ share[b] = Share(b, B, on, pot)
        BY <2>4, <2>9
      <4> QED BY <2>8, <4>1, <4>2
    <3> QED BY <3>1
  <2>11. SumFunctionOnSet(share, B) <= R
    BY <2>3, <2>5, <2>6, <2>10, SharesInProportion
  <2> QED BY <2>7, <2>9, <2>11 DEF SumFunction
<1> QED BY <1>1, AmountsHold, PTL
=============================================================================
