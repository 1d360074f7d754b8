CONSTANTS
  t1 = t1
  t2 = t2
  t3 = t3
  Margin = 3
  EndBetMargin = 1
  MinBet = 0
  MaxBet = 60
  Modulus = 32768
  Txs = {t1, t2, t3}
  TxAmount <- Chips
  MaxHeight = 6
  MaxCalls = 2
SPECIFICATION Spec
CONSTRAINT NothingAlone
INVARIANTS TypeOK DecidedAfterClose SharesWithinPool
PROPERTIES JackpotAfterRewards
CHECK_DEADLOCK FALSE
