CONSTANTS
  t1 = t1
  t2 = t2
  t3 = t3
  Margin = 3
  EndBetMargin = 1
  MinBet = 50
  MaxBet = 60
  Modulus = 32768
  Txs = {t1, t2}
  TxAmount <- Chips
  MaxHeight = 4
  MaxCalls = 1
SPECIFICATION Spec
INVARIANTS RestOfPrize
CHECK_DEADLOCK FALSE
