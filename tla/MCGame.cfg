CONSTANTS
  NumPlayers = 4
  Players = {0, 1, 2, 3}
  Stacks = {3, 4}
  Amounts = {0, 2}
  Xm = 1
  LoopLimit = 20
SPECIFICATION Spec
CONSTRAINT BetsFirstAndLast
INVARIANTS
  CountsMatch
  BoardMatchesRound
  StuckOnlyWhenAllIn
  NoChipsMinted
  PoolsBacked
PROPERTIES
  DiscardedNeverPaid
  OnlyForward
  SettledEarlyOnlyWhenDecided
CHECK_DEADLOCK FALSE
