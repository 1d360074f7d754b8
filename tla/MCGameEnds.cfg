CONSTANTS
  NumPlayers = 4
  Players = {0, 1, 2, 3}
  Stacks = {5}
  Amounts = {0, 1, 3}
  Xm = 1
  LoopLimit = 2
SPECIFICATION FairSpec
CONSTRAINT SmallLastBets
PROPERTY FinishesUnlessHeldUp
CHECK_DEADLOCK FALSE
