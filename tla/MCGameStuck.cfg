CONSTANTS
  NumPlayers = 4
  Players = {0, 1, 2, 3}
  Stacks = {3}
  Amounts = {0, 2}
  Xm = 1
  LoopLimit = 20
SPECIFICATION Spec
INVARIANT BettorCanAct
CHECK_DEADLOCK FALSE
