CONSTANTS
  p1 = p1
  p2 = p2
  p3 = p3
  Players = {p1, p2, p3}
  MaxBringIn = 3
  LoopLimit = 20
SPECIFICATION Spec
SYMMETRY Symmetry
CONSTRAINT ThreeRounds
INVARIANTS
  TypeOK
  InGoodOrder
  Layered
  PoolsMatchRounds
  PayoutWithinPot
  BetterHandTakesAll
PROPERTY
  ImplementsLedger
CHECK_DEADLOCK FALSE
