CONSTANTS
  Key <- TurnKeys
  MaxCalls = 3
SPECIFICATION FairSpec
INVARIANTS
  DeadlinePending
PROPERTIES
  TurnsGoOn
  ReportedUnlessCallLost
CHECK_DEADLOCK FALSE
