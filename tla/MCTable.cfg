CONSTANTS
  u1 = u1
  u2 = u2
  None = None
  Tables = {1}
  Users = {u1, u2}
  Able = {u1}
  SeatCount = 2
  Callers = {u1, u2}
  UserOf <- OneEach
  Methods = {"enter", "ready", "leave", "scene"}
SPECIFICATION FairSpec
INVARIANTS PrepareTimed TypeOK
PROPERTIES CallReturns PreparesEnd CallsAreSteps
CHECK_DEADLOCK FALSE
