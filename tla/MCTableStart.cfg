CONSTANTS
  u1 = u1
  u2 = u2
  None = None
  Tables = {1}
  Users = {u1, u2}
  Able = {u1, u2}
  SeatCount = 3
  Callers = {u1, u2}
  UserOf <- OneEach
  Methods = {"enter", "ready", "leave", "scene"}
SPECIFICATION Spec
PROPERTIES GameStarts
CHECK_DEADLOCK FALSE
