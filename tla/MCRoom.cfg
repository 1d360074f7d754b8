CONSTANTS
  u1 = u1
  u2 = u2
  c1 = c1
  c2 = c2
  c3 = c3
  c4 = c4
  c5 = c5
  None = None
  Tables = {1, 2}
  Users = {u1, u2}
  Able = {u1, u2}
  SeatCount = 2
  Conns = {c1, c2, c3, c4, c5}
  UserOfConn <- TwoOfOne
  MaxMsgs = 1
SPECIFICATION RoomSpec
INVARIANTS RoomTypeOK SeatsKnown
CHECK_DEADLOCK FALSE
