CONSTANTS
  c1 = c1
  c2 = c2
  u1 = u1
  None = None
  Conns = {c1, c2}
  Users = {u1}
  UserOf <- AllOfOne
  MaxPeers = 2
  SendCache = 1
  Messages = {"room"}
SPECIFICATION FairSpec
INVARIANTS TypeOK CountCovers NoDeadEntry
PROPERTIES WriterEnds
CHECK_DEADLOCK FALSE
