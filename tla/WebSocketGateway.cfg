SPECIFICATION FairSpec
CONSTANTS
  Connections = {c1, c2, c3, c4}
  Users = {u1, u2}
  NoUser = NoUser
  MaxOpen = 3
  MaxPerUser = 2
  EarlyLimit = 1
INVARIANTS
  CountsAndCaps
  NothingLeaks
  DrainedIsEmpty
PROPERTY HandshakeEnds
CHECK_DEADLOCK FALSE
