SPECIFICATION Spec
CONSTANTS
  Users = {u1, u2}
  Requests = {r1, r2}
  Keys = {k1}
  Contents = {h1, h2}
  Offers = {h2}
  Calls = {c1, c2}
  None = None
  TopMatches = 1
SYMMETRY SymmetricUsers
INVARIANT NoDuplicatePublication
PROPERTIES
  ImplementsOnceOnly
  AlertsReachMentors
  AlertsRespectBlocks
CHECK_DEADLOCK FALSE
