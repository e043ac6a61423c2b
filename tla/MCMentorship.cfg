SPECIFICATION Spec
CONSTANTS
  Users = {u1, u2, u3}
  Admins = {root}
  Requests = {r1}
  NoUser = NoUser
  MaxMatches = 2
SYMMETRY Symmetric
INVARIANTS
  AcceptedIsPartner
  LastEventNamesMentor
PROPERTIES
  BlockStopsConsent
  ImplementsConsent
CHECK_DEADLOCK FALSE
