SPECIFICATION Spec
CONSTANTS
  Clients = {c1}
  Sockets = {s1, s2}
  Messages = {m1, m2}
  NoSocket = NoSocket
SYMMETRY Symmetric
INVARIANT LiveMeansCurrent
PROPERTY FramesNeedAccess
CHECK_DEADLOCK FALSE
