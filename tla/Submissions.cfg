SPECIFICATION Spec
CONSTANTS
  Calls = {c1, c2, c3, c4}
  Bodies = {b1, b2}
  Ops = {"message", "comment", "start", "report"}
  None = None
SYMMETRY Symmetric
INVARIANTS
  OneRowPerKey
  RetryIsSafe
PROPERTY TextIsNotLost
CHECK_DEADLOCK FALSE
