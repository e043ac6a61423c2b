SPECIFICATION RetrySpec
CONSTANTS
  Users = {u1, u2}
  Requests = {r1}
  Keys = {k1}
  Contents = {h1, h2}
  Offers = {h2}
  Calls = {c1}
  None = None
  TopMatches = 1
PROPERTY RetryRepairsDelivery
CHECK_DEADLOCK FALSE
