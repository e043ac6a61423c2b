SPECIFICATION FairProxySpec
CONSTANTS
  Requests = {r1, r2}
  Accounts = {u1}
  Nobody = Nobody
  Routes = {"ask_link", "edit_profile", "login"}
  Keys <- KeysOfUsers
  Limit <- SmallLimit
  Window = 2
  Second = 1
  MaxEntries = 2
  MaxTime = 2
INVARIANTS
  SlidingBudget
  RetryAfterHonest
  RefusedIsUnsent
PROPERTY RequestsEnd
CHECK_DEADLOCK FALSE
