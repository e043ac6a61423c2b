SPECIFICATION Spec
CONSTANTS
  Accounts = {a1}
  Calls = {c1, c2}
  Gap = 1
  RequestWindow = 4
  MaxRequests = 2
  ConfirmWindow = 2
  MaxConfirms = 1
  Life = 3
  Patience = 2
  MaxLinks = 3
  MaxTime = 5
SYMMETRY Symmetry
INVARIANTS
  StoredLinkWasMailed
  LinkWorksOnce
  MailsSpaced
  AttemptsLimited
PROPERTY OnlyNewestInTime
CHECK_DEADLOCK FALSE
