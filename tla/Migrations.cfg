SPECIFICATION FairSpec
CONSTANTS
  Runs = {r1, r2}
  Tail = 8
  None = None
INVARIANT JournalIsHonest
PROPERTIES
  ImplementsSchemaSteps
  RowsAreKept
  LockIsFreed
CHECK_DEADLOCK FALSE
