SPECIFICATION HistorySpec
CONSTANTS
  Last = 3
  Page = 2
  Deletable = {}
INVARIANT NothingHiddenBelow
