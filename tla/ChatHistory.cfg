SPECIFICATION HistorySpec
CONSTANTS
  Last = 5
  Page = 2
  Deletable = {2, 4}
INVARIANT NoGap
PROPERTIES
  ResyncKeepsWindow
  LoadOlderReaches
