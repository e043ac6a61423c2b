SPECIFICATION FairServiceSpec
CONSTANTS
  MaxLate = 2
  Patience = 6
  Graceful = 5
  MaxHttp = 1
INVARIANTS
  PoolIsSound
  GatewayEndsItself
PROPERTIES
  ReadyWasMeasured
  ProbesEnd
  ExitsDrained
  StopLeavesNothing
CHECK_DEADLOCK FALSE
