SPECIFICATION FairSpec
CONSTANTS
  NumUrbs = 1
  PoolCount = 4
  MaxRx = 3
PROPERTIES
  StopReturns
  QueuedIsParsed
CHECK_DEADLOCK FALSE
