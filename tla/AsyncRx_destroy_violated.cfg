SPECIFICATION Spec
CONSTANTS
  NumUrbs = 2
  PoolCount = 3
  MaxRx = 1
INVARIANTS
  NoCompletionAfterDestroy
CHECK_DEADLOCK FALSE
