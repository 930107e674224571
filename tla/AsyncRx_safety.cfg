SPECIFICATION Spec
CONSTANTS
  NumUrbs = 2
  PoolCount = 3
  MaxRx = 2
INVARIANTS
  TypeOK
  InflightExact
  NoDoubleSubmit
  QuietAfterDrain
  FreedOnlyWhenIdle
  PoolArmedIfDrained
  OwnerUnlessDegraded
CHECK_DEADLOCK FALSE
