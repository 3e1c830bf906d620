SPECIFICATION FairSpec
CONSTANTS
  PoolSize = 3
  MaxInbound = 2
  MaxErrors = 1
CONSTRAINT Bound
CHECK_DEADLOCK FALSE
INVARIANTS
  PoolInvariant
PROPERTIES
  StopDrains
  PoolFills
