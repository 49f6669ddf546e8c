SPECIFICATION PoolSpec
CONSTANTS
  NumElems <- MCNumElems
INVARIANTS
  PoolTypeOK
  LiveIsHeld
  NextIsFree
  FailsOnlyWhenFull
CHECK_DEADLOCK FALSE
