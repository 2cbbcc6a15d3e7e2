SPECIFICATION FairSpec
CONSTANTS
  NT = 4
  SIZE = 1
  MaxBound = 6
INVARIANTS
  ScanInside
  SuccessMeansFactor
PROPERTIES
  EvictSafe
  SuccessReturns
  Refines
CHECK_DEADLOCK FALSE
