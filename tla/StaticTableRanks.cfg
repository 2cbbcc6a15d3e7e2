SPECIFICATION FairSpec
CONSTANTS
  NT = 2
  SIZE = 2
  MaxBound = 3
INVARIANTS
  SuccessMeansFactor
CHECK_DEADLOCK FALSE
