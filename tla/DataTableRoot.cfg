SPECIFICATION FairSpec
CONSTANTS
  NT = 2
  SIZE = 3
  Machines <- MCAnyRoot
INVARIANTS
  SuccessMeansFactor
CHECK_DEADLOCK FALSE
