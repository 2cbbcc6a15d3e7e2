SPECIFICATION FairSpec
CONSTANTS
  NT = 4
  SIZE = 2
  Machines <- MCMachines
INVARIANTS
  KernelInputs
  PinnedStays
  DiagonalTest
  SuccessMeansFactor
  StatusNamesPanel
PROPERTIES
  Returns
  Refines
CHECK_DEADLOCK FALSE
