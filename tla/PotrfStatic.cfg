SPECIFICATION FairSpec
CONSTANTS
  NT = 4
  SIZE = 3
  MaxCalls = 3
INVARIANTS
  TypeOK
  OneOwner
  KernelInputs
  FailureShadowed
  TableLive
  StatusTells
PROPERTIES
  Refines
  CallReturns
CHECK_DEADLOCK FALSE
