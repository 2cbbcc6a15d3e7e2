SPECIFICATION Spec
CONSTANTS
  Rows = {0, 1}
  Cols = {0, 1, 2}
  Subtile = 2
  Unit = 12
  Inputs <- MCInputs
  Targets <- MCTargets
INVARIANTS
  Rounds
  Monotone
  BoundHolds
CHECK_DEADLOCK FALSE
