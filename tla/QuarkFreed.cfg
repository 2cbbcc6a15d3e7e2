SPECIFICATION Spec
CONSTANTS
  N = 3
  NT = 3
  Programs <- MCHelped
INVARIANTS
  InsertedAlive
CHECK_DEADLOCK FALSE
