SPECIFICATION FairSpec
CONSTANTS
  NT = 3
  SIZE = 1
  MaxBound = 6
PROPERTIES
  Returns
CHECK_DEADLOCK FALSE
