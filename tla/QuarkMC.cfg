SPECIFICATION FairSpec
CONSTANTS
  N = 3
  NT = 3
  Programs <- MCPrograms
INVARIANTS
  OnePlace
  SleepersKnow
  SectionClean
PROPERTIES
  Ordered
  TilesFollow
  Ends
CHECK_DEADLOCK FALSE
