SPECIFICATION FairSpec
CONSTANTS
  SIZE = 4
  MaxCalls = 5
INVARIANTS
  SitesMatch
  RunOnce
  SectionOver
PROPERTIES
  CallsReturn
CHECK_DEADLOCK FALSE
