SPECIFICATION BothSpec
CONSTANTS
  SIZE = 6
  IdRange = 3
INVARIANTS
  CountsHeld
  NoLostWakeup
  FlagsFresh
PROPERTIES
  Refines
  Released
  BwRefines
