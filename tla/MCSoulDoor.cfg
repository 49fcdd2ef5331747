CONSTANTS
  Bodies = {b1, b2}
  Slots = {1, 2}
  None = None
  MaxSuffix = 5
  MaxCuts = 1
  MaxRetries = 1
SPECIFICATION FairSpec
INVARIANTS SeatsExclusive
PROPERTIES AloneSettles
CHECK_DEADLOCK FALSE
