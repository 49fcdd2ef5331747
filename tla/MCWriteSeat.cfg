CONSTANTS
  Tabs = {ta, tb}
  Takers = {ta}
  None = None
  MaxCuts = 1
  MaxTyped = 1
SPECIFICATION FairSpec
INVARIANTS SeatIsAgreed
PROPERTIES OneWriter
CHECK_DEADLOCK FALSE
