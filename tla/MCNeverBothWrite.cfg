CONSTANTS
  Tabs = {ta, tb}
  Takers = {}
  None = None
  MaxCuts = 1
  MaxTyped = 0
SPECIFICATION Spec
INVARIANTS NeverBothWrite
CHECK_DEADLOCK FALSE
