CONSTANTS
  Links = {l1, l2, l3}
  None = None
  MaxCuts = 2
  MaxRefusals = 1
  MaxRestarts = 1
SPECIFICATION BridgeFairSpec
INVARIANTS EndsAgree Driven
PROPERTIES Recovers
CHECK_DEADLOCK FALSE
