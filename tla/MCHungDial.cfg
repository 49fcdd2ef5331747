CONSTANTS
  Links = {l1, l2, l3}
  None = None
  MaxCuts = 1
  MaxRefusals = 1
  MaxRestarts = 1
SPECIFICATION BridgeFairSpec
PROPERTIES HungDialIsRetried
CHECK_DEADLOCK FALSE
