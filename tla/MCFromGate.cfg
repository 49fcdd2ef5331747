CONSTANTS
  Souls = {soul, body}
  Role = role
  MaxSeat = 1
  MaxFrames = 3
  MaxHellos = 2
SPECIFICATION GateFairSpec
INVARIANTS GateTypeOK OrderIsKept
PROPERTIES HelloAwaited EveryFrameIsJudged
CHECK_DEADLOCK FALSE
