CONSTANTS
  Base = 1
  Factor = 2
  Cap = 2
  MaxAttempts = 2
  OutboxCap = 1
  AckedKeep = 1
  MaxSeq = 3
  MaxBeacons = 1
  MaxResets = 1
SPECIFICATION FairSpec
INVARIANTS TypeOK ExactlyOnceInOrder HeldTail AckedWasAdmitted NothingVanishes
PROPERTIES UnfillableGapIsForever KeepsPromise EveryFrameAccounted
CHECK_DEADLOCK FALSE
