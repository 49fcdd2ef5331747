CONSTANTS
  Base = 1
  Factor = 1
  Cap = 1
  MaxAttempts = 2
  OutboxCap = 2
  AckedKeep = 1
  Types = {knock, page}
  Knock = knock
  Pulse = pulse
  Stride = 2
  DoneKeep = 1
  LedgerKeep = 2
  RecentKeep = 1
  InboxCap = 2
  MaxSeq = 2
  MaxBoots = 2
  MaxTroubles = 2
  MaxTransit = 2
  MaxAcks = 1
SPECIFICATION Spec
INVARIANTS TypeOK FreshIsNew AckIsExplained DuplicateNeedsForgetting
CHECK_DEADLOCK FALSE
