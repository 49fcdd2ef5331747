\* Waits scaled down in the order the code keeps them; the blanket rule fires
\* within two failures.
CONSTANTS
  Ids = {0, 1, 2, 3, 4}
  Grain = 2
  BackoffCap = 1
  TriesCap = 1
  StableTicks = 1
  StuckLimit = 1
  ClosedLimit = 2
  DownLimit = 2
  BlanketGap = 1
  QuietLimit = 1
  ProbeLimit = 1
  AgeCap = 3
  PendingCap = 2
  BulkCap = 2
  MaxFrames = 3
  MaxTroubles = 4
SPECIFICATION FairSpec
INVARIANTS TypeOK ChainsBounded LanesInOrder NothingStrands
CHECK_DEADLOCK FALSE
PROPERTY Recovers
