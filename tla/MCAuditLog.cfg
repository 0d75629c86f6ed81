SPECIFICATION FairSpec
CONSTANTS
  Writers = {w1, w2}
  Retention = 1
  Batch = 2
  AppendsWithinSecond = FALSE
  PruneMayFail = TRUE
  Acknowledged = TRUE
  MaxEntries = 4
  MaxTime = 2
  MaxFaults = 1
  w1 = w1
  w2 = w2
INVARIANTS
  TypeOK
  ChainVerifies
  VerdictSound
  NoFork
  CursorHonest
PROPERTIES
  Exported
CHECK_DEADLOCK FALSE
