SPECIFICATION FairSpec
CONSTANTS
  PingEvery = 2
  Grace = 3
  MaxTurns = 1
INVARIANTS
  TypeOK
  FailLoud
  CalmReturns
PROPERTIES
  FarEndNotices
