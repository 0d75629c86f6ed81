SPECIFICATION FairSpec
CONSTANTS
  Ids = {x, y}
  Handlers = {h1, h2}
  Ranks = {1, 3}
  LadderRank = 2
  TTLs = {0}
  MaxTime = 1
  MaxOps = 3
  MaxSkew = 1
  BrokerFails = {"events"}
  x = x
  y = y
  h1 = h1
  h2 = h2
INVARIANTS
  TypeOK
  SlotMirrored
  RecallHolds
  LadderRuns
PROPERTIES
  NoDowngrade
  StaleLeaves
  HandlersReturn
CHECK_DEADLOCK FALSE
