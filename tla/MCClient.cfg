SPECIFICATION Spec
CONSTANTS
  Ids = {x, y}
  Offers <- WarningOrCritical
  MaxSkew = 1
  MaxTime = 2
  MaxSent = 3
  MaxConnects = 2
  MaxReloads = 1
  MaxPresses = 1
  x = x
  y = y
INVARIANTS
  TypeOK
  ActedInOrder
  RecallSticks
PROPERTIES
  NoSilentLoss
SYMMETRY Symmetry
CHECK_DEADLOCK FALSE
