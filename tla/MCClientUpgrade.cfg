SPECIFICATION Spec
CONSTANTS
  Ids = {x, y}
  Offers <- CriticalOrEmergency
  MaxSkew = 1
  MaxTime = 2
  MaxSent = 3
  MaxConnects = 2
  MaxReloads = 1
  MaxPresses = 1
  x = x
  y = y
INVARIANTS
  UpgradeShown
SYMMETRY Symmetry
CHECK_DEADLOCK FALSE
