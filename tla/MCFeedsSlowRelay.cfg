SPECIFICATION FeedsSpec
CONSTANTS
  Relays = {wolfx, p2pquake}
  Steady = {wolfx, p2pquake}
  Reports <- MCReports
  MaxReports = 3
  MaxFailures = 0
  wolfx = wolfx
  p2pquake = p2pquake
INVARIANT
  SlowRelayHarmless
CHECK_DEADLOCK FALSE
