SPECIFICATION FeedsFairSpec
CONSTANTS
  Relays = {wolfx, p2pquake}
  Steady = {wolfx}
  Reports <- MCReports
  MaxReports = 4
  MaxFailures = 1
  wolfx = wolfx
  p2pquake = p2pquake
INVARIANTS
  OneAlarmEach
  RecallSettles
PROPERTIES
  QuieterOnlyOvertaken
  EveryReportReaches
CHECK_DEADLOCK FALSE
