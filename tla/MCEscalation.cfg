SPECIFICATION Spec
CONSTANTS
  Alerts = {x}
  Devices = {d1, d2}
  T1 = 1
  T2 = 2
  T3 = 3
  TTLs = {1, 4}
  Period = 1
  MaxLag = 1
  MaxTracks = 2
  MaxFaults = 1
  x = x
  y = y
  d1 = d1
  d2 = d2
INVARIANTS
  TypeOK
  IgnoredIsReported
PROPERTIES
  NeverEarly
  StopHeeded
