SPECIFICATION FairSpec
CONSTANTS
  Handlers = {h1, h2}
  Contents <- MCContents
  Styles = {"chain", "sloppy"}
  MaxDocs = 4
  MaxTimeouts = 2
  MaxFailures = 2
  NoTime = none
  h1 = h1
  h2 = h2
  none = none
INVARIANTS
  OneAlertPerIncident
  LastWordHolds
PROPERTIES
  RetrySettles
CHECK_DEADLOCK FALSE
