SPECIFICATION Spec
CONSTANTS
  Handlers = {h1, h2}
  Admin = admin
  People = {alice}
  MaxSecrets = 2
  MaxLists = 2
  MaxFailures = 1
  MaxCrashes = 1
  h1 = h1
  h2 = h2
  admin = admin
  alice = alice
INVARIANTS
  AccountsSettled
  CodesTally
  EnabledIsConfirmed
CHECK_DEADLOCK FALSE
