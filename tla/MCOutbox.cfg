SPECIFICATION FairSpec
CONSTANTS
  Jobs = {j1, j2}
  Mails = {j2}
  Workers = {w1, w2}
  MaxAttempts = 2
  BaseBackoff = 1
  MaxBackoff = 3
  Lease = 2
  Batch = 2
  SendsFitLease = TRUE
  MaxLosses = 2
  j1 = j1
  j2 = j2
  w1 = w1
  w2 = w2
INVARIANTS
  TypeOK
  ClaimExclusive
  RetryBudget
PROPERTIES
  PromiseSpec
  JobsSettle
