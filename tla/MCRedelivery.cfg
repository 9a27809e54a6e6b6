CONSTANTS
  Jobs = {j1}
  Orphans = {o1}
  Garbage = {}
  Workers = {w1, w2}
  None = None
  BatchSize = 2
  LambdaTimeout = 1
  Lease = 3
  Visibility = 6
  MaxReceive = 3
  MaxDup = 0
  RetryMasksClaim = FALSE
SPECIFICATION FairSpec
INVARIANTS
  NoLostJob
  RedeliveryOutlivesLease
PROPERTIES
  AcceptedJobSettles
  OrphanReachesDlq
