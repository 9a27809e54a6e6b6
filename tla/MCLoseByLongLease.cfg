CONSTANTS
  Jobs = {j1}
  Orphans = {}
  Garbage = {}
  Workers = {w1}
  None = None
  BatchSize = 1
  LambdaTimeout = 1
  Lease = 3
  Visibility = 3
  MaxReceive = 2
  MaxDup = 0
  RetryMasksClaim = FALSE
SPECIFICATION Spec
INVARIANT NoStrandedJob
