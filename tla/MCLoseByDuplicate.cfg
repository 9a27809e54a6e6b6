CONSTANTS
  Jobs = {j1}
  Orphans = {}
  Garbage = {}
  Workers = {w1, w2}
  None = None
  BatchSize = 1
  LambdaTimeout = 1
  Lease = 1
  Visibility = 3
  MaxReceive = 2
  MaxDup = 1
  RetryMasksClaim = FALSE
SPECIFICATION Spec
INVARIANT NoStrandedJob
