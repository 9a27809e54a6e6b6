CONSTANTS
  Jobs = {j1}
  Orphans = {o1}
  Garbage = {g1}
  Workers = {w1, w2}
  None = None
  BatchSize = 2
  LambdaTimeout = 1
  Lease = 1
  Visibility = 3
  MaxReceive = 2
  MaxDup = 1
  RetryMasksClaim = TRUE
SPECIFICATION Spec
SYMMETRY Symmetry
INVARIANTS
  TypeOK
  SingleOwner
  OwnerHoldsLease
PROPERTY ImplementsLifecycle
