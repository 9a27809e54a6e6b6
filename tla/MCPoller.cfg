SPECIFICATION LocalSpec
CONSTANTS
  Messages = {m1, m2}
  ConfiguredBatch = 12
  Runs = {r1, r2}
  RawTimeout = Unusable
  Unusable = Unusable
  DefaultTimeout = 2
INVARIANTS
  OnlyHandledDeleted
  ExitZeroMeansReady
  RepeatedRunsSucceed
PROPERTIES
  SignalStopsLoop
  PollerReceives
  EveryRunEnds
CHECK_DEADLOCK FALSE
