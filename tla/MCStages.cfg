CONSTANTS
  MaxAttempts = 2
  MaxTotalBytes = 3
  Sizes = {0, 1, 2, 5}
  MaxEntries = 2
  MaxBytes = 5
  Texts <- ShortTexts
SPECIFICATION WorkingSpec
INVARIANTS
  OnlyUntarMisjudges
  LastingErrorIsNotRetried
  SlownessIsNoFailure
  NothingHeldBetweenJobs
  TooLargeExactly
  PartsKeepBudget
PROPERTIES
  JobSettlesOrIsExhausted
CHECK_DEADLOCK FALSE
