SPECIFICATION ReadersSpec
CONSTANTS
  Users = {alice, bob}
  Jobs = {1, 2, 3}
  Limit = 2
  PerSecond = 2
  MaxTime = 2
  None = None
  Scanned = {1, 3, 5}
  Dates <- TwoDays
  MetricKey <- KeysOfTwoDays
  Prompts = {1, 2}
  NoPrompt = NoPrompt
  PromptTrendLimit = 1
  Runs = {r1, r2}
SYMMETRY Symmetry
INVARIANTS
  WalkIsComplete
  OnlyOwnJobsShown
  NewestFirst
  StatisticsAreRight
  RecordsOfOneRun
CHECK_DEADLOCK FALSE
