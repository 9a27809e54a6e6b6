CONSTANTS
  Jobs = {j1, j2}
  Pollers = {p1, p2}
  MaxAttempts = 2
  None = None
SPECIFICATION FairSpec
PROPERTIES
  OnlyActiveJobIsServed
  FormComesBack
  WatchedJobIsConcluded
CHECK_DEADLOCK FALSE
