CONSTANTS
  Jobs = {j1}
  Pollers = {p1, p2}
  MaxAttempts = 2
  None = None
SPECIFICATION Spec
PROPERTY TimeoutNeverCoversOutcome
CHECK_DEADLOCK FALSE
