SPECIFICATION Spec
CONSTANTS
  Logins = {l1, l2}
  Requests = {r1, r2}
  None = None
INVARIANT LogoutDiscards
CHECK_DEADLOCK FALSE
