SPECIFICATION BrowserSpec
CONSTANTS
  Logins = {l1, l2}
  Requests = {r1, r2}
  None = None
  Tabs = {t1, t2}
  People = {ann, bob}
  Versions <- TwoVersions
  PROMPT_MAX_LENGTH = 1
  Empty = Empty
  Unusable = Unusable
  Absent = Absent
  Broken = Broken
  NotAnObject = NotAnObject
  old = old
  mid = mid
  new = new
SYMMETRY Symmetry
INVARIANTS
  VerifierFitsCode
  RefreshTokenIsTheLogins
  RestoredIsSubmittable
  ReloadRestoresInput
  LogoutLeavesNoInput
PROPERTIES
  FreshTokensAreKept
CHECK_DEADLOCK FALSE
