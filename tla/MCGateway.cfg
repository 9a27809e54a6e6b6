SPECIFICATION HttpSpec
CONSTANTS
  Caller = Caller
  TokenText = TokenText
  None = None
  AllowOrigins <- ListedOnly
  AllowUnverified = FALSE
INVARIANTS
  AcceptedIsComplete
  RefusalIsFinal
  OwnerIsAuthorized
  GatewayAndApiAgree
  ConnectionStaysUsable
CHECK_DEADLOCK FALSE
