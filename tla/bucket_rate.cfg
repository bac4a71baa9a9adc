CONSTANTS
  a = a
  b = b
  d = d
  Callers = {a, b, d}
  DepthCallers = {a, b}
  Half = 3
  None = None
  MaxTokens = 2
  Cost = 2
  MaxCalls = 5
  LastCall = 5
  MaxTime = 6
SPECIFICATION GatewaySpec
CHECK_DEADLOCK FALSE
INVARIANTS
  TypeOK
  RateBound
  GatewayBound
PROPERTIES
  EventuallyGranted
