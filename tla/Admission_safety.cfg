SPECIFICATION Spec
CONSTANTS
  k1 = k1
  NoKey = NoKey
  h1 = h1
  h2 = h2
  h3 = h3
  p1 = p1
  p2 = p2
  Key = {k1}
  Handler = {h1, h2, h3}
  Process = {p1, p2}
  Home <- MCHome
  MaxPerDay = 2
  MaxRequests = 8
INVARIANTS
  TypeOK
  UsageBounded
  LateServiceBounded
  DeadServiceBounded
CHECK_DEADLOCK FALSE
