SPECIFICATION Spec
CONSTANTS
  c1 = c1
  c2 = c2
  b1 = b1
  h1 = h1
  h2 = h2
  p1 = p1
  p2 = p2
  Client = {c1, c2}
  Bucket = {b1}
  Label <- MCLabel
  Limit <- MCLimit
  Handler = {h1, h2}
  Process = {p1, p2}
  Home <- MCHome
  Window = 4
  Second = 2
  MaxDelay = 1
  MaxTime = 5
  MaxCalls = 3
  MaxCallsOf <- MCCallsOf
  MaxFaults = 2
  MaxRestarts = 1
SYMMETRY Symmetry
INVARIANTS
  TypeOK
  WindowHolds
  RefusedOnlyWhenCrowded
  RetryNeedsOneMoreSecond
CHECK_DEADLOCK FALSE
