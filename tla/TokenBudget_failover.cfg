SPECIFICATION BudgetSpec
CONSTANTS
  h1 = h1
  h2 = h2
  h3 = h3
  p1 = p1
  p2 = p2
  Home <- MCHome
  Handler = {h1, h2, h3}
  Process = {p1, p2}
  Tokens = {1, 2, 4}
  MaxPerRequest = 2
  MaxPerMinute = 3
  Minute = 2
  MaxTime = 4
  MaxCharges = 4
  MaxFaults = 2
  MaxRestarts = 1
INVARIANTS
  BudgetTypeOK
  BudgetHolds
CHECK_DEADLOCK FALSE
