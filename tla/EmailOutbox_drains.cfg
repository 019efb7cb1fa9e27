SPECIFICATION FairSpec
CONSTANTS
  w1 = w1
  w2 = w2
  c1 = c1
  k1 = k1
  long = long
  cut = cut
  NoKey = NoKey
  Process <- MCProcess
  Trunc <- MCTrunc
  Worker = {w1}
  Cron = {c1}
  Key = {NoKey, k1}
  Ambiguous = TRUE
  MayRaise = FALSE
  BatchLimit = 1
  MaxEvents = 2
  MaxTasks = 1
  MaxFaults = 2
  MaxCrashes = 1
PROPERTIES
  QueueDrains
CHECK_DEADLOCK FALSE
