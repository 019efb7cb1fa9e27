SPECIFICATION Spec
CONSTANTS
  w1 = w1
  w2 = w2
  c1 = c1
  k1 = k1
  long = long
  cut = cut
  NoKey = NoKey
  Process <- MCProcess
  Trunc <- MCTrunc
  Worker = {w1, w2}
  Cron = {c1}
  Key = {NoKey, k1, long, cut}
  Ambiguous = TRUE
  MayRaise = TRUE
  BatchLimit = 2
  MaxEvents = 2
  MaxTasks = 1
  MaxFaults = 1
  MaxCrashes = 1
INVARIANTS
  TypeOK
  SentWasAccepted
  AcceptanceIsRecorded
  RetriesNotOvercounted
  CopiesBounded
PROPERTIES
  ImplementsContract
CHECK_DEADLOCK FALSE
