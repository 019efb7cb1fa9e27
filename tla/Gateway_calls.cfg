\* Three requests, a clock that turns under them, a routing file that changes.
CONSTANTS
  short = short  long1 = long1  long2 = long2  cut = cut
  Environments <- MCEnvironments
  Files <- MCFiles
  Requests <- MCRequests
  Name <- MCName
  Unset = Unset
  NoMode = NoMode
  Length <- MCLength
  CutTo <- MCCutTo
  Latencies = {1000, 2000}
  Codes = {302}
  Scale = 125
  MaxItems = 2
  MaxTime = 2
  MaxCalls = 3
  MaxEdits = 1
  MaxRestarts = 1
SPECIFICATION Spec
INVARIANTS TypeOK CacheHolds AnswerIsFresh AnswerIsOwn BestIsAsked FailsLast
CHECK_DEADLOCK FALSE
