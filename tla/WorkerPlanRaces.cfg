\* A request races a detached thread, with retries of single jobs.
CONSTANTS
  c1 = c1
  t1 = t1
  NumJobs = 2
  Graphs <- PairGraphs
  MaxConcurrency = 2
  Servers <- ServerWithThread
  Detached = {t1}
  RetryTargets = {1}
  UserTargets = {}
  MaxAttempt = 2
  MaxMoves = 9
  MaxCrashes = 1
SPECIFICATION HistorySpec
INVARIANTS RequiredSucceedFirst VerdictsAreEarned EndsAreRecorded
CHECK_DEADLOCK FALSE
