\* A request cancels the plan that a detached thread executes.
CONSTANTS
  c1 = c1
  c2 = c2
  t1 = t1
  t2 = t2
  NumJobs = 2
  Graphs <- PairGraphs
  MaxConcurrency = 2
  Servers <- ServerWithThread
  Detached = {t1}
  RetryTargets = {}
  UserTargets = {}
  MaxAttempt = 1
  MaxMoves = 9
  MaxCrashes = 0
SPECIFICATION Spec
PROPERTIES CancellationIsFinal
CHECK_DEADLOCK FALSE
