\* One server that crashes once and clients that execute the plan again.
CONSTANTS
  c1 = c1
  c2 = c2
  t1 = t1
  t2 = t2
  NumJobs = 2
  Graphs <- PairGraphs
  MaxConcurrency = 2
  Servers <- OneServer
  Detached = {}
  RetryTargets = {}
  UserTargets = {}
  MaxAttempt = 1
  MaxMoves = 9
  MaxCrashes = 2
SPECIFICATION FairSpec
PROPERTIES PlansEnd
CHECK_DEADLOCK FALSE
