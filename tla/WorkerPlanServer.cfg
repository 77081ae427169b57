\* One serverless process: executions, cancellations and resets share a loop.
CONSTANTS
  c1 = c1
  c2 = c2
  t1 = t1
  t2 = t2
  NumJobs = 3
  Graphs <- OrderedGraphs
  MaxConcurrency = 2
  Servers <- OneServer
  Detached = {}
  RetryTargets = {}
  UserTargets = {"failed", "building", "cancelled"}
  MaxAttempt = 2
  MaxMoves = 5
  MaxCrashes = 1
SPECIFICATION Spec
SYMMETRY CallerSymmetry
INVARIANTS NeverStalls
PROPERTIES ImplementsWorkerPlan
\* A plan that has ended and is not executed again stays as it is.
CHECK_DEADLOCK FALSE
