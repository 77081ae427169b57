\* Every graph over three jobs, with self-loops and two-cycles.
CONSTANTS
  NumJobs = 3
SPECIFICATION Spec
INVARIANTS AcceptsTheAcyclic
\* The algorithm ends.
CHECK_DEADLOCK FALSE
