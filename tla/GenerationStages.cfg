\* Four of the stages in a chain but for the last; three executions and requests
\* together, in each of which at most one producer fails, and one failure or
\* crash around them.  The ids of the two requests may be the same.
CONSTANTS
  worker = worker
  q1 = q1
  q2 = q2
  j1 = j1
  j2 = j2
  none = none
  Stages <- MCStages
  Deps <- MCDeps
  Reads <- MCReads
  Order <- MCOrder
  Package = "package_project"
  Root = "system_architecture"
  Worker = worker
  Requests = {q1, q2}
  Jobs = {j1, j2}
  None = none
  MaxAttempts = 2
  MaxRuns = 3
  MaxFailing = 1
  MaxFaults = 1
SPECIFICATION Spec
SYMMETRY Symmetry
INVARIANTS TypeOK InputsAreCurrent RetryKeepsResults PackageIsCurrent PlanAgreesWithRevision
PROPERTIES ImplementsLog
\* A plan that has ended and whose project nobody generates again stays as it is.
CHECK_DEADLOCK FALSE
