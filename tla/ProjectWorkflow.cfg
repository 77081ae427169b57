\* Two racing calls of every kind; command and build keys are disjoint.
CONSTANTS
  c1 = c1
  c2 = c2
  k1 = k1
  k2 = k2
  NoKey = NoKey
  InitKey = InitKey
  Callers = {c1, c2}
  CommandKeys = {k1}
  BuildKeys = {k2}
  Targets = {"gathering_context", "ready_to_build", "building", "cancelled"}
  MaxRevision = 4
SPECIFICATION FairSpec
INVARIANTS HistoryIsChain KeyAppliedOnce AnswersAreDurable BuildsAreTransitions
PROPERTIES ImplementsMachine EveryCallReturns
\* A server that gets no further requests stops.
CHECK_DEADLOCK FALSE
