\* Two requests at a time, three turns, one failure or crash and one move of the
\* owner.
CONSTANTS
  t1 = t1
  t2 = t2
  none = none
  nokey = nokey
  Requests = {t1, t2}
  None = none
  NoKey = nokey
  Targets = {"gathering_context"}
  Specified = {2}
  MaxTurns = 3
  MaxEvents = 1
SPECIFICATION Spec
SYMMETRY Symmetry
INVARIANTS TypeOK WhatIsToldIsKept FailsForCause
PROPERTIES OneBuild
\* The turns are used up.
CHECK_DEADLOCK FALSE
