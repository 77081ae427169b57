\* Two calls of the owner and two workers, up to three claims, two failures or
\* crashes, and one reader of the gallery.
CONSTANTS
  u1 = u1
  u2 = u2
  w1 = w1
  w2 = w2
  r1 = r1
  none = none
  Callers = {u1, u2}
  Workers = {w1, w2}
  Readers = {r1}
  None = none
  MaxCalls = 2
  MaxClaims = 3
  MaxFaults = 2
SPECIFICATION FairSpec
INVARIANTS ActiveIsWhole FailedIsIdle CacheIsCurrent NothingPendingIsLeft
PROPERTIES DueEnds
\* A project that is gone, or whose calls are used up, stays as it is.
CHECK_DEADLOCK FALSE
