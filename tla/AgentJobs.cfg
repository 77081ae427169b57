\* Two requests under one job id, of the same or of two messages, and one
\* cancellation, for each kind of job and on both stores.
CONSTANTS
  r1 = r1
  r2 = r2
  m1 = m1
  m2 = m2
  Requests = {r1, r2}
  Messages = {m1, m2}
  Cancels = {c1}
  c1 = c1
  Backends = {"sqlite", "supabase"}
  Kinds = {"server", "agent", "frontend"}
  MaxFailures = 1
\* The requests are finitely many: when all have ended, the model stops.
CHECK_DEADLOCK FALSE
SPECIFICATION FairSpec
INVARIANTS TypeOK EffectsAtMostOnce ReplyAgreesWithRow CancelledLeavesNoProject CancelTakesEffect ProgressComplete
PROPERTIES ImplementsLifecycle EveryJobEnds
