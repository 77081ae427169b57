\* Two racing requests on Supabase; a session that may be cancelled and one lease.
CONSTANTS
  p1 = p1
  p2 = p2
  r1 = r1
  NumCommands = 1
  Callers = {p1, p2}
  Reports = {r1}
  Outcomes = {"succeeded"}
  PageLimit = 1
  Backend = "supabase"
  Cancellable = TRUE
  MaxLeases = 1
  MaxCrashes = 1
SPECIFICATION Spec
SYMMETRY CallerSymmetry
INVARIANTS ReaderMissesNothing
