\* Two racing requests on SQLite; polls and completions are lost, leases expire.
\* The bound on leases is met by a lease that neither expires nor is lost.
CONSTANTS
  p1 = p1
  p2 = p2
  r1 = r1
  NumCommands = 1
  Callers = {p1, p2}
  Reports = {}
  Outcomes = {"succeeded", "failed"}
  PageLimit = 1
  Backend = "sqlite"
  Cancellable = FALSE
  MaxLeases = 2
  MaxCrashes = 1
SPECIFICATION FairSpec
INVARIANTS TypeOK
PROPERTIES TerminalIsFinal CommandsEnd
