\* Any submissions, failing writes and one death of the process.
SPECIFICATION Spec
CONSTANTS
  r1 = r1
  r2 = r2
  p1 = p1
  p2 = p2
  None = None
  Runs = {r1, r2}
  Plans = {p1, p2}
  Clients = {c1, c2}
  Submissions <- MixedSubmissions
  Faults = TRUE
  Watchdogs = {"off"}
  MaxDeaths = 1
SYMMETRY Symmetry
INVARIANTS OneConvergence PlanHasOneRun SuccessIsReal
PROPERTY ImplementsLease
