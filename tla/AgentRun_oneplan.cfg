\* One plan, resident or not, two control hosts, no failing write, one crash.
SPECIFICATION FairSpec
CONSTANTS
  r1 = r1
  r2 = r2
  p1 = p1
  p2 = p2
  None = None
  Runs = {r1}
  Plans = {p1}
  Clients = {c1, c2}
  Submissions <- OnePlan
  Faults = FALSE
  Watchdogs = {"off", "ticking"}
  MaxDeaths = 1
INVARIANT SaysTheTruth
PROPERTIES WatchdogSparesRun RunsEnd
