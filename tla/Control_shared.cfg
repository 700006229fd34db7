\* Three processes on one CA, two on the records, two changes of an inventory, up to nine hosts,
\* and a chart deployed, upgraded and uninstalled on two hosts, directly and by plans.
SPECIFICATION Spec
CONSTANTS
  Scenes = {"ca", "records", "inventory", "batches", "fleet"}
  Procs = {p1, p2, p3}
  Recorders = {r1, r2}
  ChartNames = {"shop", "shopdb"}
  MaxCrashes = 1
  MaxTime = 3
  Jobs <- MCJobs
  Stored <- MCStored
  MaxChanges = 2
  Sources <- MCSources
  Additions <- MCAdditions
  Groupings <- MCGroupings
  MaxHosts = 9
  All = 0
  NoHost = 99
  HostKeys <- MCHostKeys
  MapKeys = {"o"}
  Carried <- MCCarried
  Secrets <- MCSecrets
  MaxFile = 8
  MaxTotal = 8
  FirstSite <- MCFirstSite
  LaterSites <- MCLaterSites
  Charts <- MCCharts
  Requests <- MCRequests
  Chartless = {6}
  Fleet = {5, 6}
  HookOf = "install"
INVARIANTS
  SameChain
  RecordsAgree
  NearestWins
  SelectionIsCurrent
  BatchesAsAsked
  UninstallMatches
  DriftIsTrue
  UserIsTold
  PlanMeansRun
PROPERTIES
  LoadersEnd
  ShardsCover
CHECK_DEADLOCK FALSE
