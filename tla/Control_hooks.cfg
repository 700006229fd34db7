\* A chart that spells the hooks of its deploy phase pre_deploy and post_deploy.
SPECIFICATION Spec
CONSTANTS
  Scenes = {"fleet"}
  Procs = {p1, p2, p3}
  Recorders = {r1, r2}
  ChartNames = {"shop", "shopdb"}
  MaxCrashes = 1
  MaxTime = 3
  Jobs <- MCJobs
  Stored <- MCStored
  MaxChanges = 2
  Sources <- MCSources
  Additions <- MCAdditions
  Groupings <- MCGroupings
  MaxHosts = 9
  All = 0
  NoHost = 99
  HostKeys <- MCHostKeys
  MapKeys = {"o"}
  Carried <- MCCarried
  Secrets <- MCSecrets
  MaxFile = 8
  MaxTotal = 8
  FirstSite <- MCFirstSite
  LaterSites <- MCLaterSites
  Charts <- MCCharts
  Requests <- MCRequests
  Chartless = {6}
  Fleet = {5, 6}
  HookOf = "deploy"
INVARIANT PlanMeansRun
CHECK_DEADLOCK FALSE
