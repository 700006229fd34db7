\* Canary, rolling and serial charts over three hosts.
SPECIFICATION FairSpec
CONSTANTS
  h1 = h1
  h2 = h2
  h3 = h3
  Hosts = {h1, h2, h3}
  Charts <- SmallCharts
  HandlerNames <- NotifyNames
  Forks = 2
INVARIANTS RolloutKept HandlersMatch
PROPERTIES UndoneOrKept MarkerMeansDone RunEnds
