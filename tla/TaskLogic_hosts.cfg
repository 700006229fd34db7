\* Blocks, loops, retries and charts, one inside the other.
SPECIFICATION Spec
CONSTANTS
  Tasks <- MCTasks
  Trees <- MCTrees
  Charts <- MCCharts
  MaxChartDepth = 2
  Selections <- MCSelections
CHECK_DEADLOCK FALSE
INVARIANTS AlwaysAttempted FailuresKnown HandlersHear
PROPERTY TaskEnds
