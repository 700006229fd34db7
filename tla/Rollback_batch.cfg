\* Pairs of tasks on one host, on both or delegated, and three tasks on new
\* files of one host; any snapshot, change or replay may fail.
SPECIFICATION Spec
CONSTANTS
  h1 = h1
  h2 = h2
  None = None
  Batch <- BothHosts
  Before <- Tree
  Programs <- PairsAndRewrites
  Faults = TRUE
INVARIANT BatchUndone
