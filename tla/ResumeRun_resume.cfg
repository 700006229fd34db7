\* A host's own plan or a relay's; deaths at any point, lines cut short, a failing task.
SPECIFICATION Spec
CONSTANTS
  h1 = h1
  h2 = h2
  None = None
  Plans <- Shards
  MaxCrashes = 2
  MaxFailures = 1
  TornWrites = TRUE
CHECK_DEADLOCK FALSE
INVARIANT DoneMeansApplied
PROPERTY NoRedo
