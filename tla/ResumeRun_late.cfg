\* A host that joins in the second play.
SPECIFICATION Spec
CONSTANTS
  h1 = h1
  h2 = h2
  None = None
  Plans <- LateHost
  MaxCrashes = 1
  MaxFailures = 0
  TornWrites = FALSE
CHECK_DEADLOCK FALSE
INVARIANT DoneMeansApplied
