\* Two operations, two bootstraps and ports, a rotation, two lost commands, a crash.
SPECIFICATION Spec
CONSTANTS
  MaxCalls = 2
  MaxBoots = 2
  Ports = 2
  MaxGen = 2
  MaxLapses = 2
  MaxCrashes = 1
CHECK_DEADLOCK FALSE
INVARIANT NothingStrays
PROPERTIES OnceUnderItsChain AgentsLeave
