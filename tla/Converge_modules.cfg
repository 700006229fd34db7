\* Every module, with and without check mode, broken at every command.
SPECIFICATION Spec
CONSTANTS
  Cases <- AllCases
  MaxRuns = 3
INVARIANTS CheckPredicts Idempotent SuccessReachesTarget NoDebris
CHECK_DEADLOCK FALSE
