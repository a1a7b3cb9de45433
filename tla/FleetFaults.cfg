CONSTANTS
  o1 = o1
  o2 = o2
  Nobody = Nobody
  Owners <- TwoOwners
  Runs <- OneRun
  N = 3
  RunnerMax = 2
  Window = 1
  Options <- WriteOptions
  MaxRetries = 1
  Faults <- CrashFaults
SPECIFICATION FaultsSpec
SYMMETRY OwnerSymmetry
CHECK_DEADLOCK FALSE
INVARIANTS FinishedIsOver OwnerConcurrency StartsAsRequested
PROPERTIES SuccessKept
