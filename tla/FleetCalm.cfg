CONSTANTS
  o1 = o1
  o2 = o2
  Nobody = Nobody
  Owners <- TwoOwners
  Runs <- OneRun
  N = 3
  RunnerMax = 2
  Window = 1
  Options <- CalmOptions
  MaxRetries = 1
  Faults <- NoFaults
SPECIFICATION CalmSpec
INVARIANTS PromisesKept
PROPERTIES RunsSettle
