SPECIFICATION Spec
CONSTANTS
  Plans = {p1}
  Workers = {w1}
  Exprs <- Possible
  DayLength = 2
  MonthLength = 3
  WeekLength = 2
  DomLimit = 4
  SearchLimit = 12
  Horizon = 5
  MaxLosses = 1
  MaxRuns = 2
  Channels = {h1, h2}
  Sealed = {h1}
  Events = {1}
  Addressees = {{}, {h1}}
  Batch = 1
  MaxAttempts = 2
  MaxRequests = 1
  MaxTroubles = 1
  Rules = {k1}
  Hosts = {s1}
  Evaluators = {w1}
  Anywhere = Anywhere
  NoValue = NoValue
  Conditions <- TwoConditions
  Samples <- ThreeSamples
  ForTicks = 2
  LastTick = 5
  MaxRestarts = 1
  Structures = {"a", "b"}
  Torn = "torn"
  Unread = "never"
  Refreshers = {"r", "s"}
  Kinds = {"snapshot"}
  Keep = 1
  MaxChanges = 1
  MaxHistoryTroubles = 1
  Replicas = {"r", "s", "c"}
  Checkers = {"c"}
  Builds <- SomeBuilds
  Recorded = {1}
  MaxMishaps = 1
CHECK_DEADLOCK FALSE
INVARIANTS  AppliedOnce 
 
