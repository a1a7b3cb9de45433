SPECIFICATION Spec
CONSTANTS
  Nothing = Nothing
  Kinds <- AllKinds
  Jobs = {1, 2, 3}
  Replicas = {}
  Agents = {a1}
  Subjects = {i1}
  Ports = {1, 2}
  MaxRequests = 2
  MaxSetbacks = 1
  MaxFaults = 1
  Slow = FALSE
  ServerMayGo = TRUE
  Dials = {"d", "f"}
  Forwarder = "f"
  Conns = {1, 2}
  HostKeys = {"k", "l"}
  MaxBreaks = 2
  MaxClock = 3
  MaxSets = 3
  Credential = {"c1", "c2"}
  Usernames = {"app"}
  Names = {"n1"}
  Processes = {1, 2}
  MaxTroubles = 1
  TwoSubjects = {i1, i2}
CONSTRAINT OneFailure
CHECK_DEADLOCK FALSE
INVARIANTS RevokedStaysOut InstancesAccounted
PROPERTIES InstancesSettle
