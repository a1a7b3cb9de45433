SPECIFICATION BackupsSpec
CONSTANTS
  Nothing = Nothing
  Kinds <- BackupKinds
  Jobs = {1, 2, 3, 4, 5}
  Replicas = {r1, r2}
  Agents = {}
  Server = Nothing
  MaxFaults = 1
  Slow = TRUE
  MaxRequests = 3
  Subjects = {b1}
  Features <- AllFeatures
CHECK_DEADLOCK FALSE
INVARIANTS BackupsAccounted
PROPERTIES OpsSpec ExpiredIsPruned
