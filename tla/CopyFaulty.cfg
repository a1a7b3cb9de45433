SPECIFICATION CopyFairSpec
CONSTANTS
  Nothing = Nothing
  Kinds <- CopyKinds
  Jobs = {1, 2, 3, 4, 5, 6}
  Replicas = {r1}
  Agents = {a1}
  MaxFaults = 1
  Slow = FALSE
  Subjects = {c1}
  MaxDropAttempts = 2
  Lives = 2
  CopyFeatures = {"fail", "hasty"}
CHECK_DEADLOCK FALSE
 
PROPERTIES  CopiesEnd
