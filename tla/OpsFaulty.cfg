SPECIFICATION OpsFairSpec
CONSTANTS
  Nothing = Nothing
  Kinds = {k1}
  Subjects = {s1}
  Jobs = {1, 2, 3}
  Replicas = {r1, r2}
  Agents = {a1}
  MaxFaults = 2
  Slow = TRUE
CHECK_DEADLOCK FALSE
INVARIANTS SoleExecutor EffectsAgree
PROPERTIES FinalIsFinal ControlPlaneSettles
