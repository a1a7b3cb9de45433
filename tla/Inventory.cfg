SPECIFICATION InventorySpec
CONSTANTS
  d1 = d1
  d2 = d2
  i1 = i1
  x1 = x1
  x2 = x2
  m1 = m1
  g1 = g1
  g2 = g2
  t1 = t1
  t2 = t2
  Dbs <- TwoRecords
  Places <- TwoPlaces
  Instances <- OneInstance
  InstanceOf <- Together
  InPlace = FALSE
  MaxErrands = 0
  MaxDeletes = 1
  MaxMoves = 1
  MaxUpsets = 1
  Machines <- OneMachine
  Servers <- TwoServers
  RegTokens <- TwoTokens
  MaxCalls = 2
  MaxBeats = 1
  MaxMishaps = 1
CHECK_DEADLOCK FALSE
INVARIANTS TokenEnrollsOnce
PROPERTIES LivesOn  
