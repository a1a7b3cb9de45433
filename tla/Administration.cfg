SPECIFICATION Spec
CONSTANTS
  u1 = u1
  u2 = u2
  p1 = p1
  p2 = p2
  r1 = r1
  t1 = t1
  g1 = g1
  g2 = g2
  i1 = i1
  i2 = i2
  d1 = d1
  d2 = d2
  b1 = b1
  j1 = j1
  j2 = j2
  j3 = j3
  Users <- TwoUsers
  Passwords <- TwoPasswords
  MaxEpoch = 1
  MaxSignIns = 1
  MaxUserEdits = 1
  Roles <- OneRole
  Tokens <- OneToken
  Srvs <- TheServers
  Insts <- TwoInstances
  Databs <- TwoDatabases
  Dumps <- OneDump
  Tasks <- ThreeTasks
  Home <- HomeOf
  Holder <- HolderOf
  Of <- DumpOf
  About <- TaskAbout
  RunsOn <- OnItsHome
  MaxGrants = 2
  Limit = 2
  Window = 2
  MaxTime = 3
  MaxChecks = 2
  MaxAttempts = 5
  Refs = {"a", "b"}
  Servers = {1, 2}
  ByCommand = TRUE
  MaxKeys = 3
  MaxPuts = 3
  MaxPasses = 3
  Universes <- ScriptUniverses
  Columns = {"a", "b", "c", "d"}
  Labels = {"a", "b", "c", "d"}
  Subjects = {"structure", "order", "labels", "column"}
  Engines = {"postgres", "mysql"}
  Tables <- TwoTables
  Requests <- OneOrTwo
  MaxOthers = 1
  IndexSets <- AllTables
  DropsUnused = FALSE
  MaxReports = 2
  GrantServers = {"postgres", "mysql"}
  Schemas = {"public", "other"}
  GrantRequests <- ReadCreateAll
  MaxCalls = 2
  MaxBreaks = 1
CHECK_DEADLOCK FALSE
INVARIANTS SessionKnowsPassword  SecretsStay   GrantsAreWhole
SYMMETRY Alike
