SPECIFICATION Spec
CONSTANTS
  RowKeys = {1, 2}
  RowValues = {0, 1}
  Cols = {"a"}
  Shared = {"a"}
  Stored <- Table
  Backup <- Copy
  Undoers = {n1, n2}
  PageRows = 1
  MaxBatchUndo = 3
  MaxFaults = 1
  MaxEntries = 4
  MaxEdits = 2
  MaxUndos = 2
  Replica = {"a", "b"}
  Deployments <- OneOrTwo
  Request = {1, 2}
  ConsoleScripts <- OldAndNew
  MaxTroubles = 1
  PreviewKeys = {1, 2, 3}
  Values = {1, 2}
  Scripts <- ScriptsOfTwo
  SampleRows = 1
  MaxCommits = 1
  u1 = u1
  u2 = u2
  h1 = h1
  h2 = h2
  b1 = b1
  b2 = b2
  None = None
  Clients = {1}
  Dials = {1}
  Users = {u1, u2}
  Hosts = {h1, h2}
  Bastions = {b1}
  Inputs <- MCInputs
  MaxLoginTroubles = 1
CHECK_DEADLOCK FALSE
INVARIANTS UndoRestores ConsoleWorks  LoginsAreKept
