SPECIFICATION WorkspaceSpec
CONSTANTS
  t1 = t1
  t2 = t2
  c1 = c1
  c2 = c2
  d1 = d1
  d2 = d2
  d3 = d3
  Tables = {t1}
  Connections = {c1}
  ConnectionOf <- OneConnectionOf
  NoTable = NoTable
  MaxSQL = 1
  MaxEdits = 2
  MaxClicks = 8
  Databases = {d1}
  DatabaseOf <- OneDatabaseOf
  ProfileOf <- OneProfileOf
  NoProfile = NoProfile
  MaxTargets = 1
  MaxEditorClicks = 1
PROPERTIES ClosingAsks
CHECK_DEADLOCK FALSE
