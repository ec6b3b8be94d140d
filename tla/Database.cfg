SPECIFICATION WorkspaceSpec
CONSTANTS
  t1 = t1
  t2 = t2
  c1 = c1
  c2 = c2
  d1 = d1
  d2 = d2
  d3 = d3
  Tables = {t1, t2}
  Connections = {c1, c2}
  ConnectionOf <- MCConnectionOf
  NoTable = NoTable
  MaxSQL = 2
  MaxEdits = 2
  MaxClicks = 5
  Databases = {d1, d2, d3}
  DatabaseOf <- MCDatabaseOf
  ProfileOf <- MCProfileOf
  NoProfile = NoProfile
  MaxTargets = 2
  MaxEditorClicks = 1
 
PROPERTIES BusyEnds
CHECK_DEADLOCK FALSE
