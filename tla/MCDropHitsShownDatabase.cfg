SPECIFICATION SchemaSpec
CONSTANTS
  TabIds = {t1, t2}
  FirstTab = t1
  Null = Null
  server = server
  file = file
  main = main
  other = other
  Conns = {server, file}
  Sqlite = {file}
  SshConns = {server}
  Databases <- MCDatabases
  DefaultDb <- MCDefaultDb
  CacheLimit = 1
  Loads = {k1, k2}
CHECK_DEADLOCK FALSE
CONSTRAINT SchemaBound
SYMMETRY LoadSymmetry
INVARIANT
  DropHitsShownDatabase
