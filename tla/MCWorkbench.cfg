SPECIFICATION Spec
CONSTANTS
  TabIds = {t1, t2}
  FirstTab = t1
  Null = Null
  server = server
  file = file
  main = main
  other = other
  Conns = {server, file}
  Sqlite = {file}
  SshConns = {server}
  Databases <- MCDatabases
  DefaultDb <- MCDefaultDb
  CacheLimit = 1
  Loads = {k1, k2}
  Slugs = {a, b}
  Users = {u}
  NoUser = NoUser
  Passwords = {p}
  Absent = Absent
  Import <- MCImport
  Minutes = {0, 15}
  Nothing = Nothing
  Ids = {i, j}
  Versions = {v}
  Missing = Missing
  Calls = {c1, c2}
CHECK_DEADLOCK FALSE
SYMMETRY Symmetry
CONSTRAINTS
  SchemaBound
  StoreBound
INVARIANTS
  TypeOK
  ShownIsActives
  SchemaLoadingExplained
  DroppedIsForgotten
  CacheBounded
  SavedWithItsSecret
  SettingsAreOnDisk
  LockArmed
  NoTornQuery
  LibraryIsDisk
PROPERTIES
  NoSecretOfAnother
  SavesOnlyEdits
