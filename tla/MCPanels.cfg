SPECIFICATION Spec
CONSTANTS
  TabIds = {t1, t2, t3}
  FirstTab = t1
  Null = Null
  server = server
  replica = replica
  file = file
  Conns = {server, replica, file}
  Sqlite = {file}
  SshConns = {}
  Databases <- MCDatabases
  DefaultDb <- MCDefaultDb
  Polls = {p1, p2}
  Texts = {x}
  Default = Default
  Blank = Blank
  Definition = Definition
  HistoryConns = {server, replica}
  Runs = {r}
  Reads = {k1, k2}
  Nobody = Nobody
  PlanNodes = 6
  MaxAnswers = 3
  NoSchema = NoSchema
  LargeSchemaThreshold = 2
  DiagramSchemas <- MCDiagramSchemas
  Items = {i1, i2, i3}
  MaxRows = 3
  NoItem = NoItem
  Views <- MCViews
  FilterLimit = 3
  NoSort = NoSort
  e1 = e1
  e2 = e2
  ExecCalls = {e1, e2}
  Requests <- MCRequests
  DefaultLimit = 3
  Sizes = {1, 2}
CHECK_DEADLOCK FALSE
INVARIANTS
  TypeOK
  ActivityLoadingExplained
  KillsWhereListed
  TextsKept
  HistoryOfActive
  PlanAccountsForRun
  DiagramShowsSelection
  CursorOnARow
  ViewIsOfRows
  
PROPERTIES
  PanelCatchesUp
