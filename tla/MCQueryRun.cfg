SPECIFICATION Spec
CONSTANTS
  TabIds = {t1, t2}
  FirstTab = t1
  Null = Null
  Conns = {c}
  SshConns = {c}
  ExplainConns = {c}
  Runs = {r1, r2}
  AuditLogEnabled = TRUE
SYMMETRY RunSymmetry
INVARIANTS
  TypeOK
  ResultsFromOwnRun
  SpinnerExplained
  DisplayedResultsExpire
PROPERTIES
  DeliverySpec
  BackgroundTabsIsolated
