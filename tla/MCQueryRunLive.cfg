SPECIFICATION FairSpec
CONSTANTS
  TabIds = {t1, t2}
  FirstTab = t1
  Null = Null
  Conns = {c}
  SshConns = {}
  ExplainConns = {}
  Runs = {r1, r2}
  AuditLogEnabled = FALSE
PROPERTY
  SpinnerLowered
