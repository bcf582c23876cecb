SPECIFICATION Spec
CONSTANTS
  TabIds = {t1}
  FirstTab = t1
  Null = Null
  Conns = {c, d}
  ReadOnlyConns = {d}
  Answers = {a1}
  Sets = {0}
  Rows = {1, 2}
  Cols = {x}
  DisplayOrders <- OneOrder
  Commits = {k1}
  MaxEdits = 2
INVARIANT
  ReadOnlyRespected
