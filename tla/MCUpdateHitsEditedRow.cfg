SPECIFICATION Spec
CONSTANTS
  TabIds = {t1}
  FirstTab = t1
  Null = Null
  Conns = {c}
  ReadOnlyConns = {}
  Answers = {a1}
  Sets = {0}
  Rows = {1, 2}
  Cols = {x}
  DisplayOrders <- TwoOrders
  Commits = {k1}
  MaxEdits = 2
INVARIANT
  UpdateHitsEditedRow
