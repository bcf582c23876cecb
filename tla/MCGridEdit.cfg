SPECIFICATION Spec
CONSTANTS
  TabIds = {t1, t2}
  FirstTab = t1
  Null = Null
  Conns = {c}
  ReadOnlyConns = {}
  Answers = {a1, a2}
  Sets = {0}
  Rows = {1, 2}
  Cols = {x}
  DisplayOrders <- OneOrder
  Commits = {k1}
  MaxEdits = 2
SYMMETRY RunSymmetry
INVARIANTS
  TypeOK
  SentAsCaptured
  EveryRowTried
  ShownAsAccepted
PROPERTIES
  BackgroundEditsKept
