SPECIFICATION FairSpec
CONSTANTS
  Conns = {c, d}
  Calls = {k1, k2, k3}
  Null = Null
CHECK_DEADLOCK FALSE
INVARIANTS
  TypeOK
  LoneOpenIsSound
  LoadingExplained
PROPERTIES
  ReplacedByOwnId
  EveryCallSettles
