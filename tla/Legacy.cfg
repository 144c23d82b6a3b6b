SPECIFICATION Spec
CONSTANTS
  c1 = c1
  c2 = c2
  Conns <- MCConns
  Names <- MCNames
  NamesFor <- MCNamesFor
  None = None
  MaxMessages = 2
  BroadcastCap = 1
  SendCap = 1
  HistoryLimit = 1
  MaxDrops = 1
INVARIANT TypeOK
INVARIANT RegisteredOpen
INVARIANT GaplessOrDropped
PROPERTY BrokenIsForgotten
CHECK_DEADLOCK FALSE
