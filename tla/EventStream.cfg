SPECIFICATION Spec
CONSTANTS
  d1 = d1
  k1 = k1
  k2 = k2
  t1 = t1
  t2 = t2
  Clients = {d1}
  Topics = {t1, t2}
  NoTopic = NoTopic
  All = All
  Others = Others
  Events <- Published
  Conns = {k1, k2}
  NoConn = NoConn
  HistoryLimit = 2
  QueueLimit = 1
  WireLimit = 2
  MaxSeq = 3
  MaxTroubles = 1
SYMMETRY Perms
INVARIANTS TypeOK ShownAtCursor AfterCursorChain RevokedHearsNothing
PROPERTIES Mirrors
CHECK_DEADLOCK FALSE
