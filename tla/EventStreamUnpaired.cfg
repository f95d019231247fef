SPECIFICATION Spec
CONSTANTS
  d1 = d1
  k1 = k1
  k2 = k2
  t1 = t1
  t2 = t2
  Clients = {d1}
  Topics = {t1}
  NoTopic = NoTopic
  All = All
  Others = Others
  Events <- PublishedOne
  Conns = {k1, k2}
  NoConn = NoConn
  HistoryLimit = 1
  QueueLimit = 1
  WireLimit = 1
  MaxSeq = 3
  MaxTroubles = 1
INVARIANT UnpairedOnlyIfRevoked
CHECK_DEADLOCK FALSE
