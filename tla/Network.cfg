SPECIFICATION Spec
CONSTANTS
  genesis = genesis
  b1 = b1
  b2 = b2
  c2 = c2
  d1 = d1
  p1 = p1
  p2 = p2
  h1 = h1
  h2 = h2
  x1 = x1
  x2 = x2
  y1 = y1
  x = x
  y = y
  None = None
  NoConn = NoConn
  NoSender = NoSender
  Conns = {x1, x2, y1}
  IdOf <- MCIdOf
  Trusted = {y1}
  maxPeers = 1
  MaxDrops = 1
  Mined = {m1, m2}
  Imported = {i1}
  Txs = {t1, t2}
  maxKnownBlocks = 4
  maxQueuedBlocks = 1
  maxQueuedBlockAnns = 1
  maxQueued = 2
  maxPacket = 1
  MaxTxEvents = 4
  Subscribers = {s1, s2}
  Senders = {p1, p2}
  Buffer = 1
  MaxSends = 1
  Subs = {s1, s2}
  Posters = {p1, p2}
  Calls = {1, 2, 3}
  kind <- MCKind
  unsubOf <- MCUnsubOf
  Deadline = {1}
  MaxConns = 3
  Filters = {1, 2}
  Push = {2}
  types <- MCTypes
  MaxEvents = 3
INVARIANTS
  BlocksSound TransactionsSound PeersSound BroadcastSound ServerSound ClientSound FiltersSound
PROPERTIES FeedSound MuxSound DiscoverySound
CHECK_DEADLOCK FALSE
