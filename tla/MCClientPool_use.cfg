\* Two goroutines compete for one connection per node while exchanges and dials
\* fail, and a node joins, a node leaves or the client is closed.
SPECIFICATION FairSpec
CONSTANTS
  n1 = n1
  n2 = n2
  k1 = k1
  k2 = k2
  t1 = t1
  t2 = t2
  Node <- MCNode
  NoNode = NoNode
  Position <- MCPosition
  VirtualNodes = 1
  DefaultVirtualNodes = 1
  Key <- MCKey
  NoKey = NoKey
  KeyHash <- MCKeyHash
  Placements <- MCPlacements
  Thread <- MCThread
  Pool = {1, 2, 3}
  NoPool = NoPool
  Conn = {1, 2, 3, 4, 5}
  NoConn = NoConn
  MaxConnsPerNode = 1
  RetryAttempts = 1
  InitialNodes = {n1}
  Changes = {"add", "remove", "close"}
  MaxChanges = 1
  MaxFaults = 2
INVARIANTS
  TypeOK
  PoolBound
  ConnExclusive
  HandedOutOpen
PROPERTY
  EveryCommandReturns
