\* What client.go:93 says of a pool's connections, when a node joins.
SPECIFICATION Spec
CONSTANTS
  n1 = n1
  n2 = n2
  k1 = k1
  k2 = k2
  t1 = t1
  t2 = t2
  Node <- MCNode
  NoNode = NoNode
  Position <- MCPosition
  VirtualNodes = 1
  DefaultVirtualNodes = 1
  Key <- MCKey
  NoKey = NoKey
  KeyHash <- MCKeyHash
  Placements <- MCPlacements
  Thread <- MCThread
  Pool = {1, 2}
  NoPool = NoPool
  Conn = {1, 2, 3, 4}
  NoConn = NoConn
  MaxConnsPerNode = 1
  RetryAttempts = 1
  InitialNodes = {n1}
  Changes = {"add"}
  MaxChanges = 1
  MaxFaults = 0
INVARIANT
  PoolOfOneNode
