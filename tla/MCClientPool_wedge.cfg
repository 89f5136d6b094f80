\* What client.go:1073 says of a pool at capacity.
SPECIFICATION Spec
CONSTANTS
  n1 = n1
  n2 = n2
  k1 = k1
  k2 = k2
  t1 = t1
  t2 = t2
  Node <- MCNode
  NoNode = NoNode
  Position <- MCPosition
  VirtualNodes = 1
  DefaultVirtualNodes = 1
  Key <- MCKey
  NoKey = NoKey
  KeyHash <- MCKeyHash
  Placements <- MCPlacements
  Thread <- MCThread
  Pool = {1, 2}
  NoPool = NoPool
  Conn = {1, 2, 3, 4}
  NoConn = NoConn
  MaxConnsPerNode = 1
  RetryAttempts = 1
  InitialNodes = {n1, n2}
  Changes = {}
  MaxChanges = 0
  MaxFaults = 1
INVARIANT
  CapacityIsUsed
