\* What client.go:222 says of RemoveNode on a client in use.
SPECIFICATION Spec
CONSTANTS
  n1 = n1
  n2 = n2
  k1 = k1
  k2 = k2
  t1 = t1
  t2 = t2
  Node <- MCNode
  NoNode = NoNode
  Position <- MCPosition
  VirtualNodes = 1
  DefaultVirtualNodes = 1
  Key <- MCKey
  NoKey = NoKey
  KeyHash <- MCKeyHash
  Placements <- MCPlacements
  Thread <- MCThread
  Pool = {1, 2, 3}
  NoPool = NoPool
  Conn = {1, 2, 3, 4, 5}
  NoConn = NoConn
  MaxConnsPerNode = 1
  RetryAttempts = 0
  InitialNodes = {n1, n2}
  Changes = {"remove"}
  MaxChanges = 1
  MaxFaults = 0
INVARIANT
  NoPanic
