SPECIFICATION Spec
CONSTANTS
  n1 = n1
  n2 = n2
  n3 = n3
  NoNode = NoNode
  Node <- MCNode
  MaxPosition = 5
  Position <- MCPosition
  Key <- MCPosition
  KeyHash <- MCKeyHash
  VirtualNodes = 0
  DefaultVirtualNodes = 2
  Placements <- MCPlacements
SYMMETRY MCSymmetry
INVARIANTS
  TypeOK
  HashesMatchRing
  OwnersActive
  RoutesToActiveNode
  NearestOwner
  OwnPositionsKept
  StatsConsistent
  RingDeterminedByNodes
PROPERTIES
  AssignmentSpec
  AddMovesKeysOnlyToNewNode
