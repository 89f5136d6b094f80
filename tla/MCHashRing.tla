------------------------------ MODULE MCHashRing ------------------------------
(* Small instances of HashRing: every placement of the virtual nodes of three  *)
(* nodes on a short circle, and one key at every position of it.               *)
EXTENDS HashRing, TLC

CONSTANTS n1, n2, n3, MaxPosition

MCNode == {n1, n2, n3}

MCPosition == 0 .. MaxPosition

MCKeyHash == [k \in MCPosition |-> k]

MCPlacements == [MCNode -> [VNode -> MCPosition]]

MCSymmetry == Permutations(MCNode)
===============================================================================
