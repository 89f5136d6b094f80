---------------------------- MODULE KeyAssignment ----------------------------
(***************************************************************************)
(* What consistent hashing promises (package hash, consistent.go:3-5 and   *)
(* 18-21): every key belongs to one active node, a joining node only takes *)
(* keys for itself, and a leaving node only gives up the keys it had.      *)
(* Nothing is said of positions, virtual nodes or hash values: HashRing    *)
(* implements this module whenever no two nodes hash to one position.      *)
(***************************************************************************)
EXTENDS Naturals

CONSTANTS Node,    \* physical nodes ("host:port")
          Key,     \* cache keys
          NoNode   \* GetNode's empty string

VARIABLES members, \* the active nodes
          owner    \* the node each key is routed to

vars == <<members, owner>>

Init == /\ members = {}
        /\ owner = [k \in Key |-> NoNode]

Join(n) == /\ n \notin members
           /\ members' = members \cup {n}
           /\ owner' \in [Key -> Node]
           /\ \A k \in Key : owner'[k] \in {owner[k], n}

Leave(n) == /\ n \in members
            /\ members' = members \ {n}
            /\ owner' \in [Key -> Node \cup {NoNode}]
            /\ \A k \in Key :
                 IF owner[k] # n       THEN owner'[k] = owner[k]
                 ELSE IF members' = {} THEN owner'[k] = NoNode
                                       ELSE owner'[k] \in members'

Next == \E n \in Node : Join(n) \/ Leave(n)

Spec == Init /\ [][Next]_vars
==============================================================================
