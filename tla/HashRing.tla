------------------------------- MODULE HashRing -------------------------------
(***************************************************************************)
(* pkg/hash/consistent.go: the consistent hash ring that every client uses *)
(* to route keys to nodes.  All methods run under c.mu, so each one is an  *)
(* atomic action.                                                          *)
(*                                                                         *)
(* SHA-256 truncated to 32 bits (hashKey) is an arbitrary function.  The   *)
(* positions of the virtual nodes, vhash, are chosen once in Init from     *)
(* Placements and never change, so that one run covers many hash           *)
(* functions, with colliding positions or without.  A key is represented   *)
(* by its own hash, KeyHash[k].                                            *)
(***************************************************************************)
EXTENDS Integers, FiniteSets, Functions

CONSTANTS Node,                 \* physical nodes ("host:port")
          NoNode,               \* the empty string GetNode returns
          Position,             \* the values a uint32 hash may take
          VirtualNodes,         \* the argument of New
          DefaultVirtualNodes,  \* consistent.go's constant (150)
          Key, KeyHash,         \* keys, and hashKey of each key
          Placements            \* the hash functions considered for vnodes

ReplicaCount == IF VirtualNodes <= 0 THEN DefaultVirtualNodes ELSE VirtualNodes

VNode == 0 .. ReplicaCount - 1

ASSUME HashRingAssumption ==
  /\ NoNode \notin Node
  /\ Position \subseteq Nat /\ IsFiniteSet(Position)
  /\ VirtualNodes \in Int
  /\ DefaultVirtualNodes \in Nat \ {0}
  /\ KeyHash \in [Key -> Position]
  /\ Placements \subseteq [Node -> [VNode -> Position]]

VARIABLES ring,          \* Position -> its node, NoNode where the map has no entry
          nodes,         \* the active nodes
          sortedHashes,  \* how often each position occurs in the sorted slice
          vhash          \* hashKey("node:i") of every virtual node

vars == <<ring, nodes, sortedHashes, vhash>>

-------------------------------------------------------------------------------
(* Lookup *)

Least(S) == CHOOSE p \in S : \A q \in S : p <= q

\* Wrong: a key at the very position of a virtual node goes to the next one.
SearchInAfter(S, h) ==
  LET after == {p \in S : p > h}
  IN  Least(IF after = {} THEN S ELSE after)

\* The first hash of the sorted slice S at or after h, wrapping to its head.
SearchIn(S, h) ==
  LET after == {p \in S : p >= h}
  IN  Least(IF after = {} THEN S ELSE after)

Hashes == {p \in Position : sortedHashes[p] > 0}

search(h) == SearchIn(Hashes, h)

RingEmpty == \A p \in Position : ring[p] = NoNode

GetNode(k) == IF RingEmpty THEN NoNode ELSE ring[search(KeyHash[k])]

GetNodes == nodes

-------------------------------------------------------------------------------
(* Changing the membership *)

Replicas(n) == {vhash[n][i] : i \in VNode}

\* Wrong: a position two nodes hash to is left to neither.
RingWithDroppingCollisions(n) ==
  [p \in Position |-> IF p \notin Replicas(n) THEN ring[p]
                      ELSE IF ring[p] = NoNode THEN n ELSE NoNode]

\* ring[hash] = node for every virtual node: an occupied position is overwritten.
RingWith(n) == [p \in Position |-> IF p \in Replicas(n) THEN n ELSE ring[p]]

\* Wrong: the loop skips virtual node 0.
HashesWithFromOne(n) ==
  [p \in Position |-> sortedHashes[p] + Cardinality({i \in VNode \ {0} : vhash[n][i] = p})]

\* append(sortedHashes, hash) for every virtual node, then the sort.
HashesWith(n) ==
  [p \in Position |-> sortedHashes[p] + Cardinality({i \in VNode : vhash[n][i] = p})]

\* Wrong: the loop skips virtual node 0.
RingWithoutFromOne(n) ==
  [p \in Position |-> IF p \in {vhash[n][i] : i \in VNode \ {0}} THEN NoNode ELSE ring[p]]

\* Wrong: what is deleted is what search finds for the hash, which is the entry of
\* another node when the one at the hash is gone.
RingWithoutSearching(n) ==
  [p \in Position |-> IF Hashes # {} /\ p \in {search(h) : h \in Replicas(n)}
                      THEN NoNode ELSE ring[p]]

\* delete(ring, hash) for every virtual node, whoever the position belongs to.
RingWithout(n) == [p \in Position |-> IF p \in Replicas(n) THEN NoNode ELSE ring[p]]

\* Wrong: one occurrence is taken off instead of all of them, or nothing is.
HashesInOneOff(r) ==
  [p \in Position |-> IF r[p] = NoNode THEN sortedHashes[p] - 1 ELSE sortedHashes[p]]

HashesInAll(r) == sortedHashes

\* The hashes kept are those that still have an entry in the ring.
HashesIn(r) == [p \in Position |-> IF r[p] = NoNode THEN 0 ELSE sortedHashes[p]]

Init == /\ ring = [p \in Position |-> NoNode]
        /\ nodes = {}
        /\ sortedHashes = [p \in Position |-> 0]
        /\ vhash \in Placements

AddNode(n) ==
  \/ /\ n \in nodes
     /\ UNCHANGED vars
  \/ /\ n \notin nodes
     /\ nodes' = nodes \cup {n}
     /\ ring' = RingWith(n)
     /\ sortedHashes' = HashesWith(n)
     /\ UNCHANGED vhash

\* Wrong: the sorted slice is not rebuilt.
RemoveNodeKeepingHashes(n) ==
  /\ n \in nodes
  /\ nodes' = nodes \ {n}
  /\ ring' = RingWithout(n)
  /\ UNCHANGED <<sortedHashes, vhash>>

RemoveNode(n) ==
  \/ /\ n \notin nodes
     /\ UNCHANGED vars
  \/ /\ n \in nodes
     /\ nodes' = nodes \ {n}
     /\ ring' = RingWithout(n)
     /\ sortedHashes' = HashesIn(ring')
     /\ UNCHANGED vhash

Next == \E n \in Node : AddNode(n) \/ RemoveNode(n)

Spec == Init /\ [][Next]_vars

-------------------------------------------------------------------------------
(* Monitoring *)

\* ring_size counts the slice with its duplicates, virtual_nodes the map.
Stats == [nodes         |-> Cardinality(nodes),
          virtual_nodes |-> Cardinality({p \in Position : ring[p] # NoNode}),
          ring_size     |-> SumFunction(sortedHashes)]

-------------------------------------------------------------------------------
(* What the ring keeps *)

\* The type of the ring's state.
TypeOK == /\ ring \in [Position -> Node \cup {NoNode}]
          /\ nodes \subseteq Node
          /\ sortedHashes \in [Position -> Nat]
          /\ vhash \in Placements

\* GetNode indexes the slice and looks the result up in the map without any
\* check (consistent.go:173): the slice and the map hold the same positions.
HashesMatchRing == \A p \in Position : ring[p] = NoNode <=> sortedHashes[p] = 0

\* No position is left to a node that was removed, and none is given to a node
\* that does not hash there, whatever overwrote or deleted it in between.
OwnersActive ==
  \A p \in Position : ring[p] # NoNode => ring[p] \in nodes /\ p \in Replicas(ring[p])

\* GetNode never names a node that is not active (consistent.go:144-145), and
\* finds one unless the map is empty.
RoutesToActiveNode ==
  \A k \in Key : IF RingEmpty THEN GetNode(k) = NoNode ELSE GetNode(k) \in GetNodes

\* From h clockwise, p is met before q.
Sooner(h, p, q) == IF (p >= h) = (q >= h) THEN p < q ELSE p >= h

\* A key belongs to the node at the first occupied position clockwise from its hash,
\* that position included, and beyond the largest one to the node at the smallest
\* (consistent.go:171-173, 200-208).
NearestOwner ==
  \A k \in Key, p \in Position :
    /\ ring[p] # NoNode
    /\ \A q \in Position : ring[q] # NoNode => ~ Sooner(KeyHash[k], q, p)
    => GetNode(k) = ring[p]

\* The positions no other node hashes to.
OwnPositions(n) == {p \in Replicas(n) : \A m \in Node \ {n} : p \notin Replicas(m)}

\* An active node may lose positions it shares with others, when they join or leave
\* (consistent.go:97, 131), but those that are its own it keeps.
OwnPositionsKept == \A n \in nodes : \A p \in OwnPositions(n) : ring[p] = n

\* No two nodes hash to the same position.
CollisionFree ==
  \A m, n \in Node : m # n => Replicas(m) \cap Replicas(n) = {}

\* The ring is a function of the set of active nodes, and not of the order in
\* which they were added and removed: without collisions, two clients that
\* know the same nodes route every key alike.
RingDeterminedByNodes ==
  CollisionFree =>
    \A p \in Position :
      IF \E n \in nodes : p \in Replicas(n) THEN /\ ring[p] \in nodes
                                                 /\ p \in Replicas(ring[p])
                                            ELSE ring[p] = NoNode

\* Every virtual node of every active node has a position of its own.
AllDistinct == \A m, n \in Node, i, j \in VNode :
                 vhash[m][i] = vhash[n][j] => m = n /\ i = j

\* Stats counts the virtual nodes of the active nodes (consistent.go:229-231);
\* with collisions the slice is at least as long as the map.
StatsConsistent ==
  /\ Stats.ring_size >= Stats.virtual_nodes
  /\ AllDistinct => /\ Stats.virtual_nodes = Stats.nodes * ReplicaCount
                    /\ Stats.ring_size = Stats.virtual_nodes

\* Adding a node moves keys to that node only (consistent.go:18-20), even when
\* it takes positions over from other nodes.
AddMovesKeysOnlyToNewNode ==
  [][\A k \in Key, n \in Node :
       n \in nodes' \ nodes => GetNode(k)' \in {GetNode(k), n}]_vars

\* The ring as an assignment of keys to nodes.
Assignment == INSTANCE KeyAssignment
                WITH members <- nodes, owner <- [k \in Key |-> GetNode(k)]

\* Without collisions the ring implements what consistent hashing promises; the
\* placement never changes.
AssignmentSpec == /\ CollisionFree => Assignment!Init
                  /\ [][CollisionFree => Assignment!Next]_(Assignment!vars)
===============================================================================
