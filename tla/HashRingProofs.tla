---------------------------- MODULE HashRingProofs ----------------------------
(***************************************************************************)
(* Theorems of HashRing for every number of nodes and virtual nodes, every *)
(* hash function and every circle of positions.                            *)
(***************************************************************************)
EXTENDS HashRing, Sums

-------------------------------------------------------------------------------
(* Lookup *)

\* A nonempty set of numbers has a least element, and Least finds it.
LEMMA LeastIsMinimum ==
  ASSUME NEW S \in SUBSET Nat, S # {}
  PROVE  Least(S) \in S /\ \A q \in S : Least(S) <= q
<1>1. PICK x \in S : \A y \in S : ~ (<<y, x>> \in OpToRel(<, Nat))
  BY NatLessThanWellFounded, WFMin
<1>2. \A y \in S : x <= y
  <2>1. SUFFICES ASSUME NEW y \in S, y < x PROVE FALSE
    BY S \subseteq Nat
  <2>2. <<y, x>> \in OpToRel(<, Nat)
    BY <2>1, S \subseteq Nat DEF OpToRel
  <2>. QED  BY <1>1, <2>2
<1>. QED  BY <1>2 DEF Least

\* search returns a position of the slice.
LEMMA SearchFindsMember ==
  ASSUME NEW S \in SUBSET Nat, S # {}, NEW h \in Nat
  PROVE  SearchIn(S, h) \in S
<1>. DEFINE after == {p \in S : p >= h}
<1>1. CASE after = {}
  BY <1>1, LeastIsMinimum DEF SearchIn
<1>2. CASE after # {}
  BY <1>2, LeastIsMinimum, after \in SUBSET Nat, after \subseteq S DEF SearchIn
<1>. QED  BY <1>1, <1>2

\* Dropping positions other than the one found does not change what search finds.
LEMMA SearchInSubset ==
  ASSUME NEW T \in SUBSET Nat, NEW S \in SUBSET T, NEW h \in Nat,
         SearchIn(T, h) \in S
  PROVE  SearchIn(S, h) = SearchIn(T, h)
<1>. DEFINE afterT == {p \in T : p >= h}
            afterS == {p \in S : p >= h}
<1>0. S # {} /\ T # {} /\ S \in SUBSET Nat /\ afterS \subseteq afterT
  OBVIOUS
<1>1. CASE afterT = {}
  <2>1. afterS = {} /\ SearchIn(T, h) = Least(T) /\ SearchIn(S, h) = Least(S)
    BY <1>0, <1>1 DEF SearchIn
  <2>2. /\ Least(T) \in T /\ \A q \in T : Least(T) <= q
        /\ Least(S) \in S /\ \A q \in S : Least(S) <= q
    BY <1>0, LeastIsMinimum
  <2>3. Least(T) <= Least(S) /\ Least(S) <= Least(T)
    BY <1>0, <2>1, <2>2
  <2>4. Least(T) \in Nat /\ Least(S) \in Nat
    BY <1>0, <2>2
  <2>. QED  BY <2>1, <2>3, <2>4
<1>2. CASE afterT # {}
  <2>1. SearchIn(T, h) = Least(afterT)
    BY <1>2 DEF SearchIn
  <2>2. Least(afterT) \in afterT /\ \A q \in afterT : Least(afterT) <= q
    BY <1>2, LeastIsMinimum, afterT \in SUBSET Nat
  <2>3. afterS # {} /\ SearchIn(S, h) = Least(afterS)
    BY <2>1, <2>2 DEF SearchIn
  <2>4. Least(afterS) \in afterS /\ \A q \in afterS : Least(afterS) <= q
    BY <2>3, LeastIsMinimum, afterS \in SUBSET Nat
  <2>5. Least(afterT) <= Least(afterS) /\ Least(afterS) <= Least(afterT)
    BY <1>0, <2>1, <2>2, <2>4
  <2>6. Least(afterT) \in Nat /\ Least(afterS) \in Nat
    BY <1>0, <2>2, <2>4
  <2>. QED  BY <2>1, <2>3, <2>5, <2>6
<1>. QED  BY <1>1, <1>2

-------------------------------------------------------------------------------
(* The inductive invariant *)

\* A number of virtual nodes is a natural number.
LEMMA OccurrencesNat ==
  ASSUME HashRingAssumption, NEW f \in [VNode -> Position], NEW p \in Position
  PROVE  /\ Cardinality({i \in VNode : f[i] = p}) \in Nat
         /\ Cardinality({i \in VNode : f[i] = p}) = 0 <=> \A i \in VNode : f[i] # p
<1>. DEFINE S == {i \in VNode : f[i] = p}
<1>1. IsFiniteSet(VNode)
  BY FS_Interval DEF VNode, ReplicaCount, HashRingAssumption
<1>2. IsFiniteSet(S)
  BY <1>1, FS_Subset, S \subseteq VNode
<1>3. Cardinality(S) \in Nat /\ (Cardinality(S) = 0 <=> S = {})
  BY <1>2, FS_CardinalityType, FS_EmptySet
<1>. QED  BY <1>3

\* What every step preserves whatever the hash function is.
RingInv == TypeOK /\ HashesMatchRing /\ OwnersActive

LEMMA InitRingInv == Init => RingInv
BY HashRingAssumption
DEF Init, RingInv, TypeOK, HashesMatchRing, OwnersActive, HashRingAssumption

LEMMA AddNodeRingInv ==
  ASSUME RingInv, NEW n \in Node, AddNode(n)
  PROVE  RingInv'
<1>. USE HashRingAssumption DEF RingInv
<1>1. CASE UNCHANGED vars
  BY <1>1 DEF vars, TypeOK, HashesMatchRing, OwnersActive, Replicas
<1>2. CASE ~ UNCHANGED vars
  <2>1. /\ nodes' = nodes \cup {n} /\ vhash' = vhash
        /\ ring' = RingWith(n) /\ sortedHashes' = HashesWith(n)
    BY <1>2 DEF AddNode
  <2>2. vhash[n] \in [VNode -> Position]
    BY DEF TypeOK, HashRingAssumption
  <2>3. \A p \in Position :
          /\ sortedHashes'[p] = sortedHashes[p]
                                  + Cardinality({i \in VNode : vhash[n][i] = p})
          /\ Cardinality({i \in VNode : vhash[n][i] = p}) \in Nat
          /\ Cardinality({i \in VNode : vhash[n][i] = p}) = 0 <=> p \notin Replicas(n)
    BY <2>1, <2>2, OccurrencesNat DEF HashesWith, Replicas
  <2>4. TypeOK'
    BY <2>1, <2>3 DEF TypeOK, RingWith, HashesWith
  <2>5. HashesMatchRing'
    <3>. SUFFICES ASSUME NEW p \in Position
                  PROVE  ring'[p] = NoNode <=> sortedHashes'[p] = 0
      BY DEF HashesMatchRing
    <3>1. sortedHashes[p] \in Nat
      BY DEF TypeOK
    <3>2. ring[p] = NoNode <=> sortedHashes[p] = 0
      BY DEF HashesMatchRing
    <3>3. ring'[p] = IF p \in Replicas(n) THEN n ELSE ring[p]
      BY <2>1 DEF RingWith
    <3>4. n # NoNode
      BY DEF HashRingAssumption
    <3>. DEFINE c == Cardinality({i \in VNode : vhash[n][i] = p})
    <3>5. /\ sortedHashes'[p] = sortedHashes[p] + c /\ c \in Nat
          /\ c = 0 <=> p \notin Replicas(n)
      BY <2>3
    <3>. HIDE DEF c
    <3>6. sortedHashes'[p] = 0 <=> sortedHashes[p] = 0 /\ c = 0
      BY <3>1, <3>5
    <3>. QED  BY <3>2, <3>3, <3>4, <3>5, <3>6
  <2>6. OwnersActive'
    BY <2>1 DEF OwnersActive, RingWith, Replicas
  <2>. QED  BY <2>4, <2>5, <2>6
<1>. QED  BY <1>1, <1>2

LEMMA RemoveNodeRingInv ==
  ASSUME RingInv, NEW n \in Node, RemoveNode(n)
  PROVE  RingInv'
<1>. USE HashRingAssumption DEF RingInv
<1>1. CASE UNCHANGED vars
  BY <1>1 DEF vars, TypeOK, HashesMatchRing, OwnersActive, Replicas
<1>2. CASE ~ UNCHANGED vars
  <2>1. /\ nodes' = nodes \ {n} /\ vhash' = vhash
        /\ ring' = RingWithout(n) /\ sortedHashes' = HashesIn(ring')
    BY <1>2 DEF RemoveNode
  <2>2. TypeOK'
    BY <2>1 DEF TypeOK, RingWithout, HashesIn
  <2>3. HashesMatchRing'
    <3>. SUFFICES ASSUME NEW p \in Position
                  PROVE  ring'[p] = NoNode <=> sortedHashes'[p] = 0
      BY DEF HashesMatchRing
    <3>1. sortedHashes'[p] = IF ring'[p] = NoNode THEN 0 ELSE sortedHashes[p]
      BY <2>1 DEF HashesIn
    <3>2. ring'[p] = IF p \in Replicas(n) THEN NoNode ELSE ring[p]
      BY <2>1 DEF RingWithout
    <3>. QED  BY <3>1, <3>2 DEF HashesMatchRing
  <2>4. OwnersActive'
    \* What n still owned was at one of its own positions, all of which are deleted.
    BY <2>1 DEF OwnersActive, RingWithout, Replicas, TypeOK
  <2>. QED  BY <2>2, <2>3, <2>4
<1>. QED  BY <1>1, <1>2

\* The slice and the map hold the same positions, and every entry belongs to
\* an active node, for every hash function and any history of AddNode and
\* RemoveNode (consistent.go:86-141).
THEOREM RingInvariant == Spec => []RingInv
<1>1. RingInv /\ [Next]_vars => RingInv'
  <2>1. RingInv /\ UNCHANGED vars => RingInv'
    BY DEF RingInv, vars, TypeOK, HashesMatchRing, OwnersActive, Replicas
  <2>. QED  BY <2>1, AddNodeRingInv, RemoveNodeRingInv DEF Next
<1>. QED  BY <1>1, InitRingInv, PTL DEF Spec

\* The map holds nodes and the slice counts occurrences, never below zero, whatever
\* collides (consistent.go:88-134).
THEOREM RingAlwaysTyped == Spec => []TypeOK
BY RingInvariant, PTL DEF RingInv

\* GetNode's unchecked index into the slice and lookup in the map always succeed
\* (consistent.go:171-173).
THEOREM HashesAlwaysMatchRing == Spec => []HashesMatchRing
BY RingInvariant, PTL DEF RingInv

\* Entries of the map belong to active nodes, also after collisions and the removal
\* of a node that shared a position (consistent.go:128-132).
THEOREM OwnersAlwaysActive == Spec => []OwnersActive
BY RingInvariant, PTL DEF RingInv

-------------------------------------------------------------------------------
(* Routing *)

\* The positions of the slice are those of the map.
SliceIsMap == /\ Hashes = {p \in Position : ring[p] # NoNode}
              /\ Hashes \in SUBSET Nat
              /\ RingEmpty <=> Hashes = {}

LEMMA HashesOfRing == RingInv => SliceIsMap
<1>. SUFFICES ASSUME RingInv PROVE SliceIsMap
  OBVIOUS
<1>1. \A p \in Position : sortedHashes[p] > 0 <=> ring[p] # NoNode
  <2>. SUFFICES ASSUME NEW p \in Position
                PROVE  sortedHashes[p] > 0 <=> ring[p] # NoNode
    OBVIOUS
  <2>1. sortedHashes[p] \in Nat /\ (ring[p] = NoNode <=> sortedHashes[p] = 0)
    BY DEF RingInv, TypeOK, HashesMatchRing
  <2>. QED  BY <2>1
<1>2. Hashes = {p \in Position : ring[p] # NoNode}
  BY <1>1 DEF Hashes
<1>3. Hashes \in SUBSET Nat
  BY HashRingAssumption DEF Hashes, HashRingAssumption
<1>. QED  BY <1>2, <1>3 DEF SliceIsMap, RingEmpty

\* A lookup in a ring that is not empty finds an entry of the map.
LookupSucceeds ==
  ~ RingEmpty => \A k \in Key : /\ search(KeyHash[k]) \in Hashes
                                /\ GetNode(k) = ring[search(KeyHash[k])]
                                /\ GetNode(k) \in nodes

LEMMA LookupFindsEntry == RingInv => LookupSucceeds
<1>. SUFFICES ASSUME RingInv, ~ RingEmpty, NEW k \in Key
              PROVE  /\ search(KeyHash[k]) \in Hashes
                     /\ GetNode(k) = ring[search(KeyHash[k])]
                     /\ GetNode(k) \in nodes
  BY DEF LookupSucceeds
<1>1. KeyHash[k] \in Nat
  BY HashRingAssumption DEF HashRingAssumption
<1>2. search(KeyHash[k]) \in Hashes
  BY <1>1, HashesOfRing, SearchFindsMember DEF search, SliceIsMap
<1>3. GetNode(k) = ring[search(KeyHash[k])]
  BY DEF GetNode
<1>. QED  BY <1>2, <1>3, HashesOfRing DEF RingInv, OwnersActive, SliceIsMap

\* GetNode never names a removed node and never misses the map, whatever the
\* hash function does (consistent.go:163-174).
THEOREM RoutesAlwaysActive == Spec => []RoutesToActiveNode
<1>1. RingInv => RoutesToActiveNode
  BY LookupFindsEntry DEF LookupSucceeds, RoutesToActiveNode, GetNode, GetNodes
<1>. QED  BY <1>1, RingInvariant, PTL

\* No position of the slice is met sooner than the one search finds.
LEMMA SearchFindsFirst ==
  ASSUME NEW S \in SUBSET Nat, NEW h \in Nat, NEW p \in S
  PROVE  SearchIn(S, h) \in S /\ ~ Sooner(h, p, SearchIn(S, h))
<1>. DEFINE after == {q \in S : q >= h}
<1>1. CASE after = {}
  <2>1. SearchIn(S, h) = Least(S) /\ ~ (p >= h)
    BY <1>1 DEF SearchIn
  <2>2. Least(S) \in S /\ Least(S) \in Nat /\ Least(S) <= p /\ ~ (Least(S) >= h)
    BY <1>1, LeastIsMinimum
  <2>3. Sooner(h, p, Least(S)) <=> p < Least(S)
    BY <2>1, <2>2 DEF Sooner
  <2>. QED  BY <2>1, <2>2, <2>3
<1>2. CASE after # {}
  <2>1. SearchIn(S, h) = Least(after)
    BY <1>2 DEF SearchIn
  <2>2. Least(after) \in after /\ \A q \in after : Least(after) <= q
    BY <1>2, LeastIsMinimum, after \in SUBSET Nat
  <2>3. /\ Least(after) \in S /\ Least(after) \in Nat /\ Least(after) >= h
        /\ p >= h => Least(after) <= p
    BY <2>2
  <2>. QED  BY <2>1, <2>3 DEF Sooner
<1>. QED  BY <1>1, <1>2

\* GetNode finds the nearest owner clockwise, the wrap around the circle included,
\* whatever was added and removed before (consistent.go:163-174, 200-208).
THEOREM NearestAlwaysFound == Spec => []NearestOwner
<1>1. RingInv => NearestOwner
  <2>. SUFFICES ASSUME RingInv, NEW k \in Key, NEW p \in Position, ring[p] # NoNode,
                       \A q \in Position : ring[q] # NoNode => ~ Sooner(KeyHash[k], q, p)
                PROVE  GetNode(k) = ring[p]
    BY DEF NearestOwner
  <2>. DEFINE h == KeyHash[k]
              s == SearchIn(Hashes, h)
  <2>1. h \in Nat /\ SliceIsMap
    BY HashesOfRing, HashRingAssumption DEF HashRingAssumption
  <2>2. p \in Hashes /\ Hashes \in SUBSET Nat
    BY <2>1 DEF SliceIsMap
  <2>3. s \in Hashes /\ ~ Sooner(h, p, s)
    BY <2>1, <2>2, SearchFindsFirst
  <2>4. s \in Position /\ ring[s] # NoNode
    BY <2>1, <2>3 DEF SliceIsMap
  <2>5. ~ Sooner(h, s, p)
    BY <2>4
  <2>6. s \in Nat /\ p \in Nat
    BY <2>2, <2>3
  <2>7. GetNode(k) = ring[s]
    BY DEF GetNode, RingEmpty, search
  <2>. HIDE DEF s, h
  <2>8. s = p
    BY <2>1, <2>3, <2>5, <2>6 DEF Sooner
  <2>. QED  BY <2>7, <2>8
<1>. QED  BY <1>1, RingInvariant, PTL

\* An active node keeps the positions no other node hashes to, through every history
\* of AddNode and RemoveNode: only a collision can cost it one (consistent.go:86-141).
THEOREM OwnPositionsAlwaysKept == Spec => []OwnPositionsKept
<1>. DEFINE OwnInv == RingInv /\ OwnPositionsKept
<1>1. Init => OwnInv
  BY InitRingInv DEF Init, OwnPositionsKept
<1>2. OwnInv /\ [Next]_vars => OwnInv'
  <2>. SUFFICES ASSUME OwnInv, [Next]_vars PROVE OwnInv'
    OBVIOUS
  <2>1. RingInv'
    BY AddNodeRingInv, RemoveNodeRingInv
    DEF RingInv, Next, vars, TypeOK, HashesMatchRing, OwnersActive, Replicas
  <2>2. nodes \subseteq Node /\ \A n \in Node : Replicas(n) \subseteq Position
    BY HashRingAssumption DEF RingInv, TypeOK, HashRingAssumption, Replicas
  <2>3. CASE UNCHANGED vars
    BY <2>1, <2>3 DEF vars, OwnPositionsKept, OwnPositions, Replicas
  <2>4. ASSUME NEW n \in Node, vhash' = vhash,
               \/ nodes' = nodes \cup {n} /\ ring' = RingWith(n)
               \/ nodes' = nodes \ {n} /\ ring' = RingWithout(n)
        PROVE  OwnPositionsKept'
    <3>. SUFFICES ASSUME NEW m \in nodes', NEW p \in OwnPositions(m)'
                  PROVE  ring'[p] = m
      BY DEF OwnPositionsKept
    <3>1. p \in OwnPositions(m) /\ p \in Replicas(m) /\ m \in Node /\ p \in Position
      BY <2>2, <2>4 DEF OwnPositions, Replicas
    <3>2. CASE m = n
      BY <2>4, <3>1, <3>2 DEF RingWith
    <3>3. CASE m # n
      <4>1. m \in nodes /\ ring[p] = m
        BY <2>4, <3>1, <3>3 DEF OwnPositionsKept
      <4>2. p \notin Replicas(n)
        BY <3>1, <3>3 DEF OwnPositions
      <4>. QED  BY <2>4, <3>1, <4>1, <4>2 DEF RingWith, RingWithout
    <3>. QED  BY <3>2, <3>3
  <2>5. CASE Next /\ ~ UNCHANGED vars
    BY <2>1, <2>4, <2>5 DEF Next, AddNode, RemoveNode
  <2>. QED  BY <2>3, <2>5
<1>. QED  BY <1>1, <1>2, PTL DEF Spec

\* The ring after AddNode, for a key: either the new node takes it or search
\* finds the entry it found before.
LEMMA AddNodeRoutes ==
  ASSUME RingInv, NEW n \in Node, n \notin nodes, AddNode(n), NEW k \in Key
  PROVE  GetNode(k)' \in {GetNode(k), n}
<1>. DEFINE h == KeyHash[k]
<1>1. RingInv' /\ h \in Nat
  BY AddNodeRingInv, HashRingAssumption DEF HashRingAssumption
<1>2. /\ RingInv' => SliceIsMap'
      /\ RingInv' => LookupSucceeds'
  BY HashesOfRing, LookupFindsEntry, PTL
<1>3. SliceIsMap /\ SliceIsMap' /\ LookupSucceeds /\ LookupSucceeds'
  BY <1>1, <1>2, HashesOfRing, LookupFindsEntry
<1>4. \A p \in Position : ring'[p] = IF p \in Replicas(n) THEN n ELSE ring[p]
  BY DEF AddNode, RingWith, vars
<1>5. CASE RingEmpty'
  \* Then the ring was empty before as well: AddNode deletes nothing.
  <2>1. n # NoNode
    BY HashRingAssumption DEF HashRingAssumption
  <2>2. RingEmpty
    BY <1>4, <1>5, <2>1 DEF RingEmpty
  <2>. QED  BY <1>5, <2>2 DEF GetNode
<1>6. CASE ~ RingEmpty'
  <2>. DEFINE p == SearchIn(Hashes', h)
  <2>1. p \in Hashes' /\ GetNode(k)' = ring'[p]
    BY <1>3, <1>6 DEF LookupSucceeds, search
  <2>2. p \in Position
    BY <2>1 DEF Hashes
  <2>. HIDE DEF p
  <2>3. CASE p \in Replicas(n)
    BY <1>4, <2>1, <2>2, <2>3
  <2>4. CASE p \notin Replicas(n)
    <3>1. ring'[p] = ring[p] /\ ring[p] # NoNode
      BY <1>3, <1>4, <2>1, <2>2, <2>4 DEF SliceIsMap
    <3>2. p \in Hashes /\ ~ RingEmpty
      BY <1>3, <2>2, <3>1 DEF SliceIsMap, RingEmpty
    <3>3. Hashes \subseteq Hashes'
      BY <1>3, <1>4, HashRingAssumption DEF SliceIsMap, HashRingAssumption
    <3>4. SearchIn(Hashes, h) = p
      BY <1>1, <1>3, <3>2, <3>3, SearchInSubset DEF SliceIsMap, p
    <3>. QED  BY <2>1, <3>1, <3>2, <3>4 DEF GetNode, search
  <2>. QED  BY <2>3, <2>4
<1>. QED  BY <1>5, <1>6

\* Adding a node moves keys to that node only, even when its virtual nodes take
\* positions over from others (consistent.go:86-104).
THEOREM AddMovesKeys == Spec => AddMovesKeysOnlyToNewNode
<1>1. ASSUME RingInv, [Next]_vars, NEW k \in Key, NEW n \in Node, n \in nodes' \ nodes
      PROVE  GetNode(k)' \in {GetNode(k), n}
  <2>1. PICK m \in Node : AddNode(m) \/ RemoveNode(m)
    BY <1>1 DEF Next, vars
  <2>2. m = n /\ AddNode(n)
    BY <1>1, <2>1 DEF AddNode, RemoveNode, vars
  <2>. QED  BY <1>1, <2>2, AddNodeRoutes
<1>2. RingInv /\ [Next]_vars =>
        [\A k \in Key, n \in Node :
           n \in nodes' \ nodes => GetNode(k)' \in {GetNode(k), n}]_vars
  BY <1>1
<1>. QED  BY <1>2, RingInvariant, PTL DEF AddMovesKeysOnlyToNewNode, Spec

-------------------------------------------------------------------------------
(* Without collisions *)

\* What a collision would break: an active node owns all of its positions.
NodesComplete == \A n \in nodes : \A p \in Replicas(n) : ring[p] = n

CompleteInv == RingInv /\ (CollisionFree => NodesComplete)

LEMMA CompleteInductive == CompleteInv /\ [Next]_vars => CompleteInv'
<1>. SUFFICES ASSUME CompleteInv, [Next]_vars PROVE CompleteInv'
  OBVIOUS
<1>1. RingInv'
  BY AddNodeRingInv, RemoveNodeRingInv
  DEF CompleteInv, RingInv, Next, vars, TypeOK, HashesMatchRing, OwnersActive, Replicas
<1>2. vhash' = vhash /\ (CollisionFree' => CollisionFree)
  BY DEF Next, AddNode, RemoveNode, vars, CollisionFree, Replicas
<1>3. ASSUME CollisionFree, NodesComplete, vhash' = vhash PROVE NodesComplete'
  <2>1. CASE UNCHANGED vars
    BY <1>3, <2>1 DEF vars, NodesComplete, Replicas
  <2>2. ASSUME NEW n \in Node, AddNode(n), ~ UNCHANGED vars PROVE NodesComplete'
    <3>1. nodes' = nodes \cup {n} /\ ring' = RingWith(n)
      BY <2>2 DEF AddNode
    <3>2. \A m \in nodes' : Replicas(m)' = Replicas(m) /\ Replicas(m) \subseteq Position
      BY <1>3, <2>2, <3>1, HashRingAssumption
      DEF HashRingAssumption, Replicas, CompleteInv, RingInv, TypeOK
    <3>3. nodes \subseteq Node
      BY DEF CompleteInv, RingInv, TypeOK
    <3>. SUFFICES ASSUME NEW m \in nodes', NEW p \in Replicas(m) PROVE ring'[p] = m
      BY <3>2 DEF NodesComplete
    <3>4. ring'[p] = IF p \in Replicas(n) THEN n ELSE ring[p]
      BY <3>1, <3>2 DEF RingWith
    <3>. QED  BY <1>3, <2>2, <3>1, <3>3, <3>4 DEF NodesComplete, CollisionFree
  <2>3. ASSUME NEW n \in Node, RemoveNode(n), ~ UNCHANGED vars PROVE NodesComplete'
    <3>1. nodes' = nodes \ {n} /\ ring' = RingWithout(n)
      BY <2>3 DEF RemoveNode
    <3>2. \A m \in nodes' : Replicas(m)' = Replicas(m) /\ Replicas(m) \subseteq Position
      BY <1>3, <2>3, <3>1, HashRingAssumption
      DEF HashRingAssumption, Replicas, CompleteInv, RingInv, TypeOK
    <3>3. nodes \subseteq Node
      BY DEF CompleteInv, RingInv, TypeOK
    <3>. SUFFICES ASSUME NEW m \in nodes', NEW p \in Replicas(m) PROVE ring'[p] = m
      BY <3>2 DEF NodesComplete
    <3>4. ring'[p] = IF p \in Replicas(n) THEN NoNode ELSE ring[p]
      BY <3>1, <3>2 DEF RingWithout
    <3>. QED  BY <1>3, <2>3, <3>1, <3>3, <3>4 DEF NodesComplete, CollisionFree
  <2>. QED  BY <2>1, <2>2, <2>3 DEF Next
<1>. QED  BY <1>1, <1>2, <1>3 DEF CompleteInv

LEMMA CompleteInvariant == Spec => []CompleteInv
<1>1. Init => CompleteInv
  BY InitRingInv DEF Init, CompleteInv, NodesComplete
<1>. QED  BY <1>1, CompleteInductive, PTL DEF Spec

\* Without collisions the ring depends on the set of active nodes alone, so
\* clients that know the same nodes agree (consistent.go:21).
THEOREM RingDetermined == Spec => []RingDeterminedByNodes
<1>1. CompleteInv => RingDeterminedByNodes
  <2>. SUFFICES ASSUME CompleteInv, CollisionFree, NEW p \in Position
                PROVE  IF \E n \in nodes : p \in Replicas(n)
                       THEN ring[p] \in nodes /\ p \in Replicas(ring[p])
                       ELSE ring[p] = NoNode
    BY DEF RingDeterminedByNodes
  <2>. QED  BY DEF CompleteInv, RingInv, OwnersActive, NodesComplete
<1>. QED  BY <1>1, CompleteInvariant, PTL

-------------------------------------------------------------------------------
(* Monitoring *)

\* Where all virtual nodes have positions of their own, the slice has no duplicates.
NoDuplicates == \A p \in Position : sortedHashes[p] <= 1

OnceInv == CompleteInv /\ (AllDistinct => NoDuplicates)

LEMMA DistinctIsCollisionFree ==
  ASSUME AllDistinct
  PROVE  CollisionFree
BY DEF AllDistinct, CollisionFree, Replicas

\* A node that joins takes positions that are free, each with one virtual node.
LEMMA JoinsOnce ==
  ASSUME CompleteInv, AllDistinct, NoDuplicates, NEW n \in Node, n \notin nodes,
         NEW p \in Position
  PROVE  sortedHashes[p] + Cardinality({i \in VNode : vhash[n][i] = p}) <= 1
<1> DEFINE S == {i \in VNode : vhash[n][i] = p}
<1>1. sortedHashes[p] \in Nat /\ sortedHashes[p] <= 1
  BY DEF CompleteInv, RingInv, TypeOK, NoDuplicates
<1>2. CASE S = {}
  <2>1. Cardinality(S) = 0
    BY <1>2, FS_EmptySet
  <2> HIDE DEF S
  <2>. QED  BY <1>1, <2>1 DEF S
<1>3. CASE S # {}
  <2>1. PICK i \in VNode : vhash[n][i] = p
    BY <1>3
  <2>2. S = {i}
    BY <2>1 DEF AllDistinct
  <2>3. Cardinality(S) = 1
    BY <2>2, FS_Singleton
  <2>4. ring[p] = NoNode
    <3>1. SUFFICES ASSUME ring[p] # NoNode PROVE FALSE
      OBVIOUS
    <3>2. ring[p] \in nodes /\ ring[p] \in Node /\ p \in Replicas(ring[p])
      BY <3>1 DEF CompleteInv, RingInv, TypeOK, OwnersActive
    <3>3. p \in Replicas(n)
      BY <2>1 DEF Replicas
    <3>. QED  BY <3>2, <3>3, DistinctIsCollisionFree DEF CollisionFree
  <2>5. sortedHashes[p] = 0
    BY <2>4 DEF CompleteInv, RingInv, HashesMatchRing
  <2> HIDE DEF S
  <2>. QED  BY <2>3, <2>5 DEF S
<1>. QED  BY <1>2, <1>3

LEMMA OnceInductive == OnceInv /\ [Next]_vars => OnceInv'
<1>. SUFFICES ASSUME OnceInv, [Next]_vars PROVE OnceInv'
  OBVIOUS
<1>1. CompleteInv /\ CompleteInv'
  BY CompleteInductive DEF OnceInv
<1>2. vhash' = vhash /\ (AllDistinct' => AllDistinct)
  BY DEF Next, AddNode, RemoveNode, vars, AllDistinct
<1>3. ASSUME AllDistinct PROVE NoDuplicates'
  <2>0. NoDuplicates
    BY <1>3 DEF OnceInv
  <2>1. CASE UNCHANGED vars
    BY <2>0, <2>1 DEF vars, NoDuplicates
  <2>2. ASSUME NEW n \in Node, AddNode(n), ~ UNCHANGED vars PROVE NoDuplicates'
    <3>1. n \notin nodes /\ sortedHashes' = HashesWith(n)
      BY <2>2 DEF AddNode
    <3>2. \A p \in Position :
            sortedHashes'[p] = sortedHashes[p] + Cardinality({i \in VNode : vhash[n][i] = p})
      BY <3>1 DEF HashesWith
    <3>. QED  BY <1>1, <1>3, <2>0, <3>1, <3>2, JoinsOnce DEF NoDuplicates
  <2>3. ASSUME NEW n \in Node, RemoveNode(n), ~ UNCHANGED vars PROVE NoDuplicates'
    <3>1. sortedHashes' = HashesIn(ring')
      BY <2>3 DEF RemoveNode
    <3>2. \A p \in Position : sortedHashes'[p] \in {0, sortedHashes[p]}
      BY <3>1 DEF HashesIn
    <3>. QED  BY <2>0, <3>2 DEF NoDuplicates
  <2>. QED  BY <2>1, <2>2, <2>3 DEF Next
<1>. QED  BY <1>1, <1>2, <1>3 DEF OnceInv

\* Where no two virtual nodes meet, they are as many as the entries of the map.
LEMMA EntriesCounted ==
  ASSUME CompleteInv, AllDistinct
  PROVE  Cardinality({p \in Position : ring[p] # NoNode}) = Cardinality(nodes) * ReplicaCount
<1>. USE HashRingAssumption DEF HashRingAssumption
<1> DEFINE E == {p \in Position : ring[p] # NoNode}
           D == nodes \X VNode
           F == [x \in D |-> vhash[x[1]][x[2]]]
<1>1. IsFiniteSet(E)
  BY FS_Subset
<1>2. ReplicaCount \in Nat \ {0} /\ 0 \in VNode
  BY DEF VNode, ReplicaCount
<1>3. IsFiniteSet(VNode) /\ Cardinality(VNode) = ReplicaCount
  BY <1>2, FS_Interval DEF VNode
<1>4. nodes \subseteq Node /\ vhash \in [Node -> [VNode -> Position]]
  BY DEF CompleteInv, RingInv, TypeOK
<1>5. NodesComplete
  BY DistinctIsCollisionFree DEF CompleteInv
<1>6. ASSUME NEW n \in nodes, NEW i \in VNode PROVE vhash[n][i] \in E
  <2>1. vhash[n][i] \in Position /\ ring[vhash[n][i]] = n /\ n # NoNode
    BY <1>4, <1>5 DEF NodesComplete, Replicas
  <2>. QED  BY <2>1
<1>7. \A p \in E : \E n \in nodes, i \in VNode : p = vhash[n][i]
  BY DEF CompleteInv, RingInv, OwnersActive, Replicas
<1>8. IsFiniteSet(nodes)
  <2> DEFINE f == [n \in nodes |-> vhash[n][0]]
  <2>1. f \in Injection(nodes, E)
    BY <1>2, <1>4, <1>6 DEF Injection, IsInjective, AllDistinct
  <2> HIDE DEF f, E
  <2>. QED  BY <1>1, <2>1, FS_Injection
<1>9. F \in Bijection(D, E)
  <2>1. F \in [D -> E]
    BY <1>6
  <2>2. \A x, y \in D : F[x] = F[y] => x = y
    BY <1>4 DEF AllDistinct
  <2>3. \A p \in E : \E x \in D : F[x] = p
    <3>1. ASSUME NEW p \in E PROVE \E x \in D : F[x] = p
      <4>1. PICK n \in nodes, i \in VNode : p = vhash[n][i]
        BY <1>7
      <4>2. <<n, i>> \in D /\ F[<<n, i>>] = p
        BY <4>1
      <4>. QED  BY <4>2
    <3>. QED  BY <3>1
  <2> HIDE DEF F, D, E
  <2>. QED  BY <2>1, <2>2, <2>3 DEF Bijection, Injection, Surjection, IsInjective
<1>10. IsFiniteSet(D) /\ Cardinality(D) = Cardinality(nodes) * ReplicaCount
  BY <1>3, <1>8, FS_Product
<1> HIDE DEF F, D, E
<1>11. Cardinality(E) = Cardinality(D)
  BY <1>9, <1>10, FS_Bijection DEF ExistsBijection
<1>. QED  BY <1>10, <1>11 DEF E

\* What Stats reports (consistent.go:232-241): the slice is at least as long as the map,
\* and where no two virtual nodes meet both count the virtual nodes of the active nodes,
\* whatever joined and left before.
THEOREM StatsAlwaysConsistent == Spec => []StatsConsistent
<1>1. OnceInv => StatsConsistent
  <2>. SUFFICES ASSUME OnceInv PROVE StatsConsistent
    OBVIOUS
  <2>1. /\ CompleteInv /\ RingInv
        /\ sortedHashes \in [Position -> Nat] /\ IsFiniteSet(Position)
    BY HashRingAssumption DEF OnceInv, CompleteInv, RingInv, TypeOK, HashRingAssumption
  <2>2. {p \in Position : sortedHashes[p] > 0} = {p \in Position : ring[p] # NoNode}
    BY <2>1, HashesOfRing DEF SliceIsMap, Hashes
  <2>3. SumFunction(sortedHashes) >= Cardinality({p \in Position : ring[p] # NoNode})
    BY <2>1, <2>2, SumAtLeast
  <2>4. ASSUME AllDistinct
        PROVE  SumFunction(sortedHashes) = Cardinality({p \in Position : ring[p] # NoNode})
    <3>1. \A p \in Position : sortedHashes[p] <= 1
      BY <2>4 DEF OnceInv, NoDuplicates
    <3>. QED  BY <2>1, <2>2, <3>1, SumAtLeast
  <2>. QED  BY <2>1, <2>3, <2>4, EntriesCounted DEF StatsConsistent, Stats
<1>2. Init => OnceInv
  <2>1. Init => CompleteInv
    BY InitRingInv DEF Init, CompleteInv, NodesComplete
  <2>2. Init => NoDuplicates
    BY DEF Init, NoDuplicates
  <2>. QED  BY <2>1, <2>2 DEF OnceInv
<1>. QED  BY <1>1, <1>2, OnceInductive, PTL DEF Spec

-------------------------------------------------------------------------------
(* The ring implements KeyAssignment *)

\* Without collisions the ring is empty exactly when no node is active.
LEMMA CompleteNotEmpty == CompleteInv /\ CollisionFree /\ RingEmpty => nodes = {}
<1>. SUFFICES ASSUME CompleteInv, CollisionFree, RingEmpty, NEW n \in nodes PROVE FALSE
  OBVIOUS
<1>1. 0 \in VNode
  BY HashRingAssumption DEF VNode, ReplicaCount, HashRingAssumption
<1>2. n \in Node /\ n # NoNode /\ vhash[n][0] \in Position
  BY <1>1, HashRingAssumption DEF CompleteInv, RingInv, TypeOK, HashRingAssumption
<1>3. ring[vhash[n][0]] = n
  BY <1>1 DEF CompleteInv, NodesComplete, Replicas
<1>. QED  BY <1>2, <1>3 DEF RingEmpty

\* A key whose node stays keeps its node when another one is removed.
LEMMA RemoveNodeRoutes ==
  ASSUME CompleteInv, CollisionFree, NEW n \in Node, n \in nodes, RemoveNode(n),
         NEW k \in Key, GetNode(k) # n
  PROVE  GetNode(k)' = GetNode(k)
<1>. DEFINE h == KeyHash[k]
            p == search(h)
<1>1. RingInv' /\ h \in Nat
  BY RemoveNodeRingInv, HashRingAssumption DEF CompleteInv, HashRingAssumption
<1>2. /\ RingInv' => SliceIsMap'
      /\ RingInv' => LookupSucceeds'
  BY HashesOfRing, LookupFindsEntry, PTL
<1>3. SliceIsMap /\ SliceIsMap' /\ LookupSucceeds /\ LookupSucceeds'
  BY <1>1, <1>2, HashesOfRing, LookupFindsEntry DEF CompleteInv
<1>4. \A q \in Position : ring'[q] = IF q \in Replicas(n) THEN NoNode ELSE ring[q]
  BY DEF RemoveNode, RingWithout, vars
<1>5. ~ RingEmpty
  BY CompleteNotEmpty
<1>6. p \in Hashes /\ p \in Position /\ GetNode(k) = ring[p]
  BY <1>3, <1>5 DEF LookupSucceeds, Hashes
<1>7. p \notin Replicas(n)
  BY <1>6 DEF CompleteInv, NodesComplete
<1>8. ring'[p] = ring[p] /\ p \in Hashes'
  BY <1>3, <1>4, <1>6, <1>7 DEF SliceIsMap
<1>9. Hashes' \subseteq Hashes /\ ~ RingEmpty'
  BY <1>3, <1>4, <1>8 DEF SliceIsMap
<1>10. SearchIn(Hashes', h) = p
  BY <1>1, <1>3, <1>8, <1>9, SearchInSubset DEF SliceIsMap, search
<1>. QED  BY <1>3, <1>6, <1>8, <1>9, <1>10 DEF LookupSucceeds, search

\* Where each key is routed, in a state of the invariant.
LEMMA RoutedToMembers ==
  CompleteInv /\ CollisionFree =>
    \A k \in Key : IF nodes = {} THEN GetNode(k) = NoNode ELSE GetNode(k) \in nodes
<1>. SUFFICES ASSUME CompleteInv, CollisionFree, NEW k \in Key
              PROVE  IF nodes = {} THEN GetNode(k) = NoNode ELSE GetNode(k) \in nodes
  OBVIOUS
<1>1. CASE RingEmpty
  BY <1>1, CompleteNotEmpty DEF GetNode
<1>2. CASE ~ RingEmpty
  BY <1>2, LookupFindsEntry DEF LookupSucceeds, CompleteInv
<1>. QED  BY <1>1, <1>2

\* Every step of the ring is a step of KeyAssignment or leaves it alone.
LEMMA AssignmentStep ==
  CompleteInv /\ CollisionFree /\ CompleteInv' /\ CollisionFree' /\ [Next]_vars
    => [Assignment!Next]_(Assignment!vars)
<1>. SUFFICES ASSUME CompleteInv, CollisionFree, CompleteInv', CollisionFree', [Next]_vars
              PROVE  [Assignment!Next]_(Assignment!vars)
  OBVIOUS
<1>. DEFINE own == [k \in Key |-> GetNode(k)]
<1>1. \A k \in Key :
        /\ IF nodes = {} THEN GetNode(k) = NoNode ELSE GetNode(k) \in nodes
        /\ IF nodes' = {} THEN GetNode(k)' = NoNode ELSE GetNode(k)' \in nodes'
  <2>1. CompleteInv' /\ CollisionFree' =>
          (\A k \in Key : IF nodes = {} THEN GetNode(k) = NoNode
                                        ELSE GetNode(k) \in nodes)'
    BY RoutedToMembers, PTL
  <2>. QED  BY <2>1, RoutedToMembers
<1>2. nodes \subseteq Node /\ nodes' \subseteq Node
  BY DEF CompleteInv, RingInv, TypeOK
<1>3. CASE UNCHANGED vars
  BY <1>3 DEF Assignment!vars, vars, GetNode, RingEmpty, search, SearchIn, Hashes
<1>4. ASSUME NEW n \in Node, n \notin nodes, AddNode(n)
      PROVE  Assignment!Join(n)
  <2>1. nodes' = nodes \cup {n}
    BY <1>4 DEF AddNode, vars
  <2>2. \A k \in Key : GetNode(k)' \in {GetNode(k), n}
    BY <1>4, AddNodeRoutes DEF CompleteInv
  <2>. QED  BY <1>1, <1>2, <1>4, <2>1, <2>2 DEF Assignment!Join
<1>5. ASSUME NEW n \in Node, n \in nodes, RemoveNode(n)
      PROVE  Assignment!Leave(n)
  <2>1. nodes' = nodes \ {n}
    BY <1>5 DEF RemoveNode, vars
  <2>2. \A k \in Key : GetNode(k) # n => GetNode(k)' = GetNode(k)
    BY <1>5, RemoveNodeRoutes
  <2>. QED  BY <1>1, <1>2, <1>5, <2>1, <2>2 DEF Assignment!Leave
<1>. QED  BY <1>3, <1>4, <1>5 DEF Next, AddNode, RemoveNode, Assignment!Next

\* When no two nodes hash to one position, the ring implements KeyAssignment:
\* adding a node moves keys only to it, removing one moves only its keys, and a
\* client with an active node always finds one (consistent.go:18-21, 110-111, 145).
THEOREM RingImplementsAssignment == Spec => AssignmentSpec
<1>1. Init => (CollisionFree => Assignment!Init)
  BY DEF Init, Assignment!Init, GetNode, RingEmpty
<1>2. CollisionFree /\ [Next]_vars => CollisionFree'
  BY DEF Next, AddNode, RemoveNode, vars, CollisionFree, Replicas
<1>3. CompleteInv /\ CompleteInv' /\ [Next]_vars
        => [CollisionFree => Assignment!Next]_(Assignment!vars)
  <2>. SUFFICES ASSUME CompleteInv, CompleteInv', [Next]_vars, CollisionFree
                PROVE  [Assignment!Next]_(Assignment!vars)
    OBVIOUS
  <2>. QED  BY <1>2, AssignmentStep
<1>. QED  BY <1>1, <1>3, CompleteInvariant, PTL DEF Spec, AssignmentSpec
===============================================================================
