--------------------------- MODULE ClientPoolProofs ---------------------------
(***************************************************************************)
(* Theorems of ClientPool for any number of goroutines, nodes, pools and   *)
(* connections, and any sequence of membership changes and failures.       *)
(***************************************************************************)
EXTENDS ClientPool, TLAPS, FiniteSetTheorems, SequenceTheorems

RP == INSTANCE HashRingProofs

-------------------------------------------------------------------------------
(* The inductive invariant *)

PoolPc == {"get", "reserve", "dial", "wait", "exchange", "return", "returnLookup", "put"}

ConnPc == {"exchange", "return", "returnLookup", "put"}

\* What a goroutine's locals hold, by where it is in executeCommand.
Locals(l) ==
  /\ l.pc # "idle" => l.key \in Key
  /\ l.pc \in {"lookup", "returnLookup"} => l.node \in Node
  /\ l.pc \in PoolPc => l.pool \in Pool /\ pool[l.pool].address \in Node
  /\ l.pc \in ConnPc => l.conn \in Conn
  /\ l.pc \notin ConnPc \cup {"panic"} => l.conn = NoConn

LocalsInv == \A t \in Thread : Locals(thread[t])

\* c.pools maps a node to a pool of its own; a pool not created yet is empty.
PoolsInv ==
  /\ \A n \in Node : pools[n] # NoPool => pool[pools[n]].address = n
  /\ \A p \in Pool : /\ pool[p].address = NoNode => pool[p].connections = <<>>
                     /\ Len(pool[p].connections) <= MaxConnsPerNode

\* Where the administrator's call has got to.
AdminInv ==
  /\ admin.pc = "new" => nodes \subseteq InitialNodes /\ changes = 0
  /\ admin.pc = "addPool" => admin.node \in Node
  /\ admin.pc \in {"closePool", "drain"} => admin.node \in Node /\ pools[admin.node] # NoPool

\* At most one pool per initial node and per call: a new one can be had.
UsedPools == {p \in Pool : pool[p].address # NoNode}

PoolsCounted ==
  IF admin.pc = "new" THEN Cardinality(UsedPools) <= Cardinality(nodes)
  ELSE Cardinality(UsedPools) + (IF admin.pc = "addPool" THEN 1 ELSE 0)
         <= Cardinality(InitialNodes) + changes

Pooled(c) == \E p \in Pool : \E i \in DOMAIN pool[p].connections : pool[p].connections[i] = c

Held(c) == \E t \in Thread : thread[t].conn = c

\* Each open connection is in one place, and only open ones are in any.
ConnInv ==
  /\ \A p, q \in Pool : \A i \in DOMAIN pool[p].connections, j \in DOMAIN pool[q].connections :
       pool[p].connections[i] = pool[q].connections[j] => p = q /\ i = j
  /\ \A t, u \in Thread : thread[t].conn = thread[u].conn /\ thread[t].conn # NoConn => t = u
  /\ \A c \in Conn : ~ (Pooled(c) /\ Held(c))
  /\ \A c \in Conn : addr[c] # NoNode <=> Pooled(c) \/ Held(c)

Inv == RP!RingInv /\ TypeOK /\ LocalsInv /\ PoolsInv /\ AdminInv /\ PoolsCounted /\ ConnInv

-------------------------------------------------------------------------------
(* The ring inside the client *)

LEMMA RingConstants == RP!HashRingAssumption
BY RingAssumption
DEF Ring!HashRingAssumption, RP!HashRingAssumption, Ring!VNode, RP!VNode,
    Ring!ReplicaCount, RP!ReplicaCount, Ring!IsFiniteSet, RP!IsFiniteSet

LEMMA RingInitially == Ring!Init => RP!RingInv
BY RingConstants, RP!InitRingInv DEF Ring!Init, RP!Init

LEMMA RingAdd ==
  ASSUME RP!RingInv, NEW n \in Node, Ring!AddNode(n)
  PROVE  RP!RingInv'
<1>1. RP!AddNode(n)
  BY DEF Ring!AddNode, RP!AddNode, Ring!vars, RP!vars, Ring!RingWith, RP!RingWith,
         Ring!HashesWith, RP!HashesWith, Ring!Replicas, RP!Replicas, Ring!VNode, RP!VNode,
         Ring!ReplicaCount, RP!ReplicaCount, Ring!Cardinality, RP!Cardinality
<1>. QED  BY <1>1, RingConstants, RP!AddNodeRingInv

LEMMA RingRemove ==
  ASSUME RP!RingInv, NEW n \in Node, Ring!RemoveNode(n)
  PROVE  RP!RingInv'
<1>1. RP!RemoveNode(n)
  BY DEF Ring!RemoveNode, RP!RemoveNode, Ring!vars, RP!vars, Ring!RingWithout,
         RP!RingWithout, Ring!HashesIn, RP!HashesIn, Ring!Replicas, RP!Replicas,
         Ring!VNode, RP!VNode, Ring!ReplicaCount, RP!ReplicaCount
<1>. QED  BY <1>1, RingConstants, RP!RemoveNodeRingInv

LEMMA RingUnchanged ==
  ASSUME RP!RingInv, UNCHANGED ringVars
  PROVE  RP!RingInv'
BY DEF ringVars, RP!RingInv, RP!TypeOK, RP!HashesMatchRing, RP!OwnersActive, RP!Replicas

\* What the ring answers, in a state of its invariant.
LEMMA RoutedToNode ==
  ASSUME RP!RingInv, NEW k \in Key
  PROVE  Ring!GetNode(k) \in Node \cup {NoNode}
<1>1. RP!LookupSucceeds
  BY RingConstants, RP!LookupFindsEntry
<1>2. RP!GetNode(k) \in Node \cup {NoNode}
  BY <1>1 DEF RP!LookupSucceeds, RP!GetNode, RP!RingInv, RP!TypeOK
<1>3. RP!GetNode(k) = Ring!GetNode(k)
  BY DEF RP!GetNode, Ring!GetNode, RP!RingEmpty, Ring!RingEmpty, RP!search, Ring!search,
         RP!SearchIn, Ring!SearchIn, RP!Hashes, Ring!Hashes, RP!Least, Ring!Least
<1>. QED  BY <1>2, <1>3

-------------------------------------------------------------------------------
(* Counting *)

\* An unused pool exists while fewer are used than may be created.
LEMMA FreshPoolExists ==
  ASSUME Inv, Cardinality(UsedPools) < Cardinality(Pool)
  PROVE  FreshPool \in Pool /\ pool[FreshPool].address = NoNode
<1>1. PICK p \in Pool : pool[p].address = NoNode
  <2>1. SUFFICES ASSUME \A p \in Pool : pool[p].address # NoNode PROVE FALSE
    OBVIOUS
  <2>2. UsedPools = Pool
    BY <2>1 DEF UsedPools
  <2>3. Cardinality(Pool) \in Nat
    BY ClientPoolAssumption, FS_CardinalityType DEF ClientPoolAssumption
  <2>. QED  BY <2>2, <2>3
<1>. QED  BY <1>1 DEF FreshPool

\* A goroutine without a connection can open one: the others hold at most one
\* each, and a pool no more than its limit.
LEMMA FreshConnExists ==
  ASSUME Inv, NEW t \in Thread, thread[t].conn = NoConn
  PROVE  FreshConn \in Conn /\ addr[FreshConn] = NoNode
<1>. DEFINE others == Thread \ {t}
            slots == Pool \X (1 .. MaxConnsPerNode)
            heldBy == [u \in others |-> thread[u].conn]
            pooledAt == [x \in slots |-> pool[x[1]].connections[x[2]]]
            H == {heldBy[u] : u \in others}
            P == {pooledAt[x] : x \in slots}
<1>1. /\ IsFiniteSet(others) /\ Cardinality(others) = Cardinality(Thread) - 1
      /\ Cardinality(Thread) \in Nat
  BY ClientPoolAssumption, FS_RemoveElement, FS_CardinalityType DEF ClientPoolAssumption
<1>2. /\ IsFiniteSet(slots)
      /\ Cardinality(slots) = Cardinality(Pool) * MaxConnsPerNode
      /\ Cardinality(Pool) \in Nat
  <2>1. /\ IsFiniteSet(1 .. MaxConnsPerNode)
        /\ Cardinality(1 .. MaxConnsPerNode) = MaxConnsPerNode
    BY ClientPoolAssumption, FS_Interval DEF ClientPoolAssumption
  <2>2. IsFiniteSet(Pool) /\ Cardinality(Pool) \in Nat
    BY ClientPoolAssumption, FS_CardinalityType DEF ClientPoolAssumption
  <2>3. IsFiniteSet(Pool \X (1 .. MaxConnsPerNode))
        /\ Cardinality(Pool \X (1 .. MaxConnsPerNode))
             = Cardinality(Pool) * Cardinality(1 .. MaxConnsPerNode)
    BY <2>1, <2>2, FS_Product
  <2>. QED  BY <2>1, <2>2, <2>3
<1>3. /\ IsFiniteSet(H) /\ Cardinality(H) \in Nat
      /\ Cardinality(H) <= Cardinality(others)
  <2>1. heldBy \in Surjection(others, H)
    BY DEF Surjection
  <2>. HIDE DEF heldBy, others, H
  <2>. QED  BY <1>1, <2>1, FS_Surjection, FS_CardinalityType
<1>4. /\ IsFiniteSet(P) /\ Cardinality(P) \in Nat
      /\ Cardinality(P) <= Cardinality(slots)
  <2>1. pooledAt \in Surjection(slots, P)
    BY DEF Surjection
  <2>. HIDE DEF pooledAt, slots, P
  <2>. QED  BY <1>2, <2>1, FS_Surjection, FS_CardinalityType
<1>5. PICK c \in Conn : c \notin H \cup P
  <2>1. SUFFICES ASSUME Conn \subseteq H \cup P PROVE FALSE
    OBVIOUS
  <2>2. /\ IsFiniteSet(H \cup P)
        /\ Cardinality(H \cup P) = Cardinality(H) + Cardinality(P) - Cardinality(H \cap P)
    BY <1>3, <1>4, FS_Union
  <2>3. Cardinality(H \cap P) \in Nat
    BY <1>3, FS_Intersection, FS_CardinalityType
  <2>4. Cardinality(Conn) <= Cardinality(H \cup P)
    BY <2>1, <2>2, FS_Subset
  <2>5. /\ Cardinality(Conn) >= Cardinality(Pool) * MaxConnsPerNode + Cardinality(Thread)
        /\ Cardinality(Conn) \in Nat
        /\ Cardinality(Pool) * MaxConnsPerNode \in Nat
    BY <1>2, ClientPoolAssumption, FS_CardinalityType DEF ClientPoolAssumption
  <2>. HIDE DEF H, P, others, slots
  <2>. QED  BY <1>1, <1>2, <1>3, <1>4, <2>2, <2>3, <2>4, <2>5
<1>6. ~ Pooled(c)
  <2>. SUFFICES ASSUME NEW p \in Pool, NEW i \in DOMAIN pool[p].connections,
                       pool[p].connections[i] = c
                PROVE  FALSE
    BY DEF Pooled
  <2>1. i \in 1 .. MaxConnsPerNode
    BY ClientPoolAssumption DEF Inv, TypeOK, PoolsInv, ClientPoolAssumption
  <2>2. <<p, i>> \in slots /\ pooledAt[<<p, i>>] = c
    BY <2>1
  <2>. QED  BY <1>5, <2>2
<1>7. ~ Held(c)
  BY <1>5, ClientPoolAssumption DEF Held, ClientPoolAssumption
<1>8. addr[c] = NoNode
  BY <1>6, <1>7 DEF Inv, ConnInv
<1>. QED  BY <1>8 DEF FreshConn

-------------------------------------------------------------------------------
(* The steps by what they do to the connections *)

ThreadType == [pc : ThreadPc, key : Key \cup {NoKey},
               attempt : 0 .. RetryAttempts, node : Node \cup {NoNode},
               pool : Pool \cup {NoPool}, conn : Conn \cup {NoConn}]

PoolType == [address : Node \cup {NoNode}, created : Int,
             connections : Seq(Conn), closed : BOOLEAN]

\* Goroutine t goes on with the locals l; all else is left alone except
\* connections and faults.
GoesOn(t, l) ==
  /\ l \in ThreadType /\ Locals(l)
  /\ thread' = [thread EXCEPT ![t] = l]
  /\ pool' \in [Pool -> PoolType]
  /\ \A p \in Pool : pool'[p].address = pool[p].address
  /\ faults' \in 0 .. MaxFaults
  /\ UNCHANGED <<ringVars, pools, admin, changes>>

\* What no step of a goroutine disturbs.
LEMMA GoesOnKeeps ==
  ASSUME Inv, NEW t \in Thread, NEW l, GoesOn(t, l)
  PROVE  /\ RP!RingInv' /\ AdminInv' /\ PoolsCounted' /\ LocalsInv'
         /\ \A u \in Thread : thread'[u] = IF u = t THEN l ELSE thread[u]
         /\ addr' \in [Conn -> Node \cup {NoNode}] => TypeOK'
<1>0. \A u \in Thread : thread'[u] = IF u = t THEN l ELSE thread[u]
  BY DEF GoesOn, Inv, TypeOK
<1>1. RP!RingInv'
  BY RingUnchanged DEF Inv, GoesOn
<1>2. AdminInv'
  BY DEF Inv, AdminInv, GoesOn, ringVars
<1>3. PoolsCounted'
  <2>1. UsedPools' = UsedPools
    BY DEF UsedPools, GoesOn
  <2>. QED  BY <2>1 DEF Inv, PoolsCounted, GoesOn, ringVars
<1>4. LocalsInv'
  <2>. SUFFICES ASSUME NEW u \in Thread PROVE Locals(thread[u])'
    BY DEF LocalsInv
  <2>1. Locals(thread'[u])
    BY <1>0 DEF Inv, LocalsInv, GoesOn
  <2>. QED  BY <2>1 DEF Locals, GoesOn, PoolPc, ConnPc
<1>5. ASSUME addr' \in [Conn -> Node \cup {NoNode}] PROVE TypeOK'
  <2>1. thread' \in [Thread -> ThreadType]
    BY DEF Inv, TypeOK, GoesOn, ThreadType
  <2>. QED  BY <1>5, <2>1 DEF Inv, TypeOK, GoesOn, ThreadType, PoolType
<1>. QED  BY <1>0, <1>1, <1>2, <1>3, <1>4, <1>5

LEMMA PoolsKept ==
  ASSUME Inv, NEW t \in Thread, NEW l, GoesOn(t, l),
         \A p \in Pool : pool'[p].connections = pool[p].connections
  PROVE  PoolsInv'
<1>1. \A n \in Node : pools'[n] # NoPool => pool'[pools'[n]].address = n
  BY DEF Inv, PoolsInv, TypeOK, GoesOn
<1>2. \A p \in Pool : /\ pool'[p].address = NoNode => pool'[p].connections = <<>>
                      /\ Len(pool'[p].connections) <= MaxConnsPerNode
  BY DEF Inv, PoolsInv, GoesOn
<1>. QED  BY <1>1, <1>2 DEF PoolsInv

\* No connection moves.
LEMMA NoConnMoves ==
  ASSUME Inv, NEW t \in Thread, NEW l, GoesOn(t, l), l.conn = thread[t].conn,
         \A p \in Pool : pool'[p].connections = pool[p].connections,
         UNCHANGED addr
  PROVE  Inv'
<1>0. addr' \in [Conn -> Node \cup {NoNode}]
  BY DEF Inv, TypeOK
<1>1. /\ RP!RingInv' /\ AdminInv' /\ PoolsCounted' /\ LocalsInv' /\ TypeOK'
      /\ \A u \in Thread : thread'[u].conn = thread[u].conn
  BY <1>0, GoesOnKeeps
<1>2. PoolsInv'
  BY PoolsKept
<1>3. \A c \in Conn : Pooled(c)' = Pooled(c) /\ Held(c)' = Held(c)
  BY <1>1 DEF Pooled, Held
<1>4. ConnInv'
  BY <1>1, <1>3 DEF Inv, ConnInv
<1>. QED  BY <1>1, <1>2, <1>4 DEF Inv

\* A goroutine closes the connection it holds.
LEMMA HeldConnCloses ==
  ASSUME Inv, NEW t \in Thread, NEW l, GoesOn(t, l), l.conn = NoConn,
         thread[t].conn \in Conn,
         \A p \in Pool : pool'[p].connections = pool[p].connections,
         addr' = [addr EXCEPT ![thread[t].conn] = NoNode]
  PROVE  Inv'
<1>. DEFINE c == thread[t].conn
<1>1. /\ RP!RingInv' /\ AdminInv' /\ PoolsCounted' /\ LocalsInv' /\ TypeOK'
      /\ \A u \in Thread : thread'[u].conn = IF u = t THEN NoConn ELSE thread[u].conn
      /\ \A d \in Conn : addr'[d] = IF d = c THEN NoNode ELSE addr[d]
  BY GoesOnKeeps DEF Inv, TypeOK
<1>2. PoolsInv'
  BY PoolsKept
<1>3. NoConn \notin Conn
  BY ClientPoolAssumption DEF ClientPoolAssumption
<1>4. \A d \in Conn : Pooled(d)' = Pooled(d)
  BY DEF Pooled
<1>5. \A d \in Conn : Held(d)' <=> Held(d) /\ d # c
  BY <1>1, <1>3 DEF Held, Inv, ConnInv
<1>6. Held(c) /\ ~ Pooled(c)
  BY DEF Held, Inv, ConnInv
<1>7. ConnInv'
  <2>1. \A p, q \in Pool :
          \A i \in DOMAIN pool'[p].connections, j \in DOMAIN pool'[q].connections :
            pool'[p].connections[i] = pool'[q].connections[j] => p = q /\ i = j
    BY DEF Inv, ConnInv
  <2>2. \A u, v \in Thread :
          thread'[u].conn = thread'[v].conn /\ thread'[u].conn # NoConn => u = v
    BY <1>1 DEF Inv, ConnInv
  <2>3. \A d \in Conn : /\ ~ (Pooled(d)' /\ Held(d)')
                        /\ addr'[d] # NoNode <=> Pooled(d)' \/ Held(d)'
    BY <1>1, <1>4, <1>5, <1>6 DEF Inv, ConnInv
  <2>. QED  BY <2>1, <2>2, <2>3 DEF ConnInv
<1>. QED  BY <1>1, <1>2, <1>7 DEF Inv

\* A goroutine opens a connection.
LEMMA ConnOpens ==
  ASSUME Inv, NEW t \in Thread, NEW l, GoesOn(t, l), thread[t].conn = NoConn,
         NEW c \in Conn, l.conn = c, addr[c] = NoNode, NEW n \in Node,
         \A p \in Pool : pool'[p].connections = pool[p].connections,
         addr' = [addr EXCEPT ![c] = n]
  PROVE  Inv'
<1>0. n # NoNode /\ c # NoConn
  BY ClientPoolAssumption, RingAssumption DEF ClientPoolAssumption, Ring!HashRingAssumption
<1>1. /\ RP!RingInv' /\ AdminInv' /\ PoolsCounted' /\ LocalsInv' /\ TypeOK'
      /\ \A u \in Thread : thread'[u].conn = IF u = t THEN c ELSE thread[u].conn
      /\ \A d \in Conn : addr'[d] = IF d = c THEN n ELSE addr[d]
  BY GoesOnKeeps DEF Inv, TypeOK
<1>2. PoolsInv'
  BY PoolsKept
<1>3. ~ Pooled(c) /\ ~ Held(c)
  BY DEF Inv, ConnInv
<1>4. \A d \in Conn : Pooled(d)' = Pooled(d)
  BY DEF Pooled
<1>5. \A d \in Conn : Held(d)' <=> Held(d) \/ d = c
  BY <1>0, <1>1, ClientPoolAssumption DEF Held, ClientPoolAssumption
<1>6. ConnInv'
  <2>1. \A p, q \in Pool :
          \A i \in DOMAIN pool'[p].connections, j \in DOMAIN pool'[q].connections :
            pool'[p].connections[i] = pool'[q].connections[j] => p = q /\ i = j
    BY DEF Inv, ConnInv
  <2>2. \A u, v \in Thread :
          thread'[u].conn = thread'[v].conn /\ thread'[u].conn # NoConn => u = v
    BY <1>1, <1>3 DEF Inv, ConnInv, Held
  <2>3. \A d \in Conn : /\ ~ (Pooled(d)' /\ Held(d)')
                        /\ addr'[d] # NoNode <=> Pooled(d)' \/ Held(d)'
    BY <1>0, <1>1, <1>3, <1>4, <1>5 DEF Inv, ConnInv
  <2>. QED  BY <2>1, <2>2, <2>3 DEF ConnInv
<1>. QED  BY <1>1, <1>2, <1>6 DEF Inv

\* The connections of a pool whose first one is received.
LEMMA TailOfConns ==
  ASSUME NEW s \in Seq(Conn), s # <<>>
  PROVE  /\ 1 \in DOMAIN s /\ Head(s) = s[1] /\ Head(s) \in Conn
         /\ Tail(s) \in Seq(Conn) /\ Len(Tail(s)) = Len(s) - 1
         /\ \A i \in DOMAIN Tail(s) : i + 1 \in DOMAIN s /\ Tail(s)[i] = s[i + 1]
         /\ \A i \in DOMAIN s : i # 1 => i - 1 \in DOMAIN Tail(s) /\ Tail(s)[i - 1] = s[i]
OBVIOUS

LEMMA AppendToConns ==
  ASSUME NEW s \in Seq(Conn), NEW c \in Conn
  PROVE  /\ Append(s, c) \in Seq(Conn) /\ Len(Append(s, c)) = Len(s) + 1
         /\ \A i \in DOMAIN s : i \in DOMAIN Append(s, c) /\ Append(s, c)[i] = s[i]
         /\ Len(s) + 1 \in DOMAIN Append(s, c) /\ Append(s, c)[Len(s) + 1] = c
         /\ \A i \in DOMAIN Append(s, c) : i \in DOMAIN s \/ i = Len(s) + 1
OBVIOUS

\* No two places of pools hold one connection.
PlacesDistinct ==
  \A p, q \in Pool : \A i \in DOMAIN pool[p].connections, j \in DOMAIN pool[q].connections :
    pool[p].connections[i] = pool[q].connections[j] => p = q /\ i = j

\* The first connection of a pool leaves it.
LEMMA HeadLeaves ==
  ASSUME Inv, NEW p \in Pool, pool[p].connections # <<>>,
         pool' = [pool EXCEPT ![p].connections = Tail(@)], pools' = pools
  PROVE  /\ Head(pool[p].connections) \in Conn /\ Pooled(Head(pool[p].connections))
         /\ PlacesDistinct' /\ PoolsInv'
         /\ \A d \in Conn : Pooled(d)' <=> Pooled(d) /\ d # Head(pool[p].connections)
         /\ pool' \in [Pool -> PoolType]
         /\ \A q \in Pool : pool'[q].address = pool[q].address
<1>. DEFINE s == pool[p].connections
            c == Head(s)
<1>1. /\ pool \in [Pool -> PoolType] /\ s \in Seq(Conn) /\ s # <<>>
      /\ PlacesDistinct
  BY DEF Inv, TypeOK, PoolType, ConnInv, PlacesDistinct
<1>2. /\ 1 \in DOMAIN s /\ c = s[1] /\ c \in Conn
      /\ Tail(s) \in Seq(Conn) /\ Len(Tail(s)) = Len(s) - 1
      /\ \A i \in DOMAIN Tail(s) : i + 1 \in DOMAIN s /\ Tail(s)[i] = s[i + 1]
      /\ \A i \in DOMAIN s : i # 1 => i - 1 \in DOMAIN Tail(s) /\ Tail(s)[i - 1] = s[i]
  BY <1>1, TailOfConns
<1>3. /\ \A q \in Pool : pool'[q].address = pool[q].address
      /\ \A q \in Pool : pool'[q].connections = IF q = p THEN Tail(s) ELSE pool[q].connections
      /\ pool' \in [Pool -> PoolType]
  BY <1>1, <1>2 DEF PoolType
<1>4. \A i \in DOMAIN s : i \in Int
  BY <1>1
<1>5. \A i \in DOMAIN Tail(s) : i \in Int
  BY <1>2
<1>6. PlacesDistinct'
  <2>. SUFFICES ASSUME NEW q \in Pool, NEW r \in Pool,
                       NEW i \in DOMAIN pool'[q].connections,
                       NEW j \in DOMAIN pool'[r].connections,
                       pool'[q].connections[i] = pool'[r].connections[j]
                PROVE  q = r /\ i = j
    BY DEF PlacesDistinct
  <2>. HIDE DEF s, c
  <2>1. CASE q = p /\ r = p
    BY <1>1, <1>2, <1>3, <1>5, <2>1 DEF PlacesDistinct, s
  <2>2. CASE q = p /\ r # p
    BY <1>1, <1>2, <1>3, <2>2 DEF PlacesDistinct, s
  <2>3. CASE q # p /\ r = p
    BY <1>1, <1>2, <1>3, <2>3 DEF PlacesDistinct, s
  <2>4. CASE q # p /\ r # p
    BY <1>1, <1>3, <2>4 DEF PlacesDistinct
  <2>. QED  BY <2>1, <2>2, <2>3, <2>4
<1>7. Pooled(c)
  BY <1>2 DEF Pooled
<1>8. ASSUME NEW d \in Conn PROVE Pooled(d)' <=> Pooled(d) /\ d # c
  <2>1. ASSUME Pooled(d)' PROVE Pooled(d) /\ d # c
    <3>1. PICK q \in Pool : \E i \in DOMAIN pool'[q].connections : pool'[q].connections[i] = d
      BY <2>1 DEF Pooled
    <3>2. PICK i \in DOMAIN pool'[q].connections : pool'[q].connections[i] = d
      BY <3>1
    <3>. HIDE DEF s, c
    <3>3. CASE q = p
      <4>0. pool'[q].connections = Tail(s)
        BY <1>3, <3>3
      <4>1. i \in DOMAIN Tail(s) /\ Tail(s)[i] = d
        BY <3>2, <4>0
      <4>3. i \in Nat /\ i # 0
        BY <1>2, <4>1
      <4>2. i + 1 \in DOMAIN s /\ s[i + 1] = d /\ i + 1 # 1
        BY <1>2, <4>1, <4>3
      <4>. QED  BY <1>1, <1>2, <4>2 DEF Pooled, PlacesDistinct, s
    <3>4. CASE q # p
      BY <1>1, <1>2, <1>3, <3>2, <3>4 DEF Pooled, PlacesDistinct, s
    <3>. QED  BY <3>3, <3>4
  <2>2. ASSUME Pooled(d), d # c PROVE Pooled(d)'
    <3>1. PICK q \in Pool : \E i \in DOMAIN pool[q].connections : pool[q].connections[i] = d
      BY <2>2 DEF Pooled
    <3>2. PICK i \in DOMAIN pool[q].connections : pool[q].connections[i] = d
      BY <3>1
    <3>. HIDE DEF s, c
    <3>3. CASE q = p
      <4>1. i - 1 \in DOMAIN Tail(s) /\ Tail(s)[i - 1] = d
        BY <1>2, <2>2, <3>2, <3>3 DEF s
      <4>. QED  BY <1>3, <4>1 DEF Pooled
    <3>4. CASE q # p
      BY <1>3, <3>2, <3>4 DEF Pooled
    <3>. QED  BY <3>3, <3>4
  <2>. QED  BY <2>1, <2>2
<1>9. PoolsInv'
  <2>1. \A n \in Node : pools'[n] # NoPool => pool'[pools'[n]].address = n
    BY <1>3 DEF Inv, PoolsInv, TypeOK
  <2>2. ASSUME NEW q \in Pool
        PROVE  /\ pool'[q].address = NoNode => pool'[q].connections = <<>>
               /\ Len(pool'[q].connections) <= MaxConnsPerNode
    <3>1. CASE q = p
      <4>1. pool'[p].address # NoNode
        BY <1>3 DEF Inv, PoolsInv
      <4>2. Len(s) <= MaxConnsPerNode /\ Len(s) \in Nat /\ Len(Tail(s)) = Len(s) - 1
        BY <1>1, <1>2 DEF Inv, PoolsInv
      <4>. QED  BY <1>3, <3>1, <4>1, <4>2, ClientPoolAssumption DEF ClientPoolAssumption
    <3>2. CASE q # p
      BY <1>3, <3>2 DEF Inv, PoolsInv
    <3>. QED  BY <3>1, <3>2
  <2>. QED  BY <2>1, <2>2 DEF PoolsInv
<1>. QED  BY <1>2, <1>3, <1>6, <1>7, <1>8, <1>9

\* A goroutine is handed the first connection of a pool.
LEMMA ConnTaken ==
  ASSUME Inv, NEW t \in Thread, NEW l, GoesOn(t, l), thread[t].conn = NoConn,
         NEW p \in Pool, pool[p].connections # <<>>,
         l.conn = Head(pool[p].connections),
         pool' = [pool EXCEPT ![p].connections = Tail(@)],
         UNCHANGED addr
  PROVE  Inv'
<1>. DEFINE c == Head(pool[p].connections)
<1>0. addr' \in [Conn -> Node \cup {NoNode}] /\ NoConn \notin Conn
  BY ClientPoolAssumption DEF Inv, TypeOK, ClientPoolAssumption
<1>1. /\ RP!RingInv' /\ AdminInv' /\ PoolsCounted' /\ LocalsInv' /\ TypeOK'
      /\ \A u \in Thread : thread'[u] = IF u = t THEN l ELSE thread[u]
  BY <1>0, GoesOnKeeps
<1>2. /\ c \in Conn /\ Pooled(c) /\ PlacesDistinct' /\ PoolsInv'
      /\ \A d \in Conn : Pooled(d)' <=> Pooled(d) /\ d # c
  BY HeadLeaves DEF GoesOn
<1>. HIDE DEF c
<1>3. \A u \in Thread : thread'[u].conn = IF u = t THEN c ELSE thread[u].conn
  BY <1>1 DEF c
<1>4. ~ Held(c)
  BY <1>2 DEF Inv, ConnInv
<1>5. \A d \in Conn : Held(d)' <=> Held(d) \/ d = c
  BY <1>0, <1>3 DEF Held
<1>6. ConnInv'
  <2>1. \A u, v \in Thread :
          thread'[u].conn = thread'[v].conn /\ thread'[u].conn # NoConn => u = v
    BY <1>2, <1>3, <1>4 DEF Inv, ConnInv, Held
  <2>2. \A d \in Conn : /\ ~ (Pooled(d)' /\ Held(d)')
                        /\ addr'[d] # NoNode <=> Pooled(d)' \/ Held(d)'
    BY <1>2, <1>4, <1>5 DEF Inv, ConnInv
  <2>. QED  BY <1>2, <2>1, <2>2 DEF ConnInv, PlacesDistinct
<1>. QED  BY <1>1, <1>2, <1>6 DEF Inv

\* A goroutine puts its connection into a pool that has room.
LEMMA ConnPutBack ==
  ASSUME Inv, NEW t \in Thread, NEW l, GoesOn(t, l), l.conn = NoConn,
         NEW c \in Conn, thread[t].conn = c,
         NEW p \in Pool, pool[p].address \in Node,
         Len(pool[p].connections) < MaxConnsPerNode,
         pool' = [pool EXCEPT ![p].connections = Append(@, c)],
         UNCHANGED addr
  PROVE  Inv'
<1>. DEFINE s == pool[p].connections
<1>0. /\ addr' \in [Conn -> Node \cup {NoNode}]
      /\ NoConn \notin Conn /\ NoNode \notin Node
  BY ClientPoolAssumption, RingAssumption
  DEF Inv, TypeOK, ClientPoolAssumption, Ring!HashRingAssumption
<1>1. /\ RP!RingInv' /\ AdminInv' /\ PoolsCounted' /\ LocalsInv' /\ TypeOK'
      /\ \A u \in Thread : thread'[u] = IF u = t THEN l ELSE thread[u]
  BY <1>0, GoesOnKeeps
<1>2. /\ pool \in [Pool -> PoolType] /\ s \in Seq(Conn) /\ PlacesDistinct
      /\ Len(s) < MaxConnsPerNode
  BY DEF Inv, TypeOK, PoolType, ConnInv, PlacesDistinct
<1>3. /\ Append(s, c) \in Seq(Conn) /\ Len(Append(s, c)) = Len(s) + 1
      /\ \A i \in DOMAIN s : i \in DOMAIN Append(s, c) /\ Append(s, c)[i] = s[i]
      /\ Len(s) + 1 \in DOMAIN Append(s, c) /\ Append(s, c)[Len(s) + 1] = c
      /\ \A i \in DOMAIN Append(s, c) : i \in DOMAIN s \/ i = Len(s) + 1
  BY <1>2, AppendToConns
<1>4. /\ \A q \in Pool : pool'[q].address = pool[q].address
      /\ \A q \in Pool : pool'[q].connections = IF q = p THEN Append(s, c)
                                                         ELSE pool[q].connections
  BY <1>2 DEF PoolType
<1>5. Held(c) /\ ~ Pooled(c)
  BY DEF Held, Inv, ConnInv
<1>. HIDE DEF s
<1>6. \A i \in DOMAIN s : s[i] # c
  BY <1>5 DEF Pooled, s
<1>7. PlacesDistinct'
  <2>. SUFFICES ASSUME NEW q \in Pool, NEW r \in Pool,
                       NEW i \in DOMAIN pool'[q].connections,
                       NEW j \in DOMAIN pool'[r].connections,
                       pool'[q].connections[i] = pool'[r].connections[j]
                PROVE  q = r /\ i = j
    BY DEF PlacesDistinct
  <2>1. CASE q = p /\ r = p
    BY <1>2, <1>3, <1>4, <1>6, <2>1 DEF PlacesDistinct, s
  <2>2. CASE q = p /\ r # p
    BY <1>2, <1>3, <1>4, <1>5, <2>2 DEF PlacesDistinct, Pooled, s
  <2>3. CASE q # p /\ r = p
    BY <1>2, <1>3, <1>4, <1>5, <2>3 DEF PlacesDistinct, Pooled, s
  <2>4. CASE q # p /\ r # p
    BY <1>2, <1>4, <2>4 DEF PlacesDistinct
  <2>. QED  BY <2>1, <2>2, <2>3, <2>4
<1>8. ASSUME NEW d \in Conn PROVE Pooled(d)' <=> Pooled(d) \/ d = c
  <2>1. ASSUME Pooled(d)' PROVE Pooled(d) \/ d = c
    <3>1. PICK q \in Pool : \E i \in DOMAIN pool'[q].connections : pool'[q].connections[i] = d
      BY <2>1 DEF Pooled
    <3>2. PICK i \in DOMAIN pool'[q].connections : pool'[q].connections[i] = d
      BY <3>1
    <3>. QED  BY <1>3, <1>4, <3>2 DEF Pooled, s
  <2>2. ASSUME Pooled(d) PROVE Pooled(d)'
    <3>1. PICK q \in Pool : \E i \in DOMAIN pool[q].connections : pool[q].connections[i] = d
      BY <2>2 DEF Pooled
    <3>2. PICK i \in DOMAIN pool[q].connections : pool[q].connections[i] = d
      BY <3>1
    <3>3. CASE q = p
      BY <1>3, <1>4, <3>2, <3>3 DEF Pooled, s
    <3>4. CASE q # p
      BY <1>4, <3>2, <3>4 DEF Pooled
    <3>. QED  BY <3>3, <3>4
  <2>3. Pooled(c)'
    <3>1. pool'[p].connections = Append(s, c)
      BY <1>4
    <3>2. /\ Len(s) + 1 \in DOMAIN pool'[p].connections
          /\ pool'[p].connections[Len(s) + 1] = c
      BY <1>3, <3>1
    <3>. QED  BY <3>2 DEF Pooled
  <2>. QED  BY <2>1, <2>2, <2>3
<1>9. \A u \in Thread : thread'[u].conn = IF u = t THEN NoConn ELSE thread[u].conn
  BY <1>1
<1>10. \A d \in Conn : Held(d)' <=> Held(d) /\ d # c
  BY <1>0, <1>9 DEF Held, Inv, ConnInv
<1>11. ConnInv'
  <2>1. \A u, v \in Thread :
          thread'[u].conn = thread'[v].conn /\ thread'[u].conn # NoConn => u = v
    BY <1>9 DEF Inv, ConnInv
  <2>2. \A d \in Conn : /\ ~ (Pooled(d)' /\ Held(d)')
                        /\ addr'[d] # NoNode <=> Pooled(d)' \/ Held(d)'
    BY <1>5, <1>8, <1>10 DEF Inv, ConnInv
  <2>. QED  BY <1>7, <2>1, <2>2 DEF ConnInv, PlacesDistinct
<1>12. PoolsInv'
  <2>1. \A n \in Node : pools'[n] # NoPool => pool'[pools'[n]].address = n
    <3>1. pools' = pools /\ \A n \in Node : pools[n] # NoPool => pools[n] \in Pool
      BY DEF Inv, TypeOK, GoesOn
    <3>. QED  BY <1>4, <3>1 DEF Inv, PoolsInv
  <2>2. ASSUME NEW q \in Pool
        PROVE  /\ pool'[q].address = NoNode => pool'[q].connections = <<>>
               /\ Len(pool'[q].connections) <= MaxConnsPerNode
    <3>1. CASE q = p
      <4>1. Len(s) \in Nat /\ MaxConnsPerNode \in Nat
        BY <1>2, ClientPoolAssumption DEF ClientPoolAssumption
      <4>. QED  BY <1>0, <1>2, <1>3, <1>4, <3>1, <4>1
    <3>2. CASE q # p
      BY <1>4, <3>2 DEF Inv, PoolsInv
    <3>. QED  BY <3>1, <3>2
  <2>. QED  BY <2>1, <2>2 DEF PoolsInv
<1>. QED  BY <1>1, <1>11, <1>12 DEF Inv

-------------------------------------------------------------------------------
(* The steps of a goroutine *)

LEMMA LocalTypes ==
  ASSUME Inv, NEW t \in Thread
  PROVE  /\ thread[t] \in ThreadType /\ Locals(thread[t])
         /\ thread \in [Thread -> ThreadType] /\ pool \in [Pool -> PoolType]
         /\ faults \in 0 .. MaxFaults
BY DEF Inv, TypeOK, LocalsInv, ThreadType, PoolType

LEMMA IdleType ==
  /\ Idle \in ThreadType
  /\ Idle.pc = "idle" /\ Idle.key = NoKey /\ Idle.conn = NoConn
  /\ NoConn \notin Conn /\ NoPool \notin Pool /\ NoNode \notin Node
BY ClientPoolAssumption, RingAssumption
DEF Idle, ThreadType, ThreadPc, ClientPoolAssumption, Ring!HashRingAssumption

\* A new attempt, or the end of the command, starts from nothing but the key.
LEMMA StartsAgain ==
  ASSUME Inv, NEW t \in Thread, thread[t].pc # "idle", NextAttempt(t) \/ Finish(t)
  PROVE  \E l \in ThreadType : /\ Locals(l) /\ l.pc \in {"idle", "route"} /\ l.conn = NoConn
                               /\ thread' = [thread EXCEPT ![t] = l]
<1>1. thread[t] \in ThreadType /\ thread[t].key \in Key
  BY LocalTypes DEF Locals
<1>2. Locals(Idle)
  BY IdleType DEF Locals, PoolPc, ConnPc
<1>3. CASE Finish(t)
  BY <1>2, <1>3, IdleType DEF Finish
<1>4. CASE NextAttempt(t) /\ ~ Finish(t)
  <2>. DEFINE a == thread[t].attempt + 1
              l == [Idle EXCEPT !.pc = "route", !.key = thread[t].key, !.attempt = a]
  <2>1. thread' = [thread EXCEPT ![t] = l] /\ a \in 0 .. RetryAttempts
    BY <1>1, <1>4, ClientPoolAssumption DEF NextAttempt, ThreadType, ClientPoolAssumption
  <2>. HIDE DEF a
  <2>2. l.pc = "route" /\ l.key = thread[t].key /\ l.conn = NoConn
    BY IdleType DEF ThreadType
  <2>3. l \in ThreadType
    BY <1>1, <2>1, IdleType DEF ThreadType, ThreadPc
  <2>. HIDE DEF l
  <2>4. Locals(l)
    BY <1>1, <2>2 DEF Locals, PoolPc, ConnPc
  <2>. QED  BY <2>1, <2>2, <2>3, <2>4
<1>. QED  BY <1>3, <1>4

\* A goroutine that held no connection starts again, and no pool's connections change.
LEMMA StartsAgainInv ==
  ASSUME Inv, NEW t \in Thread, thread[t].pc # "idle", thread[t].conn = NoConn,
         NextAttempt(t), pool' \in [Pool -> PoolType],
         \A p \in Pool : pool'[p].address = pool[p].address
                         /\ pool'[p].connections = pool[p].connections,
         faults' \in 0 .. MaxFaults, UNCHANGED <<ringVars, pools, addr, admin, changes>>
  PROVE  Inv'
<1>1. PICK l \in ThreadType : /\ Locals(l) /\ l.conn = NoConn
                              /\ thread' = [thread EXCEPT ![t] = l]
  BY StartsAgain
<1>2. GoesOn(t, l)
  BY <1>1 DEF GoesOn
<1>. QED  BY <1>1, <1>2, NoConnMoves

\* A goroutine that held a connection closes it and starts again.
LEMMA ClosesAndStartsAgainInv ==
  ASSUME Inv, NEW t \in Thread, thread[t].pc \in ConnPc, NextAttempt(t) \/ Finish(t),
         pool' \in [Pool -> PoolType],
         \A p \in Pool : pool'[p].address = pool[p].address
                         /\ pool'[p].connections = pool[p].connections,
         addr' = [addr EXCEPT ![thread[t].conn] = NoNode],
         faults' \in 0 .. MaxFaults, UNCHANGED <<ringVars, pools, admin, changes>>
  PROVE  Inv'
<1>1. PICK l \in ThreadType : /\ Locals(l) /\ l.conn = NoConn
                              /\ thread' = [thread EXCEPT ![t] = l]
  BY StartsAgain DEF ConnPc
<1>2. GoesOn(t, l)
  BY <1>1 DEF GoesOn
<1>3. thread[t].conn \in Conn
  BY LocalTypes DEF Locals
<1>. QED  BY <1>1, <1>2, <1>3, HeldConnCloses

LEMMA ExecuteCommandInv ==
  ASSUME Inv, NEW t \in Thread, NEW k \in Key, executeCommand(t, k)
  PROVE  Inv'
<1>. DEFINE l == [Idle EXCEPT !.pc = "route", !.key = k]
<1>1. thread[t].conn = NoConn
  BY LocalTypes DEF Locals, ConnPc, executeCommand, At
<1>2. l.pc = "route" /\ l.key = k /\ l.conn = NoConn
  BY IdleType DEF ThreadType
<1>3. l \in ThreadType
  BY IdleType DEF ThreadType, ThreadPc
<1>. HIDE DEF l
<1>4. Locals(l)
  BY <1>2 DEF Locals, PoolPc, ConnPc
<1>5. GoesOn(t, l) /\ l.conn = NoConn
  BY <1>2, <1>3, <1>4, LocalTypes DEF GoesOn, executeCommand, sharedVars, Unchanged, l
<1>6. UNCHANGED <<pool, addr>>
  BY DEF executeCommand, sharedVars
<1>. QED  BY <1>1, <1>5, <1>6, NoConnMoves

LEMMA RouteInv ==
  ASSUME Inv, NEW t \in Thread, Route(t)
  PROVE  Inv'
<1>1. /\ thread[t].pc = "route" /\ thread[t].key \in Key /\ thread[t].conn = NoConn
      /\ UNCHANGED <<ringVars, pools, pool, addr, admin, changes, faults>>
  BY LocalTypes DEF Route, At, Locals, ConnPc, Unchanged, sharedVars
<1>. DEFINE n == Ring!GetNode(thread[t].key)
<1>2. n \in Node \cup {NoNode}
  BY <1>1, RoutedToNode DEF Inv
<1>4. CASE n = NoNode
  BY <1>1, <1>4, LocalTypes, StartsAgainInv DEF Route
<1>5. CASE n # NoNode
  <2>0. thread' = [thread EXCEPT ![t].pc = "lookup", ![t].node = n]
    BY <1>5 DEF Route
  <2>. HIDE DEF n
  <2>. DEFINE l == [thread[t] EXCEPT !.pc = "lookup", !.node = n]
  <2>1. l \in ThreadType
    BY <1>2, <1>5, LocalTypes DEF ThreadType, ThreadPc
  <2>2. Locals(l)
    BY <1>1, <1>2, <1>5, LocalTypes DEF Locals, PoolPc, ConnPc, ThreadType
  <2>3. thread' = [thread EXCEPT ![t] = l] /\ l.conn = thread[t].conn
    BY <2>0, LocalTypes DEF ThreadType
  <2>. HIDE DEF l
  <2>4. GoesOn(t, l)
    BY <1>1, <2>1, <2>2, <2>3, LocalTypes DEF GoesOn
  <2>. QED  BY <1>1, <2>3, <2>4, NoConnMoves
<1>. QED  BY <1>4, <1>5

LEMMA LookupInv ==
  ASSUME Inv, NEW t \in Thread, Lookup(t)
  PROVE  Inv'
<1>1. /\ thread[t].pc = "lookup" /\ thread[t].key \in Key /\ thread[t].conn = NoConn
      /\ thread[t].node \in Node
      /\ UNCHANGED <<ringVars, pools, pool, addr, admin, changes, faults>>
  BY LocalTypes DEF Lookup, At, Locals, ConnPc, Unchanged, sharedVars
<1>. DEFINE p == pools[thread[t].node]
<1>2. CASE p = NoPool
  BY <1>1, <1>2, LocalTypes, StartsAgainInv DEF Lookup
<1>3. CASE p # NoPool
  <2>. DEFINE l == [thread[t] EXCEPT !.pc = "get", !.pool = p]
  <2>0. thread' = [thread EXCEPT ![t].pc = "get", ![t].pool = p]
    BY <1>3 DEF Lookup
  <2>1. p \in Pool /\ pool[p].address \in Node
    BY <1>1, <1>3 DEF Inv, TypeOK, PoolsInv
  <2>. HIDE DEF p
  <2>2. l \in ThreadType
    BY <2>1, LocalTypes DEF ThreadType, ThreadPc
  <2>3. Locals(l)
    BY <1>1, <2>1, LocalTypes DEF Locals, PoolPc, ConnPc, ThreadType
  <2>4. thread' = [thread EXCEPT ![t] = l] /\ l.conn = thread[t].conn
    BY <2>0, LocalTypes DEF ThreadType
  <2>. HIDE DEF l
  <2>5. GoesOn(t, l)
    BY <1>1, <2>2, <2>3, <2>4, LocalTypes DEF GoesOn
  <2>. QED  BY <1>1, <2>4, <2>5, NoConnMoves
<1>. QED  BY <1>2, <1>3

\* A goroutine goes to another point of executeCommand with the same locals.
LEMMA GotoInv ==
  ASSUME Inv, NEW t \in Thread, NEW pc \in ThreadPc, Goto(t, pc),
         thread[t].pc \notin {"idle", "panic"}, pc # "idle",
         pc \notin {"lookup", "returnLookup"},
         pc \in PoolPc => thread[t].pc \in PoolPc,
         pc # "panic" => (pc \in ConnPc <=> thread[t].pc \in ConnPc),
         pool' \in [Pool -> PoolType],
         \A p \in Pool : pool'[p].address = pool[p].address
                         /\ pool'[p].connections = pool[p].connections,
         UNCHANGED <<ringVars, pools, addr, admin, changes, faults>>
  PROVE  Inv'
<1>. DEFINE l == [thread[t] EXCEPT !.pc = pc]
<1>1. l \in ThreadType /\ l.pc = pc /\ l.conn = thread[t].conn /\ l.key = thread[t].key
      /\ l.pool = thread[t].pool
  BY LocalTypes DEF ThreadType
<1>2. thread' = [thread EXCEPT ![t] = l]
  BY LocalTypes DEF Goto, ThreadType
<1>. HIDE DEF l
<1>3. Locals(l)
  BY <1>1, LocalTypes DEF Locals, ConnPc
<1>4. GoesOn(t, l)
  BY <1>1, <1>2, <1>3, LocalTypes DEF GoesOn
<1>. QED  BY <1>1, <1>4, NoConnMoves

\* A goroutine in pool.Get receives a connection, or a nil one from a closed pool.
LEMMA ReceiveInv ==
  ASSUME Inv, NEW t \in Thread, thread[t].pc \in {"get", "wait"}, Receive(t),
         UNCHANGED <<ringVars, pools, addr, admin, changes, faults>>
  PROVE  Inv'
<1>. DEFINE p == thread[t].pool
            c == Head(pool[p].connections)
<1>1. p \in Pool /\ thread[t].conn = NoConn /\ thread[t].key \in Key
      /\ pool[p].address \in Node
  BY LocalTypes DEF Locals, PoolPc, ConnPc
<1>2. CASE Goto(t, "panic") /\ UNCHANGED pool
  BY <1>2, LocalTypes, GotoInv DEF ThreadPc, PoolPc, ConnPc
<1>3. CASE /\ pool[p].connections # <<>>
           /\ Hold(t, c)
           /\ pool' = [pool EXCEPT ![p].connections = Tail(@)]
  <2>. DEFINE l == [thread[t] EXCEPT !.pc = "exchange", !.conn = c]
  <2>1. /\ c \in Conn /\ pool' \in [Pool -> PoolType]
        /\ \A q \in Pool : pool'[q].address = pool[q].address
    BY <1>1, <1>3, HeadLeaves
  <2>2. l \in ThreadType /\ l.pc = "exchange" /\ l.conn = c /\ l.key = thread[t].key
        /\ l.pool = p
    BY <2>1, LocalTypes DEF ThreadType, ThreadPc
  <2>3. thread' = [thread EXCEPT ![t] = l]
    BY <1>3, LocalTypes DEF Hold, ThreadType
  <2>. HIDE DEF l
  <2>4. Locals(l)
    BY <1>1, <2>1, <2>2 DEF Locals, ConnPc
  <2>5. GoesOn(t, l)
    BY <2>1, <2>2, <2>3, <2>4, LocalTypes DEF GoesOn
  <2>. QED  BY <1>1, <1>3, <2>2, <2>5, ConnTaken
<1>. QED  BY <1>2, <1>3 DEF Receive

LEMMA TryGetInv ==
  ASSUME Inv, NEW t \in Thread, TryGet(t)
  PROVE  Inv'
<1>1. /\ thread[t].pc = "get"
      /\ UNCHANGED <<ringVars, pools, addr, admin, changes, faults>>
  BY DEF TryGet, At, Unchanged
<1>2. CASE Receive(t)
  BY <1>1, <1>2, ReceiveInv
<1>3. CASE Goto(t, "reserve") /\ UNCHANGED pool
  BY <1>1, <1>3, LocalTypes, GotoInv DEF ThreadPc, PoolPc, ConnPc
<1>. QED  BY <1>2, <1>3 DEF TryGet

\* Counting a connection more or less moves none.
LEMMA CreatedChanges ==
  ASSUME Inv, NEW p \in Pool, NEW d \in Int, pool' = [pool EXCEPT ![p].created = @ + d]
  PROVE  /\ pool' \in [Pool -> PoolType]
         /\ \A q \in Pool : /\ pool'[q].address = pool[q].address
                            /\ pool'[q].connections = pool[q].connections
                            /\ pool'[q].closed = pool[q].closed
                            /\ pool'[q].created = IF q = p THEN pool[q].created + d
                                                           ELSE pool[q].created
<1>1. pool \in [Pool -> PoolType]
  BY LocalTypes, ClientPoolAssumption DEF Inv, TypeOK, PoolType
<1>2. \A q \in Pool : pool'[q] = IF q = p THEN [pool[p] EXCEPT !.created = @ + d] ELSE pool[q]
  BY <1>1
<1>3. [pool[p] EXCEPT !.created = @ + d] \in PoolType
  <2>1. pool[p] \in PoolType
    BY <1>1
  <2>2. pool[p].created + d \in Int
    BY <2>1 DEF PoolType
  <2>. QED  BY <2>1, <2>2, Zenon DEF PoolType
<1>4. pool' \in [Pool -> PoolType]
  BY <1>1, <1>2, <1>3
<1>. QED  BY <1>1, <1>2, <1>4 DEF PoolType

LEMMA ReserveInv ==
  ASSUME Inv, NEW t \in Thread, Reserve(t)
  PROVE  Inv'
<1>1. /\ thread[t].pc = "reserve" /\ thread[t].pool \in Pool
      /\ UNCHANGED <<ringVars, pools, addr, admin, changes, faults>>
  BY LocalTypes DEF Reserve, At, Unchanged, Locals, PoolPc
<1>2. CASE /\ Goto(t, "dial")
           /\ pool' = [pool EXCEPT ![thread[t].pool].created = @ + 1]
  <2>1. /\ pool' \in [Pool -> PoolType]
        /\ \A p \in Pool : /\ pool'[p].address = pool[p].address
                           /\ pool'[p].connections = pool[p].connections
    <3>. DEFINE p == thread[t].pool
    <3>1. pool' = [pool EXCEPT ![p].created = @ + 1] /\ p \in Pool
      BY <1>1, <1>2
    <3>. HIDE DEF p
    <3>2. 1 \in Int
      OBVIOUS
    <3>. QED  BY <3>1, <3>2, CreatedChanges
  <2>. QED  BY <1>1, <1>2, <2>1, GotoInv DEF ThreadPc, PoolPc, ConnPc
<1>3. CASE Goto(t, "wait") /\ UNCHANGED pool
  BY <1>1, <1>3, LocalTypes, GotoInv DEF ThreadPc, PoolPc, ConnPc
<1>. QED  BY <1>2, <1>3 DEF Reserve

LEMMA DialInv ==
  ASSUME Inv, NEW t \in Thread, Dial(t)
  PROVE  Inv'
<1>. DEFINE p == thread[t].pool
<1>1. /\ thread[t].pc = "dial" /\ p \in Pool /\ thread[t].conn = NoConn
      /\ pool[p].address \in Node /\ thread[t].key \in Key
      /\ UNCHANGED <<ringVars, pools, admin, changes>>
  BY LocalTypes DEF Dial, At, Unchanged, Locals, PoolPc, ConnPc
<1>2. CASE /\ addr' = [addr EXCEPT ![FreshConn] = pool[p].address]
           /\ Hold(t, FreshConn)
           /\ UNCHANGED <<pool, faults>>
  <2>. DEFINE c == FreshConn
              l == [thread[t] EXCEPT !.pc = "exchange", !.conn = c]
  <2>1. c \in Conn /\ addr[c] = NoNode
    BY <1>1, FreshConnExists
  <2>. HIDE DEF c
  <2>2. l \in ThreadType /\ l.pc = "exchange" /\ l.conn = c /\ l.key = thread[t].key
        /\ l.pool = p
    BY <2>1, LocalTypes DEF ThreadType, ThreadPc
  <2>3. thread' = [thread EXCEPT ![t] = l]
    BY <1>2, LocalTypes DEF Hold, ThreadType, c
  <2>. HIDE DEF l
  <2>4. Locals(l)
    BY <1>1, <2>1, <2>2 DEF Locals, ConnPc
  <2>5. GoesOn(t, l)
    BY <1>1, <1>2, <2>2, <2>3, <2>4, LocalTypes DEF GoesOn
  <2>. QED  BY <1>1, <1>2, <2>1, <2>2, <2>5, ConnOpens DEF c
<1>3. CASE /\ faults < MaxFaults /\ faults' = faults + 1
           /\ pool' = [pool EXCEPT ![p].created = @ - 1]
           /\ NextAttempt(t) /\ UNCHANGED addr
  <2>1. pool' = [pool EXCEPT ![p].created = @ + (-1)]
    BY <1>1, <1>3, LocalTypes DEF PoolType
  <2>2. /\ pool' \in [Pool -> PoolType]
        /\ \A q \in Pool : /\ pool'[q].address = pool[q].address
                           /\ pool'[q].connections = pool[q].connections
    <3>. HIDE DEF p
    <3>1. -1 \in Int
      OBVIOUS
    <3>. QED  BY <1>1, <2>1, <3>1, CreatedChanges
  <2>3. faults' \in 0 .. MaxFaults
    BY <1>3, LocalTypes, ClientPoolAssumption DEF ClientPoolAssumption
  <2>. QED  BY <1>1, <1>3, <2>2, <2>3, StartsAgainInv
<1>. QED  BY <1>2, <1>3 DEF Dial

LEMMA WaitInv ==
  ASSUME Inv, NEW t \in Thread, Wait(t)
  PROVE  Inv'
<1>1. /\ thread[t].pc = "wait" /\ thread[t].conn = NoConn
      /\ UNCHANGED <<ringVars, pools, addr, admin, changes, faults>>
  BY LocalTypes DEF Wait, At, Unchanged, Locals, ConnPc
<1>2. CASE Receive(t)
  BY <1>1, <1>2, ReceiveInv
<1>3. CASE NextAttempt(t) /\ UNCHANGED pool
  BY <1>1, <1>3, LocalTypes, StartsAgainInv
<1>. QED  BY <1>2, <1>3 DEF Wait

LEMMA ExchangeInv ==
  ASSUME Inv, NEW t \in Thread, Exchange(t)
  PROVE  Inv'
<1>1. /\ thread[t].pc = "exchange"
      /\ UNCHANGED <<ringVars, pools, pool, admin, changes>>
  BY DEF Exchange, At, Unchanged
<1>2. CASE Goto(t, "return") /\ UNCHANGED <<addr, faults>>
  BY <1>1, <1>2, LocalTypes, GotoInv DEF ThreadPc, PoolPc, ConnPc
<1>3. CASE /\ faults < MaxFaults /\ faults' = faults + 1
           /\ addr' = [addr EXCEPT ![thread[t].conn] = NoNode]
           /\ NextAttempt(t)
  <2>1. faults' \in 0 .. MaxFaults
    BY <1>3, LocalTypes, ClientPoolAssumption DEF ClientPoolAssumption
  <2>. QED  BY <1>1, <1>3, <2>1, LocalTypes, ClosesAndStartsAgainInv DEF ConnPc
<1>. QED  BY <1>2, <1>3 DEF Exchange

LEMMA ReturnRouteInv ==
  ASSUME Inv, NEW t \in Thread, ReturnRoute(t)
  PROVE  Inv'
<1>. DEFINE n == Ring!GetNode(thread[t].key)
<1>1. /\ thread[t].pc = "return" /\ thread[t].key \in Key
      /\ thread[t].pool \in Pool /\ pool[thread[t].pool].address \in Node
      /\ thread[t].conn \in Conn
      /\ UNCHANGED <<ringVars, pools, pool, admin, changes, faults>>
  BY LocalTypes DEF ReturnRoute, At, Unchanged, Locals, PoolPc, ConnPc
<1>2. CASE n = NoNode
  BY <1>1, <1>2, LocalTypes, ClosesAndStartsAgainInv DEF ReturnRoute, ConnPc
<1>3. CASE n # NoNode
  <2>. DEFINE l == [thread[t] EXCEPT !.pc = "returnLookup", !.node = n]
  <2>1. /\ thread' = [thread EXCEPT ![t].pc = "returnLookup", ![t].node = n]
        /\ UNCHANGED addr
    BY <1>3 DEF ReturnRoute
  <2>2. n \in Node
    BY <1>1, <1>3, RoutedToNode DEF Inv
  <2>. HIDE DEF n
  <2>3. l \in ThreadType /\ l.pc = "returnLookup" /\ l.node = n /\ l.key = thread[t].key
        /\ l.pool = thread[t].pool /\ l.conn = thread[t].conn
    BY <2>2, LocalTypes DEF ThreadType, ThreadPc
  <2>4. thread' = [thread EXCEPT ![t] = l]
    BY <2>1, LocalTypes DEF ThreadType
  <2>. HIDE DEF l
  <2>5. Locals(l)
    BY <1>1, <2>2, <2>3 DEF Locals, ConnPc
  <2>6. GoesOn(t, l)
    BY <1>1, <2>3, <2>4, <2>5, LocalTypes DEF GoesOn
  <2>. QED  BY <1>1, <2>1, <2>3, <2>6, NoConnMoves
<1>. QED  BY <1>2, <1>3

LEMMA ReturnLookupInv ==
  ASSUME Inv, NEW t \in Thread, ReturnLookup(t)
  PROVE  Inv'
<1>. DEFINE p == pools[thread[t].node]
<1>1. /\ thread[t].pc = "returnLookup" /\ thread[t].key \in Key
      /\ thread[t].node \in Node /\ thread[t].conn \in Conn
      /\ UNCHANGED <<ringVars, pools, pool, admin, changes, faults>>
  BY LocalTypes DEF ReturnLookup, At, Unchanged, Locals, PoolPc, ConnPc
<1>2. CASE p = NoPool
  BY <1>1, <1>2, LocalTypes, ClosesAndStartsAgainInv DEF ReturnLookup, ConnPc
<1>3. CASE p # NoPool
  <2>. DEFINE l == [thread[t] EXCEPT !.pc = "put", !.pool = p]
  <2>1. /\ thread' = [thread EXCEPT ![t].pc = "put", ![t].pool = p]
        /\ UNCHANGED addr
    BY <1>3 DEF ReturnLookup
  <2>2. p \in Pool /\ pool[p].address \in Node
    BY <1>1, <1>3 DEF Inv, TypeOK, PoolsInv
  <2>. HIDE DEF p
  <2>3. l \in ThreadType /\ l.pc = "put" /\ l.pool = p /\ l.key = thread[t].key
        /\ l.conn = thread[t].conn
    BY <2>2, LocalTypes DEF ThreadType, ThreadPc
  <2>4. thread' = [thread EXCEPT ![t] = l]
    BY <2>1, LocalTypes DEF ThreadType
  <2>. HIDE DEF l
  <2>5. Locals(l)
    BY <1>1, <2>2, <2>3 DEF Locals, ConnPc
  <2>6. GoesOn(t, l)
    BY <1>1, <2>3, <2>4, <2>5, LocalTypes DEF GoesOn
  <2>. QED  BY <1>1, <2>1, <2>3, <2>6, NoConnMoves
<1>. QED  BY <1>2, <1>3

LEMMA PutInv ==
  ASSUME Inv, NEW t \in Thread, Put(t)
  PROVE  Inv'
<1>. DEFINE p == thread[t].pool
            c == thread[t].conn
<1>1. /\ thread[t].pc = "put" /\ thread[t].key \in Key
      /\ p \in Pool /\ pool[p].address \in Node /\ c \in Conn
      /\ UNCHANGED <<ringVars, pools, admin, changes, faults>>
  BY LocalTypes DEF Put, At, Unchanged, Locals, PoolPc, ConnPc
<1>2. CASE Goto(t, "panic") /\ UNCHANGED <<pool, addr>>
  BY <1>1, <1>2, LocalTypes, GotoInv DEF ThreadPc, PoolPc, ConnPc
<1>3. CASE /\ Len(pool[p].connections) < MaxConnsPerNode
           /\ pool' = [pool EXCEPT ![p].connections = Append(@, c)]
           /\ Finish(t) /\ UNCHANGED addr
  <2>1. PICK l \in ThreadType : /\ Locals(l) /\ l.conn = NoConn
                                /\ thread' = [thread EXCEPT ![t] = l]
    BY <1>1, <1>3, StartsAgain
  <2>2. /\ pool' \in [Pool -> PoolType]
        /\ \A q \in Pool : pool'[q].address = pool[q].address
    <3>1. pool \in [Pool -> PoolType] /\ Append(pool[p].connections, c) \in Seq(Conn)
      BY <1>1, LocalTypes, AppendToConns DEF PoolType
    <3>. HIDE DEF p, c
    <3>. QED  BY <1>1, <1>3, <3>1 DEF PoolType
  <2>3. GoesOn(t, l)
    BY <1>1, <2>1, <2>2, LocalTypes DEF GoesOn
  <2>. QED  BY <1>1, <1>3, <2>1, <2>3, ConnPutBack
<1>4. CASE /\ addr' = [addr EXCEPT ![c] = NoNode]
           /\ pool' = [pool EXCEPT ![p].created = @ - 1]
           /\ Finish(t)
  <2>1. pool' = [pool EXCEPT ![p].created = @ + (-1)]
    BY <1>1, <1>4, LocalTypes DEF PoolType
  <2>2. /\ pool' \in [Pool -> PoolType]
        /\ \A q \in Pool : /\ pool'[q].address = pool[q].address
                           /\ pool'[q].connections = pool[q].connections
    <3>. HIDE DEF p
    <3>1. -1 \in Int
      OBVIOUS
    <3>. QED  BY <1>1, <2>1, <3>1, CreatedChanges
  <2>. QED  BY <1>1, <1>4, <2>2, LocalTypes, ClosesAndStartsAgainInv DEF ConnPc
<1>. QED  BY <1>2, <1>3, <1>4 DEF Put

-------------------------------------------------------------------------------
(* The steps of the administrator *)

LEMMA UsedPoolsFinite ==
  /\ IsFiniteSet(UsedPools) /\ Cardinality(UsedPools) \in Nat
  /\ Cardinality(InitialNodes) \in Nat /\ Cardinality(Pool) \in Nat
<1>1. UsedPools \in SUBSET Pool
  BY DEF UsedPools
<1>. QED  BY <1>1, ClientPoolAssumption, FS_Subset, FS_CardinalityType DEF ClientPoolAssumption

\* The administrator's call goes on and no pool, connection or goroutine changes
\* but for a pool being closed.
LEMMA NothingMoves ==
  ASSUME Inv, UNCHANGED <<pools, thread, addr, faults>>,
         pool' \in [Pool -> PoolType],
         \A p \in Pool : pool'[p].address = pool[p].address
                         /\ pool'[p].connections = pool[p].connections
  PROVE  /\ LocalsInv' /\ PoolsInv' /\ ConnInv' /\ UsedPools' = UsedPools
         /\ /\ admin' \in [pc : {"new", "rest", "addPool", "closePool", "drain", "shut"},
                           op : {"none", "add", "remove", "close"}, node : Node \cup {NoNode}]
            /\ changes' \in 0 .. MaxChanges
            => TypeOK'
<1>1. LocalsInv'
  <2>. SUFFICES ASSUME NEW t \in Thread PROVE Locals(thread[t])'
    BY DEF LocalsInv
  <2>1. Locals(thread[t]) /\ thread'[t] = thread[t]
    BY LocalTypes
  <2>. QED  BY <2>1 DEF Locals, PoolPc, ConnPc
<1>2. PoolsInv'
  <2>1. \A n \in Node : pools'[n] # NoPool => pool'[pools'[n]].address = n
    BY DEF Inv, PoolsInv, TypeOK
  <2>2. \A p \in Pool : /\ pool'[p].address = NoNode => pool'[p].connections = <<>>
                        /\ Len(pool'[p].connections) <= MaxConnsPerNode
    BY DEF Inv, PoolsInv
  <2>. QED  BY <2>1, <2>2 DEF PoolsInv
<1>3. ConnInv'
  <2>1. \A c \in Conn : Pooled(c)' = Pooled(c) /\ Held(c)' = Held(c)
    BY DEF Pooled, Held
  <2>. QED  BY <2>1 DEF Inv, ConnInv
<1>4. UsedPools' = UsedPools
  BY DEF UsedPools
<1>. QED  BY <1>1, <1>2, <1>3, <1>4 DEF Inv, TypeOK, PoolType

AdminType == [pc : {"new", "rest", "addPool", "closePool", "drain", "shut"},
              op : {"none", "add", "remove", "close"}, node : Node \cup {NoNode}]

LEMMA AdminTypes ==
  ASSUME Inv
  PROVE  /\ admin \in AdminType /\ changes \in 0 .. MaxChanges /\ MaxChanges \in Nat
         /\ pool \in [Pool -> PoolType] /\ nodes \subseteq Node
BY ClientPoolAssumption
DEF Inv, TypeOK, AdminType, PoolType, RP!RingInv, RP!TypeOK, ClientPoolAssumption

LEMMA BeginType ==
  ASSUME NEW op \in {"none", "add", "remove", "close"}, NEW n \in Node \cup {NoNode},
         NEW pc \in {"new", "rest", "addPool", "closePool", "drain", "shut"},
         Begin(op, n, pc)
  PROVE  admin' \in AdminType /\ admin'.pc = pc /\ admin'.op = op /\ admin'.node = n
BY DEF Begin, AdminType

LEMMA RestingType ==
  /\ Resting \in AdminType /\ Resting.pc = "rest" /\ Resting.op = "none"
  /\ Shut \in AdminType /\ Shut.pc = "shut" /\ Shut.op = "none"
BY DEF Resting, Shut, AdminType

LEMMA AddNodeInv ==
  ASSUME Inv, NEW n \in Node, AddNode(n)
  PROVE  Inv'
<1>1. /\ admin.pc = "rest" /\ changes < MaxChanges /\ changes' = changes + 1
      /\ Ring!AddNode(n) /\ Begin("add", n, "addPool")
      /\ UNCHANGED <<pools, pool, addr, thread, faults>>
  BY DEF AddNode, MayChange, Admin, sharedVars
<1>2. admin' \in AdminType /\ admin'.pc = "addPool" /\ admin'.node = n
  BY <1>1, BeginType
<1>3. RP!RingInv'
  BY <1>1, RingAdd DEF Inv
<1>4. changes' \in 0 .. MaxChanges
  BY <1>1, AdminTypes
<1>5. LocalsInv' /\ PoolsInv' /\ ConnInv' /\ UsedPools' = UsedPools /\ TypeOK'
  BY <1>1, <1>2, <1>4, AdminTypes, NothingMoves DEF AdminType
<1>6. AdminInv'
  BY <1>2 DEF AdminInv
<1>7. PoolsCounted'
  <2>1. Cardinality(UsedPools) <= Cardinality(InitialNodes) + changes
    BY <1>1, UsedPoolsFinite DEF Inv, PoolsCounted
  <2>2. Cardinality(UsedPools) + 1 <= Cardinality(InitialNodes) + changes'
    BY <1>1, <2>1, UsedPoolsFinite, AdminTypes
  <2>. QED  BY <1>2, <1>5, <2>2 DEF PoolsCounted
<1>. QED  BY <1>3, <1>5, <1>6, <1>7 DEF Inv

LEMMA RemoveNodeInv ==
  ASSUME Inv, NEW n \in Node, RemoveNode(n)
  PROVE  Inv'
<1>1. /\ admin.pc = "rest" /\ changes < MaxChanges /\ changes' = changes + 1
      /\ Ring!RemoveNode(n)
      /\ IF pools[n] = NoPool THEN UNCHANGED admin ELSE Begin("remove", n, "closePool")
      /\ UNCHANGED <<pools, pool, addr, thread, faults>>
  BY DEF RemoveNode, MayChange, Admin, sharedVars
<1>2. /\ admin' \in AdminType /\ admin'.pc \in {"rest", "closePool"}
      /\ admin'.pc = "closePool" => admin'.node = n /\ pools[n] # NoPool
  <2>1. CASE pools[n] = NoPool
    BY <1>1, <2>1, AdminTypes
  <2>2. CASE pools[n] # NoPool
    BY <1>1, <2>2, BeginType
  <2>. QED  BY <2>1, <2>2
<1>3. RP!RingInv'
  BY <1>1, RingRemove DEF Inv
<1>4. changes' \in 0 .. MaxChanges
  BY <1>1, AdminTypes
<1>5. LocalsInv' /\ PoolsInv' /\ ConnInv' /\ UsedPools' = UsedPools /\ TypeOK'
  BY <1>1, <1>2, <1>4, AdminTypes, NothingMoves DEF AdminType
<1>6. AdminInv'
  BY <1>1, <1>2 DEF AdminInv
<1>7. PoolsCounted'
  <2>1. Cardinality(UsedPools) <= Cardinality(InitialNodes) + changes
    BY <1>1, UsedPoolsFinite DEF Inv, PoolsCounted
  <2>2. Cardinality(UsedPools) + 0 <= Cardinality(InitialNodes) + changes'
    BY <1>1, <2>1, UsedPoolsFinite, AdminTypes
  <2>. QED  BY <1>2, <1>5, <2>2 DEF PoolsCounted
<1>. QED  BY <1>3, <1>5, <1>6, <1>7 DEF Inv

\* The administrator goes on to a pool that is still open, or has closed the client.
LEMMA ClosesNext ==
  ASSUME Inv, IF StillOpen = {} THEN admin' = Shut
              ELSE \E n \in StillOpen : Begin("close", n, "closePool")
  PROVE  /\ admin' \in AdminType /\ admin'.pc \in {"shut", "closePool"}
         /\ admin'.op \in {"none", "close"}
         /\ admin'.pc = "closePool" => admin'.node \in Node /\ pools[admin'.node] # NoPool
<1>1. CASE StillOpen = {}
  BY <1>1, RestingType
<1>2. CASE StillOpen # {}
  <2>1. PICK n \in StillOpen : Begin("close", n, "closePool")
    BY <1>2
  <2>2. n \in Node /\ pools[n] # NoPool
    BY DEF StillOpen
  <2>. QED  BY <2>1, <2>2, BeginType
<1>. QED  BY <1>1, <1>2

LEMMA CloseInv ==
  ASSUME Inv, Close
  PROVE  Inv'
<1>1. /\ admin.pc = "rest" /\ changes < MaxChanges /\ changes' = changes + 1
      /\ IF StillOpen = {} THEN admin' = Shut
         ELSE \E n \in StillOpen : Begin("close", n, "closePool")
      /\ UNCHANGED <<ringVars, pools, pool, addr, thread, faults>>
  BY DEF Close, MayChange, Admin, sharedVars
<1>2. /\ admin' \in AdminType /\ admin'.pc \in {"shut", "closePool"}
      /\ admin'.pc = "closePool" => admin'.node \in Node /\ pools[admin'.node] # NoPool
  BY <1>1, ClosesNext
<1>3. RP!RingInv'
  BY <1>1, RingUnchanged DEF Inv
<1>4. changes' \in 0 .. MaxChanges
  BY <1>1, AdminTypes
<1>5. LocalsInv' /\ PoolsInv' /\ ConnInv' /\ UsedPools' = UsedPools /\ TypeOK'
  BY <1>1, <1>2, <1>4, AdminTypes, NothingMoves DEF AdminType
<1>6. AdminInv'
  BY <1>1, <1>2 DEF AdminInv
<1>7. PoolsCounted'
  <2>1. Cardinality(UsedPools) <= Cardinality(InitialNodes) + changes
    BY <1>1, UsedPoolsFinite DEF Inv, PoolsCounted
  <2>2. Cardinality(UsedPools) + 0 <= Cardinality(InitialNodes) + changes'
    BY <1>1, <2>1, UsedPoolsFinite, AdminTypes
  <2>. QED  BY <1>2, <1>5, <2>2 DEF PoolsCounted
<1>. QED  BY <1>3, <1>5, <1>6, <1>7 DEF Inv

LEMMA ClosePoolInv ==
  ASSUME Inv, ClosePool
  PROVE  Inv'
<1>1. /\ admin.pc = "closePool" /\ Begin(admin.op, admin.node, "drain")
      /\ pool' = [pool EXCEPT ![pools[admin.node]].closed = TRUE]
      /\ UNCHANGED <<ringVars, pools, addr, thread, changes, faults>>
  BY DEF ClosePool, Admin
<1>2. /\ admin' \in AdminType /\ admin'.pc = "drain" /\ admin'.node = admin.node
  <2>1. admin.op \in {"none", "add", "remove", "close"} /\ admin.node \in Node \cup {NoNode}
    BY AdminTypes DEF AdminType
  <2>. QED  BY <1>1, <2>1, BeginType
<1>3. RP!RingInv'
  BY <1>1, RingUnchanged DEF Inv
<1>4. pools[admin.node] \in Pool /\ admin.node \in Node /\ pools[admin.node] # NoPool
  BY <1>1 DEF Inv, AdminInv, TypeOK
<1>5. /\ pool' \in [Pool -> PoolType]
      /\ \A p \in Pool : /\ pool'[p].address = pool[p].address
                         /\ pool'[p].connections = pool[p].connections
  <2>. DEFINE q == pools[admin.node]
  <2>1. [pool[q] EXCEPT !.closed = TRUE] \in PoolType
    BY <1>4, AdminTypes, Zenon DEF PoolType
  <2>2. \A p \in Pool : pool'[p] = IF p = q THEN [pool[q] EXCEPT !.closed = TRUE] ELSE pool[p]
    BY <1>1, <1>4, AdminTypes
  <2>3. pool' \in [Pool -> PoolType]
    BY <1>1, <1>4, <2>1, <2>2, AdminTypes
  <2>4. /\ [pool[q] EXCEPT !.closed = TRUE].address = pool[q].address
        /\ [pool[q] EXCEPT !.closed = TRUE].connections = pool[q].connections
    BY <1>4, AdminTypes, Zenon DEF PoolType
  <2>. HIDE DEF q
  <2>. QED  BY <2>2, <2>3, <2>4
<1>6. LocalsInv' /\ PoolsInv' /\ ConnInv' /\ UsedPools' = UsedPools /\ TypeOK'
  BY <1>1, <1>2, <1>5, AdminTypes, NothingMoves DEF AdminType
<1>7. AdminInv'
  BY <1>1, <1>2, <1>4 DEF AdminInv
<1>8. PoolsCounted'
  BY <1>1, <1>2, <1>6 DEF Inv, PoolsCounted
<1>. QED  BY <1>3, <1>6, <1>7, <1>8 DEF Inv

\* A new pool is added to the map.
LEMMA CreatesPool ==
  ASSUME Inv, NEW n \in Node, Cardinality(UsedPools) < Cardinality(Pool), CreatePool(n),
         UNCHANGED <<thread, addr, faults>>
  PROVE  /\ LocalsInv' /\ PoolsInv' /\ ConnInv'
         /\ Cardinality(UsedPools') <= Cardinality(UsedPools) + 1
         /\ /\ admin' \in AdminType /\ changes' \in 0 .. MaxChanges
            => TypeOK'
<1>. DEFINE f == FreshPool
<1>0. n # NoNode /\ NoNode \notin Node /\ NoPool \notin Pool /\ MaxConnsPerNode \in Nat
  BY IdleType, ClientPoolAssumption DEF ClientPoolAssumption
<1>1. f \in Pool /\ pool[f].address = NoNode /\ pool[f].connections = <<>>
  BY FreshPoolExists DEF Inv, PoolsInv
<1>2. pools' = [pools EXCEPT ![n] = f] /\ pool' = [pool EXCEPT ![f] = NewPool(n)]
  BY DEF CreatePool
<1>. HIDE DEF f
<1>3. /\ NewPool(n) \in PoolType
      /\ NewPool(n).address = n /\ NewPool(n).connections = <<>>
  BY DEF NewPool, PoolType
<1>4. /\ pools \in [Node -> Pool \cup {NoPool}] /\ pool \in [Pool -> PoolType]
      /\ pools' \in [Node -> Pool \cup {NoPool}] /\ pool' \in [Pool -> PoolType]
      /\ \A m \in Node : pools'[m] = IF m = n THEN f ELSE pools[m]
      /\ \A p \in Pool : pool'[p] = IF p = f THEN NewPool(n) ELSE pool[p]
  <2>1. pools \in [Node -> Pool \cup {NoPool}] /\ pool \in [Pool -> PoolType]
    BY DEF Inv, TypeOK, PoolType
  <2>. QED  BY <1>1, <1>2, <1>3, <2>1
<1>5. \A p \in Pool : pool'[p].connections = pool[p].connections
  BY <1>1, <1>3, <1>4
<1>6. \A p \in Pool : pool'[p].address = IF p = f THEN n ELSE pool[p].address
  BY <1>3, <1>4
<1>7. LocalsInv'
  <2>. SUFFICES ASSUME NEW t \in Thread PROVE Locals(thread[t])'
    BY DEF LocalsInv
  <2>1. Locals(thread[t]) /\ thread'[t] = thread[t]
    BY LocalTypes
  <2>. QED  BY <1>6, <2>1 DEF Locals, PoolPc, ConnPc
<1>8. PoolsInv'
  <2>1. ASSUME NEW m \in Node, pools'[m] # NoPool PROVE pool'[pools'[m]].address = m
    <3>1. CASE m = n
      BY <1>1, <1>4, <1>6, <3>1
    <3>2. CASE m # n
      <4>1. pools[m] \in Pool /\ pool[pools[m]].address = m /\ pools'[m] = pools[m]
        BY <1>4, <2>1, <3>2 DEF Inv, PoolsInv
      <4>2. pools[m] # f
        BY <1>0, <1>1, <4>1
      <4>. QED  BY <1>6, <4>1, <4>2
    <3>. QED  BY <3>1, <3>2
  <2>2. \A p \in Pool : /\ pool'[p].address = NoNode => pool'[p].connections = <<>>
                        /\ Len(pool'[p].connections) <= MaxConnsPerNode
    BY <1>1, <1>5, <1>6 DEF Inv, PoolsInv
  <2>. QED  BY <2>1, <2>2 DEF PoolsInv
<1>9. ConnInv'
  <2>1. \A c \in Conn : Pooled(c)' = Pooled(c) /\ Held(c)' = Held(c)
    BY <1>5 DEF Pooled, Held
  <2>. QED  BY <1>5, <2>1 DEF Inv, ConnInv
<1>10. Cardinality(UsedPools') <= Cardinality(UsedPools) + 1
  <2>1. UsedPools' = UsedPools \cup {f}
    BY <1>0, <1>1, <1>6 DEF UsedPools
  <2>2. Cardinality(UsedPools \cup {f}) = IF f \in UsedPools THEN Cardinality(UsedPools)
                                          ELSE Cardinality(UsedPools) + 1
    BY UsedPoolsFinite, FS_AddElement
  <2>. QED  BY <2>1, <2>2, UsedPoolsFinite
<1>11. ASSUME admin' \in AdminType, changes' \in 0 .. MaxChanges PROVE TypeOK'
  BY <1>4, <1>11 DEF Inv, TypeOK, AdminType, PoolType
<1>. QED  BY <1>7, <1>8, <1>9, <1>10, <1>11

\* NewWithConfig has a pool for every node of cfg.Nodes.
LEMMA PoolPerInitialNode ==
  ASSUME Inv, admin.pc = "new", NEW n \in InitialNodes \ nodes
  PROVE  /\ Cardinality(nodes) \in Nat
         /\ Cardinality(nodes \cup {n}) = Cardinality(nodes) + 1
         /\ Cardinality(nodes \cup {n}) <= Cardinality(InitialNodes)
         /\ Cardinality(UsedPools) <= Cardinality(nodes)
         /\ Cardinality(UsedPools) < Cardinality(Pool)
<1>1. /\ nodes \subseteq InitialNodes /\ changes = 0
      /\ Cardinality(UsedPools) <= Cardinality(nodes)
  BY DEF Inv, AdminInv, PoolsCounted
<1>2. IsFiniteSet(InitialNodes) /\ nodes \cup {n} \in SUBSET InitialNodes
  BY <1>1, ClientPoolAssumption DEF ClientPoolAssumption
<1>3. IsFiniteSet(nodes) /\ Cardinality(nodes) \in Nat
  BY <1>1, <1>2, FS_Subset, FS_CardinalityType
<1>4. Cardinality(nodes \cup {n}) = Cardinality(nodes) + 1
  BY <1>3, FS_AddElement
<1>5. Cardinality(nodes \cup {n}) <= Cardinality(InitialNodes)
  BY <1>2, FS_Subset
<1>6. Cardinality(UsedPools) < Cardinality(Pool)
  BY <1>1, <1>3, <1>4, <1>5, UsedPoolsFinite, ClientPoolAssumption DEF ClientPoolAssumption
<1>. QED  BY <1>1, <1>3, <1>4, <1>5, <1>6

LEMMA NewWithConfigInv ==
  ASSUME Inv, NEW n \in Node, NewWithConfig(n)
  PROVE  Inv'
<1>1. /\ admin.pc = "new" /\ n \in InitialNodes /\ n \notin nodes /\ Ring!AddNode(n)
      /\ CreatePool(n)
      /\ admin' = IF nodes' = InitialNodes THEN Resting ELSE admin
      /\ UNCHANGED <<addr, thread, changes, faults>>
  BY DEF NewWithConfig, Admin
<1>2. nodes' = nodes \cup {n}
  BY <1>1 DEF Ring!AddNode
<1>3. nodes \subseteq InitialNodes /\ changes = 0 /\ Cardinality(UsedPools) <= Cardinality(nodes)
  BY <1>1 DEF Inv, AdminInv, PoolsCounted
<1>4. /\ Cardinality(nodes) \in Nat
      /\ Cardinality(nodes') = Cardinality(nodes) + 1
      /\ Cardinality(nodes') <= Cardinality(InitialNodes)
  BY <1>1, <1>2, PoolPerInitialNode
<1>5. Cardinality(UsedPools) < Cardinality(Pool)
  BY <1>1, PoolPerInitialNode
<1>6. RP!RingInv'
  BY <1>1, RingAdd DEF Inv
<1>7. /\ admin' \in AdminType /\ admin'.pc \in {"new", "rest"}
      /\ admin'.pc = "rest" => nodes' = InitialNodes
  BY <1>1, AdminTypes, RestingType
<1>8. LocalsInv' /\ PoolsInv' /\ ConnInv' /\ TypeOK'
      /\ Cardinality(UsedPools') <= Cardinality(UsedPools) + 1
  BY <1>1, <1>5, <1>7, AdminTypes, CreatesPool
<1>9. AdminInv'
  BY <1>1, <1>2, <1>3, <1>7 DEF AdminInv
<1>10. PoolsCounted'
  <2>1. Cardinality(UsedPools') \in Nat
    <3>1. UsedPools' \in SUBSET Pool
      BY DEF UsedPools
    <3>. QED  BY <3>1, ClientPoolAssumption, FS_Subset, FS_CardinalityType
              DEF ClientPoolAssumption
  <2>2. Cardinality(UsedPools') <= Cardinality(nodes')
    BY <1>3, <1>4, <1>8, <2>1, UsedPoolsFinite
  <2>3. CASE admin'.pc = "new"
    BY <2>2, <2>3 DEF PoolsCounted
  <2>4. CASE admin'.pc = "rest"
    <3>1. Cardinality(UsedPools') + 0 <= Cardinality(InitialNodes) + changes'
      BY <1>1, <1>3, <1>7, <2>1, <2>2, <2>4, UsedPoolsFinite
    <3>. QED  BY <2>4, <3>1 DEF PoolsCounted
  <2>. QED  BY <1>7, <2>3, <2>4
<1>. QED  BY <1>6, <1>8, <1>9, <1>10 DEF Inv

LEMMA AddPoolInv ==
  ASSUME Inv, AddPool
  PROVE  Inv'
<1>1. /\ admin.pc = "addPool" /\ admin.node \in Node /\ admin' = Resting
      /\ UNCHANGED <<ringVars, addr, thread, changes, faults>>
  BY DEF AddPool, Admin, Inv, AdminInv
<1>2. RP!RingInv'
  BY <1>1, RingUnchanged DEF Inv
<1>3. admin' \in AdminType /\ admin'.pc = "rest"
  BY <1>1, RestingType
<1>4. AdminInv'
  BY <1>3 DEF AdminInv
<1>5. /\ Cardinality(UsedPools) + 1 <= Cardinality(InitialNodes) + changes
      /\ changes \in Nat /\ changes <= MaxChanges
  BY <1>1, AdminTypes DEF Inv, PoolsCounted
<1>6. CASE pools[admin.node] # NoPool
  <2>1. UNCHANGED <<pools, pool>>
    BY <1>6 DEF AddPool
  <2>2. LocalsInv' /\ PoolsInv' /\ ConnInv' /\ UsedPools' = UsedPools /\ TypeOK'
    BY <1>1, <1>3, <2>1, AdminTypes, NothingMoves DEF AdminType
  <2>3. Cardinality(UsedPools) + 0 <= Cardinality(InitialNodes) + changes'
    BY <1>1, <1>5, UsedPoolsFinite
  <2>4. PoolsCounted'
    BY <1>3, <2>2, <2>3 DEF PoolsCounted
  <2>. QED  BY <1>2, <1>4, <2>2, <2>4 DEF Inv
<1>7. CASE pools[admin.node] = NoPool
  <2>1. CreatePool(admin.node)
    BY <1>7 DEF AddPool
  <2>2. Cardinality(UsedPools) < Cardinality(Pool)
    BY <1>5, UsedPoolsFinite, ClientPoolAssumption DEF ClientPoolAssumption
  <2>3. LocalsInv' /\ PoolsInv' /\ ConnInv' /\ TypeOK'
        /\ Cardinality(UsedPools') <= Cardinality(UsedPools) + 1
    BY <1>1, <1>3, <2>1, <2>2, AdminTypes, CreatesPool
  <2>4. Cardinality(UsedPools') \in Nat
    <3>1. UsedPools' \in SUBSET Pool
      BY DEF UsedPools
    <3>. QED  BY <3>1, ClientPoolAssumption, FS_Subset, FS_CardinalityType
              DEF ClientPoolAssumption
  <2>5. Cardinality(UsedPools') + 0 <= Cardinality(InitialNodes) + changes'
    BY <1>1, <1>5, <2>3, <2>4, UsedPoolsFinite
  <2>6. PoolsCounted'
    BY <1>3, <2>5 DEF PoolsCounted
  <2>. QED  BY <1>2, <1>4, <2>3, <2>6 DEF Inv
<1>. QED  BY <1>6, <1>7

LEMMA DrainInv ==
  ASSUME Inv, Drain
  PROVE  Inv'
<1>. DEFINE p == pools[admin.node]
<1>1. /\ admin.pc = "drain" /\ admin.node \in Node /\ p \in Pool /\ p # NoPool
      /\ UNCHANGED <<ringVars, thread, changes, faults>>
  BY DEF Drain, Admin, Inv, AdminInv, TypeOK
<1>2. RP!RingInv'
  BY <1>1, RingUnchanged DEF Inv
<1>3. Cardinality(UsedPools) <= Cardinality(InitialNodes) + changes
  BY <1>1, UsedPoolsFinite DEF Inv, PoolsCounted
<1>4. UsedPools' = UsedPools /\ admin'.pc \in {"rest", "shut", "closePool", "drain"}
      => PoolsCounted'
  <2>1. Cardinality(UsedPools) + 0 <= Cardinality(InitialNodes) + changes'
    BY <1>1, <1>3, UsedPoolsFinite
  <2>. QED  BY <2>1 DEF PoolsCounted
<1>5. CASE /\ pool[p].connections # <<>>
           /\ addr' = [addr EXCEPT ![Head(pool[p].connections)] = NoNode]
           /\ pool' = [pool EXCEPT ![p].connections = Tail(@)]
           /\ UNCHANGED <<pools, admin>>
  <2>. DEFINE c == Head(pool[p].connections)
  <2>1. /\ c \in Conn /\ Pooled(c) /\ PlacesDistinct' /\ PoolsInv'
        /\ \A d \in Conn : Pooled(d)' <=> Pooled(d) /\ d # c
        /\ pool' \in [Pool -> PoolType]
        /\ \A q \in Pool : pool'[q].address = pool[q].address
    BY <1>1, <1>5, HeadLeaves
  <2>2. addr' = [addr EXCEPT ![c] = NoNode]
    BY <1>5
  <2>. HIDE DEF c, p
  <2>3. /\ addr' \in [Conn -> Node \cup {NoNode}]
        /\ \A d \in Conn : addr'[d] = IF d = c THEN NoNode ELSE addr[d]
    BY <2>1, <2>2 DEF Inv, TypeOK
  <2>4. TypeOK'
    BY <1>1, <1>5, <2>1, <2>3 DEF Inv, TypeOK, PoolType
  <2>5. LocalsInv'
    <3>. SUFFICES ASSUME NEW t \in Thread PROVE Locals(thread[t])'
      BY DEF LocalsInv
    <3>1. Locals(thread[t]) /\ thread'[t] = thread[t]
      BY <1>1, LocalTypes
    <3>. QED  BY <2>1, <3>1 DEF Locals, PoolPc, ConnPc
  <2>6. UsedPools' = UsedPools
    BY <2>1 DEF UsedPools
  <2>7. AdminInv'
    BY <1>1, <1>5 DEF Inv, AdminInv
  <2>8. ConnInv'
    <3>1. \A d \in Conn : Held(d)' <=> Held(d)
      BY <1>1 DEF Held
    <3>2. ~ Held(c)
      BY <2>1 DEF Inv, ConnInv
    <3>3. \A d \in Conn : /\ ~ (Pooled(d)' /\ Held(d)')
                          /\ addr'[d] # NoNode <=> Pooled(d)' \/ Held(d)'
      BY <2>1, <2>3, <3>1, <3>2 DEF Inv, ConnInv
    <3>. QED  BY <1>1, <2>1, <3>3 DEF Inv, ConnInv, PlacesDistinct
  <2>. QED  BY <1>1, <1>2, <1>4, <1>5, <2>1, <2>4, <2>5, <2>6, <2>7, <2>8 DEF Inv
<1>6. CASE /\ pools' = [pools EXCEPT ![admin.node] = NoPool]
           /\ admin' = Resting
           /\ UNCHANGED <<pool, addr>>
  <2>1. admin' \in AdminType /\ admin'.pc = "rest"
    BY <1>6, RestingType
  <2>2. pools' \in [Node -> Pool \cup {NoPool}]
        /\ \A n \in Node : pools'[n] # NoPool => pools'[n] = pools[n]
    BY <1>6 DEF Inv, TypeOK
  <2>3. TypeOK'
    BY <1>1, <1>6, <2>1, <2>2 DEF Inv, TypeOK, AdminType
  <2>4. LocalsInv' /\ UsedPools' = UsedPools
    BY <1>1, <1>6 DEF Inv, LocalsInv, Locals, UsedPools
  <2>5. PoolsInv'
    <3>1. \A n \in Node : pools'[n] # NoPool => pool'[pools'[n]].address = n
      BY <1>6, <2>2 DEF Inv, PoolsInv
    <3>. QED  BY <1>6, <3>1 DEF Inv, PoolsInv
  <2>6. ConnInv'
    <3>1. \A c \in Conn : Pooled(c)' = Pooled(c) /\ Held(c)' = Held(c)
      BY <1>1, <1>6 DEF Pooled, Held
    <3>. QED  BY <1>1, <1>6, <3>1 DEF Inv, ConnInv
  <2>7. AdminInv'
    BY <2>1 DEF AdminInv
  <2>. QED  BY <1>2, <1>4, <2>1, <2>3, <2>4, <2>5, <2>6, <2>7 DEF Inv
<1>7. CASE /\ IF StillOpen = {} THEN admin' = Shut
              ELSE \E n \in StillOpen : Begin("close", n, "closePool")
           /\ UNCHANGED <<pools, pool, addr>>
  <2>1. /\ admin' \in AdminType /\ admin'.pc \in {"shut", "closePool"}
        /\ admin'.pc = "closePool" => admin'.node \in Node /\ pools[admin'.node] # NoPool
    BY <1>7, ClosesNext
  <2>2. LocalsInv' /\ PoolsInv' /\ ConnInv' /\ UsedPools' = UsedPools /\ TypeOK'
    BY <1>1, <1>7, <2>1, AdminTypes, NothingMoves DEF AdminType
  <2>3. AdminInv'
    BY <1>7, <2>1 DEF AdminInv
  <2>. QED  BY <1>2, <1>4, <2>1, <2>2, <2>3 DEF Inv
<1>. QED  BY <1>5, <1>6, <1>7 DEF Drain, sharedVars

-------------------------------------------------------------------------------
(* Whatever the administrator does *)

LEMMA InitInv == Init => Inv
<1>. SUFFICES ASSUME Init PROVE Inv
  OBVIOUS
<1>1. /\ pools = [n \in Node |-> NoPool] /\ pool = [p \in Pool |-> NewPool(NoNode)]
      /\ addr = [c \in Conn |-> NoNode] /\ thread = [t \in Thread |-> Idle]
      /\ changes = 0 /\ faults = 0 /\ nodes = {} /\ RP!RingInv
  BY RingInitially DEF Init, Ring!Init
<1>2. admin \in AdminType /\ admin.pc = "new" /\ admin.op = "none"
  BY DEF Init, Resting, AdminType
<1>3. /\ NewPool(NoNode) \in PoolType
      /\ NewPool(NoNode).address = NoNode /\ NewPool(NoNode).connections = <<>>
  BY DEF NewPool, PoolType
<1>4. /\ \A p \in Pool : pool[p].address = NoNode /\ pool[p].connections = <<>>
      /\ \A t \in Thread : thread[t] = Idle
  BY <1>1, <1>3
<1>5. TypeOK
  <2>1. pool \in [Pool -> PoolType] /\ thread \in [Thread -> ThreadType]
    BY <1>1, <1>3, IdleType
  <2>. QED  BY <1>1, <1>2, <2>1, ClientPoolAssumption
            DEF TypeOK, AdminType, PoolType, ThreadType, ClientPoolAssumption
<1>6. LocalsInv
  BY <1>4, IdleType DEF LocalsInv, Locals, PoolPc, ConnPc
<1>7. PoolsInv
  <2>1. Len(<<>>) <= MaxConnsPerNode
    BY ClientPoolAssumption DEF ClientPoolAssumption
  <2>. QED  BY <1>1, <1>4, <2>1 DEF PoolsInv
<1>8. AdminInv
  BY <1>1, <1>2 DEF AdminInv
<1>9. PoolsCounted
  <2>1. UsedPools = {} /\ nodes = {}
    BY <1>1, <1>4 DEF UsedPools
  <2>2. Cardinality(UsedPools) <= Cardinality(nodes)
    BY <2>1, FS_EmptySet
  <2>. QED  BY <1>2, <2>2 DEF PoolsCounted
<1>10. ConnInv
  BY <1>1, <1>4, IdleType DEF ConnInv, Pooled, Held
<1>. QED  BY <1>1, <1>5, <1>6, <1>7, <1>8, <1>9, <1>10 DEF Inv

LEMMA StepInv ==
  ASSUME Inv, [Next]_vars
  PROVE  Inv'
<1>1. CASE UNCHANGED vars
  <2>1. UNCHANGED <<ringVars, pools, pool, addr, thread, admin, changes, faults>>
    BY <1>1 DEF vars, sharedVars
  <2>2. RP!RingInv' /\ admin \in AdminType /\ changes \in 0 .. MaxChanges
    BY <2>1, RingUnchanged, AdminTypes DEF Inv
  <2>3. LocalsInv' /\ PoolsInv' /\ ConnInv' /\ UsedPools' = UsedPools /\ TypeOK'
    BY <2>1, <2>2, AdminTypes, NothingMoves DEF AdminType
  <2>. QED  BY <2>1, <2>2, <2>3 DEF Inv, AdminInv, PoolsCounted, ringVars
<1>2. ASSUME NEW t \in Thread, Step(t) PROVE Inv'
  BY <1>2, RouteInv, LookupInv, TryGetInv, ReserveInv, DialInv, WaitInv, ExchangeInv,
     ReturnRouteInv, ReturnLookupInv, PutInv DEF Step
<1>3. CASE AdminStep
  BY <1>3, NewWithConfigInv, AddPoolInv, ClosePoolInv, DrainInv DEF AdminStep
<1>. QED  BY <1>1, <1>2, <1>3, ExecuteCommandInv, AddNodeInv, RemoveNodeInv, CloseInv
          DEF Next, Over

\* What every state of the client satisfies, whatever nodes join and leave and
\* whichever dials and exchanges fail: where each connection is, and which pools
\* the map can name (client.go:161-349, 1060-1129).
THEOREM ClientInvariant == Spec => []Inv
BY InitInv, StepInv, PTL DEF Spec

\* The client's state is typed: in particular there is always a pool to create
\* and a connection to dial (client.go:161-183, 1078-1095).
THEOREM ClientAlwaysTyped == Spec => []TypeOK
BY ClientInvariant, PTL DEF Inv

LEMMA AtMostOne ==
  ASSUME NEW S, \A x, y \in S : x = y
  PROVE  Cardinality(S) = IF S = {} THEN 0 ELSE 1
<1>1. CASE S = {}
  BY <1>1, FS_EmptySet
<1>2. CASE S # {}
  <2>1. PICK x : S = {x}
    BY <1>2
  <2>. QED  BY <1>2, <2>1, FS_Singleton
<1>. QED  BY <1>1, <1>2

LEMMA PlacesArePooled ==
  ASSUME NEW c \in Conn, Places(c) # {}
  PROVE  Pooled(c)
BY DEF Places, Pooled

\* No two goroutines ever use one connection, nor is one in use also offered to
\* others: a response is read by the goroutine whose command it answers
\* (client.go:1074-1103, 1107-1118).
THEOREM ConnsNeverShared == Spec => []ConnExclusive
<1>1. ASSUME Inv, NEW c \in Conn PROVE Cardinality(Places(c)) + Cardinality(Holders(c)) <= 1
  <2>1. \A x, y \in Places(c) : x = y
    <3>. SUFFICES ASSUME NEW x \in Places(c), NEW y \in Places(c) PROVE x = y
      OBVIOUS
    <3>1. /\ x \in Pool \X (1 .. MaxConnsPerNode) /\ y \in Pool \X (1 .. MaxConnsPerNode)
          /\ x[2] \in DOMAIN pool[x[1]].connections /\ y[2] \in DOMAIN pool[y[1]].connections
          /\ pool[x[1]].connections[x[2]] = pool[y[1]].connections[y[2]]
      BY DEF Places
    <3>2. x[1] = y[1] /\ x[2] = y[2]
      BY <1>1, <3>1 DEF Inv, ConnInv
    <3>. QED  BY <3>1, <3>2
  <2>2. \A t, u \in Holders(c) : t = u
    BY <1>1, ClientPoolAssumption DEF Holders, Inv, ConnInv, ClientPoolAssumption
  <2>3. Places(c) = {} \/ Holders(c) = {}
    BY <1>1, PlacesArePooled DEF Holders, Held, Inv, ConnInv
  <2>. QED  BY <2>1, <2>2, <2>3, AtMostOne
<1>2. Inv => ConnExclusive
  BY <1>1 DEF ConnExclusive
<1>. QED  BY <1>2, ClientInvariant, PTL

\* Whatever a pool offers and whatever a goroutine uses is open (client.go:305-349,
\* 1074-1077).
THEOREM HandedOutAlwaysOpen == Spec => []HandedOutOpen
<1>1. Inv => HandedOutOpen
  BY PlacesArePooled DEF HandedOutOpen, Holders, Held, Inv, ConnInv
<1>. QED  BY <1>1, ClientInvariant, PTL
===============================================================================
