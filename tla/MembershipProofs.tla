--------------------------- MODULE MembershipProofs ---------------------------
(***************************************************************************)
(* Theorems of ClientPool for the membership changes a client survives:    *)
(* when no node joins or leaves after NewWithConfig (the client may be     *)
(* closed), and when nodes only join.                                      *)
(***************************************************************************)
EXTENDS ClientPoolProofs

\* With the membership fixed (the client may be closed), a command keeps to the
\* owner of its key, and a pool to the connections of its node.
KeepsToOwner(l) ==
  /\ l.pc \in PoolPc \cup {"lookup"} => l.node \in Node /\ l.node = Ring!GetNode(l.key)
  /\ l.pc \in PoolPc => l.pool = pools[l.node]
  /\ l.pc \in ConnPc => addr[l.conn] = l.node

FixedInv ==
  /\ admin.pc = "new" => \A t \in Thread : thread[t].pc = "idle"
  /\ admin.pc # "addPool" /\ admin.op \notin {"add", "remove"}
  /\ \A t \in Thread : KeepsToOwner(thread[t])
  /\ PoolOfOneNode
  /\ AllCounted

\* While nodes only join, no pool is closed and nothing panics.
OpenInv ==
  /\ Running
  /\ \A p \in Pool : ~ pool[p].closed
  /\ admin.pc \notin {"closePool", "drain", "shut"}

-------------------------------------------------------------------------------
(* The effect of a goroutine's step on the others *)

InPool(p, d) == \E i \in DOMAIN pool[p].connections : pool[p].connections[i] = d

UserPc == {"dial", "exchange", "return", "returnLookup", "put"}

\* Whether goroutine t counts in p.created.
Uses(t, p) == IF thread[t].pool = p /\ thread[t].pc \in UserPc THEN 1 ELSE 0

\* What a step of t leaves alone, what it may put into a pool, and that it takes
\* no more connections than it counts.
Confined(t) ==
  /\ UNCHANGED <<ringVars, pools, admin, changes>>
  /\ \A u \in Thread \ {t} : thread'[u] = thread[u]
  /\ \A p \in Pool : pool'[p].address = pool[p].address
                     /\ pool'[p].closed = pool[p].closed
  /\ \A c \in Conn : Pooled(c) \/ (\E u \in Thread \ {t} : thread[u].conn = c)
                     => addr'[c] = addr[c]
  /\ \A p \in Pool, d \in Conn :
       InPool(p, d)' => \/ InPool(p, d)
                        \/ /\ thread[t].pc = "put" /\ p = thread[t].pool
                           /\ d = thread[t].conn /\ addr'[d] = addr[d]

\* A pool's connections and users, against its count, after a step of t.
Balanced(t) ==
  \A p \in Pool :
    /\ pool'[p].created <= MaxConnsPerNode
    /\ Len(pool'[p].connections) + Uses(t, p)' + pool[p].created
         <= Len(pool[p].connections) + Uses(t, p) + pool'[p].created

\* What the goroutine itself keeps to.
Steady(t) == Confined(t) /\ Balanced(t) /\ KeepsToOwner(thread[t])'

FixedState == Inv /\ FixedInv

LEMMA OwnerKept ==
  ASSUME NEW t \in Thread, UNCHANGED ringVars
  PROVE  Ring!GetNode(thread[t].key)' = Ring!GetNode(thread'[t].key)
BY DEF ringVars, Ring!GetNode, Ring!RingEmpty, Ring!search, Ring!SearchIn, Ring!Hashes

\* The locals of t after a step that sets them to l.
LEMMA LocalsSet ==
  ASSUME Inv, NEW t \in Thread, NEW l, thread' = [thread EXCEPT ![t] = l]
  PROVE  thread'[t] = l /\ \A u \in Thread \ {t} : thread'[u] = thread[u]
BY LocalTypes

\* A goroutine that starts again uses no pool.
LEMMA StartsAgainSteady ==
  ASSUME Inv, NEW t \in Thread, thread[t].pc # "idle", NextAttempt(t) \/ Finish(t)
  PROVE  /\ \A u \in Thread \ {t} : thread'[u] = thread[u]
         /\ KeepsToOwner(thread[t])'
         /\ \A p \in Pool : Uses(t, p)' = 0
<1>1. PICK l \in ThreadType : /\ l.pc \in {"idle", "route"}
                              /\ thread' = [thread EXCEPT ![t] = l]
  BY StartsAgain
<1>2. thread'[t].pc \in {"idle", "route"} /\ \A u \in Thread \ {t} : thread'[u] = thread[u]
  BY <1>1, LocalsSet
<1>. QED  BY <1>2 DEF KeepsToOwner, Uses, PoolPc, ConnPc, UserPc

\* Steps that leave every pool and connection alone.
LEMMA NothingTouched ==
  ASSUME Inv, NEW t \in Thread, \A u \in Thread \ {t} : thread'[u] = thread[u],
         UNCHANGED <<ringVars, pools, pool, addr, admin, changes>>
  PROVE  Confined(t)
BY DEF Confined, InPool

\* Steps that only close the connection t holds, or count one more or less.
LEMMA ConnectionsKept ==
  ASSUME Inv, NEW t \in Thread, \A u \in Thread \ {t} : thread'[u] = thread[u],
         UNCHANGED <<ringVars, pools, admin, changes>>,
         \A p \in Pool : /\ pool'[p].address = pool[p].address
                         /\ pool'[p].connections = pool[p].connections
                         /\ pool'[p].closed = pool[p].closed,
         \/ UNCHANGED addr
         \/ thread[t].conn \in Conn /\ addr' = [addr EXCEPT ![thread[t].conn] = NoNode]
  PROVE  Confined(t)
<1>1. ASSUME NEW c \in Conn, Pooled(c) \/ \E u \in Thread \ {t} : thread[u].conn = c
      PROVE  addr'[c] = addr[c]
  <2>1. CASE UNCHANGED addr
    BY <2>1
  <2>2. CASE thread[t].conn \in Conn /\ addr' = [addr EXCEPT ![thread[t].conn] = NoNode]
    <3>1. c # thread[t].conn
      BY <1>1, <2>2, ClientPoolAssumption DEF Inv, ConnInv, Held, ClientPoolAssumption
    <3>2. addr \in [Conn -> Node \cup {NoNode}]
      BY DEF Inv, TypeOK
    <3>. QED  BY <2>2, <3>1, <3>2
  <2>. QED  BY <2>1, <2>2
<1>2. \A p \in Pool, d \in Conn : InPool(p, d)' => InPool(p, d)
  BY DEF InPool
<1>. QED  BY <1>1, <1>2 DEF Confined

\* What the invariants say of a pool's numbers.
LEMMA Numbers ==
  ASSUME FixedState, NEW p \in Pool, NEW t \in Thread
  PROVE  /\ pool[p].created \in Int /\ pool[p].created <= MaxConnsPerNode
         /\ Len(pool[p].connections) \in Nat
         /\ Uses(t, p) \in {0, 1} /\ Uses(t, p)' \in {0, 1}
         /\ MaxConnsPerNode \in Nat
BY ClientPoolAssumption
DEF FixedState, FixedInv, AllCounted, Inv, TypeOK, Uses, ClientPoolAssumption

LEMMA NotMoreUsed ==
  ASSUME FixedState, NEW t \in Thread, UNCHANGED pool,
         \A p \in Pool : Uses(t, p)' = 0 \/ Uses(t, p)' = Uses(t, p)
  PROVE  Balanced(t)
<1>. SUFFICES ASSUME NEW p \in Pool
              PROVE  /\ pool[p].created <= MaxConnsPerNode
                     /\ Len(pool[p].connections) + Uses(t, p)' + pool[p].created
                          <= Len(pool[p].connections) + Uses(t, p) + pool[p].created
  BY DEF Balanced
<1>1. /\ pool[p].created \in Int /\ pool[p].created <= MaxConnsPerNode
      /\ Len(pool[p].connections) \in Nat
      /\ Uses(t, p) \in {0, 1} /\ Uses(t, p)' \in {0, 1}
  BY Numbers
<1>2. Uses(t, p)' = 0 \/ Uses(t, p)' = Uses(t, p)
  OBVIOUS
<1>. QED  BY <1>1, <1>2

\* The goroutine counts one less, or hands on what it counts.
LEMMA NumbersBalance ==
  ASSUME FixedState, NEW t \in Thread,
         \A p \in Pool :
           \/ /\ pool'[p].created = pool[p].created
              /\ Len(pool'[p].connections) = Len(pool[p].connections)
              /\ Uses(t, p)' = 0 \/ Uses(t, p)' = Uses(t, p)
           \/ /\ pool'[p].created = pool[p].created
              /\ Len(pool'[p].connections) = Len(pool[p].connections) - 1
           \/ /\ pool'[p].created = pool[p].created
              /\ Len(pool'[p].connections) = Len(pool[p].connections) + 1
              /\ Uses(t, p) = 1 /\ Uses(t, p)' = 0
           \/ /\ pool'[p].created = pool[p].created + 1
              /\ pool[p].created < MaxConnsPerNode
              /\ Len(pool'[p].connections) = Len(pool[p].connections)
           \/ /\ pool'[p].created = pool[p].created + (-1)
              /\ Len(pool'[p].connections) = Len(pool[p].connections)
              /\ Uses(t, p) = 1 /\ Uses(t, p)' = 0
  PROVE  Balanced(t)
<1>. SUFFICES ASSUME NEW p \in Pool
              PROVE  /\ pool'[p].created <= MaxConnsPerNode
                     /\ Len(pool'[p].connections) + Uses(t, p)' + pool[p].created
                          <= Len(pool[p].connections) + Uses(t, p) + pool'[p].created
  BY DEF Balanced
<1>. DEFINE c == pool[p].created
            d == pool'[p].created
            l == Len(pool[p].connections)
            m == Len(pool'[p].connections)
            u == Uses(t, p)
            v == Uses(t, p)'
<1>1. /\ c \in Int /\ c <= MaxConnsPerNode /\ l \in Nat
      /\ u \in {0, 1} /\ v \in {0, 1} /\ MaxConnsPerNode \in Nat
  BY Numbers
<1>2. \/ d = c /\ m = l /\ (v = 0 \/ v = u)
      \/ d = c /\ m = l - 1
      \/ d = c /\ m = l + 1 /\ u = 1 /\ v = 0
      \/ d = c + 1 /\ c < MaxConnsPerNode /\ m = l
      \/ d = c + (-1) /\ m = l /\ u = 1 /\ v = 0
  OBVIOUS
<1>. HIDE DEF c, d, l, m, u, v
<1>3. d <= MaxConnsPerNode /\ m + v + c <= l + u + d
  <2>1. CASE d = c /\ m = l /\ (v = 0 \/ v = u)
    BY <1>1, <2>1
  <2>2. CASE d = c /\ m = l - 1
    BY <1>1, <2>2
  <2>3. CASE d = c /\ m = l + 1 /\ u = 1 /\ v = 0
    BY <1>1, <2>3
  <2>4. CASE d = c + 1 /\ c < MaxConnsPerNode /\ m = l
    BY <1>1, <2>4
  <2>5. CASE d = c + (-1) /\ m = l /\ u = 1 /\ v = 0
    BY <1>1, <2>5
  <2>. QED  BY <1>2, <2>1, <2>2, <2>3, <2>4, <2>5
<1>. QED  BY <1>3 DEF c, d, l, m, u, v

\* The pool a goroutine got is the one of its key's node.
LEMMA PoolOfOwner ==
  ASSUME FixedState, NEW t \in Thread, thread[t].pc \in PoolPc
  PROVE  /\ thread[t].node \in Node /\ thread[t].node = Ring!GetNode(thread[t].key)
         /\ thread[t].pool = pools[thread[t].node] /\ thread[t].pool \in Pool
         /\ pool[thread[t].pool].address = thread[t].node
<1>1. /\ thread[t].node \in Node /\ thread[t].node = Ring!GetNode(thread[t].key)
      /\ thread[t].pool = pools[thread[t].node] /\ thread[t].pool \in Pool
  BY LocalTypes DEF FixedState, FixedInv, KeepsToOwner, Locals
<1>. QED  BY <1>1, ClientPoolAssumption DEF FixedState, Inv, PoolsInv, ClientPoolAssumption

LEMMA StartsAgainStep ==
  ASSUME FixedState, NEW t \in Thread, thread[t].pc # "idle", NextAttempt(t) \/ Finish(t),
         UNCHANGED <<ringVars, pools, pool, admin, changes>>,
         \/ UNCHANGED addr
         \/ thread[t].conn \in Conn /\ addr' = [addr EXCEPT ![thread[t].conn] = NoNode]
  PROVE  Steady(t)
<1>1. /\ \A u \in Thread \ {t} : thread'[u] = thread[u]
      /\ KeepsToOwner(thread[t])' /\ \A p \in Pool : Uses(t, p)' = 0
  BY StartsAgainSteady DEF FixedState
<1>2. Confined(t)
  BY <1>1, ConnectionsKept DEF FixedState
<1>3. Balanced(t)
  <2>. SUFFICES ASSUME NEW p \in Pool
                PROVE  /\ pool'[p].created <= MaxConnsPerNode
                       /\ Len(pool'[p].connections) + Uses(t, p)' + pool[p].created
                            <= Len(pool[p].connections) + Uses(t, p) + pool'[p].created
    BY DEF Balanced
  <2>1. Uses(t, p)' = 0 /\ pool' = pool
    BY <1>1
  <2>. QED  BY <2>1, Numbers
<1>. QED  BY <1>1, <1>2, <1>3 DEF Steady

LEMMA RouteSteady ==
  ASSUME FixedState, NEW t \in Thread, Route(t)
  PROVE  Steady(t)
<1>. DEFINE n == Ring!GetNode(thread[t].key)
<1>1. /\ thread[t].pc = "route" /\ thread[t].key \in Key
      /\ UNCHANGED <<ringVars, pools, pool, addr, admin, changes, faults>>
  BY LocalTypes DEF Route, At, Unchanged, sharedVars, FixedState, Locals
<1>2. CASE n = NoNode
  BY <1>1, <1>2, StartsAgainStep DEF Route
<1>3. CASE n # NoNode
  <2>1. thread' = [thread EXCEPT ![t].pc = "lookup", ![t].node = n]
    BY <1>3 DEF Route
  <2>2. n \in Node
    BY <1>1, <1>3, RoutedToNode DEF FixedState, Inv
  <2>3. Ring!GetNode(thread[t].key)' = Ring!GetNode(thread'[t].key)
    BY <1>1, OwnerKept
  <2>. HIDE DEF n
  <2>4. /\ thread'[t].pc = "lookup" /\ thread'[t].node = n /\ thread'[t].key = thread[t].key
        /\ \A u \in Thread \ {t} : thread'[u] = thread[u]
    BY <2>1, LocalTypes DEF FixedState, ThreadType
  <2>5. KeepsToOwner(thread[t])'
    BY <2>2, <2>3, <2>4 DEF KeepsToOwner, PoolPc, ConnPc, n
  <2>6. Balanced(t)
    BY <1>1, <2>4, NotMoreUsed DEF Uses, UserPc
  <2>7. Confined(t)
    BY <1>1, <2>4, NothingTouched DEF FixedState
  <2>. QED  BY <2>5, <2>6, <2>7 DEF Steady
<1>. QED  BY <1>2, <1>3

LEMMA LookupSteady ==
  ASSUME FixedState, NEW t \in Thread, Lookup(t)
  PROVE  Steady(t)
<1>. DEFINE p == pools[thread[t].node]
<1>1. /\ thread[t].pc = "lookup" /\ thread[t].node \in Node
      /\ thread[t].node = Ring!GetNode(thread[t].key)
      /\ UNCHANGED <<ringVars, pools, pool, addr, admin, changes, faults>>
  BY DEF Lookup, At, Unchanged, sharedVars, FixedState, FixedInv, KeepsToOwner
<1>2. CASE p = NoPool
  BY <1>1, <1>2, StartsAgainStep DEF Lookup
<1>3. CASE p # NoPool
  <2>1. thread' = [thread EXCEPT ![t].pc = "get", ![t].pool = p]
    BY <1>3 DEF Lookup
  <2>2. Ring!GetNode(thread[t].key)' = Ring!GetNode(thread'[t].key)
    BY <1>1, OwnerKept
  <2>. HIDE DEF p
  <2>3. /\ thread'[t].pc = "get" /\ thread'[t].node = thread[t].node
        /\ thread'[t].key = thread[t].key /\ thread'[t].pool = p
        /\ \A u \in Thread \ {t} : thread'[u] = thread[u]
    BY <2>1, LocalTypes DEF FixedState, ThreadType
  <2>4. KeepsToOwner(thread[t])'
    BY <1>1, <2>2, <2>3 DEF KeepsToOwner, PoolPc, ConnPc, p
  <2>5. Balanced(t)
    BY <1>1, <2>3, NotMoreUsed DEF Uses, UserPc
  <2>6. Confined(t)
    BY <1>1, <2>3, NothingTouched DEF FixedState
  <2>. QED  BY <2>4, <2>5, <2>6 DEF Steady
<1>. QED  BY <1>2, <1>3

\* A step that only moves t to another point with the same pool.
LEMMA GotoSteady ==
  ASSUME FixedState, NEW t \in Thread, NEW pc \in ThreadPc, Goto(t, pc),
         thread[t].pc \in PoolPc, pc \in PoolPc \cup {"panic"},
         pc \in ConnPc => thread[t].pc \in ConnPc,
         UNCHANGED <<ringVars, pools, addr, admin, changes>>
  PROVE  /\ \A u \in Thread \ {t} : thread'[u] = thread[u]
         /\ KeepsToOwner(thread[t])'
         /\ thread'[t].pc = pc /\ thread'[t].pool = thread[t].pool
<1>1. /\ thread'[t].pc = pc /\ thread'[t].pool = thread[t].pool
      /\ thread'[t].key = thread[t].key /\ thread'[t].node = thread[t].node
      /\ thread'[t].conn = thread[t].conn
      /\ \A u \in Thread \ {t} : thread'[u] = thread[u]
  BY LocalTypes DEF Goto, FixedState, ThreadType
<1>2. Ring!GetNode(thread[t].key)' = Ring!GetNode(thread'[t].key)
  BY OwnerKept
<1>3. KeepsToOwner(thread[t]) /\ pc # "lookup"
  BY DEF FixedState, FixedInv, PoolPc
<1>4. KeepsToOwner(thread[t])'
  BY <1>1, <1>2, <1>3 DEF KeepsToOwner, ConnPc
<1>. QED  BY <1>1, <1>4

LEMMA ReceiveSteady ==
  ASSUME FixedState, NEW t \in Thread, thread[t].pc \in {"get", "wait"}, Receive(t),
         UNCHANGED <<ringVars, pools, addr, admin, changes>>
  PROVE  Steady(t)
<1>. DEFINE p == thread[t].pool
            c == Head(pool[p].connections)
<1>1. /\ thread[t].node \in Node /\ thread[t].node = Ring!GetNode(thread[t].key)
      /\ p = pools[thread[t].node] /\ p \in Pool
      /\ pool[p].address = thread[t].node /\ thread[t].conn = NoConn
  BY PoolOfOwner, LocalTypes DEF PoolPc, ConnPc, FixedState, Locals
<1>2. CASE Goto(t, "panic") /\ UNCHANGED pool
  <2>1. /\ \A u \in Thread \ {t} : thread'[u] = thread[u]
        /\ KeepsToOwner(thread[t])' /\ thread'[t].pc = "panic"
    BY <1>2, GotoSteady DEF ThreadPc, PoolPc, ConnPc
  <2>2. Balanced(t)
    BY <1>2, <2>1, NotMoreUsed DEF Uses, UserPc
  <2>3. Confined(t)
    BY <1>2, <2>1, NothingTouched DEF FixedState
  <2>. QED  BY <2>1, <2>2, <2>3 DEF Steady
<1>3. CASE /\ pool[p].connections # <<>>
           /\ Hold(t, c)
           /\ pool' = [pool EXCEPT ![p].connections = Tail(@)]
  <2>. DEFINE s == pool[p].connections
  <2>1. /\ s \in Seq(Conn) /\ 1 \in DOMAIN s /\ c = s[1] /\ c \in Conn
        /\ Tail(s) \in Seq(Conn) /\ Len(Tail(s)) = Len(s) - 1
        /\ \A i \in DOMAIN Tail(s) : i + 1 \in DOMAIN s /\ Tail(s)[i] = s[i + 1]
    <3>1. s \in Seq(Conn) /\ s # <<>>
      BY <1>1, <1>3, LocalTypes DEF FixedState, PoolType
    <3>. QED  BY <3>1, TailOfConns
  <2>2. addr[c] = thread[t].node
    BY <1>1, <2>1 DEF FixedState, FixedInv, PoolOfOneNode
  <2>3. /\ thread'[t].pc = "exchange" /\ thread'[t].pool = p /\ thread'[t].conn = c
        /\ thread'[t].key = thread[t].key /\ thread'[t].node = thread[t].node
        /\ \A u \in Thread \ {t} : thread'[u] = thread[u]
    BY <1>3, LocalTypes DEF Hold, FixedState, ThreadType
  <2>4. Ring!GetNode(thread[t].key)' = Ring!GetNode(thread'[t].key)
    BY OwnerKept
  <2>5. \A q \in Pool : /\ pool'[q].connections = IF q = p THEN Tail(s) ELSE pool[q].connections
                        /\ pool'[q].address = pool[q].address
                        /\ pool'[q].closed = pool[q].closed
                        /\ pool'[q].created = pool[q].created
    <3>1. pool \in [Pool -> PoolType]
      BY LocalTypes DEF FixedState
    <3>. QED  BY <1>1, <1>3, <3>1 DEF PoolType
  <2>. HIDE DEF s, c, p
  <2>6. KeepsToOwner(thread[t])'
    BY <1>1, <2>2, <2>3, <2>4 DEF KeepsToOwner
  <2>7. Balanced(t)
    <3>1. ASSUME NEW q \in Pool, q = p
          PROVE  Len(pool'[q].connections) = Len(pool[q].connections) - 1
      <4>1. pool'[q].connections = Tail(s)
        BY <2>5, <3>1
      <4>. QED  BY <2>1, <3>1, <4>1 DEF s
    <3>2. ASSUME NEW q \in Pool, q # p
          PROVE  Len(pool'[q].connections) = Len(pool[q].connections) /\ Uses(t, q)' = 0
      BY <2>3, <2>5, <3>2 DEF Uses
    <3>3. \A q \in Pool : pool'[q].created = pool[q].created
      BY <2>5
    <3>. QED  BY <3>1, <3>2, <3>3, NumbersBalance
  <2>8. Confined(t)
    <3>1. \A q \in Pool, d \in Conn : InPool(q, d)' => InPool(q, d)
      <4>. SUFFICES ASSUME NEW q \in Pool, NEW d \in Conn,
                           NEW i \in DOMAIN pool'[q].connections, pool'[q].connections[i] = d
                    PROVE  InPool(q, d)
        BY DEF InPool
      <4>1. CASE q = p
        <5>1. i \in DOMAIN Tail(s) /\ Tail(s)[i] = d
          BY <2>5, <4>1
        <5>2. i + 1 \in DOMAIN s /\ s[i + 1] = d
          BY <2>1, <5>1
        <5>. QED  BY <4>1, <5>2 DEF InPool, s
      <4>2. CASE q # p
        BY <2>5, <4>2 DEF InPool
      <4>. QED  BY <4>1, <4>2
    <3>. QED  BY <2>3, <2>5, <3>1 DEF Confined
  <2>. QED  BY <2>6, <2>7, <2>8 DEF Steady
<1>. QED  BY <1>2, <1>3 DEF Receive

LEMMA TryGetSteady ==
  ASSUME FixedState, NEW t \in Thread, TryGet(t)
  PROVE  Steady(t)
<1>1. /\ thread[t].pc = "get"
      /\ UNCHANGED <<ringVars, pools, addr, admin, changes, faults>>
  BY DEF TryGet, At, Unchanged
<1>2. CASE Receive(t)
  BY <1>1, <1>2, ReceiveSteady
<1>3. CASE Goto(t, "reserve") /\ UNCHANGED pool
  <2>1. /\ \A u \in Thread \ {t} : thread'[u] = thread[u]
        /\ KeepsToOwner(thread[t])' /\ thread'[t].pc = "reserve"
    BY <1>1, <1>3, GotoSteady DEF ThreadPc, PoolPc, ConnPc
  <2>2. Balanced(t)
    BY <1>3, <2>1, NotMoreUsed DEF Uses, UserPc
  <2>3. Confined(t)
    BY <1>1, <1>3, <2>1, NothingTouched DEF FixedState
  <2>. QED  BY <2>1, <2>2, <2>3 DEF Steady
<1>. QED  BY <1>2, <1>3 DEF TryGet

LEMMA ReserveSteady ==
  ASSUME FixedState, NEW t \in Thread, Reserve(t)
  PROVE  Steady(t)
<1>. DEFINE p == thread[t].pool
<1>1. /\ thread[t].pc = "reserve" /\ p \in Pool
      /\ UNCHANGED <<ringVars, pools, addr, admin, changes, faults>>
  BY PoolOfOwner DEF Reserve, At, Unchanged, PoolPc
<1>2. CASE /\ pool[p].created < MaxConnsPerNode /\ Goto(t, "dial")
           /\ pool' = [pool EXCEPT ![p].created = @ + 1]
  <2>1. /\ \A u \in Thread \ {t} : thread'[u] = thread[u]
        /\ KeepsToOwner(thread[t])' /\ thread'[t].pc = "dial" /\ thread'[t].pool = p
    BY <1>1, <1>2, GotoSteady DEF ThreadPc, PoolPc, ConnPc
  <2>. HIDE DEF p
  <2>2. \A q \in Pool : /\ pool'[q].address = pool[q].address
                        /\ pool'[q].connections = pool[q].connections
                        /\ pool'[q].closed = pool[q].closed
                        /\ pool'[q].created = IF q = p THEN pool[q].created + 1
                                                       ELSE pool[q].created
    <3>1. 1 \in Int
      OBVIOUS
    <3>. QED  BY <1>1, <1>2, <3>1, CreatedChanges DEF FixedState
  <2>3. Balanced(t)
    <3>1. \A q \in Pool : q = p => /\ pool'[q].created = pool[q].created + 1
                                   /\ pool[q].created < MaxConnsPerNode
      BY <1>2, <2>2
    <3>2. \A q \in Pool : q # p => /\ pool'[q].created = pool[q].created
                                   /\ Uses(t, q)' = 0
      BY <2>1, <2>2 DEF Uses
    <3>3. \A q \in Pool : Len(pool'[q].connections) = Len(pool[q].connections)
      BY <2>2
    <3>. QED  BY <3>1, <3>2, <3>3, NumbersBalance
  <2>4. Confined(t)
    BY <1>1, <2>1, <2>2, ConnectionsKept DEF FixedState
  <2>. QED  BY <2>1, <2>3, <2>4 DEF Steady
<1>3. CASE Goto(t, "wait") /\ UNCHANGED pool
  <2>1. /\ \A u \in Thread \ {t} : thread'[u] = thread[u]
        /\ KeepsToOwner(thread[t])' /\ thread'[t].pc = "wait"
    BY <1>1, <1>3, GotoSteady DEF ThreadPc, PoolPc, ConnPc
  <2>2. Balanced(t)
    BY <1>3, <2>1, NotMoreUsed DEF Uses, UserPc
  <2>3. Confined(t)
    BY <1>1, <1>3, <2>1, NothingTouched DEF FixedState
  <2>. QED  BY <2>1, <2>2, <2>3 DEF Steady
<1>. QED  BY <1>2, <1>3 DEF Reserve

\* A goroutine gives up what it counted in its pool, and starts again.
LEMMA UncountsSteady ==
  ASSUME FixedState, NEW t \in Thread, thread[t].pc \in UserPc, NextAttempt(t) \/ Finish(t),
         UNCHANGED <<ringVars, pools, admin, changes>>,
         \/ UNCHANGED addr
         \/ thread[t].conn \in Conn /\ addr' = [addr EXCEPT ![thread[t].conn] = NoNode],
         pool' = [pool EXCEPT ![thread[t].pool].created = @ - 1]
  PROVE  Steady(t)
<1>. DEFINE p == thread[t].pool
<1>1. /\ \A u \in Thread \ {t} : thread'[u] = thread[u]
      /\ KeepsToOwner(thread[t])' /\ \A q \in Pool : Uses(t, q)' = 0
  BY StartsAgainSteady DEF FixedState, UserPc
<1>2. p \in Pool /\ Uses(t, p) = 1 /\ pool \in [Pool -> PoolType]
  BY PoolOfOwner, LocalTypes DEF UserPc, PoolPc, Uses, FixedState
<1>3. pool' = [pool EXCEPT ![p].created = @ + (-1)]
  BY <1>2 DEF PoolType
<1>. HIDE DEF p
<1>4. \A q \in Pool : /\ pool'[q].address = pool[q].address
                      /\ pool'[q].connections = pool[q].connections
                      /\ pool'[q].closed = pool[q].closed
                      /\ pool'[q].created = IF q = p THEN pool[q].created + (-1)
                                                     ELSE pool[q].created
  <2>1. -1 \in Int
    OBVIOUS
  <2>. QED  BY <1>2, <1>3, <2>1, CreatedChanges DEF FixedState
<1>5. Balanced(t)
  <2>1. \A q \in Pool : q = p => /\ pool'[q].created = pool[q].created + (-1)
                                 /\ Uses(t, q) = 1
    BY <1>2, <1>4
  <2>2. \A q \in Pool : q # p => pool'[q].created = pool[q].created
    BY <1>4
  <2>3. \A q \in Pool : /\ Len(pool'[q].connections) = Len(pool[q].connections)
                        /\ Uses(t, q)' = 0
    BY <1>1, <1>4
  <2>. QED  BY <2>1, <2>2, <2>3, NumbersBalance
<1>6. Confined(t)
  BY <1>1, <1>4, ConnectionsKept DEF FixedState
<1>. QED  BY <1>1, <1>5, <1>6 DEF Steady

LEMMA DialSteady ==
  ASSUME FixedState, NEW t \in Thread, Dial(t)
  PROVE  Steady(t)
<1>. DEFINE p == thread[t].pool
<1>1. /\ thread[t].pc = "dial" /\ p \in Pool /\ thread[t].conn = NoConn
      /\ thread[t].node \in Node /\ thread[t].node = Ring!GetNode(thread[t].key)
      /\ p = pools[thread[t].node] /\ pool[p].address = thread[t].node
      /\ UNCHANGED <<ringVars, pools, admin, changes>>
  BY PoolOfOwner, LocalTypes DEF Dial, At, Unchanged, PoolPc, ConnPc, FixedState, Locals
<1>2. CASE /\ addr' = [addr EXCEPT ![FreshConn] = pool[p].address]
           /\ Hold(t, FreshConn)
           /\ UNCHANGED <<pool, faults>>
  <2>. DEFINE c == FreshConn
  <2>1. c \in Conn /\ addr[c] = NoNode
    BY <1>1, FreshConnExists DEF FixedState
  <2>2. /\ thread'[t].pc = "exchange" /\ thread'[t].pool = p /\ thread'[t].conn = c
        /\ thread'[t].key = thread[t].key /\ thread'[t].node = thread[t].node
        /\ \A u \in Thread \ {t} : thread'[u] = thread[u]
    BY <1>2, LocalTypes DEF Hold, FixedState, ThreadType
  <2>3. addr' = [addr EXCEPT ![c] = thread[t].node]
    BY <1>1, <1>2
  <2>4. Ring!GetNode(thread[t].key)' = Ring!GetNode(thread'[t].key)
    BY <1>1, OwnerKept
  <2>. HIDE DEF c, p
  <2>5. addr'[c] = thread[t].node /\ \A d \in Conn : d # c => addr'[d] = addr[d]
    BY <2>1, <2>3 DEF FixedState, Inv, TypeOK
  <2>6. KeepsToOwner(thread[t])'
    BY <1>1, <2>2, <2>4, <2>5 DEF KeepsToOwner
  <2>7. Balanced(t)
    <3>. SUFFICES ASSUME NEW q \in Pool
                  PROVE  /\ pool'[q].created <= MaxConnsPerNode
                         /\ Len(pool'[q].connections) + Uses(t, q)' + pool[q].created
                              <= Len(pool[q].connections) + Uses(t, q) + pool'[q].created
      BY DEF Balanced
    <3>1. Uses(t, q)' = Uses(t, q) /\ pool' = pool
      BY <1>1, <1>2, <2>2 DEF Uses, UserPc, p
    <3>. QED  BY <3>1, Numbers
  <2>8. Confined(t)
    <3>1. \A d \in Conn : Pooled(d) \/ (\E u \in Thread \ {t} : thread[u].conn = d) => d # c
      BY <2>1 DEF FixedState, Inv, ConnInv, Held
    <3>. QED  BY <1>1, <1>2, <2>2, <2>5, <3>1 DEF Confined, InPool
  <2>. QED  BY <2>6, <2>7, <2>8 DEF Steady
<1>3. CASE /\ pool' = [pool EXCEPT ![p].created = @ - 1]
           /\ NextAttempt(t) /\ UNCHANGED addr
  BY <1>1, <1>3, UncountsSteady DEF UserPc
<1>. QED  BY <1>2, <1>3 DEF Dial

LEMMA WaitSteady ==
  ASSUME FixedState, NEW t \in Thread, Wait(t)
  PROVE  Steady(t)
<1>1. /\ thread[t].pc = "wait"
      /\ UNCHANGED <<ringVars, pools, addr, admin, changes, faults>>
  BY DEF Wait, At, Unchanged
<1>2. CASE Receive(t)
  BY <1>1, <1>2, ReceiveSteady
<1>3. CASE NextAttempt(t) /\ UNCHANGED pool
  BY <1>1, <1>3, StartsAgainStep
<1>. QED  BY <1>2, <1>3 DEF Wait

LEMMA ExchangeSteady ==
  ASSUME FixedState, NEW t \in Thread, Exchange(t)
  PROVE  Steady(t)
<1>1. /\ thread[t].pc = "exchange" /\ thread[t].conn \in Conn
      /\ UNCHANGED <<ringVars, pools, pool, admin, changes>>
  BY LocalTypes DEF Exchange, At, Unchanged, FixedState, Locals, ConnPc
<1>2. CASE Goto(t, "return") /\ UNCHANGED addr
  <2>1. /\ \A u \in Thread \ {t} : thread'[u] = thread[u]
        /\ KeepsToOwner(thread[t])'
        /\ thread'[t].pc = "return" /\ thread'[t].pool = thread[t].pool
    BY <1>1, <1>2, GotoSteady DEF ThreadPc, PoolPc, ConnPc
  <2>2. Balanced(t)
    BY <1>1, <2>1, NotMoreUsed DEF Uses, UserPc
  <2>3. Confined(t)
    BY <1>1, <1>2, <2>1, NothingTouched DEF FixedState
  <2>. QED  BY <2>1, <2>2, <2>3 DEF Steady
<1>3. CASE addr' = [addr EXCEPT ![thread[t].conn] = NoNode] /\ NextAttempt(t)
  BY <1>1, <1>3, StartsAgainStep
<1>. QED  BY <1>2, <1>3 DEF Exchange

LEMMA ReturnRouteSteady ==
  ASSUME FixedState, NEW t \in Thread, ReturnRoute(t)
  PROVE  Steady(t)
<1>. DEFINE n == Ring!GetNode(thread[t].key)
<1>1. /\ thread[t].pc = "return" /\ thread[t].conn \in Conn
      /\ thread[t].node \in Node /\ thread[t].node = n
      /\ thread[t].pool = pools[n]
      /\ addr[thread[t].conn] = n
      /\ UNCHANGED <<ringVars, pools, pool, admin, changes>>
  BY PoolOfOwner, LocalTypes
  DEF ReturnRoute, At, Unchanged, FixedState, FixedInv, KeepsToOwner, Locals, PoolPc, ConnPc
<1>2. CASE n = NoNode
  BY <1>1, <1>2, StartsAgainStep DEF ReturnRoute
<1>3. CASE n # NoNode
  <2>1. /\ thread' = [thread EXCEPT ![t].pc = "returnLookup", ![t].node = n]
        /\ UNCHANGED addr
    BY <1>3 DEF ReturnRoute
  <2>2. Ring!GetNode(thread[t].key)' = Ring!GetNode(thread'[t].key)
    BY <1>1, OwnerKept
  <2>. HIDE DEF n
  <2>3. /\ thread'[t].pc = "returnLookup" /\ thread'[t].node = n
        /\ thread'[t].key = thread[t].key /\ thread'[t].pool = thread[t].pool
        /\ thread'[t].conn = thread[t].conn
        /\ \A u \in Thread \ {t} : thread'[u] = thread[u]
    BY <2>1, LocalTypes DEF FixedState, ThreadType
  <2>4. KeepsToOwner(thread[t])'
    BY <1>1, <2>1, <2>2, <2>3 DEF KeepsToOwner, n
  <2>5. Balanced(t)
    BY <1>1, <2>3, NotMoreUsed DEF Uses, UserPc
  <2>6. Confined(t)
    BY <1>1, <2>1, <2>3, NothingTouched DEF FixedState
  <2>. QED  BY <2>4, <2>5, <2>6 DEF Steady
<1>. QED  BY <1>2, <1>3

LEMMA ReturnLookupSteady ==
  ASSUME FixedState, NEW t \in Thread, ReturnLookup(t)
  PROVE  Steady(t)
<1>. DEFINE p == pools[thread[t].node]
<1>1. /\ thread[t].pc = "returnLookup" /\ thread[t].conn \in Conn
      /\ thread[t].node \in Node /\ thread[t].node = Ring!GetNode(thread[t].key)
      /\ thread[t].pool = p /\ addr[thread[t].conn] = thread[t].node
      /\ UNCHANGED <<ringVars, pools, pool, admin, changes>>
  BY PoolOfOwner, LocalTypes
  DEF ReturnLookup, At, Unchanged, FixedState, FixedInv, KeepsToOwner, Locals, PoolPc, ConnPc
<1>2. CASE p = NoPool
  BY <1>1, <1>2, StartsAgainStep DEF ReturnLookup
<1>3. CASE p # NoPool
  <2>1. /\ thread' = [thread EXCEPT ![t].pc = "put", ![t].pool = p]
        /\ UNCHANGED addr
    BY <1>3 DEF ReturnLookup
  <2>2. Ring!GetNode(thread[t].key)' = Ring!GetNode(thread'[t].key)
    BY <1>1, OwnerKept
  <2>. HIDE DEF p
  <2>3. /\ thread'[t].pc = "put" /\ thread'[t].node = thread[t].node
        /\ thread'[t].key = thread[t].key /\ thread'[t].pool = p
        /\ thread'[t].conn = thread[t].conn
        /\ \A u \in Thread \ {t} : thread'[u] = thread[u]
    BY <2>1, LocalTypes DEF FixedState, ThreadType
  <2>4. KeepsToOwner(thread[t])'
    BY <1>1, <2>1, <2>2, <2>3 DEF KeepsToOwner, p
  <2>5. Balanced(t)
    BY <1>1, <2>3, NotMoreUsed DEF Uses, UserPc
  <2>6. Confined(t)
    BY <1>1, <2>1, <2>3, NothingTouched DEF FixedState
  <2>. QED  BY <2>4, <2>5, <2>6 DEF Steady
<1>. QED  BY <1>2, <1>3

LEMMA PutSteady ==
  ASSUME FixedState, NEW t \in Thread, Put(t)
  PROVE  Steady(t)
<1>. DEFINE p == thread[t].pool
            c == thread[t].conn
<1>1. /\ thread[t].pc = "put" /\ p \in Pool /\ c \in Conn
      /\ UNCHANGED <<ringVars, pools, admin, changes, faults>>
  BY PoolOfOwner, LocalTypes
  DEF Put, At, Unchanged, FixedState, Locals, PoolPc, ConnPc
<1>2. CASE Goto(t, "panic") /\ UNCHANGED <<pool, addr>>
  <2>1. /\ \A u \in Thread \ {t} : thread'[u] = thread[u]
        /\ KeepsToOwner(thread[t])' /\ thread'[t].pc = "panic"
    BY <1>1, <1>2, GotoSteady DEF ThreadPc, PoolPc, ConnPc
  <2>2. Balanced(t)
    BY <1>2, <2>1, NotMoreUsed DEF Uses, UserPc
  <2>3. Confined(t)
    BY <1>1, <1>2, <2>1, NothingTouched DEF FixedState
  <2>. QED  BY <2>1, <2>2, <2>3 DEF Steady
<1>3. CASE /\ pool' = [pool EXCEPT ![p].connections = Append(@, c)]
           /\ Finish(t) /\ UNCHANGED addr
  <2>. DEFINE s == pool[p].connections
  <2>1. /\ \A u \in Thread \ {t} : thread'[u] = thread[u]
        /\ KeepsToOwner(thread[t])' /\ \A q \in Pool : Uses(t, q)' = 0
    BY <1>1, <1>3, StartsAgainSteady DEF FixedState
  <2>2. pool \in [Pool -> PoolType] /\ s \in Seq(Conn)
    BY <1>1, LocalTypes DEF FixedState, PoolType
  <2>3. /\ Append(s, c) \in Seq(Conn) /\ Len(Append(s, c)) = Len(s) + 1
        /\ \A i \in DOMAIN s : i \in DOMAIN Append(s, c) /\ Append(s, c)[i] = s[i]
        /\ Append(s, c)[Len(s) + 1] = c
        /\ \A i \in DOMAIN Append(s, c) : i \in DOMAIN s \/ i = Len(s) + 1
    <3>. HIDE DEF s, c
    <3>. QED  BY <1>1, <2>2, AppendToConns
  <2>4. \A q \in Pool : /\ pool'[q].connections = IF q = p THEN Append(s, c)
                                                           ELSE pool[q].connections
                        /\ pool'[q].address = pool[q].address
                        /\ pool'[q].closed = pool[q].closed
                        /\ pool'[q].created = pool[q].created
    BY <1>1, <1>3, <2>2, <2>3 DEF PoolType
  <2>5. Uses(t, p) = 1
    BY <1>1 DEF Uses, UserPc
  <2>6. Balanced(t)
    <3>. HIDE DEF p, c, s
    <3>1. ASSUME NEW q \in Pool, q = p
          PROVE  Len(pool'[q].connections) = Len(pool[q].connections) + 1 /\ Uses(t, q) = 1
      <4>1. pool'[q].connections = Append(s, c)
        BY <2>4, <3>1
      <4>. QED  BY <2>3, <2>5, <3>1, <4>1 DEF s
    <3>2. ASSUME NEW q \in Pool, q # p
          PROVE  Len(pool'[q].connections) = Len(pool[q].connections)
      BY <2>4, <3>2
    <3>3. \A q \in Pool : pool'[q].created = pool[q].created /\ Uses(t, q)' = 0
      BY <2>1, <2>4
    <3>. QED  BY <3>1, <3>2, <3>3, NumbersBalance
  <2>7. Confined(t)
    <3>1. ASSUME NEW q \in Pool, NEW d \in Conn,
                 NEW i \in DOMAIN pool'[q].connections, pool'[q].connections[i] = d
          PROVE  InPool(q, d) \/ (q = p /\ d = c)
      <4>. HIDE DEF p, c, s
      <4>1. CASE q = p
        <5>1. i \in DOMAIN Append(s, c) /\ Append(s, c)[i] = d
          BY <2>4, <3>1, <4>1
        <5>2. (i \in DOMAIN s /\ s[i] = d) \/ d = c
          BY <2>3, <5>1
        <5>3. i \in DOMAIN s /\ s[i] = d => InPool(q, d)
          BY <4>1 DEF InPool, s
        <5>. QED  BY <4>1, <5>2, <5>3
      <4>2. CASE q # p
        <5>1. i \in DOMAIN pool[q].connections /\ pool[q].connections[i] = d
          BY <2>4, <3>1, <4>2
        <5>. QED  BY <5>1 DEF InPool
      <4>. QED  BY <4>1, <4>2
    <3>2. \A q \in Pool, d \in Conn : InPool(q, d)' => InPool(q, d) \/ (q = p /\ d = c)
      BY <3>1 DEF InPool
    <3>. QED  BY <1>1, <1>3, <2>1, <2>4, <3>2 DEF Confined
  <2>. QED  BY <2>1, <2>6, <2>7 DEF Steady
<1>4. CASE /\ addr' = [addr EXCEPT ![c] = NoNode]
           /\ pool' = [pool EXCEPT ![p].created = @ - 1]
           /\ Finish(t)
  BY <1>1, <1>4, UncountsSteady DEF UserPc
<1>. QED  BY <1>2, <1>3, <1>4 DEF Put

LEMMA ExecuteCommandSteady ==
  ASSUME FixedState, NEW t \in Thread, NEW k \in Key, executeCommand(t, k)
  PROVE  Steady(t)
<1>. DEFINE l == [Idle EXCEPT !.pc = "route", !.key = k]
<1>1. /\ thread' = [thread EXCEPT ![t] = l]
      /\ UNCHANGED <<ringVars, pools, pool, addr, admin, changes>>
  BY DEF executeCommand, sharedVars, Unchanged
<1>2. l.pc = "route"
  BY IdleType DEF ThreadType
<1>. HIDE DEF l
<1>3. thread'[t].pc = "route" /\ \A u \in Thread \ {t} : thread'[u] = thread[u]
  BY <1>1, <1>2, LocalsSet DEF FixedState
<1>4. KeepsToOwner(thread[t])' /\ \A p \in Pool : Uses(t, p)' = 0
  BY <1>3 DEF KeepsToOwner, PoolPc, ConnPc, Uses, UserPc
<1>. QED  BY <1>1, <1>3, <1>4, NotMoreUsed, NothingTouched DEF Steady, FixedState

-------------------------------------------------------------------------------
(* A goroutine's step keeps the membership's invariants *)

\* Leaving one goroutine out of a pool's users.
LEMMA UsersCount ==
  ASSUME NEW p, NEW t \in Thread
  PROVE  /\ Cardinality(Users(p)) = Cardinality(Users(p) \ {t}) + Uses(t, p)
         /\ Cardinality(Users(p)') = Cardinality(Users(p)' \ {t}) + Uses(t, p)'
         /\ Cardinality(Users(p) \ {t}) \in Nat
         /\ Cardinality(Users(p)) \in Nat /\ Cardinality(Users(p)') \in Nat
<1>1. /\ IsFiniteSet(Thread) /\ Users(p) \in SUBSET Thread /\ Users(p)' \in SUBSET Thread
      /\ Users(p) \ {t} \in SUBSET Thread /\ Users(p)' \ {t} \in SUBSET Thread
  BY ClientPoolAssumption DEF ClientPoolAssumption, Users
<1>2. /\ IsFiniteSet(Users(p)) /\ IsFiniteSet(Users(p)')
      /\ IsFiniteSet(Users(p) \ {t}) /\ IsFiniteSet(Users(p)' \ {t})
  BY <1>1, FS_Subset
<1>3. /\ Cardinality(Users(p)) \in Nat /\ Cardinality(Users(p)') \in Nat
      /\ Cardinality(Users(p) \ {t}) \in Nat /\ Cardinality(Users(p)' \ {t}) \in Nat
  BY <1>2, FS_CardinalityType
<1>4. /\ t \in Users(p) <=> Uses(t, p) = 1
      /\ t \in Users(p)' <=> Uses(t, p)' = 1
      /\ Uses(t, p) \in {0, 1} /\ Uses(t, p)' \in {0, 1}
  BY DEF Users, Uses, UserPc
<1>5. /\ Cardinality(Users(p) \ {t})
           = IF t \in Users(p) THEN Cardinality(Users(p)) - 1 ELSE Cardinality(Users(p))
      /\ Cardinality(Users(p)' \ {t})
           = IF t \in Users(p)' THEN Cardinality(Users(p)') - 1 ELSE Cardinality(Users(p)')
  BY <1>2, FS_RemoveElement
<1>6. Cardinality(Users(p)) = Cardinality(Users(p) \ {t}) + Uses(t, p)
  BY <1>3, <1>4, <1>5
<1>7. Cardinality(Users(p)') = Cardinality(Users(p)' \ {t}) + Uses(t, p)'
  BY <1>3, <1>4, <1>5
<1>. QED  BY <1>3, <1>6, <1>7

LEMMA BoundKept ==
  ASSUME FixedState, NEW t \in Thread, Steady(t), Inv'
  PROVE  AllCounted'
<1>. SUFFICES ASSUME NEW p \in Pool
              PROVE  /\ pool'[p].created <= MaxConnsPerNode
                     /\ Len(pool'[p].connections) + Cardinality(Users(p)') <= pool'[p].created
  BY DEF AllCounted
<1>1. Users(p)' \ {t} = Users(p) \ {t}
  BY DEF Steady, Confined, Users
<1>. DEFINE a == Cardinality(Users(p) \ {t})
            b == Cardinality(Users(p))
            d == Cardinality(Users(p)')
            u == Uses(t, p)
            v == Uses(t, p)'
            x == Len(pool[p].connections)
            y == Len(pool'[p].connections)
            c == pool[p].created
            e == pool'[p].created
<1>2. b = a + u /\ d = a + v /\ a \in Nat /\ b \in Nat /\ d \in Nat
  <2>1. Cardinality(Users(p)' \ {t}) = a
    BY <1>1
  <2>. QED  BY <2>1, UsersCount
<1>3. x + b <= c
  BY DEF FixedState, FixedInv, AllCounted
<1>4. e <= MaxConnsPerNode /\ y + v + c <= x + u + e
  BY DEF Steady, Balanced
<1>5. x \in Nat /\ c \in Int /\ u \in {0, 1} /\ v \in {0, 1}
  BY Numbers
<1>6. y \in Nat /\ e \in Int
  BY DEF Inv, TypeOK
<1>. HIDE DEF a, b, d, u, v, x, y, c, e
<1>7. y + d <= e
  BY <1>2, <1>3, <1>4, <1>5, <1>6
<1>. QED  BY <1>4, <1>7 DEF e, y, d

LEMMA OneNodeKept ==
  ASSUME FixedState, NEW t \in Thread, Steady(t), Inv'
  PROVE  PoolOfOneNode'
<1>. SUFFICES ASSUME NEW p \in Pool, NEW d \in Conn, NEW i \in DOMAIN pool'[p].connections,
                     pool'[p].connections[i] = d
              PROVE  addr'[d] = pool'[p].address
  <2>1. ASSUME NEW p \in Pool, NEW i \in DOMAIN pool'[p].connections
        PROVE  pool'[p].connections[i] \in Conn
    <3>1. pool'[p].connections \in Seq(Conn)
      BY DEF Inv, TypeOK
    <3>. QED  BY <3>1
  <2>. QED  BY <2>1 DEF PoolOfOneNode
<1>2. InPool(p, d)'
  BY DEF InPool
<1>3. pool'[p].address = pool[p].address
  BY DEF Steady, Confined
<1>4. CASE InPool(p, d)
  <2>1. addr'[d] = addr[d]
    BY <1>4 DEF Steady, Confined, InPool, Pooled
  <2>2. addr[d] = pool[p].address
    BY <1>4 DEF InPool, FixedState, FixedInv, PoolOfOneNode
  <2>. QED  BY <1>3, <2>1, <2>2
<1>5. CASE /\ thread[t].pc = "put" /\ p = thread[t].pool
           /\ d = thread[t].conn /\ addr'[d] = addr[d]
  <2>1. addr[thread[t].conn] = thread[t].node
    BY <1>5 DEF FixedState, FixedInv, KeepsToOwner, ConnPc
  <2>2. pool[p].address = thread[t].node
    BY <1>5, PoolOfOwner DEF PoolPc
  <2>. QED  BY <1>3, <1>5, <2>1, <2>2
<1>6. InPool(p, d) \/ (/\ thread[t].pc = "put" /\ p = thread[t].pool
                       /\ d = thread[t].conn /\ addr'[d] = addr[d])
  BY <1>2 DEF Steady, Confined
<1>. QED  BY <1>4, <1>5, <1>6

LEMMA SteadyKeeps ==
  ASSUME FixedState, NEW t \in Thread, Steady(t), Inv',
         admin.pc # "new"
  PROVE  FixedInv'
<1>1. admin' = admin /\ UNCHANGED ringVars /\ pools' = pools
  BY DEF Steady, Confined
<1>2. ASSUME NEW u \in Thread PROVE KeepsToOwner(thread[u])'
  <2>1. CASE u = t
    BY <2>1 DEF Steady
  <2>2. CASE u # t
    <3>1. thread'[u] = thread[u] /\ KeepsToOwner(thread[u]) /\ Locals(thread[u])
      BY <2>2, LocalTypes DEF Steady, Confined, FixedState, FixedInv
    <3>2. Ring!GetNode(thread[u].key)' = Ring!GetNode(thread'[u].key)
      BY <1>1, OwnerKept
    <3>3. Ring!GetNode(thread[u].key)' = Ring!GetNode(thread[u].key)
      BY <1>1, <3>1 DEF ringVars, Ring!GetNode, Ring!RingEmpty, Ring!search, Ring!SearchIn,
                        Ring!Hashes
    <3>4. thread[u].pc \in ConnPc => addr'[thread[u].conn] = addr[thread[u].conn]
      BY <2>2, <3>1 DEF Steady, Confined, Locals
    <3>. QED  BY <1>1, <3>1, <3>3, <3>4 DEF KeepsToOwner
  <2>. QED  BY <2>1, <2>2
<1>. QED  BY <1>1, <1>2, BoundKept, OneNodeKept DEF FixedState, FixedInv

-------------------------------------------------------------------------------
(* The administrator under a fixed membership *)

\* The administrator moves on; ring, goroutines and pooled connections stay.
LEMMA AdminOnly ==
  ASSUME FixedState, UNCHANGED <<ringVars, pools, addr, thread>>,
         \A p \in Pool : /\ pool'[p].address = pool[p].address
                         /\ pool'[p].connections = pool[p].connections
                         /\ pool'[p].created = pool[p].created,
         admin'.pc \notin {"new", "addPool"}, admin'.op \notin {"add", "remove"}
  PROVE  FixedInv'
<1>1. ASSUME NEW t \in Thread PROVE KeepsToOwner(thread[t])'
  <2>1. KeepsToOwner(thread[t])
    BY DEF FixedState, FixedInv
  <2>2. Ring!GetNode(thread[t].key)' = Ring!GetNode(thread[t].key)
    BY DEF ringVars, Ring!GetNode, Ring!RingEmpty, Ring!search, Ring!SearchIn, Ring!Hashes
  <2>. QED  BY <2>1, <2>2 DEF KeepsToOwner
<1>2. PoolOfOneNode'
  BY DEF FixedState, FixedInv, PoolOfOneNode
<1>3. AllCounted'
  <2>1. \A p \in Pool : Users(p)' = Users(p)
    BY DEF Users
  <2>. QED  BY <2>1 DEF FixedState, FixedInv, AllCounted
<1>. QED  BY <1>1, <1>2, <1>3 DEF FixedInv

LEMMA NewWithConfigKeeps ==
  ASSUME FixedState, NEW n \in Node, NewWithConfig(n)
  PROVE  FixedInv'
<1>. DEFINE f == FreshPool
<1>1. /\ admin.pc = "new" /\ n \in InitialNodes \ nodes /\ CreatePool(n)
      /\ admin' \in {admin, Resting} /\ UNCHANGED <<addr, thread, changes, faults>>
  BY DEF NewWithConfig, Admin
<1>2. \A t \in Thread : thread'[t].pc = "idle"
  BY <1>1 DEF FixedState, FixedInv
<1>3. f \in Pool
  <2>1. Cardinality(UsedPools) < Cardinality(Pool)
    BY <1>1, PoolPerInitialNode DEF FixedState
  <2>. QED  BY <2>1, FreshPoolExists DEF FixedState
<1>4. pool' = [pool EXCEPT ![f] = NewPool(n)]
  BY <1>1 DEF CreatePool
<1>. HIDE DEF f
<1>5. /\ pool'[f].connections = <<>> /\ pool'[f].created = 0
      /\ \A p \in Pool : p # f => pool'[p] = pool[p]
  BY <1>3, <1>4, LocalTypes DEF NewPool, FixedState, Inv, TypeOK
<1>6. \A t \in Thread : KeepsToOwner(thread[t])'
  BY <1>2 DEF KeepsToOwner, PoolPc, ConnPc
<1>7. PoolOfOneNode'
  <2>. SUFFICES ASSUME NEW p \in Pool, NEW i \in DOMAIN pool'[p].connections
                PROVE  addr'[pool'[p].connections[i]] = pool'[p].address
    BY DEF PoolOfOneNode
  <2>1. p # f
    BY <1>5
  <2>. QED  BY <1>1, <1>5, <2>1 DEF FixedState, FixedInv, PoolOfOneNode
<1>8. AllCounted'
  <2>1. \A p \in Pool : Cardinality(Users(p)') = 0
    BY <1>2, FS_EmptySet DEF Users
  <2>2. MaxConnsPerNode \in Nat /\ Len(<<>>) = 0
    BY ClientPoolAssumption DEF ClientPoolAssumption
  <2>3. ASSUME NEW p \in Pool, p # f
        PROVE  pool[p].created <= MaxConnsPerNode
               /\ Len(pool[p].connections) + 0 <= pool[p].created
    <3>1. Users(p) = {} /\ Cardinality(Users(p)) = 0
      BY <1>1, FS_EmptySet DEF Users, FixedState, FixedInv
    <3>. QED  BY <3>1 DEF FixedState, FixedInv, AllCounted
  <2>. QED  BY <1>5, <2>1, <2>2, <2>3 DEF AllCounted
<1>9. admin'.pc # "addPool" /\ admin'.op \notin {"add", "remove"}
  BY <1>1, RestingType DEF FixedState, FixedInv
<1>. QED  BY <1>2, <1>6, <1>7, <1>8, <1>9 DEF FixedInv

LEMMA CloseKeeps ==
  ASSUME FixedState, Close
  PROVE  FixedInv'
<1>1. /\ UNCHANGED <<ringVars, pools, pool, addr, thread>>
      /\ IF StillOpen = {} THEN admin' = Shut
         ELSE \E n \in StillOpen : Begin("close", n, "closePool")
  BY DEF Close, sharedVars
<1>2. admin'.pc \in {"shut", "closePool"} /\ admin'.op \in {"none", "close"}
  BY <1>1, ClosesNext DEF FixedState
<1>. QED  BY <1>1, <1>2, AdminOnly

LEMMA ClosePoolKeeps ==
  ASSUME FixedState, ClosePool
  PROVE  FixedInv'
<1>. DEFINE p == pools[admin.node]
<1>1. /\ UNCHANGED <<ringVars, pools, addr, thread>>
      /\ pool' = [pool EXCEPT ![p].closed = TRUE]
      /\ Begin(admin.op, admin.node, "drain")
  BY DEF ClosePool
<1>. HIDE DEF p
<1>2. admin'.pc = "drain" /\ admin'.op = admin.op
  BY <1>1 DEF Begin
<1>3. \A q \in Pool : /\ pool'[q].address = pool[q].address
                      /\ pool'[q].connections = pool[q].connections
                      /\ pool'[q].created = pool[q].created
  <2>1. pool \in [Pool -> PoolType]
    BY AdminTypes DEF FixedState
  <2>. QED  BY <1>1, <2>1, Zenon DEF PoolType
<1>. QED  BY <1>1, <1>2, <1>3, AdminOnly DEF FixedState, FixedInv

LEMMA DrainKeeps ==
  ASSUME FixedState, Drain
  PROVE  FixedInv'
<1>. DEFINE p == pools[admin.node]
<1>1. /\ admin.pc = "drain" /\ p \in Pool /\ admin.op \notin {"add", "remove"}
      /\ UNCHANGED <<ringVars, thread>>
  BY DEF Drain, Admin, FixedState, FixedInv, Inv, AdminInv, TypeOK
<1>2. CASE /\ pool[p].connections # <<>>
           /\ addr' = [addr EXCEPT ![Head(pool[p].connections)] = NoNode]
           /\ pool' = [pool EXCEPT ![p].connections = Tail(@)]
           /\ UNCHANGED <<pools, admin>>
  <2>. DEFINE s == pool[p].connections
              c == Head(s)
  <2>1. /\ c \in Conn /\ Pooled(c)
        /\ \A d \in Conn : Pooled(d)' => Pooled(d) /\ d # c
    BY <1>1, <1>2, HeadLeaves DEF FixedState
  <2>2. /\ s \in Seq(Conn) /\ Tail(s) \in Seq(Conn) /\ Len(Tail(s)) = Len(s) - 1
        /\ \A i \in DOMAIN Tail(s) : i + 1 \in DOMAIN s /\ Tail(s)[i] = s[i + 1]
    <3>1. s \in Seq(Conn) /\ s # <<>>
      BY <1>1, <1>2, AdminTypes DEF FixedState, PoolType
    <3>. QED  BY <3>1, TailOfConns
  <2>3. \A q \in Pool : /\ pool'[q].connections = IF q = p THEN Tail(s) ELSE pool[q].connections
                        /\ pool'[q].address = pool[q].address
                        /\ pool'[q].created = pool[q].created
    <3>1. pool \in [Pool -> PoolType]
      BY AdminTypes DEF FixedState
    <3>. QED  BY <1>1, <1>2, <3>1 DEF PoolType
  <2>4. addr' = [addr EXCEPT ![c] = NoNode]
    BY <1>2
  <2>. HIDE DEF p, s, c
  <2>5. \A d \in Conn : d # c => addr'[d] = addr[d]
    BY <2>4 DEF FixedState, Inv, TypeOK
  <2>6. ASSUME NEW t \in Thread PROVE KeepsToOwner(thread[t])'
    <3>1. KeepsToOwner(thread[t]) /\ Locals(thread[t])
      BY LocalTypes DEF FixedState, FixedInv
    <3>2. Ring!GetNode(thread[t].key)' = Ring!GetNode(thread[t].key)
      BY <1>1 DEF ringVars, Ring!GetNode, Ring!RingEmpty, Ring!search, Ring!SearchIn,
                  Ring!Hashes
    <3>3. thread[t].conn # c
      BY <2>1 DEF FixedState, Inv, ConnInv, Held
    <3>4. thread[t].pc \in ConnPc => addr'[thread[t].conn] = addr[thread[t].conn]
      BY <2>5, <3>1, <3>3 DEF Locals
    <3>. QED  BY <1>1, <1>2, <3>1, <3>2, <3>4 DEF KeepsToOwner
  <2>7. PoolOfOneNode'
    <3>. SUFFICES ASSUME NEW q \in Pool, NEW i \in DOMAIN pool'[q].connections
                  PROVE  addr'[pool'[q].connections[i]] = pool'[q].address
      BY DEF PoolOfOneNode
    <3>1. PICK j \in DOMAIN pool[q].connections :
            pool'[q].connections[i] = pool[q].connections[j]
      <4>1. CASE q = p
        <5>1. i \in DOMAIN Tail(s) /\ pool'[q].connections = Tail(s)
          BY <2>3, <4>1
        <5>2. i + 1 \in DOMAIN pool[q].connections
              /\ pool'[q].connections[i] = pool[q].connections[i + 1]
          BY <2>2, <4>1, <5>1 DEF s
        <5>. QED  BY <5>2
      <4>2. CASE q # p
        BY <2>3, <4>2
      <4>. QED  BY <4>1, <4>2
    <3>2. addr[pool[q].connections[j]] = pool[q].address
      BY DEF FixedState, FixedInv, PoolOfOneNode
    <3>3. pool[q].connections[j] \in Conn
      BY AdminTypes DEF FixedState, PoolType
    <3>4. pool'[q].connections[i] # c
      BY <2>1, <3>1, <3>3 DEF Pooled
    <3>. QED  BY <2>3, <2>5, <3>1, <3>2, <3>3, <3>4
  <2>8. AllCounted'
    <3>. SUFFICES ASSUME NEW q \in Pool
                  PROVE  /\ pool'[q].created <= MaxConnsPerNode
                         /\ Len(pool'[q].connections) + Cardinality(Users(q)')
                              <= pool'[q].created
      BY DEF AllCounted
    <3>1. Users(q)' = Users(q) /\ Cardinality(Users(q)) \in Nat
      <4>1. Users(q) \in SUBSET Thread /\ IsFiniteSet(Thread)
        BY ClientPoolAssumption DEF ClientPoolAssumption, Users
      <4>2. Cardinality(Users(q)) \in Nat
        BY <4>1, FS_Subset, FS_CardinalityType
      <4>. QED  BY <1>1, <4>2 DEF Users
    <3>2. /\ pool[q].created <= MaxConnsPerNode
          /\ Len(pool[q].connections) + Cardinality(Users(q)) <= pool[q].created
      BY DEF FixedState, FixedInv, AllCounted
    <3>3. Len(pool'[q].connections) \in {Len(pool[q].connections), Len(pool[q].connections) - 1}
      <4>1. q = p => pool'[q].connections = Tail(s)
        BY <2>3
      <4>2. q # p => pool'[q].connections = pool[q].connections
        BY <2>3
      <4>. QED  BY <2>2, <4>1, <4>2 DEF s
    <3>4. /\ Len(pool[q].connections) \in Nat /\ pool[q].created \in Int
          /\ pool'[q].created = pool[q].created
      BY <2>3, AdminTypes DEF FixedState, PoolType
    <3>. DEFINE x == Len(pool[q].connections)
                y == Len(pool'[q].connections)
                k == pool[q].created
                b == Cardinality(Users(q))
    <3>5. k <= MaxConnsPerNode /\ x + b <= k /\ y \in {x, x - 1}
          /\ x \in Nat /\ k \in Int /\ b \in Nat
      BY <3>1, <3>2, <3>3, <3>4
    <3>. HIDE DEF x, y, k, b
    <3>6. y + b <= k
      BY <3>5
    <3>. QED  BY <3>1, <3>4, <3>5, <3>6 DEF x, y, k, b
  <2>. QED  BY <1>1, <1>2, <2>6, <2>7, <2>8 DEF FixedState, FixedInv
<1>3. CASE /\ IF StillOpen = {} THEN admin' = Shut
              ELSE \E n \in StillOpen : Begin("close", n, "closePool")
           /\ UNCHANGED <<pools, pool, addr>>
  <2>1. admin'.pc \in {"shut", "closePool"} /\ admin'.op \in {"none", "close"}
    BY <1>3, ClosesNext DEF FixedState
  <2>. QED  BY <1>1, <1>3, <2>1, AdminOnly
<1>. QED  BY <1>1, <1>2, <1>3 DEF Drain, sharedVars

-------------------------------------------------------------------------------
(* A fixed membership *)

LEMMA FixedInit == Init => FixedInv
<1>. SUFFICES ASSUME Init PROVE FixedInv
  OBVIOUS
<1>1. /\ thread = [t \in Thread |-> Idle] /\ admin = [Resting EXCEPT !.pc = "new"]
      /\ pool = [p \in Pool |-> NewPool(NoNode)]
  BY DEF Init
<1>2. \A t \in Thread : thread[t].pc = "idle"
  BY <1>1, IdleType
<1>3. admin.pc = "new" /\ admin.op = "none"
  BY <1>1 DEF Resting
<1>4. \A p \in Pool : pool[p].connections = <<>> /\ pool[p].created = 0
  BY <1>1 DEF NewPool
<1>5. AllCounted
  <2>1. \A p \in Pool : Cardinality(Users(p)) = 0
    BY <1>2, FS_EmptySet DEF Users
  <2>2. MaxConnsPerNode \in Nat /\ Len(<<>>) = 0
    BY ClientPoolAssumption DEF ClientPoolAssumption
  <2>. QED  BY <1>4, <2>1, <2>2 DEF AllCounted
<1>6. PoolOfOneNode
  BY <1>4 DEF PoolOfOneNode
<1>7. \A t \in Thread : KeepsToOwner(thread[t])
  BY <1>2 DEF KeepsToOwner, PoolPc, ConnPc
<1>. QED  BY <1>2, <1>3, <1>5, <1>6, <1>7 DEF FixedInv

LEMMA FixedStep ==
  ASSUME FixedState, [Next]_vars, \A n \in Node : ~ AddNode(n) /\ ~ RemoveNode(n)
  PROVE  FixedState'
<1>1. Inv'
  BY StepInv DEF FixedState
<1>2. CASE UNCHANGED vars
  <2>1. UNCHANGED <<ringVars, pools, pool, addr, thread, admin>>
    BY <1>2 DEF vars, sharedVars
  <2>2. \A t \in Thread : KeepsToOwner(thread[t])'
    <3>1. \A t \in Thread : Ring!GetNode(thread[t].key)' = Ring!GetNode(thread[t].key)
      BY <2>1 DEF ringVars, Ring!GetNode, Ring!RingEmpty, Ring!search, Ring!SearchIn, Ring!Hashes
    <3>. QED  BY <2>1, <3>1 DEF KeepsToOwner, FixedState, FixedInv
  <2>3. PoolOfOneNode' /\ AllCounted'
    BY <2>1 DEF PoolOfOneNode, AllCounted, Users, FixedState, FixedInv
  <2>. QED  BY <1>1, <2>1, <2>2, <2>3 DEF FixedState, FixedInv
<1>3. ASSUME NEW t \in Thread, Step(t) PROVE FixedState'
  <2>1. Steady(t)
    BY <1>3, RouteSteady, LookupSteady, TryGetSteady, ReserveSteady, DialSteady, WaitSteady,
       ExchangeSteady, ReturnRouteSteady, ReturnLookupSteady, PutSteady DEF Step
  <2>2. thread[t].pc # "idle"
    BY <1>3 DEF Step, At, Route, Lookup, TryGet, Reserve, Dial, Wait, Exchange, ReturnRoute,
                ReturnLookup, Put
  <2>3. admin.pc # "new"
    BY <2>2 DEF FixedState, FixedInv
  <2>. QED  BY <1>1, <2>1, <2>3, SteadyKeeps DEF FixedState
<1>4. ASSUME NEW t \in Thread, NEW k \in Key, executeCommand(t, k) PROVE FixedState'
  <2>1. Steady(t) /\ admin.pc # "new"
    BY <1>4, ExecuteCommandSteady DEF executeCommand
  <2>. QED  BY <1>1, <2>1, SteadyKeeps DEF FixedState
<1>5. CASE AdminStep
  <2>1. ~ AddPool
    BY DEF AddPool, Admin, FixedState, FixedInv
  <2>. QED  BY <1>1, <1>5, <2>1, NewWithConfigKeeps, ClosePoolKeeps, DrainKeeps
            DEF AdminStep, FixedState
<1>6. CASE Close
  BY <1>1, <1>6, CloseKeeps DEF FixedState
<1>. QED  BY <1>2, <1>3, <1>4, <1>5, <1>6 DEF Next, Over

LEMMA FixedAlways ==
  ASSUME Changes \subseteq {"close"}
  PROVE  Spec => []FixedState
<1>1. Init => FixedState
  BY InitInv, FixedInit DEF FixedState
<1>2. FixedState /\ [Next]_vars => FixedState'
  BY FixedStep DEF AddNode, RemoveNode, MayChange
<1>. QED  BY <1>1, <1>2, PTL DEF Spec

\* The administrator's calls are counted, and no other step changes the count.
LEMMA FirstChangeCounted ==
  ASSUME Inv, [Next]_vars, changes' = 0
  PROVE  changes = 0 /\ \A n \in Node : ~ AddNode(n) /\ ~ RemoveNode(n)
<1>1. changes \in Nat
  BY ClientPoolAssumption DEF ClientPoolAssumption, Inv, TypeOK
<1>2. ~ Close /\ \A n \in Node : ~ AddNode(n) /\ ~ RemoveNode(n)
  BY <1>1 DEF AddNode, RemoveNode, Close, MayChange
<1>3. ASSUME NEW t \in Thread, Step(t) \/ \E k \in Key : executeCommand(t, k)
      PROVE  changes' = changes
  BY <1>3 DEF Step, Unchanged, executeCommand, Route, Lookup, TryGet, Reserve, Dial, Wait,
              Exchange, ReturnRoute, ReturnLookup, Put
<1>4. AdminStep \/ Over \/ UNCHANGED vars => changes' = changes
  BY DEF AdminStep, NewWithConfig, AddPool, ClosePool, Drain, Over, vars
<1>. QED  BY <1>2, <1>3, <1>4 DEF Next

\* As long as the administrator has changed nothing, a pool holds and hands out at
\* most as many connections as it counts, and counts at most its limit, whatever
\* races and fails (client.go:1074-1129).
THEOREM PoolsBounded == Spec => []PoolBound
<1>. DEFINE UnchangedInv == Inv /\ (changes = 0 => FixedInv)
<1>1. Init => UnchangedInv
  BY InitInv, FixedInit
<1>2. UnchangedInv /\ [Next]_vars => UnchangedInv'
  <2>. SUFFICES ASSUME UnchangedInv, [Next]_vars PROVE UnchangedInv'
    OBVIOUS
  <2>1. Inv'
    BY StepInv
  <2>2. ASSUME changes' = 0 PROVE FixedInv'
    BY <2>2, FirstChangeCounted, FixedStep DEF FixedState
  <2>. QED  BY <2>1, <2>2
<1>3. UnchangedInv => PoolBound
  BY DEF FixedInv, PoolBound
<1>. QED  BY <1>1, <1>2, <1>3, PTL DEF Spec

\* A client whose nodes never change keeps that bound to the end, while its pools
\* are being closed too (client.go:1060-1069, 1122-1130).
THEOREM PoolsBoundedWhileClosing ==
  ASSUME Changes \subseteq {"close"}
  PROVE  Spec => []AllCounted
<1>1. FixedState => AllCounted
  BY DEF FixedState, FixedInv
<1>. QED  BY <1>1, FixedAlways, PTL

\* When no node joins or leaves, the connections of a pool lead to its node
\* (client.go:93, 272-291).
THEOREM PoolsKeepToTheirNode ==
  ASSUME Changes \subseteq {"close"}
  PROVE  Spec => []PoolOfOneNode
<1>1. FixedState => PoolOfOneNode
  BY DEF FixedState, FixedInv
<1>. QED  BY <1>1, FixedAlways, PTL

-------------------------------------------------------------------------------
(* Nodes that only join *)

LEMMA OpenInit == Init => OpenInv
BY IdleType DEF Init, OpenInv, Running, NewPool, Resting, Idle

\* The administrator has its call, and every pool is open.
RunsOn(t) ==
  /\ thread'[t].pc # "panic" /\ \A u \in Thread \ {t} : thread'[u] = thread[u]
  /\ \A p \in Pool : ~ pool'[p].closed
  /\ admin' = admin

LEMMA StartsAgainRunsOn ==
  ASSUME Inv, NEW t \in Thread, thread[t].pc # "idle", NextAttempt(t) \/ Finish(t)
  PROVE  thread'[t].pc # "panic" /\ \A u \in Thread \ {t} : thread'[u] = thread[u]
<1>1. PICK l \in ThreadType : /\ l.pc \in {"idle", "route"}
                              /\ thread' = [thread EXCEPT ![t] = l]
  BY StartsAgain
<1>. QED  BY <1>1, LocalsSet

LEMMA GoesOnRunsOn ==
  ASSUME Inv, NEW t \in Thread, NEW pc \in ThreadPc \ {"panic"}, NEW n, NEW p, NEW c,
         \/ Goto(t, pc)
         \/ thread' = [thread EXCEPT ![t].pc = pc, ![t].node = n]
         \/ thread' = [thread EXCEPT ![t].pc = pc, ![t].pool = p]
         \/ thread' = [thread EXCEPT ![t].pc = pc, ![t].conn = c]
  PROVE  thread'[t].pc # "panic" /\ \A u \in Thread \ {t} : thread'[u] = thread[u]
BY LocalTypes DEF Goto, ThreadType

\* Steps that change a pool's connections or count leave it open.
LEMMA StaysOpen ==
  ASSUME Inv, OpenInv, NEW p \in Pool, NEW x,
         \/ UNCHANGED pool
         \/ pool' = [pool EXCEPT ![p].connections = x]
         \/ pool' = [pool EXCEPT ![p].created = x]
  PROVE  \A q \in Pool : ~ pool'[q].closed
<1>1. pool \in [Pool -> PoolType] /\ \A q \in Pool : ~ pool[q].closed
  BY AdminTypes DEF OpenInv
<1>. QED  BY <1>1, Zenon DEF PoolType

LEMMA StepRunsOn ==
  ASSUME Inv, OpenInv, NEW t \in Thread, Step(t)
  PROVE  RunsOn(t)
<1>. DEFINE p == thread[t].pool
<1>1. thread[t].pc # "idle" /\ admin' = admin
  BY DEF Step, At, Unchanged, Route, Lookup, TryGet, Reserve, Dial, Wait, Exchange,
         ReturnRoute, ReturnLookup, Put
<1>2. thread[t].pc \in PoolPc => p \in Pool /\ ~ pool[p].closed
  BY LocalTypes DEF Locals, OpenInv
<1>3. UNCHANGED pool => \A q \in Pool : ~ pool'[q].closed
  BY DEF OpenInv
<1>4. ASSUME Receive(t), thread[t].pc \in PoolPc PROVE RunsOn(t)
  <2>1. /\ Hold(t, Head(pool[p].connections))
        /\ pool' = [pool EXCEPT ![p].connections = Tail(@)]
    BY <1>2, <1>4 DEF Receive
  <2>. QED  BY <1>1, <1>2, <1>4, <2>1, StaysOpen, GoesOnRunsOn DEF RunsOn, Hold, ThreadPc
<1>5. CASE Route(t)
  BY <1>1, <1>3, <1>5, StartsAgainRunsOn, GoesOnRunsOn DEF Route, RunsOn, sharedVars, ThreadPc
<1>6. CASE Lookup(t)
  <2>1. /\ UNCHANGED pool
        /\ \/ NextAttempt(t)
           \/ \E q : thread' = [thread EXCEPT ![t].pc = "get", ![t].pool = q]
    BY <1>6 DEF Lookup, sharedVars
  <2>2. CASE NextAttempt(t)
    BY <1>1, <1>3, <2>1, <2>2, StartsAgainRunsOn DEF RunsOn
  <2>3. ASSUME NEW q, thread' = [thread EXCEPT ![t].pc = "get", ![t].pool = q]
        PROVE  RunsOn(t)
    <3>1. "get" \in ThreadPc \ {"panic"}
      BY DEF ThreadPc
    <3>. QED  BY <1>1, <1>3, <2>1, <2>3, <3>1, GoesOnRunsOn DEF RunsOn
  <2>. QED  BY <2>1, <2>2, <2>3
<1>7. CASE TryGet(t)
  BY <1>1, <1>3, <1>4, <1>7, GoesOnRunsOn DEF TryGet, At, RunsOn, ThreadPc, PoolPc
<1>8. CASE Reserve(t)
  <2>. thread[t].pc \in PoolPc
    BY <1>8 DEF Reserve, At, PoolPc
  <2>. QED  BY <1>1, <1>2, <1>8, GoesOnRunsOn, StaysOpen DEF Reserve, RunsOn, ThreadPc
<1>9. CASE Dial(t)
  <2>. thread[t].pc \in PoolPc
    BY <1>9 DEF Dial, At, PoolPc
  <2>1. CASE Hold(t, FreshConn) /\ UNCHANGED pool
    BY <1>1, <1>3, <2>1, GoesOnRunsOn DEF Hold, RunsOn, ThreadPc
  <2>2. CASE NextAttempt(t) /\ pool' = [pool EXCEPT ![p].created = @ - 1]
    BY <1>1, <1>2, <2>2, StartsAgainRunsOn, StaysOpen DEF RunsOn
  <2>. QED  BY <1>9, <2>1, <2>2 DEF Dial
<1>10. CASE Wait(t)
  BY <1>1, <1>3, <1>4, <1>10, StartsAgainRunsOn DEF Wait, At, RunsOn, PoolPc
<1>11. CASE Exchange(t)
  <2>1. CASE Goto(t, "return") /\ UNCHANGED pool
    BY <1>1, <1>3, <2>1, GoesOnRunsOn DEF RunsOn, ThreadPc
  <2>2. CASE NextAttempt(t) /\ UNCHANGED pool
    BY <1>1, <1>3, <2>2, StartsAgainRunsOn DEF RunsOn
  <2>. QED  BY <1>11, <2>1, <2>2 DEF Exchange
<1>12. CASE ReturnRoute(t)
  <2>1. CASE Finish(t) /\ UNCHANGED pool
    BY <1>1, <1>3, <2>1, StartsAgainRunsOn DEF RunsOn
  <2>2. CASE UNCHANGED pool /\ \E n : thread' = [thread EXCEPT ![t].pc = "returnLookup",
                                                            ![t].node = n]
    <3>1. PICK n : thread' = [thread EXCEPT ![t].pc = "returnLookup", ![t].node = n]
      BY <2>2
    <3>2. "returnLookup" \in ThreadPc \ {"panic"}
      BY DEF ThreadPc
    <3>3. thread'[t].pc # "panic" /\ \A u \in Thread \ {t} : thread'[u] = thread[u]
      BY <3>1, <3>2, GoesOnRunsOn
    <3>. QED  BY <1>1, <1>3, <2>2, <3>3 DEF RunsOn
  <2>. QED  BY <1>12, <2>1, <2>2 DEF ReturnRoute
<1>13. CASE ReturnLookup(t)
  BY <1>1, <1>3, <1>13, StartsAgainRunsOn, GoesOnRunsOn DEF ReturnLookup, RunsOn, ThreadPc
<1>14. CASE Put(t)
  <2>. thread[t].pc \in PoolPc
    BY <1>14 DEF Put, At, PoolPc
  <2>. QED  BY <1>1, <1>2, <1>14, StartsAgainRunsOn, StaysOpen DEF Put, RunsOn
<1>. QED  BY <1>5, <1>6, <1>7, <1>8, <1>9, <1>10, <1>11, <1>12, <1>13, <1>14 DEF Step

LEMMA OpenStep ==
  ASSUME Changes \subseteq {"add"}, Inv, OpenInv, [Next]_vars
  PROVE  OpenInv'
<1>1. CASE UNCHANGED vars
  BY <1>1 DEF vars, sharedVars, OpenInv, Running
<1>2. ASSUME NEW t \in Thread, Step(t) PROVE OpenInv'
  BY <1>2, StepRunsOn DEF RunsOn, OpenInv, Running
<1>3. ASSUME NEW t \in Thread, NEW k \in Key, executeCommand(t, k) PROVE OpenInv'
  <2>. DEFINE l == [Idle EXCEPT !.pc = "route", !.key = k]
  <2>1. thread' = [thread EXCEPT ![t] = l] /\ UNCHANGED <<pool, admin>>
    BY <1>3 DEF executeCommand, sharedVars, Unchanged
  <2>2. l.pc = "route"
    BY IdleType DEF ThreadType
  <2>. HIDE DEF l
  <2>3. thread'[t].pc = "route" /\ \A u \in Thread \ {t} : thread'[u] = thread[u]
    BY <2>1, <2>2, LocalsSet
  <2>. QED  BY <2>1, <2>3 DEF OpenInv, Running
<1>4. ASSUME CreatePool(admin.node) \/ \E n \in Node : CreatePool(n)
      PROVE  \A p \in Pool : ~ pool'[p].closed
  <2>1. PICK n : pool' = [pool EXCEPT ![FreshPool] = NewPool(n)]
    BY <1>4 DEF CreatePool
  <2>2. ~ NewPool(n).closed
    BY DEF NewPool
  <2>. QED  BY <2>1, <2>2, AdminTypes DEF OpenInv
<1>5. ASSUME NEW n \in Node, NewWithConfig(n) PROVE OpenInv'
  <2>1. admin' \in {admin, Resting} /\ UNCHANGED thread /\ CreatePool(n)
    BY <1>5 DEF NewWithConfig
  <2>. QED  BY <1>4, <2>1, RestingType DEF OpenInv, Running
<1>6. CASE AddPool
  <2>1. admin' = Resting /\ UNCHANGED thread /\ (CreatePool(admin.node) \/ UNCHANGED pool)
    BY <1>6 DEF AddPool
  <2>. QED  BY <1>4, <2>1, RestingType DEF OpenInv, Running
<1>7. ~ ClosePool /\ ~ Drain
  BY DEF ClosePool, Drain, Admin, OpenInv
<1>8. ASSUME NEW n \in Node, AddNode(n) PROVE OpenInv'
  BY <1>8 DEF AddNode, Begin, sharedVars, OpenInv, Running
<1>9. ~ Close /\ \A n \in Node : ~ RemoveNode(n)
  BY DEF Close, RemoveNode, MayChange
<1>. QED  BY <1>1, <1>2, <1>3, <1>5, <1>6, <1>7, <1>8, <1>9 DEF Next, AdminStep, Over

\* While nodes only join, no goroutine uses a nil connection or a closed channel:
\* what the panics in use depend on is a pool being closed (client.go:236-245,
\* 1074-1077, 1107-1118).
THEOREM JoiningNeverPanics ==
  ASSUME Changes \subseteq {"add"}
  PROVE  Spec => []NoPanic
<1>1. Inv /\ OpenInv /\ [Next]_vars => OpenInv'
  BY OpenStep
<1>2. OpenInv => NoPanic
  BY DEF OpenInv, NoPanic
<1>. QED  BY <1>1, <1>2, OpenInit, ClientInvariant, PTL DEF Spec
===============================================================================
