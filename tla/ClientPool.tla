------------------------------ MODULE ClientPool ------------------------------
(***************************************************************************)
(* pkg/client/client.go: one Client, used by several goroutines, with its  *)
(* ring and a ConnectionPool per node.  A goroutine runs executeCommand,   *)
(* one step per access to shared state; an administrator goroutine runs    *)
(* AddNode, RemoveNode or Close, holding c.mu throughout, while the others *)
(* go on.                                                                  *)
(*                                                                         *)
(* A connection is known by the address it was dialled to.  What travels   *)
(* on it is left out: an exchange succeeds or fails, and at most MaxFaults *)
(* exchanges and dials fail.  A panic in any goroutine ends the process.   *)
(***************************************************************************)
EXTENDS Integers, Sequences, FiniteSets

CONSTANTS Node, NoNode, Position, VirtualNodes, DefaultVirtualNodes,
          Key, NoKey, KeyHash, Placements,
          Thread,           \* the goroutines that issue commands
          Pool, NoPool,     \* ConnectionPool objects: bound on those ever created
          Conn, NoConn,     \* connections: bound on those open at a time
          MaxConnsPerNode, RetryAttempts,
          InitialNodes,     \* cfg.Nodes
          Changes,          \* what the administrator does
          MaxChanges,       \* bound on the administrator's calls
          MaxFaults         \* bound on failing dials and exchanges

ASSUME ClientPoolAssumption ==
  /\ NoKey \notin Key /\ NoPool \notin Pool /\ NoConn \notin Conn
  /\ \A S \in {Thread, Pool, Conn, InitialNodes} : IsFiniteSet(S)
  /\ MaxConnsPerNode \in Nat \ {0}
  /\ RetryAttempts \in Nat
  /\ InitialNodes \subseteq Node /\ InitialNodes # {}
  /\ Changes \subseteq {"add", "remove", "close"}
  /\ MaxChanges \in Nat /\ MaxFaults \in Nat
  /\ Cardinality(Pool) >= Cardinality(InitialNodes) + MaxChanges
  /\ Cardinality(Conn) >= Cardinality(Pool) * MaxConnsPerNode + Cardinality(Thread)

VARIABLES ring, nodes, sortedHashes, vhash,  \* c.ring, see HashRing
          pools,    \* c.pools: Node -> Pool, NoPool where the map has no entry
          pool,     \* the ConnectionPool objects
          addr,     \* the node a connection leads to, NoNode once closed
          thread,   \* the locals of every goroutine
          admin,    \* the administrator's call and the node it is for
          changes,  \* administrator calls made
          faults    \* failures so far

ringVars == <<ring, nodes, sortedHashes, vhash>>
sharedVars == <<pools, pool, addr>>
vars == <<ringVars, sharedVars, thread, admin, changes, faults>>

Ring == INSTANCE HashRing

\* The constants of the ring are those of a ring.
ASSUME RingAssumption == Ring!HashRingAssumption

NewPool(n) == [address |-> n, created |-> 0, connections |-> <<>>, closed |-> FALSE]

Idle == [pc |-> "idle", key |-> NoKey, attempt |-> 0,
         node |-> NoNode, pool |-> NoPool, conn |-> NoConn]

Resting == [pc |-> "rest", op |-> "none", node |-> NoNode]

Shut == [Resting EXCEPT !.pc = "shut"]

FreshPool == CHOOSE p \in Pool : pool[p].address = NoNode

FreshConn == CHOOSE c \in Conn : addr[c] = NoNode

\* The process is alive.
Running == \A t \in Thread : thread[t].pc # "panic"

\* c.mu: the administrator holds it from its first step to its last.
MuFree == admin.pc \in {"rest", "shut"}

-------------------------------------------------------------------------------
(* Steps of a goroutine *)

At(t, pc) == Running /\ thread[t].pc = pc

Goto(t, pc) == thread' = [thread EXCEPT ![t].pc = pc]

Hold(t, c) == thread' = [thread EXCEPT ![t].pc = "exchange", ![t].conn = c]

Finish(t) == thread' = [thread EXCEPT ![t] = Idle]

\* Wrong: one attempt too many.
NextAttemptTooMany(t) ==
  LET l == thread[t]
  IN  IF l.attempt <= RetryAttempts
      THEN thread' = [thread EXCEPT ![t] =
                        [Idle EXCEPT !.pc = "route", !.key = l.key, !.attempt = l.attempt + 1]]
      ELSE Finish(t)

\* "continue": the next attempt, or the error after the last one.
NextAttempt(t) ==
  LET l == thread[t]
  IN  IF l.attempt < RetryAttempts
      THEN thread' = [thread EXCEPT ![t] =
                        [Idle EXCEPT !.pc = "route", !.key = l.key, !.attempt = l.attempt + 1]]
      ELSE Finish(t)

Unchanged == UNCHANGED <<ringVars, admin, changes>>

\* executeCommand starts, once NewWithConfig has returned and before Close is
\* called (client.go:1046: "should not be used" after it).
executeCommand(t, k) ==
  /\ At(t, "idle")
  /\ admin.pc \notin {"new", "shut"} /\ admin.op # "close"
  /\ thread' = [thread EXCEPT ![t] = [Idle EXCEPT !.pc = "route", !.key = k]]
  /\ UNCHANGED <<sharedVars, faults>> /\ Unchanged

\* getConnection asks the ring, without c.mu.  Every attempt asks for the owner of
\* the key, also after a failure: a retry does not fail over to another node.
Route(t) ==
  /\ At(t, "route")
  /\ LET n == Ring!GetNode(thread[t].key)
     IN  IF n = NoNode
         THEN NextAttempt(t)
         ELSE thread' = [thread EXCEPT ![t].pc = "lookup", ![t].node = n]
  /\ UNCHANGED <<sharedVars, faults>> /\ Unchanged

\* getConnection reads c.pools under c.mu.RLock.
Lookup(t) ==
  /\ At(t, "lookup") /\ MuFree
  /\ LET p == pools[thread[t].node]
     IN  IF p = NoPool
         THEN NextAttempt(t)
         ELSE thread' = [thread EXCEPT ![t].pc = "get", ![t].pool = p]
  /\ UNCHANGED <<sharedVars, faults>> /\ Unchanged

\* Wrong: the connection handed out stays in the pool.
ReceiveKeeping(t) ==
  LET p == thread[t].pool
  IN  /\ pool[p].connections # <<>>
      /\ Hold(t, Head(pool[p].connections))
      /\ UNCHANGED pool

\* A receive from cp.connections.  A closed channel still yields what it holds,
\* then nil: Get returns a nil connection without an error, and executeCommand
\* dereferences it.
Receive(t) ==
  LET p == thread[t].pool
  IN  \/ /\ pool[p].connections # <<>>
         /\ Hold(t, Head(pool[p].connections))
         /\ pool' = [pool EXCEPT ![p].connections = Tail(@)]
      \/ /\ pool[p].connections = <<>> /\ pool[p].closed
         /\ Goto(t, "panic")
         /\ UNCHANGED pool

\* pool.Get: the first select, with its default branch.
TryGet(t) ==
  /\ At(t, "get")
  /\ \/ Receive(t)
     \/ /\ pool[thread[t].pool].connections = <<>> /\ ~ pool[thread[t].pool].closed
        /\ Goto(t, "reserve")
        /\ UNCHANGED pool
  /\ UNCHANGED <<pools, addr, faults>> /\ Unchanged

\* Wrong: created may exceed the limit by one.
ReserveTooMany(t) ==
  /\ At(t, "reserve")
  /\ LET p == thread[t].pool
     IN  IF pool[p].created <= MaxConnsPerNode
         THEN /\ Goto(t, "dial")
              /\ pool' = [pool EXCEPT ![p].created = @ + 1]
         ELSE /\ Goto(t, "wait")
              /\ UNCHANGED pool
  /\ UNCHANGED <<pools, addr, faults>> /\ Unchanged

\* pool.Get: created < maxConns, under cp.mu.
Reserve(t) ==
  /\ At(t, "reserve")
  /\ LET p == thread[t].pool
     IN  IF pool[p].created < MaxConnsPerNode
         THEN /\ Goto(t, "dial")
              /\ pool' = [pool EXCEPT ![p].created = @ + 1]
         ELSE /\ Goto(t, "wait")
              /\ UNCHANGED pool
  /\ UNCHANGED <<pools, addr, faults>> /\ Unchanged

\* pool.Get: DialContext, and created-- when it fails.
Dial(t) ==
  /\ At(t, "dial")
  /\ LET p == thread[t].pool
     IN  \/ /\ addr' = [addr EXCEPT ![FreshConn] = pool[p].address]
            /\ Hold(t, FreshConn)
            /\ UNCHANGED <<pool, faults>>
         \/ /\ faults < MaxFaults
            /\ faults' = faults + 1
            /\ pool' = [pool EXCEPT ![p].created = @ - 1]
            /\ NextAttempt(t)
            /\ UNCHANGED addr
  /\ UNCHANGED pools /\ Unchanged

\* Wrong: Get waits without a timeout.
WaitForever(t) ==
  /\ At(t, "wait")
  /\ Receive(t)
  /\ UNCHANGED <<pools, addr, faults>> /\ Unchanged

\* pool.Get: the second select, a connection or the timeout.
Wait(t) ==
  /\ At(t, "wait")
  /\ \/ Receive(t)
     \/ NextAttempt(t) /\ UNCHANGED pool
  /\ UNCHANGED <<pools, addr, faults>> /\ Unchanged

\* Wrong: a connection that failed goes back to the pool.
ExchangeReturningFailed(t) ==
  /\ At(t, "exchange")
  /\ Goto(t, "return")
  /\ \/ UNCHANGED <<addr, faults>>
     \/ /\ faults < MaxFaults
        /\ faults' = faults + 1
        /\ addr' = [addr EXCEPT ![thread[t].conn] = NoNode]
  /\ UNCHANGED <<pools, pool>> /\ Unchanged

\* WriteCommand and ReadResponse; a failure of either closes the connection.
Exchange(t) ==
  /\ At(t, "exchange")
  /\ \/ /\ Goto(t, "return")
        /\ UNCHANGED <<addr, faults>>
     \/ /\ faults < MaxFaults
        /\ faults' = faults + 1
        /\ addr' = [addr EXCEPT ![thread[t].conn] = NoNode]
        /\ NextAttempt(t)
  /\ UNCHANGED <<pools, pool>> /\ Unchanged

\* returnConnection asks the ring for the key's node once more.
ReturnRoute(t) ==
  /\ At(t, "return")
  /\ LET n == Ring!GetNode(thread[t].key)
     IN  IF n = NoNode
         THEN Finish(t) /\ addr' = [addr EXCEPT ![thread[t].conn] = NoNode]
         ELSE /\ thread' = [thread EXCEPT ![t].pc = "returnLookup", ![t].node = n]
              /\ UNCHANGED addr
  /\ UNCHANGED <<pools, pool, faults>> /\ Unchanged

\* returnConnection reads c.pools; without a pool the connection is closed.
ReturnLookup(t) ==
  /\ At(t, "returnLookup") /\ MuFree
  /\ LET p == pools[thread[t].node]
     IN  IF p = NoPool
         THEN Finish(t) /\ addr' = [addr EXCEPT ![thread[t].conn] = NoNode]
         ELSE /\ thread' = [thread EXCEPT ![t].pc = "put", ![t].pool = p]
              /\ UNCHANGED addr
  /\ UNCHANGED <<pools, pool, faults>> /\ Unchanged

\* pool.Put: a send on a closed channel panics, one on a full channel closes the
\* connection instead.
Put(t) ==
  /\ At(t, "put")
  /\ LET p == thread[t].pool
         c == thread[t].conn
     IN  \/ /\ pool[p].closed
            /\ Goto(t, "panic")
            /\ UNCHANGED <<pool, addr>>
         \/ /\ ~ pool[p].closed /\ Len(pool[p].connections) < MaxConnsPerNode
            /\ pool' = [pool EXCEPT ![p].connections = Append(@, c)]
            /\ Finish(t)
            /\ UNCHANGED addr
         \/ /\ ~ pool[p].closed /\ Len(pool[p].connections) = MaxConnsPerNode
            /\ addr' = [addr EXCEPT ![c] = NoNode]
            /\ pool' = [pool EXCEPT ![p].created = @ - 1]
            /\ Finish(t)
  /\ UNCHANGED <<pools, faults>> /\ Unchanged

Step(t) == \/ Route(t) \/ Lookup(t) \/ TryGet(t) \/ Reserve(t) \/ Dial(t) \/ Wait(t)
           \/ Exchange(t) \/ ReturnRoute(t) \/ ReturnLookup(t) \/ Put(t)

-------------------------------------------------------------------------------
(* The administrator *)

Admin(pc) == Running /\ admin.pc = pc

Begin(op, n, pc) == admin' = [pc |-> pc, op |-> op, node |-> n]

MayChange(op) == /\ Admin("rest") /\ op \in Changes /\ changes < MaxChanges
                 /\ changes' = changes + 1

CreatePool(n) ==
  /\ pools' = [pools EXCEPT ![n] = FreshPool]
  /\ pool' = [pool EXCEPT ![FreshPool] = NewPool(n)]

\* The loop over cfg.Nodes, before the client is handed out.
NewWithConfig(n) ==
  /\ Admin("new") /\ n \in InitialNodes \ nodes
  /\ Ring!AddNode(n)
  /\ CreatePool(n)
  /\ admin' = IF nodes' = InitialNodes THEN Resting ELSE admin
  /\ UNCHANGED <<addr, thread, changes, faults>>

AddNode(n) ==
  /\ MayChange("add")
  /\ Ring!AddNode(n)
  /\ Begin("add", n, "addPool")
  /\ UNCHANGED <<sharedVars, thread, faults>>

AddPool ==
  /\ Admin("addPool")
  /\ IF pools[admin.node] = NoPool THEN CreatePool(admin.node) ELSE UNCHANGED <<pools, pool>>
  /\ admin' = Resting
  /\ UNCHANGED <<ringVars, addr, thread, changes, faults>>

RemoveNode(n) ==
  /\ MayChange("remove")
  /\ Ring!RemoveNode(n)
  /\ IF pools[n] = NoPool THEN UNCHANGED admin ELSE Begin("remove", n, "closePool")
  /\ UNCHANGED <<sharedVars, thread, faults>>

StillOpen == {n \in Node : pools[n] # NoPool /\ ~ pool[pools[n]].closed}

\* Close goes through the map; the pools stay in it.
Close ==
  /\ MayChange("close")
  /\ IF StillOpen = {} THEN admin' = Shut
                       ELSE \E n \in StillOpen : Begin("close", n, "closePool")
  /\ UNCHANGED <<ringVars, sharedVars, thread, faults>>

\* pool.Close: close(cp.connections).
ClosePool ==
  /\ Admin("closePool")
  /\ pool' = [pool EXCEPT ![pools[admin.node]].closed = TRUE]
  /\ Begin(admin.op, admin.node, "drain")
  /\ UNCHANGED <<ringVars, pools, addr, thread, changes, faults>>

\* pool.Close: the connections still in the channel are closed one by one; a
\* goroutine may receive them first.
Drain ==
  /\ Admin("drain")
  /\ LET p == pools[admin.node]
     IN  \/ /\ pool[p].connections # <<>>
            /\ addr' = [addr EXCEPT ![Head(pool[p].connections)] = NoNode]
            /\ pool' = [pool EXCEPT ![p].connections = Tail(@)]
            /\ UNCHANGED <<pools, admin>>
         \/ /\ pool[p].connections = <<>> /\ admin.op = "remove"
            /\ pools' = [pools EXCEPT ![admin.node] = NoPool]
            /\ admin' = Resting
            /\ UNCHANGED <<pool, addr>>
         \/ /\ pool[p].connections = <<>> /\ admin.op = "close"
            /\ IF StillOpen = {} THEN admin' = Shut
                                 ELSE \E n \in StillOpen : Begin("close", n, "closePool")
            /\ UNCHANGED <<sharedVars>>
  /\ UNCHANGED <<ringVars, thread, changes, faults>>

AdminStep == \/ \E n \in Node : NewWithConfig(n)
             \/ AddPool \/ ClosePool \/ Drain

-------------------------------------------------------------------------------
Init == /\ Ring!Init
        /\ pools = [n \in Node |-> NoPool]
        /\ pool = [p \in Pool |-> NewPool(NoNode)]
        /\ addr = [c \in Conn |-> NoNode]
        /\ thread = [t \in Thread |-> Idle]
        /\ admin = [Resting EXCEPT !.pc = "new"]
        /\ changes = 0
        /\ faults = 0

\* A process that panicked, or whose client is closed and unused, does no more.
Over == /\ ~ Running \/ (admin.pc = "shut" /\ \A t \in Thread : thread[t].pc = "idle")
        /\ UNCHANGED vars

Next == \/ \E t \in Thread : Step(t) \/ \E k \in Key : executeCommand(t, k)
        \/ AdminStep
        \/ \E n \in Node : AddNode(n) \/ RemoveNode(n)
        \/ Close
        \/ Over

Spec == Init /\ [][Next]_vars

\* Goroutines are scheduled, dials and exchanges end within their deadlines, and
\* an administrator's call that has begun goes on.
FairSpec == Spec /\ WF_vars(AdminStep) /\ \A t \in Thread : WF_vars(Step(t))

-------------------------------------------------------------------------------
(* What the client keeps *)

ThreadPc == {"idle", "route", "lookup", "get", "reserve", "dial", "wait", "exchange",
             "return", "returnLookup", "put", "panic"}

\* The type of the client's state.
TypeOK ==
  /\ pools \in [Node -> Pool \cup {NoPool}]
  /\ pool \in [Pool -> [address : Node \cup {NoNode}, created : Int,
                        connections : Seq(Conn), closed : BOOLEAN]]
  /\ addr \in [Conn -> Node \cup {NoNode}]
  /\ thread \in [Thread -> [pc : ThreadPc, key : Key \cup {NoKey},
                            attempt : 0 .. RetryAttempts, node : Node \cup {NoNode},
                            pool : Pool \cup {NoPool}, conn : Conn \cup {NoConn}]]
  /\ admin \in [pc : {"new", "rest", "addPool", "closePool", "drain", "shut"},
                op : {"none", "add", "remove", "close"}, node : Node \cup {NoNode}]
  /\ changes \in 0 .. MaxChanges /\ faults \in 0 .. MaxFaults

\* Where a connection is: places of pools, and goroutines.
Places(c) == {x \in Pool \X (1 .. MaxConnsPerNode) :
                /\ x[2] \in DOMAIN pool[x[1]].connections
                /\ pool[x[1]].connections[x[2]] = c}

Holders(c) == {t \in Thread : thread[t].conn = c}

\* A connection is in one place: two goroutines never write commands to, or read
\* responses from, the same connection, which would pair them up wrongly.
ConnExclusive == \A c \in Conn : Cardinality(Places(c)) + Cardinality(Holders(c)) <= 1

\* Whatever is pooled or in use is open: no goroutine is handed a connection
\* that another one has closed, and the error branches of SetWriteDeadline and
\* SetReadDeadline (client.go:316-320, 329-333) are never due to that.
HandedOutOpen ==
  \A c \in Conn : Places(c) # {} \/ (Holders(c) # {} /\ Running) => addr[c] # NoNode

\* Goroutines that count in p.created: dialling for p, or using a connection of it.
Users(p) == {t \in Thread : thread[t].pool = p /\
               thread[t].pc \in {"dial", "exchange", "return", "returnLookup", "put"}}

\* A pool holds and hands out no more connections than it counts, and counts no
\* more than its limit.
AllCounted ==
  \A p \in Pool : /\ pool[p].created <= MaxConnsPerNode
                  /\ Len(pool[p].connections) + Cardinality(Users(p)) <= pool[p].created

\* As long as the administrator has changed nothing, every pool keeps its limit,
\* whatever races and fails (client.go:94, 98: "limits the number of concurrent
\* connections").  After a change a connection may enter the pool of another node,
\* which does not count it (see PoolOfOneNode).
PoolBound == changes = 0 => AllCounted

\* A pool's connections lead to its node (client.go:93).
PoolOfOneNode ==
  \A p \in Pool : \A i \in DOMAIN pool[p].connections :
    addr[pool[p].connections[i]] = pool[p].address

\* No goroutine dereferences a nil connection or sends on a closed channel
\* (client.go:222: "can be called while the client is in use").
NoPanic == Running

\* A pool at capacity has a connection that a waiting Get can hope for
\* (client.go:1073: "If the pool is full and at capacity, it waits for an
\* available connection").
CapacityIsUsed ==
  \A p \in Pool : pool[p].created = MaxConnsPerNode =>
    pool[p].connections # <<>> \/ Users(p) # {}

\* Every command returns, with a response or an error, however its attempts go.
EveryCommandReturns ==
  \A t \in Thread : thread[t].pc # "idle" ~> thread[t].pc = "idle" \/ ~ Running
===============================================================================
