# CacheMir in TLA+

Specifications, model-checking configurations and machine-checked proofs for
CacheMir, a distributed in-memory cache in Go: servers that keep a key-value
map, and clients that spread keys over the servers with a consistent hash ring.

## The system

| Part | Source | State | Operations |
|---|---|---|---|
| Consistent hash ring | `pkg/hash/consistent.go` | map position -> node, sorted slice of positions, set of nodes, one `RWMutex` | AddNode, RemoveNode, GetNode, GetNodes, Stats |
| Cache engine | `pkg/cache/cache.go` | map key -> value with type and deadline, one `RWMutex` | 24 operations on strings, hashes, lists, sets and deadlines; a cleanup goroutine |
| Client, connection pools | `pkg/client/client.go` | the ring; map node -> pool under `c.mu`; per pool a channel of connections and the counter `created` under `cp.mu` | executeCommand with retries, getConnection, returnConnection, pool.Get / Put / Close, AddNode, RemoveNode, Close |
| Client commands | `pkg/client/client.go` | none | Get, Set, ... : build a command, read the type of the response |
| Wire protocol | `pkg/protocol/protocol.go` | none | (de)serialisation of commands and responses, framing, text parser |
| TCP server | `internal/server/server.go` | listener, cache, a goroutine per connection | Start, Stop, handleConnection, a handler per command |
| Configuration | `pkg/config/config.go` | none | load from flags, environment, defaults; validate |
| Server process | `cmd/server/main.go` | the channel of signals; a goroutine for Start | load, validate, start, wait for a signal, Stop, return |
| Examples, documentation | `cmd/client-example/`, `examples/`, `doc.go`, `pkg/doc.go` | none | sample callers and prose |

How they interact.  A caller's goroutine calls a method of `Client`, which asks
the ring for the key's node, takes a connection from that node's pool (or dials
one), writes the command, reads the response, and returns the connection to the
pool of the node the ring names *then*.  On the server each connection has a
goroutine that reads a command, runs one method of the cache under the cache's
lock, and writes the response.  The cleanup goroutine takes the same lock.

What is hard about it:

* **Ring**: two nodes may hash to one position.  The map then has one entry and
  the slice two, and `GetNode` indexes slice and map without a check.
* **Cache**: expired entries stay in the map until the cleanup runs, and every
  method has to see through them.  Values are edited in place through type
  assertions, over any sequence of calls of any type.
* **Client**: the ring, the pool map, the channel and the counter are read one
  after the other under different locks, while other goroutines return
  connections and an administrator adds and removes nodes.  Failures at every
  point of an exchange must dispose of the connection once, and of its slot.
* **Client and server together**: a command that timed out may still be
  executed, and is sent again.  The wire has no request identifiers.
* **Wire**: durations become whole seconds, frames may be written up to 4 GiB and
  are read up to 1 MiB, so a command may be refused after it was sent, and a
  response after its command took effect.
* **Process**: main and Start share `s.listener` without a lock, a signal may
  come before there is a listener, and Start never returns once it listens.
  Settings have three sources, two of which may be malformed.

`PROJECT.json` lists these hazards at their lines ("hazards").

## Modules

| Module | What it is |
|---|---|
| `KeyAssignment` | abstract: what consistent hashing promises. Keys belong to active nodes; Join takes keys only for the joining node, Leave gives up only the leaving node's |
| `HashRing` | `consistent.go`: one action per mutating method, one operator per reading method |
| `CacheValue` | what each cache operation does to the value it finds: pure operators |
| `Store` | abstract: what the cache promises. A key vanishes the moment its deadline has passed, and no answer tells when its entry was removed, but for what Del says of it |
| `Cache` | `cache.go`: the map with expired entries in it, one action per exported method, the cleanup, time |
| `ClientPool` | `client.go`: goroutines running executeCommand step by step, an administrator, the pools; uses `HashRing` for `c.ring` |
| `Protocol` | `protocol.go`: what the wire does to commands and responses, the sizes of frames, the text parser: pure operators |
| `Session` | one call through the layers: client method or text command, wire, handler, cache and back; composed with `Protocol` and `Cache` |
| `AtLeastOnce` | abstract: what a caller of a retried command may rely on. No connections, no messages |
| `Rpc` | client attempts against server goroutines over connections: timeouts, retries, late executions, Stop; implements `AtLeastOnce` |
| `Config` | `config.go`: defaults, flags, environment, validation: pure operators |
| `Startup` | `main.go` with `Start` and `Stop`, and `New` / `NewWithConfig` of the client: from settings to a running process and to its end; uses `Config` |
| `HashRingProofs`, `CacheProofs`, `ClientPoolProofs`, `RpcProofs`, `SessionProofs`, `StartupProofs` | theorems about the module each one names; `SessionProofs` has those about `Protocol` too |
| `MembershipProofs` | theorems about `ClientPool` when the membership is fixed, and when nodes only join |
| `Sums` | lemmas about the sum of a function, which the ring's statistics and the sizes of frames are |
| `MCHashRing`, `MCCache`, `MCClientPool`, `MCSession`, `MCRpc`, `MCStartup` | instances for TLC |

An operator whose comment starts with "Wrong:" is a plausible mistake in the
definition below it.  Nothing uses these operators; substituted for the right
definition, each breaks one property of a run ("mutants" in `PROJECT.json`).

### HashRing

State: `ring` (`NoNode` where the map has no entry), `nodes`, and
`sortedHashes`, a *bag* of positions: the slice is always sorted, so how often a
position occurs says all there is to say of it.  `vhash` gives the position of
every virtual node, is chosen in `Init` from `Placements` and never changes: it
stands for SHA-256 cut to 32 bits, and one run covers every placement.  A key is
its hash.  All methods hold `c.mu`, so each is one step.  `search` is the least
position at or after the hash, or the least of all.

`AddNode` overwrites occupied positions and appends duplicates, `RemoveNode`
deletes positions whoever owns them, then filters the slice by the map, as the
code does.  An active node may thereby lose a position it shares, even its only one;
`OwnPositionsKept` says what it does not lose.

### Cache

Every exported method holds `c.mu` for its whole body, and is one action:
`Find` (absent or expired), an operator of `CacheValue`, the write-back.  Data
of a value has one field per type, so that a type assertion that could fail is a
state `PayloadMatchesType` excludes.  A text is an int64 or a word `ParseInt`
refuses; int64 has the width of `MaxInt` and `IncrBy` wraps.  `clock` is
`time.Now()`; durations may be zero or negative.  `last` records the last call
and its result: it is what callers see.

What is left of an expired value until the cleanup comes is visible in one answer
only: `Del` of such a key says true.  `Store` keeps account of it in `vanished`, the
keys whose value expired and whose entry may still be there, and lets `Del` say true
of a key only if it has a value or is among them: a key that was never written, that
was deleted, or whose entry was collected is reported as missing.  The order in which
LPUSH puts its arguments at the head is open in `Store` too, since code and
documentation disagree on both (`cache_del`, `cache_lpush`).

Left out: `Stats`.  Two readings of the clock within one method are one: `TTL`
alone reads it twice, and answers -2 in the gap, as at the later reading.

### ClientPool

A goroutine is a program counter with the locals of `executeCommand`,
`getConnection`, `pool.Get`, `returnConnection` and `pool.Put`.  A step is one
access to shared state: a call of the ring (which has its own lock), a read of
`c.pools` under `c.mu`, a channel operation, the test of `created` under
`cp.mu`, a dial, an exchange.  Channel semantics are Go's: a receive from a
closed channel yields what is left and then nil, a send on it panics, and a
panic ends the process.  The administrator holds `c.mu` from its first step to
its last, while goroutines still use the ring and the channels.  `NewWithConfig`
is the sequence of its loop's steps.

A connection is known by the address it was dialled to.  Content is left out: an
exchange succeeds, or fails and closes the connection.  `SetWriteDeadline` and
`SetReadDeadline` fail only on a closed (or nil) connection; `HandedOutOpen`
shows that a goroutine never has a closed one, and a nil one panics before.
Identifiers are reused: `Pool` bounds the pools ever created, `Conn` the
connections open at a time; an assumption makes both large enough.

### Protocol and Session

A frame is the record it was made of: `Serialize` writes type, strings and
numbers one after the other and `Deserialize` reads them back, so what is left
to model is what the wire *changes*.  `SerializeTTL` cuts the TTL to whole
seconds; `uint64` of a negative float is left to the processor by Go, both
outcomes are modelled.  The division is exact in the model; in the code the float64
`TTL.Seconds()` may round up a TTL of more than 2^24 s that is a nanosecond short of a
whole second.  `deserializeTTL` multiplies back, and the product wraps
at the width of a `Duration` (`MaxDuration`).  `CommandLen` and `ResponseLen`
give a frame's size in bytes, and the readers refuse what is above `MaxFrame`:
`ReadCommand` and `ReadResponse` then yield `Malformed`, which ends the
connection and, after the retries, the call.  The size of a string is a constant
operator, `Bytes`.  `ParseTextCommand` takes a line as the sequence of its
fields.  Frames that `Serialize` did not make are not modelled, and the writers'
limit of 4 GiB is out of a text's reach here.

`Session` takes the actions of `Cache` as the methods the handlers call:
`Request` sends a command, `ReadCommand` gives what the server reads,
`executeCommand` checks the arguments, runs the cache's action and makes a
response of its result (HGETALL and SMEMBERS in any order, as a range over a Go
map gives it), and `Read` is what the client's method makes of that (accepted
types, nil, error, the map of HGETALL).  Commands come from the client's methods,
from the text parser (`Typed`), or, where the client has no method, from other
senders of the same protocol, also with arguments missing.  Time has `Second`
ticks to the second, so that a TTL can be a fraction of one.

### Rpc

The node's pool is reduced to its channel and counter.  A connection has two
ends: the client's (`none`, `open`, `closed`) and the server's (`backlog` until
Accept, then the program counter of its goroutine, then `gone`), and what is
under way each way.  A client that closes its end may or may not lose what it
sent before; a server end that is gone swallows what is sent to it.  The read
deadlines, 30 s at the server, `ReadTimeout` at the client, pass at any time:
that is how an idle pooled connection goes stale.  Every command is INCR of one
key.  `calls`, `results` and `highest` are history variables, `floor` the value of
`highest` when a call began.  After Stop, `main` returns and ends all goroutines
(`Exit`).  Start's loop after Stop repeats a failing Accept without a state
change; the life of the listener in detail is `Startup`'s.

`AtLeastOnce` is what remains for a caller: a call executes at most
`RetryAttempts + 1` times and never before it began, a call that returned a number
got the number of one of its own executions, one that failed may have executed and
may still.  The refinement maps a call to its number: every step of `Rpc` that
neither begins, executes nor ends a call is a stutter.

### Config and Startup

A setting's source gives `Unset` (an empty variable too), `Malformed` (Atoi
fails) or a value, and `Overlay` replaces the current value by a well-formed one.
`LoadServerConfig` lays flags over the defaults and then the environment over the
flags, as the code does; a malformed flag ends the process in `flag.Parse`.  The
documentation wants the flags to win (config.go:3-6, 68-71), so `RunsOnSettings` does
not say which of two ports counts: the port listened on is one that was given, the
default if none was, and a valid one.

`Startup` runs `main` and the goroutine of `Start` side by side, one step per
statement that touches what they share.  `port` is the listener in the kernel,
`field` whether `s.listener` has been assigned; `Stop` reads that field without
synchronisation, so it may find nil even after the assignment.  A signal before
`signal.Notify` ends the process by default, one after it waits in the channel.
Start's loop logs a failing Accept and goes on for ever: only the end of `main`
ends it.  On the other side, an application builds a client from its environment
(`New`, `NewWithConfig`), which panics when `Validate` refuses the result.

## Runs

Three nodes / two goroutines / one key are enough for the interactions below:
collisions involve two nodes, and a third is a bystander; the pool's races are
between two holders of one pool or one holder and the administrator; operations
on different keys share nothing but the lock and the clock (and `StoreSpec` is
proved for every set of keys).

| Run | Instance | Shows |
|---|---|---|
| `ring_any` | 3 nodes x 2 virtual nodes (`VirtualNodes = 0`), all placements on 6 positions, a key at each position | collisions included: slice and map agree (`HashesMatchRing`), entries belong to active nodes (`OwnersActive`), routing is never wrong or lost (`RoutesToActiveNode`) and takes the first entry clockwise, the wrap and the equal position included (`NearestOwner`), no active node loses a position that is its own (`OwnPositionsKept`), statistics (`StatsConsistent`), adding moves keys to the new node only (`AddMovesKeysOnlyToNewNode`). Where no two nodes meet: the ring implements `KeyAssignment` (`AssignmentSpec`) and is determined by the set of nodes, not by history (`RingDeterminedByNodes`) |
| `cache_key` | 1 key, 2 fields, 2-bit integers, lists up to 2, ttl -1, 0, 1, clock up to 2 | type agreement, stable types and deadlines, nothing of an expired value survives, set counts, the cache implements `Store`, expired entries are collected |
| `cache_lpush`, `cache_del` | as `cache_key` | **violated** `LPushReverses`, `DelReportsLiveKeys` |
| `pool_use` | 1 node, 2 goroutines, 1 connection per node, 1 retry, 2 failures of dials or exchanges; one AddNode (of it or another), RemoveNode or Close | a connection is in one place (`ConnExclusive`) and open there (`HandedOutOpen`), pools keep their limit until something changes (`PoolBound`), every command returns, even when failures have used the capacity up (`EveryCommandReturns`) |
| `pool_wedge` | 2 nodes, 1 connection per node, 1 failure, nothing changes | **violated** `CapacityIsUsed` |
| `pool_misplaced` | 1 node, one AddNode, no failures | **violated** `PoolOfOneNode` |
| `pool_removal` | 2 nodes, one RemoveNode, no failures | **violated** `NoPanic` |
| `rpc_incr` | 2 callers making 3 calls, 2 connections, 1 retry | a response answers the command its reader sent (`ReplyToOwnCommand`), what callers see is `AtLeastOnce` (`AtLeastOnceSpec`), numbers grow in real time (`RepliesGrow`), goroutines of closed connections end (`HandlersEnd`) |
| `session_calls` | 1 key, every command, 11 text lines that parse or not, 2 ticks to the second, strings of 1, 2, 5 and 20 bytes against frames of at most 12 | client and server agree on types (`TypedReplies`); what the parser accepts the server serves (`TypedCommandsServed`); a call that fails, by an error, a refused command or a refused response, changes nothing (`ErrorsChangeNothing`); counters hold what their callers are told, which differs from what they held by the amount asked for, modulo the width of int64 (`CountersAddUp`); what was stored is read back, only arrays of several items may be too large (`ReadsMatchStore`); TTLs lose less than a second (`DeadlineRoundedDown`) and TTL's special answers survive the rounding (`TtlReplies`) |
| `startup_life` | flags and environments that set one variable each, to values at and beyond the edges; at most 2 open connections | what runs has valid settings, which were asked for or are defaults, and a client's constructor panics only for a reason (`RunsOnSettings`), a started server listens or is gone (`ServesOrEnds`), a signal ends it whatever it interrupts (`SignalEndsProcess`) |
| `session_subsecond` | as `session_calls` | **violated** `PositiveTtlExpires` |

Bounds: `MaxPosition` (circle), `MaxClock` (time stops; long enough for a
deadline to be set late and pass), `MaxList` (lists stop growing), `MaxInt`
(width of int64: overflow is reached), `MaxChanges` and `MaxFaults` (calls of
the administrator, failures), `MaxCalls` (calls; three, so that a
connection is reused by its caller and by the other one), `MaxFrame` (the readers' 1 MiB: small, so
that one string, or two short ones, exceed it), `MaxDuration` (width of a
`Duration`), `MaxOpen` (connections open at a time, which nothing in the server
limits).  Time, lists, changes,
faults and calls are guards of actions; the rest is a choice of constants.  Symmetry is used for nodes
in `ring_any` only (they are interchangeable, all placements are considered), never in a
run with a liveness property.

Fairness.  `Cache!FairSpec`: the cleanup runs again and again, its ticker lives
as long as the process.  `ClientPool!FairSpec`: a goroutine that can take a step
takes one (dials, reads and writes have deadlines, so an exchange ends one way or
the other, and Get's wait has a timeout), and so does an administrator's call
that has begun.  `Rpc!FairSpec`: callers and server goroutines are scheduled,
reads have deadlines on both sides; which of response and deadline comes first
is open.  `Startup!FairSpec`: `main` and Start's goroutine are scheduled, which Go's
scheduler does; `log.Fatalf` and `return` are steps of theirs.  No fairness is assumed for signals, for callers, for the administrator's
decision to call, or for a particular outcome of a step.

### Disagreements between comments and code

* `pool_wedge`: a failed write or read closes the connection (client.go:322,
  337) but nobody lowers `created`.  After `maxConns` such failures the pool is
  at capacity without a connection, each `Get` waits in vain until its timeout,
  and the node stays unreachable for this client.
* `pool_misplaced`: `returnConnection` asks the ring again (client.go:273); a
  connection to the key's old owner ends in the new owner's pool.
* `pool_removal`: `RemoveNode`, "thread-safe ... while the client is in use",
  closes a channel that goroutines are about to use: `Put` panics, `Get` returns
  a nil connection with a nil error.

* `session_subsecond`: `Serialize` writes whole seconds, so a TTL of 500 ms is 0
  on the wire, and `Set` with TTL 0 stores the key for good.  (`Expire` with the
  same TTL makes the key expire at once.)
* `cache_lpush`: `LPush` prepends its arguments from the last to the first
  (cache.go:650), so `LPush(k, a, b, c)` makes a, b, c; cache.go:615-616 and 621 and
  docs/API.md:168 have the last argument first.
* `cache_del`: `Del` looks at the map without `isExpired` (cache.go:216) and says
  "existed" of a key that Exists and Get no longer find, until the cleanup has run.

`pool_wedge` needs no network failure: the server closes a connection that was
idle for 30 s, the pool keeps it (`Rpc`), and the next exchange over it fails.

More are visible in the modules and have no run: removing a node that
shares a position with another one moves keys of the other (consistent.go:131;
this is why `AssignmentSpec` speaks of placements without collisions); every attempt
of a command asks the ring for its key's owner again, so a node that cannot be reached
is tried until the attempts are used up, where pkg/doc.go:163, client.go:13 and
docs/ARCHITECTURE.md:180 speak of failover to other nodes (no property says either);
INCRBY and DECRBY with a malformed delta add 1, where server.go:317 and
339 say they fail (`CountersAddUp` leaves that amount open); HSET on a key of another type is answered by OK and stores
nothing; after Stop, Start does not return (server.go:135-136), its loop retries
Accept for ever; a call that returned may still be executed later, by an attempt
that timed out; the environment overrides the command line (config.go:169-183),
where config.go:3-6 and 68-71 give the flags the highest priority; `Host`, `MaxConns`, `ReadTimeout`,
`WriteTimeout` and `LogLevel` are loaded and then used by nobody, the server
listens on every address and sets 30 s and 10 s itself; the text command
`SET mykey myvalue 60` of protocol.go:424-428 gets no TTL, a fifth field has to
follow (protocol.go:482-483); a command above 1 MiB costs every attempt of the call a
connection and its slot, as in `pool_wedge`; a key may hold an array too large for
any client to read (protocol.go:547, 585).

## Theorems

TLC checks small instances; the theorems hold for every value of the constants
that satisfies the named assumptions, checked by TLAPS.

| Theorem | Statement |
|---|---|
| `HashRingProofs!RingInvariant`, `RingAlwaysTyped` | `Spec => []RingInv`, `Spec => []TypeOK` |
| `HashRingProofs!HashesAlwaysMatchRing`, `OwnersAlwaysActive`, `RoutesAlwaysActive` | the safety invariants of the ring, collisions included |
| `HashRingProofs!NearestAlwaysFound`, `OwnPositionsAlwaysKept` | GetNode names the owner of the first entry clockwise; an active node keeps its own positions |
| `HashRingProofs!StatsAlwaysConsistent` | what Stats reports of slice and map, exactly where no two virtual nodes meet |
| `HashRingProofs!AddMovesKeys` | the action property of AddNode, collisions included |
| `HashRingProofs!RingDetermined` | without collisions the ring is a function of the node set |
| `HashRingProofs!RingImplementsAssignment` | `Spec => AssignmentSpec`, which binds the ring where no two nodes collide |
| `CacheProofs!CacheAlwaysTyped`, `PayloadAlwaysMatches` | `Spec => []TypeOK`, `Spec => [](TypeOK /\ PayloadMatchesType)` |
| `CacheProofs!TypeAlwaysStable`, `DeadlineAlwaysKept`, `ExpiredNeverReturns`, `SetCountsAlwaysMatch` | the four action properties: types and deadlines of live values, nothing left of an expired one, what SAdd and SRem answer |
| `CacheProofs!CacheImplementsStore` | `Spec => StoreSpec`: values vanish at their deadlines for every answer but Del's, and Del says true of no key but one with a value, expired or not, in the map |
| `ClientPoolProofs!ClientInvariant`, `ClientAlwaysTyped` | `Spec => []Inv`, `Spec => []TypeOK` |
| `ClientPoolProofs!ConnsNeverShared`, `HandedOutAlwaysOpen` | a connection is in one place, and open there, whatever joins, leaves, closes or fails |
| `MembershipProofs!PoolsBounded` | `Spec => []PoolBound`: until something changes, pools keep their limit |
| `MembershipProofs!PoolsBoundedWhileClosing`, `PoolsKeepToTheirNode` | `Changes \subseteq {"close"}`: `AllCounted`, `PoolOfOneNode` |
| `MembershipProofs!JoiningNeverPanics` | `Changes \subseteq {"add"}`: `NoPanic` |
| `RpcProofs!RpcInvariant`, `RpcAlwaysTyped` | `Spec => []Inv`, `Spec => []TypeOK` |
| `RpcProofs!RepliesMatchCommands`, `NumbersGrowForCallers` | a response answers the command of the attempt that reads it; numbers grow in real time |
| `RpcProofs!RpcImplementsAtLeastOnce` | `Spec => AtLeastOnceSpec` |
| `SessionProofs!TtlRoundTrip` | a TTL that is not negative arrives rounded down, by less than a second, neither refused nor wrapped |
| `SessionProofs!NumbersFit` | a response that is a number is never refused by a reader |
| `SessionProofs!SessionsUseTheCache` | every step of a session moves the map as a step of `Cache`, or not at all |
| `SessionProofs!SessionInvariant`, `SessionAlwaysTyped` | `Spec => []SessionInv`, `Spec => []TypeOK` |
| `SessionProofs!RepliesAlwaysTyped`, `TypedCommandsAlwaysServed` | client and server agree on types; what the parser accepts is served |
| `SessionProofs!DeadlinesRoundDown`, `DeadlinesInReach`, `TtlAlwaysTold` | a TTL loses less than a second on its way, no deadline is further away than a `Duration` reaches, and TTL's answers are told apart |
| `SessionProofs!StoredIsReadable` | `Spec => []StoredInv`: whatever the map holds fits into a response, item by item |
| `SessionProofs!CountersAlwaysAddUp` | INCR, DECR, INCRBY and DECRBY answer what they store, and that is what was there and the amount, up to one turn of int64 |
| `SessionProofs!ErrorsNeverChange`, `ReadsAlwaysMatch` | a call that fails has changed no key; GET, HGETALL and SMEMBERS return what the key holds, or an error for an array of several items |
| `StartupProofs!StartupInvariant`, `StartupAlwaysTyped`, `AlwaysRunsOnSettings` | `Spec => []StartupInv`, `Spec => []TypeOK`, `Spec => []RunsOnSettings` |

*Ring.*  `HashesMatchRing` alone is not inductive: that `GetNode` returns an
active node needs `OwnersActive` too, and `RemoveNode` keeps that because an
entry that belongs to the removed node lies at one of its own positions, all of
which are deleted.  `RingInv` is the conjunction with the types.  Lookups rest on
lemmas about `SearchIn`: it returns a member, and dropping positions other than
the one found, or adding positions, changes the answer only to a new one.
`Least` is well defined because the positions are natural numbers
(well-foundedness).  `NearestAlwaysFound` compares positions by which one is
met first, clockwise from the key (`Sooner`), and needs neither slice nor search to say it.  `RingDetermined` and the refinement add that, without
collisions, exactly the positions of active nodes are occupied, by their owners.
`StatsAlwaysConsistent` is about the length of the slice, the sum of a bag.  `OnceInv`
adds that without meeting virtual nodes the slice has no duplicates; the sum is then the
number of positions that occur, and those are in bijection with nodes x virtual nodes.
That a sum exists, that it is at least each member, and when it is a cardinality, `Sums`
proves by a least counterexample among the subsets of a finite set.

*Cache.*  `TypeOK /\ PayloadMatchesType` is inductive.  Each operator of
`CacheValue` has a lemma: given an entry of a legal shape, the outcome is legal,
its type is that of the entry or a new one, its deadline is the entry's.  Since
every action is `Call` of one such operator, the step lemmas are citations.  For
the refinement, `Find` is the mapping: a call maps to the same call of `Store`, an
entry that a method leaves expired in the map is absent before and after, the
cleanup maps to `Collect`, and `Tick` to `Tick`.  The entries that expired and are still
in the map (`Uncollected`) are `Store`'s `vanished`: `Del` finds an entry exactly if the
key has a value or is one of them.

What a key carries after its deadline and the counts of SAdd and SRem are statements
about one step.  `ExpiredLeavesNoTrace` is true because the lemma `Created` bounds what
any operator makes of a missing key by the arguments of the call.  The counts are
cardinalities, so they need that every set in the map is finite: `FiniteInv`, kept by
every operator because a batch is a finite sequence.

*Client.*  `ConnExclusive` speaks of pools and goroutines, `HandedOutOpen` of the
network, and neither is inductive.  `Inv` joins them as `ConnInv`: two places never
hold the same connection, none is both pooled and held, and a connection is open if and
only if it is in one of the places.  The "if" is what a dial needs (a connection that is
dialled is nowhere), the "only if" what the next exchange needs.  Below it lie
`LocalsInv` (what a goroutine's locals mean at each point of executeCommand),
`PoolsInv` (an entry of `c.pools` leads to a pool of its own node), `AdminInv`, and the
ring's `RingInv`, by the theorems of `HashRingProofs`.  `PoolsCounted` says that at most
one pool was created per initial node and call of the administrator, so that with
`ClientPoolAssumption` there always is another one: identifiers of pools do not run
out, and no behaviour is cut off by the model.

*Membership.*  `PoolBound` without its condition, `PoolOfOneNode` and `NoPanic` are
false when nodes may come and go: `pool_misplaced` and `pool_removal` refute two of
them.  The theorems therefore say for how long, or for which calls of the
administrator, they hold; goroutines and failures are arbitrary.  With a
fixed membership `FixedInv` relates a goroutine's node, pool and connection to what the
ring answers *now* (`KeepsToOwner`), which lasts because the ring does.  The bound is
an account per pool: each step adds to connections in the channel and users no more
than to `created` (`Balanced`), and all other goroutines are where they were
(`Confined`).  While nodes only join, a panic would need a closed pool, and only
RemoveNode and Close close one (`OpenInv`).

*Rpc.*  The wire has no identifiers, so that a response is the right one is a matter of
who holds the connection.  `Wire` says that one command at a time is on a
connection: on its way, in its goroutine, or its response on the way back.
`PlacesInv` adds where the connection is: pooled, and then `Quiet`, or used by one
caller, and then what is under way is that caller's present attempt (`Answers`), with
a number above the caller's floor.  A timeout closes the connection, which is why
a late response cannot meet another reader.  `LoadInv` counts: executions of a call,
past ones and those a sent command may still cause, are at most the attempts sent.
With `NumbersInv` this gives each step of `AtLeastOnce`: an execution that is still
outstanding is one below the limit.  `UsedInv` says that a dial finds a free identifier.

*Wire.*  A TTL on the wire is a `Duration` divided by `Second`, so the product that
`deserializeTTL` forms after its check is at most the TTL that was sent, and within
the width of a `Duration`.  A number takes at most ten bytes: `UvarintLen` is the least
length that suffices, which exists by well-foundedness.

*Session.*  `CP == INSTANCE CacheProofs` makes the cache's theorems available, once the
cache inside `Session` is shown to be the same, operation by operation (`SameKeyOps` to
`SameSetOps`).  A request is refused, answered without the cache, or *served*:
`Served` names the record that arrived and the cache's action it runs.
`SessionsUseTheCache` concludes that the cache's theorems hold behind a server.
`SessionInv` gives what each action's result becomes as a response and as a reply: every
command, client and handler side by side.  The TTL properties follow one number from
the caller to the map (`DeadlineWritten`) and back (`TtlIsRead`).  The way back needs
`DeadlineInv`: no live deadline is further away than `MaxDuration`, otherwise the
seconds left would wrap on the wire; and `NumbersFit`, otherwise the answer could be
refused.

That a failing call changes nothing is a matter of sizes: a handler writes first and
answers afterwards, and an answer above 1 MiB is an error for the caller.  `SizesInv` says
of everything in the map that it fits into a response of its own, a field together with
its value.  It is inductive because what is stored came in a command below the same limit
(`CommandSizes`, from the sum of the sizes of its arguments) or is a number.  So every
method, seen from the value it finds, is `Good`: it leaves a value that can be read back,
and the same one unless its answer arrives.  `RunCalls` says which method a command
runs, and `ErrorsChangeNothing` follows by cases.  `ReadsMatchStore` adds that HGetAll's
alternating array is taken apart again whatever the order of the map (`PairsMapBack`: an
enumeration of a finite set is a bijection), and that an array of no item, of one, or of
one pair fits (`ShortArrayFits`).  `CountersAddUp` is arithmetic modulo the width of
int64: a sum is turned back at most once (`WrapTurns`), and so is the negation of
DECRBY's amount, but not both in the same direction (`SumTurns`).

*Start.*  `RunsOnSettings` says nothing of the program counters; `StartupInv` adds
that past `Load`, and wherever Start listens or a listener is open, the
configuration is the valid one of these flags and this environment, and that the end
of the process closes the listener.  `ClientOutcome` relates `Validate` to the
variables it may blame.

Assumptions, all of which TLC evaluates in the runs.  `HashRingAssumption`: positions
are natural numbers, and finitely many (a position is a uint32).  `CacheValueAssumption`, `AbsentAssumption`, `CacheAssumption`:
special values differ from ordinary ones, arguments have their types, and 1 is an
int64.  `ClientPoolAssumption`: goroutines, connections and initial nodes
are finitely many, there is one, limits are numbers, identifiers of pools suffice for the
calls of the administrator; `RingAssumption` is the ring's.  `RpcAssumption`: limits are
numbers and there are as many connections as the pool may count.
`ProtocolAssumption`, `FrameAssumption`: a `Duration` fits the ten bytes of a
varint, and a frame has room for a number (1 MiB does).  `SessionAssumption`: a command
has its key and arguments of the types of `CommandRecord` (`WellSorted`: as many
of them as an `int` counts, Go's types allow no others).  `SizeAssumption`: an int64 and the
length of a list are no wider than a `Duration`, a string takes at least the byte of its
length, a number in digits leaves room in a frame, and an error is no response.  `ConfigAssumption`,
`StartupAssumption`: ports and the client's numbers are numbers, unset or malformed, and
the default node has a colon.

Model-checked only:

* liveness: `ExpiredCollected`, `EveryCommandReturns`, `HandlersEnd`, `ServesOrEnds`,
  `SignalEndsProcess`;
* what violates a property: `pool_wedge`, `pool_misplaced`, `pool_removal`,
  `session_subsecond`, `cache_lpush`, `cache_del`.

## The plan

Every part of the system with state or control is modelled, and every safety property
that a passing run checks is a theorem.  Liveness stays with TLC.

## Not modelled

* `Stats` of the cache: a report that changes nothing and that no other code
  reads.
* `ServerConfig.Address`: nothing calls it.
* Frames that `Serialize` did not make: a peer that speaks another protocol.  The
  readers' checks for truncated data therefore never fire in `Session`.
* The choice of a node for `Ping` (it routes the empty key like any other).
* The width of `int` in Atoi: a number that does not fit counts as `Malformed`.
* `cmd/client-example`, `examples`, `doc.go`, `pkg/doc.go`, logging, CI: samples
  and prose without behaviour of their own.
