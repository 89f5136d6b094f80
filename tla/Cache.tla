--------------------------------- MODULE Cache ---------------------------------
(***************************************************************************)
(* pkg/cache/cache.go: the key-value map of one server.  Every exported    *)
(* method holds c.mu for its whole body, read or write, so each is one     *)
(* action, run by any of the server's goroutines; cleanupExpired runs in a *)
(* goroutine of its own.                                                   *)
(*                                                                         *)
(* clock is time.Now().  A method reads it once here.  TTL reads it twice, *)
(* with the same answer as if both readings were the second.               *)
(***************************************************************************)
EXTENDS CacheValue

CONSTANTS Key,
          Input,     \* texts the callers write
          Delta,     \* arguments of IncrBy
          Ttl,       \* durations given to Set and Expire, zero and negative included
          Batch,     \* argument lists of LPush, RPush, SAdd and SRem
          MaxList,   \* bound: no list grows beyond it
          MaxClock   \* bound: time stops there

ASSUME CacheAssumption ==
  /\ Input \subseteq Text
  /\ Delta \subseteq Int64
  /\ Ttl \subseteq Int
  /\ Batch \subseteq Seq(Text)
  /\ MaxList \in Nat
  /\ MaxClock \in Nat

VARIABLES data,   \* the map, expired entries included
          clock,
          last    \* the last call: operation, key, arguments, result

vars == <<data, clock, last>>

-------------------------------------------------------------------------------
(* Looking a key up *)

\* Wrong: the deadline itself counts as passed.
isExpiredAtDeadline(e) == e.exp # NoExpiry /\ clock >= e.exp

isExpired(e) == e.exp # NoExpiry /\ clock > e.exp

\* !exists || c.isExpired(value), the test every method but Del starts with.
Find(k) == IF data[k] = Absent \/ isExpired(data[k]) THEN Absent ELSE data[k]

\* A method stores what it changed; one that changes nothing leaves even an
\* expired entry where it is.
Call(op, k, args, out) ==
  /\ data' = IF out.value = Find(k) THEN data ELSE [data EXCEPT ![k] = out.value]
  /\ last' = <<op, k, args, out.result>>
  /\ UNCHANGED clock

ListFits(k, values) ==
  Len(values) + (IF Holds(Find(k), "list") THEN Len(Find(k).list) ELSE 0) <= MaxList

-------------------------------------------------------------------------------
Init == /\ data = [k \in Key |-> Absent]
        /\ clock = 0
        /\ last = <<"idle">>

Get(k) == Call("get", k, <<>>, GetOn(Find(k)))

Set(k, val, ttl) ==
  Call("set", k, <<val, ttl>>, SetOn(val, IF ttl > 0 THEN clock + ttl ELSE NoExpiry))

\* Wrong: delete() is all there is, it does not tell whether the key was there.
DelBlindly(k) == /\ data' = [data EXCEPT ![k] = Absent]
                 /\ last' = <<"del", k, <<>>, TRUE>>
                 /\ UNCHANGED clock

\* Del looks at the map only: an expired entry still counts.
Del(k) == /\ data' = [data EXCEPT ![k] = Absent]
          /\ last' = <<"del", k, <<>>, data[k] # Absent>>
          /\ UNCHANGED clock

Exists(k) == Call("exists", k, <<>>, ExistsOn(Find(k)))

\* Incr and Decr are IncrBy with delta 1 and -1.
IncrBy(k, delta) == Call("incrby", k, <<delta>>, IncrByOn(Find(k), delta))

Expire(k, ttl) == Call("expire", k, <<ttl>>, ExpireOn(Find(k), clock + ttl))

TTL(k) == Call("ttl", k, <<>>, TTLOn(Find(k), clock))

\* Wrong: the map is looked at without isExpired, which revives the entry.
PersistAny(k) == Call("persist", k, <<>>, PersistOn(data[k]))

Persist(k) == Call("persist", k, <<>>, PersistOn(Find(k)))

HGet(k, f) == Call("hget", k, <<f>>, HGetOn(Find(k), f))

HSet(k, f, val) == Call("hset", k, <<f, val>>, HSetOn(Find(k), f, val))

HDel(k, f) == Call("hdel", k, <<f>>, HDelOn(Find(k), f))

HExists(k, f) == Call("hexists", k, <<f>>, HExistsOn(Find(k), f))

HGetAll(k) == Call("hgetall", k, <<>>, HGetAllOn(Find(k)))

LPush(k, values) == /\ ListFits(k, values)
                    /\ Call("lpush", k, <<values>>, LPushOn(Find(k), values))

RPush(k, values) == /\ ListFits(k, values)
                    /\ Call("rpush", k, <<values>>, RPushOn(Find(k), values))

LPop(k) == Call("lpop", k, <<>>, LPopOn(Find(k)))

RPop(k) == Call("rpop", k, <<>>, RPopOn(Find(k)))

LLen(k) == Call("llen", k, <<>>, LLenOn(Find(k)))

SAdd(k, members) == Call("sadd", k, <<members>>, SAddOn(Find(k), members))

SRem(k, members) == Call("srem", k, <<members>>, SRemOn(Find(k), members))

SMembers(k) == Call("smembers", k, <<>>, SMembersOn(Find(k)))

SIsMember(k, m) == Call("sismember", k, <<m>>, SIsMemberOn(Find(k), m))

\* Wrong: a round spares what expired at the last instant.
cleanupExpiredLate ==
  /\ data' = [k \in Key |-> IF data[k] # Absent /\ isExpired(data[k]) /\ clock > data[k].exp + 1
                            THEN Absent ELSE data[k]]
  /\ last' = <<"idle">>
  /\ UNCHANGED clock

\* One round of the cleanup goroutine, under the write lock.
cleanupExpired ==
  /\ data' = [k \in Key |-> IF data[k] # Absent /\ isExpired(data[k])
                            THEN Absent ELSE data[k]]
  /\ last' = <<"idle">>
  /\ UNCHANGED clock

Tick == /\ clock < MaxClock
        /\ clock' = clock + 1
        /\ last' = <<"idle">>
        /\ UNCHANGED data

KeyOp(k) == \/ Get(k) \/ Del(k) \/ Exists(k) \/ TTL(k) \/ Persist(k)
            \/ \E v \in Input, ttl \in Ttl : Set(k, v, ttl)
            \/ \E d \in Delta : IncrBy(k, d)
            \/ \E ttl \in Ttl : Expire(k, ttl)

HashOp(k) == \/ \E f \in Field : \/ \E v \in Input : HSet(k, f, v)
                                 \/ HGet(k, f) \/ HDel(k, f) \/ HExists(k, f)
             \/ HGetAll(k)

ListOp(k) == \/ \E b \in Batch : LPush(k, b) \/ RPush(k, b)
             \/ LPop(k) \/ RPop(k) \/ LLen(k)

SetOp(k) == \/ \E b \in Batch : SAdd(k, b) \/ SRem(k, b)
            \/ \E m \in Input : SIsMember(k, m)
            \/ SMembers(k)

Next == \/ \E k \in Key : KeyOp(k) \/ HashOp(k) \/ ListOp(k) \/ SetOp(k)
        \/ cleanupExpired
        \/ Tick

Spec == Init /\ [][Next]_vars

\* The cleanup ticker fires every minute for as long as the process runs, and
\* the mutex does not starve it.
FairSpec == Spec /\ WF_vars(cleanupExpired)

-------------------------------------------------------------------------------
(* What the cache keeps *)

\* The type of the cache's state.
TypeOK == /\ data \in [Key -> Value \cup {Absent}]
          /\ clock \in 0 .. MaxClock

PayloadMatches(e) ==
  /\ e.type = "string" <=> e.str # NoText
  /\ e.type # "hash" => \A f \in Field : e.hash[f] = NoText
  /\ e.type # "list" => e.list = <<>>
  /\ e.type # "set"  => e.set = {}

\* Data always has the Go type that Type announces: none of the "if !ok"
\* branches behind a type assertion (cache.go:333, 471, 507, ...) can be taken.
PayloadMatchesType ==
  \A k \in Key : data[k] # Absent => PayloadMatches(data[k])

\* The call a step answers, if it answers one.
Answers(ops, k) == last'[1] \in ops /\ last'[2] = k

\* A live value changes its type only when Set overwrites it: the operations of
\* the other types refuse it (cache.go:503, 642, 684, 831).
TypeStable ==
  [][\A k \in Key : Find(k) # Absent /\ Find(k)' # Absent =>
       Find(k)'.type = Find(k).type \/ Answers({"set"}, k)]_vars

\* A live value keeps its deadline, whatever is done to its contents, until
\* Set, Expire or Persist is called for it (cache.go:342-343, 372, 440).
DeadlineKept ==
  [][\A k \in Key : Find(k) # Absent /\ Find(k)' # Absent =>
       Find(k)'.exp = Find(k).exp \/ Answers({"set", "expire", "persist"}, k)]_vars

\* A key that expired, collected or not, comes back only by a call that creates
\* it, empty but for what that call writes, and without a TTL unless Set gives
\* it one (cache.go:320-327, 497-505, 636-644, 678-686, 825-833).  The order of
\* the arguments of LPush is the subject of LPushReverses.
ExpiredLeavesNoTrace ==
  [][\A k \in Key : Find(k) = Absent /\ Find(k)' # Absent =>
       /\ Answers({"set", "incrby", "hset", "lpush", "rpush", "sadd"}, k)
       /\ last'[1] # "set" => Find(k)'.exp = NoExpiry
       /\ Cardinality({f \in Field : Find(k)'.hash[f] # NoText}) <= 1
       /\ Answers({"lpush"}, k) => Find(k)'.list \in {last'[3][1], Reversed(last'[3][1])}
       /\ Answers({"rpush"}, k) => Find(k)'.list = last'[3][1]
       /\ Answers({"sadd"}, k) => Find(k)'.set = Range(last'[3][1])]_vars

MembersOf(e) == IF e = Absent THEN {} ELSE e.set

\* SAdd and SRem report by how much the set grew or shrank, however often a
\* member is repeated (cache.go:806-807, 818-819).
SetCountsMatch ==
  [][\A k \in Key :
       /\ Answers({"sadd"}, k) =>
            last'[4] = Cardinality(MembersOf(Find(k)')) - Cardinality(MembersOf(Find(k)))
       /\ Answers({"srem"}, k) =>
            last'[4] = Cardinality(MembersOf(Find(k))) - Cardinality(MembersOf(Find(k)'))]_vars

\* Every expired entry is eventually collected, or replaced by a new value: an
\* entry nobody asks for does not stay in memory forever (cache.go:35, 107-121).
ExpiredCollected ==
  \A k \in Key : (data[k] # Absent /\ Find(k) = Absent)
                   ~> (data[k] = Absent \/ Find(k) # Absent)

\* The keys of expired entries that nobody removed yet.
Uncollected == {k \in Key : data[k] # Absent /\ Find(k) = Absent}

\* What callers see of the map.
Seen == INSTANCE Store WITH store <- [k \in Key |-> Find(k)], vanished <- Uncollected

\* Callers see values vanish at their deadlines, however late the lazy deletion
\* and the cleanup goroutine remove them; only Del may tell the difference, and
\* only for a key whose value expired (cache.go:107-127, 216, 224).
StoreSpec == Seen!Spec

\* As documented, LPush puts the last of its arguments first (cache.go:615-616,
\* 621, docs/API.md:168).
LPushReverses ==
  [][\A k \in Key : Answers({"lpush"}, k) /\ (Find(k) = Absent \/ Find(k).type = "list") =>
       Find(k)'.list = Reversed(last'[3][1])
                         \o (IF Find(k) = Absent THEN <<>> ELSE Find(k).list)]_vars

\* As documented, Del returns true if the key existed, in the sense of Exists
\* (cache.go:198, docs/API.md:60).
DelReportsLiveKeys ==
  [][\A k \in Key : Answers({"del"}, k) => last'[4] = (Find(k) # Absent)]_vars
===============================================================================
