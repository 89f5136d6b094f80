----------------------------- MODULE SessionProofs -----------------------------
(***************************************************************************)
(* What a call through all layers does, for every set of commands, text    *)
(* lines and keys.  The cache's part comes from CacheProofs: a request     *)
(* that reaches the cache is a step of its specification.                  *)
(***************************************************************************)
EXTENDS Session, Sums

-------------------------------------------------------------------------------
(* TTLs on the wire *)

LEMMA DivMod ==
  ASSUME NEW a \in Nat, NEW b \in Nat \ {0}
  PROVE  /\ a \div b \in Nat
         /\ (a \div b) * b <= a /\ a < (a \div b) * b + b
         /\ a < b => a % b = a
OBVIOUS

LEMMA TimesAtLeast ==
  ASSUME NEW n \in Nat, NEW b \in Nat \ {0}
  PROVE  n <= n * b
OBVIOUS

\* A product within the width of a Duration is not changed.
LEMMA NoWrap ==
  ASSUME NEW x \in 0 .. MaxDuration
  PROVE  WrapDuration(x) = x
<1> DEFINE m == MaxDuration + 1
           y == x + MaxDuration + 1
<1>1. y \in Nat /\ 2 * m \in Nat \ {0} /\ y < 2 * m
  BY ProtocolAssumption
<1>2. y % (2 * m) = y
  BY <1>1, DivMod
<1>3. y - m = x
  BY ProtocolAssumption
<1>4. QED
  BY <1>2, <1>3 DEF WrapDuration

\* A TTL that is not negative arrives rounded down, by less than a second, and is
\* neither refused nor wrapped around, although deserializeTTL multiplies after its
\* check (protocol.go:279-282): what Serialize wrote is a Duration divided by a second.
THEOREM TtlRoundTrip ==
  ASSUME NEW ttl \in 0 .. MaxDuration, NEW n \in SerializeTTL(ttl)
  PROVE  /\ deserializeTTL(n) \in 0 .. MaxDuration
         /\ deserializeTTL(n) <= ttl /\ ttl < deserializeTTL(n) + Second
<1>1. ttl \in Nat /\ Second \in Nat \ {0} /\ MaxDuration \in Nat
  BY ProtocolAssumption
<1>2. n = ttl \div Second
  BY <1>1 DEF SerializeTTL
<1>3. n \in Nat /\ n * Second <= ttl /\ ttl < n * Second + Second
  BY <1>1, <1>2, DivMod
<1>4. n <= MaxDuration /\ n * Second \in 0 .. MaxDuration
  <2>1. n <= n * Second /\ n * Second \in Nat
    BY <1>1, <1>3, TimesAtLeast
  <2>2. QED
    BY <2>1, <1>3, <1>1
<1>5. deserializeTTL(n) = n * Second
  BY <1>1, <1>3, <1>4, NoWrap DEF deserializeTTL
<1>6. QED
  BY <1>3, <1>4, <1>5

-------------------------------------------------------------------------------
(* Numbers on the wire *)

LEMMA UvarintLenInRange ==
  ASSUME NEW n \in Nat, NEW b \in 1 .. 10, n < 128 ^ b
  PROVE  UvarintLen(n) \in 1 .. 10
<1> DEFINE S == {a \in 1 .. 10 : n < 128 ^ a}
<1>1. S \in SUBSET Nat /\ S # {}
  OBVIOUS
<1> HIDE DEF S
<1>2. PICK x \in S : \A y \in S : ~ (<<y, x>> \in OpToRel(<, Nat))
  BY <1>1, NatLessThanWellFounded, WFMin
<1>3. \A a \in 1 .. x - 1 : n >= 128 ^ a
  <2> SUFFICES ASSUME NEW a \in 1 .. x - 1 PROVE n >= 128 ^ a
    OBVIOUS
  <2>1. a \in 1 .. 10 /\ a < x /\ a \in Nat /\ x \in Nat
    BY DEF S
  <2>2. a \notin S
    BY <1>2, <2>1 DEF OpToRel
  <2>3. 128 ^ a \in Int
    BY <2>1
  <2>4. QED
    BY <2>1, <2>2, <2>3 DEF S
<1>4. x \in 1 .. 10 /\ n < 128 ^ x
  BY DEF S
<1>5. QED
  BY <1>3, <1>4 DEF UvarintLen

\* A response that is a number as wide as a Duration can be read: no TTL is refused
\* by the readers' limit (protocol.go:585).
THEOREM NumbersFit ==
  ASSUME NEW n \in Duration
  PROVE  /\ ReadResponse(Response("int", n)) = Response("int", n)
         /\ Response("int", n) # Malformed
<1> DEFINE u == IF n >= 0 THEN 2 * n ELSE -2 * n - 1
<1>1. PICK b \in 1 .. 10 : 2 * (MaxDuration + 1) <= 128 ^ b
  BY FrameAssumption
<1>2. MaxDuration \in Nat /\ n \in Int /\ 128 ^ b \in Int
  BY ProtocolAssumption, <1>1 DEF Duration
<1>3. u \in Nat /\ u < 2 * (MaxDuration + 1)
  BY <1>2 DEF Duration
<1> HIDE DEF u
<1>4. u < 128 ^ b
  BY <1>1, <1>2, <1>3
<1>5. UvarintLen(u) \in 1 .. 10
  BY <1>3, <1>4, UvarintLenInRange
<1> DEFINE r == Response("int", n)
<1>6. r.type = "int" /\ r.data = n /\ r \in [type : {"int"}, data : Int]
  BY <1>2 DEF Response
<1>7. ResponseLen(r) = 1 + UvarintLen(u)
  BY <1>6 DEF ResponseLen, VarintLen, u
<1> HIDE DEF r
<1>8. ~ (ResponseLen(r) > MaxFrame)
  BY <1>5, <1>7, FrameAssumption, ProtocolAssumption
<1>9. ReadResponse(r) = r
  BY <1>6, <1>8 DEF ReadResponse, DeserializeResponse
<1>10. QED
  BY <1>6, <1>9, FrameAssumption DEF r

-------------------------------------------------------------------------------
CP == INSTANCE CacheProofs
        WITH Input <- Text, Delta <- Int64, Ttl <- Int, Batch <- Seq(Text)

-------------------------------------------------------------------------------
(* The cache of Session is the one of CacheProofs *)

LEMMA SameTypes == /\ CP!Value = Value /\ C!Value = Value
                   /\ CP!Text = Text /\ C!Text = Text
                   /\ CP!Int64 = Int64 /\ C!Int64 = Int64
BY DEF CP!Value, C!Value, Value, CP!ValueType, C!ValueType, ValueType,
       CP!Text, C!Text, Text, CP!Int64, C!Int64, Int64

LEMMA SameFind == \A k : C!Find(k) = CP!Find(k) /\ C!Find(k)' = CP!Find(k)'
BY DEF C!Find, CP!Find, C!isExpired, CP!isExpired

LEMMA SameKeyOps ==
  \A k : /\ C!Get(k) <=> CP!Get(k)
         /\ \A v, ttl : C!Set(k, v, ttl) <=> CP!Set(k, v, ttl)
         /\ C!Del(k) <=> CP!Del(k)
         /\ C!Exists(k) <=> CP!Exists(k)
         /\ \A d : C!IncrBy(k, d) <=> CP!IncrBy(k, d)
         /\ \A ttl : C!Expire(k, ttl) <=> CP!Expire(k, ttl)
         /\ C!TTL(k) <=> CP!TTL(k)
         /\ C!Persist(k) <=> CP!Persist(k)
<1> USE DEF C!Call, CP!Call, C!Find, CP!Find, C!isExpired, CP!isExpired, C!Outcome, CP!Outcome,
            C!Holds, CP!Holds, C!New, CP!New
<1>1. \A k : C!Get(k) <=> CP!Get(k)
  BY DEF C!Get, CP!Get, C!GetOn, CP!GetOn
<1>2. \A k, v, ttl : C!Set(k, v, ttl) <=> CP!Set(k, v, ttl)
  BY DEF C!Set, CP!Set, C!SetOn, CP!SetOn
<1>3. \A k : C!Del(k) <=> CP!Del(k)
  BY DEF C!Del, CP!Del
<1>4. \A k : C!Exists(k) <=> CP!Exists(k)
  BY DEF C!Exists, CP!Exists, C!ExistsOn, CP!ExistsOn
<1>5. \A k, d : C!IncrBy(k, d) <=> CP!IncrBy(k, d)
  BY DEF C!IncrBy, CP!IncrBy, C!IncrByOn, CP!IncrByOn, C!Int64, CP!Int64, C!Wrap, CP!Wrap
<1>6. \A k, ttl : C!Expire(k, ttl) <=> CP!Expire(k, ttl)
  BY DEF C!Expire, CP!Expire, C!ExpireOn, CP!ExpireOn
<1>7. \A k : C!TTL(k) <=> CP!TTL(k)
  BY DEF C!TTL, CP!TTL, C!TTLOn, CP!TTLOn
<1>8. \A k : C!Persist(k) <=> CP!Persist(k)
  BY DEF C!Persist, CP!Persist, C!PersistOn, CP!PersistOn
<1>9. QED
  BY <1>1, <1>2, <1>3, <1>4, <1>5, <1>6, <1>7, <1>8

LEMMA SameHashOps ==
  \A k : /\ \A f : C!HGet(k, f) <=> CP!HGet(k, f)
         /\ \A f, v : C!HSet(k, f, v) <=> CP!HSet(k, f, v)
         /\ \A f : C!HDel(k, f) <=> CP!HDel(k, f)
         /\ \A f : C!HExists(k, f) <=> CP!HExists(k, f)
         /\ C!HGetAll(k) <=> CP!HGetAll(k)
<1> USE DEF C!Call, CP!Call, C!Find, CP!Find, C!isExpired, CP!isExpired, C!Outcome, CP!Outcome,
            C!Holds, CP!Holds, C!Ensure, CP!Ensure, C!New, CP!New
<1>1. \A k, f : C!HGet(k, f) <=> CP!HGet(k, f)
  BY DEF C!HGet, CP!HGet, C!HGetOn, CP!HGetOn
<1>2. \A k, f, v : C!HSet(k, f, v) <=> CP!HSet(k, f, v)
  BY DEF C!HSet, CP!HSet, C!HSetOn, CP!HSetOn
<1>3. \A k, f : C!HDel(k, f) <=> CP!HDel(k, f)
  BY DEF C!HDel, CP!HDel, C!HDelOn, CP!HDelOn
<1>4. \A k, f : C!HExists(k, f) <=> CP!HExists(k, f)
  BY DEF C!HExists, CP!HExists, C!HExistsOn, CP!HExistsOn
<1>5. \A k : C!HGetAll(k) <=> CP!HGetAll(k)
  BY DEF C!HGetAll, CP!HGetAll, C!HGetAllOn, CP!HGetAllOn
<1>6. QED
  BY <1>1, <1>2, <1>3, <1>4, <1>5

LEMMA SameListOps ==
  \A k : /\ \A vs : C!LPush(k, vs) <=> CP!LPush(k, vs)
         /\ \A vs : C!RPush(k, vs) <=> CP!RPush(k, vs)
         /\ C!LPop(k) <=> CP!LPop(k)
         /\ C!RPop(k) <=> CP!RPop(k)
         /\ C!LLen(k) <=> CP!LLen(k)
<1> USE DEF C!Call, CP!Call, C!Find, CP!Find, C!isExpired, CP!isExpired, C!Outcome, CP!Outcome,
            C!Holds, CP!Holds, C!Ensure, CP!Ensure, C!New, CP!New, C!ListFits, CP!ListFits
<1>1. \A k, vs : C!LPush(k, vs) <=> CP!LPush(k, vs)
  BY DEF C!LPush, CP!LPush, C!LPushOn, CP!LPushOn
<1>2. \A k, vs : C!RPush(k, vs) <=> CP!RPush(k, vs)
  BY DEF C!RPush, CP!RPush, C!RPushOn, CP!RPushOn
<1>3. \A k : C!LPop(k) <=> CP!LPop(k)
  BY DEF C!LPop, CP!LPop, C!LPopOn, CP!LPopOn
<1>4. \A k : C!RPop(k) <=> CP!RPop(k)
  BY DEF C!RPop, CP!RPop, C!RPopOn, CP!RPopOn
<1>5. \A k : C!LLen(k) <=> CP!LLen(k)
  BY DEF C!LLen, CP!LLen, C!LLenOn, CP!LLenOn
<1>6. QED
  BY <1>1, <1>2, <1>3, <1>4, <1>5

LEMMA SameSetOps ==
  \A k : /\ \A ms : C!SAdd(k, ms) <=> CP!SAdd(k, ms)
         /\ \A ms : C!SRem(k, ms) <=> CP!SRem(k, ms)
         /\ C!SMembers(k) <=> CP!SMembers(k)
         /\ \A m : C!SIsMember(k, m) <=> CP!SIsMember(k, m)
<1> USE DEF C!Call, CP!Call, C!Find, CP!Find, C!isExpired, CP!isExpired, C!Outcome, CP!Outcome,
            C!Holds, CP!Holds, C!Ensure, CP!Ensure, C!New, CP!New
<1>1. \A k, ms : C!SAdd(k, ms) <=> CP!SAdd(k, ms)
  BY DEF C!SAdd, CP!SAdd, C!SAddOn, CP!SAddOn, C!Range, CP!Range, C!Cardinality, CP!Cardinality
<1>2. \A k, ms : C!SRem(k, ms) <=> CP!SRem(k, ms)
  BY DEF C!SRem, CP!SRem, C!SRemOn, CP!SRemOn, C!Range, CP!Range, C!Cardinality, CP!Cardinality
<1>3. \A k : C!SMembers(k) <=> CP!SMembers(k)
  BY DEF C!SMembers, CP!SMembers, C!SMembersOn, CP!SMembersOn
<1>4. \A k, m : C!SIsMember(k, m) <=> CP!SIsMember(k, m)
  BY DEF C!SIsMember, CP!SIsMember, C!SIsMemberOn, CP!SIsMemberOn
<1>5. QED
  BY <1>1, <1>2, <1>3, <1>4

LEMMA SameBackground == (C!cleanupExpired <=> CP!cleanupExpired) /\ (C!Tick <=> CP!Tick)
BY DEF C!cleanupExpired, CP!cleanupExpired, C!isExpired, CP!isExpired, C!Tick, CP!Tick

\* What CacheProofs assumes holds of these parameters.
LEMMA Parameters == CP!CacheValueAssumption /\ CP!AbsentAssumption /\ CP!CacheAssumption
BY SessionAssumption, CacheValueAssumption, AbsentAssumption, SameTypes
  DEF CP!CacheValueAssumption, CP!AbsentAssumption, CP!CacheAssumption

LEMMA CacheSteps ==
  /\ CP!CacheInv /\ CP!Next => CP!CacheInv'
  /\ CP!CacheInv => \A k \in Key : CP!WellFormed(CP!Find(k))
<1> USE DEF CP!CacheValueAssumption, CP!AbsentAssumption, CP!CacheAssumption
<1>1. CP!CacheInv /\ CP!Next => CP!CacheInv'
  BY Parameters, CP!StepInv
<1>2. CP!CacheInv => \A k \in Key : CP!WellFormed(CP!Find(k))
  BY Parameters, CP!FindWellFormed
<1>3. QED
  BY <1>1, <1>2

-------------------------------------------------------------------------------
(* What arrives at the server *)

\* r is what the server may read of c.
Arrives(c, r) ==
  /\ r.type = c.type /\ r.key = c.key /\ r.args = c.args
  /\ r.ttl \in Duration
  /\ \E n \in SerializeTTL(c.ttl) : /\ r.ttl = deserializeTTL(n)
                                   /\ ~ (CommandLen(c, n) > MaxFrame)

LEMMA WrapDurationRange ==
  ASSUME NEW n \in Int
  PROVE  WrapDuration(n) \in Duration
<1> DEFINE m == MaxDuration + 1
           y == n + MaxDuration + 1
<1>1. m \in Nat \ {0} /\ y \in Int /\ 2 * m \in Nat \ {0}
  BY ProtocolAssumption
<1>2. y % (2 * m) \in 0 .. (2 * m) - 1
  BY <1>1
<1>3. WrapDuration(n) = (y % (2 * m)) - m
  BY DEF WrapDuration
<1> HIDE DEF m, y
<1>4. (y % (2 * m)) - m \in -m .. m - 1
  BY <1>1, <1>2
<1>5. QED
  BY <1>3, <1>4, ProtocolAssumption DEF m, Duration

LEMMA SecondsOnTheWire ==
  ASSUME NEW ttl \in Int, NEW n \in SerializeTTL(ttl)
  PROVE  n \in Int
<1>1. Second \in Nat \ {0} /\ MaxDuration \in Nat
  BY ProtocolAssumption
<1>2. CASE ttl >= 0
  BY <1>1, <1>2 DEF SerializeTTL
<1>3. CASE ~ (ttl >= 0)
  <2> DEFINE s == (-ttl) \div Second
  <2>1. s \in Int
    BY <1>1, <1>3
  <2>2. n = 0 \/ n = 2 * (MaxDuration + 1) - s
    BY <1>3 DEF SerializeTTL
  <2> HIDE DEF s
  <2>3. QED
    BY <1>1, <2>1, <2>2
<1>4. QED
  BY <1>2, <1>3

LEMMA ReadsWhatWasSent ==
  ASSUME NEW c, WellSorted(c), NEW r \in ReadCommand(c), r # Malformed
  PROVE  Arrives(c, r)
<1>1. PICK n \in SerializeTTL(c.ttl) : r = DeserializeCommand(c, n) /\ ~ (CommandLen(c, n) > MaxFrame)
  BY DEF ReadCommand
<1>2. c \in CommandRecord /\ c.ttl \in Int
  BY ProtocolAssumption DEF WellSorted, CommandRecord, Duration
<1>3. n \in Int
  BY <1>2, SecondsOnTheWire
<1>4. deserializeTTL(n) # Malformed /\ r = [c EXCEPT !.ttl = deserializeTTL(n)]
  BY <1>1 DEF DeserializeCommand
<1>5. deserializeTTL(n) \in Duration
  <2>1. deserializeTTL(n) = WrapDuration(n * Second)
    BY <1>4 DEF deserializeTTL
  <2>2. n * Second \in Int
    BY <1>3, ProtocolAssumption
  <2>3. QED
    BY <2>1, <2>2, WrapDurationRange
<1>6. QED
  BY <1>1, <1>2, <1>4, <1>5 DEF Arrives, CommandRecord

LEMMA CommandIsWellSorted ==
  ASSUME NEW type, NEW key, NEW args \in Seq(Text), Len(args) <= 1,
         NEW ttl \in Duration,
         \/ type = "ping" /\ key = NoKey
         \/ type \in {"set", "get", "del", "exists", "incr", "decr"} /\ key \in Key
  PROVE  /\ WellSorted(Command(type, key, args, ttl))
         /\ Command(type, key, args, ttl).type = type /\ Command(type, key, args, ttl).args = args
<1> DEFINE c == Command(type, key, args, ttl)
<1>1. c = [type |-> type, key |-> key, args |-> args, ttl |-> ttl]
  BY DEF Command
<1>2. args \in Seq(Text \cup Field)
  OBVIOUS
<1>3. type \in CommandType \cup {"unknown"} /\ type \notin OnHash
  BY DEF CommandType, OnHash
<1> HIDE DEF c
<1>4. c \in CommandRecord
  BY <1>1, <1>2, <1>3 DEF CommandRecord
<1>5. c.type = type /\ c.key = key /\ c.args = args
  BY <1>1
<1>6. Len(c.args) <= MaxDuration
  BY <1>5, ProtocolAssumption
<1>7. QED
  BY <1>3, <1>4, <1>5, <1>6 DEF WellSorted, c

\* A line the parser accepts is a command like those of the methods.
LEMMA TypedIsWellSorted ==
  ASSUME NEW c \in Typed
  PROVE  /\ WellSorted(c) /\ Len(c.args) >= MinArgs(c.type)
         /\ c.type \in {"ping", "set", "get", "del", "exists", "incr", "decr"}
<1>1. PICK line \in Lines : c = ParseTextCommand(line) /\ c # Malformed
  BY DEF Typed
<1>2. /\ Len(line) \in Nat
      /\ Len(line) > 1 => line[2] \in Key
      /\ Len(line) > 2 => line[3] \in Text
  BY SessionAssumption
<1>3. PICK zero \in Duration : zero = 0
  BY ProtocolAssumption DEF Duration
<1>4. PICK none \in Seq(Text) : none = <<>>
  <2>1. <<>> \in Seq(Text)
    OBVIOUS
  <2>2. QED
    BY <2>1
<1>5. Len(none) = 0 /\ Len(none) <= 1
  BY <1>4
<1>6. CASE line[1] = "ping"
  <2>1. c = Command("ping", NoKey, none, zero)
    BY <1>1, <1>3, <1>4, <1>6 DEF ParseTextCommand
  <2>2. WellSorted(c) /\ c.type = "ping" /\ c.args = none
    <3>1. \/ "ping" = "ping" /\ NoKey = NoKey
          \/ "ping" \in {"set", "get", "del", "exists", "incr", "decr"} /\ NoKey \in Key
      OBVIOUS
    <3>2. QED
      <4>1. none \in Seq(Text) /\ zero \in Duration /\ Len(none) <= 1
        BY <1>5
      <4>2. /\ WellSorted(Command("ping", NoKey, none, zero))
            /\ Command("ping", NoKey, none, zero).type = "ping"
            /\ Command("ping", NoKey, none, zero).args = none
        BY <3>1, <4>1, CommandIsWellSorted
      <4>3. QED
        BY <2>1, <4>2
  <2>3. MinArgs("ping") = 0
    BY DEF MinArgs
  <2>4. QED
    BY <1>5, <2>2, <2>3
<1>7. CASE line[1] = "set"
  <2>1. Len(line) >= 3 /\ c = Command("set", line[2], SetArgs(line), SetTTL(line))
    BY <1>1, <1>2, <1>7 DEF ParseTextCommand, parseSetCommand
  <2>2. SetTTL(line) \in Duration
    <3>1. CASE Len(line) > 4 /\ line[4] \in Int
      <4>1. line[4] * Second \in Int
        BY <3>1, ProtocolAssumption
      <4>2. QED
        BY <3>1, <4>1, WrapDurationRange DEF SetTTL
    <3>2. CASE ~ (Len(line) > 4 /\ line[4] \in Int)
      BY <3>2, <1>3 DEF SetTTL
    <3>3. QED
      BY <3>1, <3>2
  <2>3. line[2] \in Key /\ line[3] \in Text
    BY <1>2, <2>1
  <2>4. /\ SetArgs(line) \in Seq(Text)
        /\ Len(SetArgs(line)) = 1 /\ Len(SetArgs(line)) <= 1
    BY <2>3 DEF SetArgs
  <2>5. MinArgs("set") = 1
    BY DEF MinArgs
  <2>6. WellSorted(c) /\ c.type = "set" /\ c.args = SetArgs(line)
    BY <2>1, <2>2, <2>3, <2>4, CommandIsWellSorted
  <2>7. Len(c.args) = 1 /\ MinArgs(c.type) = 1
    BY <2>4, <2>5, <2>6
  <2>8. Len(c.args) >= MinArgs(c.type)
    BY <2>7
  <2>9. QED
    BY <2>6, <2>8
<1>8. CASE line[1] \in {"get", "del", "exists", "incr", "decr"}
  <2>1. Len(line) = 2 /\ c = Command(line[1], line[2], none, zero)
    BY <1>1, <1>3, <1>4, <1>8 DEF ParseTextCommand, parseKeyCommand
  <2>2. line[2] \in Key
    BY <1>2, <2>1
  <2>3. MinArgs(line[1]) = 0
    BY <1>8 DEF MinArgs
  <2>4. WellSorted(c) /\ c.type = line[1] /\ c.args = none
    <3>1. line[1] \in {"set", "get", "del", "exists", "incr", "decr"}
      BY <1>8
    <3>2. QED
      <4>1. none \in Seq(Text) /\ zero \in Duration /\ Len(none) <= 1
        BY <1>5
      <4>2. /\ WellSorted(Command(line[1], line[2], none, zero))
            /\ Command(line[1], line[2], none, zero).type = line[1]
            /\ Command(line[1], line[2], none, zero).args = none
        BY <2>2, <3>1, <4>1, CommandIsWellSorted
      <4>3. QED
        BY <2>1, <4>2
  <2>5. QED
    BY <1>5, <1>8, <2>3, <2>4
<1>9. QED
  BY <1>1, <1>6, <1>7, <1>8 DEF ParseTextCommand

\* Every command sent is well-sorted.
LEMMA SentIsWellSorted == \A c \in Commands \cup Typed : WellSorted(c)
BY SessionAssumption, TypedIsWellSorted

-------------------------------------------------------------------------------
(* What the cache does with it *)

Incrs == {"incr", "decr", "incrby", "decrby"}

\* The method of the cache that serves a type of command.
MethodOf(type) == IF type \in Incrs THEN "incrby" ELSE type

\* The results that become numbers are numbers.
Numeric(type, r) ==
  /\ type \in Incrs => r = <<>> \/ r[1] \in Int
  /\ type \in {"ttl", "lpush", "rpush", "llen", "sadd", "srem"} => r \in Int

\* A step of the cache that answers a command of this type for key k.
Serves(type, k) == /\ CP!Next /\ last'[1] = MethodOf(type) /\ last'[2] = k
                   /\ Numeric(type, last'[4])

LEMMA CallLeavesLast ==
  ASSUME NEW op, NEW k, NEW args, NEW out, CP!Call(op, k, args, out)
  PROVE  last'[1] = op /\ last'[2] = k /\ last'[4] = out.result
BY DEF CP!Call

LEMMA IncrByServes ==
  ASSUME CP!CacheInv, NEW k \in Key, NEW d \in Int64, CP!IncrBy(k, d), NEW type \in Incrs
  PROVE  Serves(type, k)
<1> DEFINE e == CP!Find(k)
           out == CP!IncrByOn(e, d)
<1>1. CP!WellFormed(e)
  BY CacheSteps
<1>2. out.result = <<>> \/ out.result[1] \in Int
  <2>1. d \in Int
    BY CacheValueAssumption DEF Int64
  <2>2. CASE CP!Holds(e, "string") /\ e.str \in CP!Int64
    <3>1. e.str \in Int
      BY <2>2, CacheValueAssumption DEF CP!Int64
    <3> DEFINE sum == e.str + d
    <3>2. sum \in Int
      BY <2>1, <3>1
    <3> HIDE DEF sum
    <3>3. CP!Wrap(sum) \in Int
      BY <3>2, CacheValueAssumption DEF CP!Wrap
    <3>4. out.result = <<CP!Wrap(sum)>>
      BY <2>2 DEF CP!IncrByOn, CP!Holds, CP!Outcome, sum
    <3>5. QED
      BY <3>3, <3>4
  <2>3. CASE ~ (CP!Holds(e, "string") /\ e.str \in CP!Int64)
    BY <2>1, <2>3 DEF CP!IncrByOn, CP!Outcome
  <2>4. QED
    BY <2>2, <2>3
<1>3. last'[1] = "incrby" /\ last'[2] = k /\ last'[4] = out.result
  BY CallLeavesLast DEF CP!IncrBy
<1>4. CP!Next
  BY SameTypes DEF CP!Next, CP!KeyOp
<1>5. Numeric(type, out.result)
  BY <1>2 DEF Numeric, Incrs
<1> HIDE DEF out
<1>6. QED
  BY <1>3, <1>4, <1>5 DEF Serves, MethodOf

LEMMA TTLServes ==
  ASSUME CP!CacheInv, NEW k \in Key, CP!TTL(k)
  PROVE  Serves("ttl", k)
<1> DEFINE e == CP!Find(k)
           out == CP!TTLOn(e, clock)
<1>1. CP!WellFormed(e) /\ clock \in Int
  BY CacheSteps, SessionAssumption DEF CP!CacheInv
<1>2. out.result \in Int
  <2>1. e = Absent \/ e.exp \in Int \cup {NoExpiry}
    BY <1>1, SameTypes DEF CP!WellFormed, Value
  <2>2. CASE e = Absent \/ e.exp = NoExpiry
    BY <2>2 DEF CP!TTLOn, CP!Outcome
  <2>3. CASE ~ (e = Absent \/ e.exp = NoExpiry)
    <3>1. e.exp - clock \in Int
      BY <1>1, <2>1, <2>3
    <3>2. out.result \in {-2, e.exp - clock}
      BY <2>3 DEF CP!TTLOn, CP!Outcome
    <3>3. QED
      BY <3>1, <3>2
  <2>4. QED
    BY <2>2, <2>3
<1>3. last'[1] = "ttl" /\ last'[2] = k /\ last'[4] = out.result
  BY CallLeavesLast DEF CP!TTL
<1>4. CP!Next
  BY DEF CP!Next, CP!KeyOp
<1> HIDE DEF out
<1>5. QED
  BY <1>2, <1>3, <1>4 DEF Serves, MethodOf, Numeric, Incrs

\* The other operations on keys.
LEMMA KeyOpServes ==
  ASSUME NEW k \in Key, NEW v, NEW ttl \in Int, NEW type,
         \/ type = "get" /\ CP!Get(k)
         \/ type = "set" /\ v \in Text /\ CP!Set(k, v, ttl)
         \/ type = "del" /\ CP!Del(k)
         \/ type = "exists" /\ CP!Exists(k)
         \/ type = "expire" /\ CP!Expire(k, ttl)
         \/ type = "persist" /\ CP!Persist(k)
  PROVE  Serves(type, k)
<1>1. CP!Next
  BY SameTypes DEF CP!Next, CP!KeyOp
<1>2. last'[1] = type /\ last'[2] = k
  BY CallLeavesLast DEF CP!Get, CP!Set, CP!Del, CP!Exists, CP!Expire, CP!Persist
<1>3. QED
  BY <1>1, <1>2 DEF Serves, MethodOf, Numeric, Incrs

LEMMA HashOpServes ==
  ASSUME NEW k \in Key, NEW f, NEW v, NEW type,
         \/ type = "hget" /\ f \in Field /\ CP!HGet(k, f)
         \/ type = "hset" /\ f \in Field /\ v \in Text /\ CP!HSet(k, f, v)
         \/ type = "hdel" /\ f \in Field /\ CP!HDel(k, f)
         \/ type = "hexists" /\ f \in Field /\ CP!HExists(k, f)
  PROVE  Serves(type, k)
<1>1. CP!Next
  BY SameTypes DEF CP!Next, CP!HashOp
<1>2. last'[1] = type /\ last'[2] = k
  BY CallLeavesLast DEF CP!HGet, CP!HSet, CP!HDel, CP!HExists
<1>3. QED
  BY <1>1, <1>2 DEF Serves, MethodOf, Numeric, Incrs

\* Operations that ask for neither field nor text.
LEMMA PlainOpServes ==
  ASSUME NEW k \in Key, NEW m, NEW type,
         \/ type = "hgetall" /\ CP!HGetAll(k)
         \/ type = "lpop" /\ CP!LPop(k)
         \/ type = "rpop" /\ CP!RPop(k)
         \/ type = "smembers" /\ CP!SMembers(k)
         \/ type = "sismember" /\ m \in Text /\ CP!SIsMember(k, m)
  PROVE  Serves(type, k)
<1>1. CP!Next
  BY SameTypes DEF CP!Next, CP!HashOp, CP!ListOp, CP!SetOp
<1>2. last'[1] = type /\ last'[2] = k
  BY CallLeavesLast DEF CP!HGetAll, CP!LPop, CP!RPop, CP!SMembers, CP!SIsMember
<1>3. QED
  BY <1>1, <1>2 DEF Serves, MethodOf, Numeric, Incrs

LEMMA ListOpServes ==
  ASSUME CP!CacheInv, NEW k \in Key, NEW values \in Seq(Text), NEW type,
         \/ type = "lpush" /\ CP!LPush(k, values)
         \/ type = "rpush" /\ CP!RPush(k, values)
         \/ type = "llen" /\ CP!LLen(k)
  PROVE  Serves(type, k)
<1> DEFINE e == CP!Find(k)
           l == CP!Ensure(e, "list")
<1>1. CP!WellFormed(e)
  BY CacheSteps
<1>2. l.list \in Seq(Text)
  <2>1. CASE e = Absent
    BY <2>1 DEF CP!Ensure, CP!New
  <2>2. CASE e # Absent
    BY <1>1, <2>2, SameTypes DEF CP!Ensure, CP!WellFormed, Value
  <2>3. QED
    BY <2>1, <2>2
<1>3. Len(l.list) \in Nat /\ Len(values) \in Nat
  BY <1>2
<1>4. e # Absent => l = e
  BY DEF CP!Ensure
<1> HIDE DEF e, l
<1>5. /\ CP!LPushOn(e, values).result \in Int
      /\ CP!RPushOn(e, values).result \in Int
  BY <1>3 DEF CP!LPushOn, CP!RPushOn, CP!Outcome, l
<1>6. CP!LLenOn(e).result \in Int
  BY <1>3, <1>4 DEF CP!LLenOn, CP!Outcome, CP!Holds
<1>7. CP!Next
  BY SameTypes DEF CP!Next, CP!ListOp
<1>8. last'[1] = type /\ last'[2] = k /\ last'[4] \in Int
  BY <1>5, <1>6, CallLeavesLast DEF CP!LPush, CP!RPush, CP!LLen, e
<1>9. QED
  BY <1>7, <1>8 DEF Serves, MethodOf, Numeric, Incrs

LEMMA SetOpServes ==
  ASSUME NEW k \in Key, NEW members \in Seq(Text), NEW type,
         \/ type = "sadd" /\ CP!SAdd(k, members)
         \/ type = "srem" /\ CP!SRem(k, members)
  PROVE  Serves(type, k)
<1> DEFINE e == CP!Find(k)
           R == CP!Range(members)
<1>1. CP!IsFiniteSet(R)
  BY Parameters, CP!RangeFinite
    DEF CP!CacheValueAssumption, CP!AbsentAssumption, CP!CacheAssumption
<1>2. \A S : S \subseteq R => CP!Cardinality(S) \in Int
  <2>1. TAKE S
  <2>2. HAVE S \subseteq R
  <2>3. CP!IsFiniteSet(S)
    BY <1>1, <2>2, Parameters, CP!FS_Subset
      DEF CP!CacheValueAssumption, CP!AbsentAssumption, CP!CacheAssumption
  <2>4. QED
    BY <2>3, Parameters, CP!FS_CardinalityType
      DEF CP!CacheValueAssumption, CP!AbsentAssumption, CP!CacheAssumption
<1> HIDE DEF e, R
<1>3. /\ CP!SAddOn(e, members).result \in Int
      /\ CP!SRemOn(e, members).result \in Int
  <2>1. \A S : CP!Cardinality(R \ S) \in Int /\ CP!Cardinality(R \cap S) \in Int
    <3>1. \A S : R \ S \subseteq R /\ R \cap S \subseteq R
      OBVIOUS
    <3>2. QED
      BY <1>2, <3>1
  <2> DEFINE t == CP!Ensure(e, "set").set
  <2>2. CP!Cardinality(R \ t) \in Int /\ CP!Cardinality(R \cap e.set) \in Int
    BY <2>1
  <2>3. CP!SAddOn(e, members).result \in {0, CP!Cardinality(R \ t)}
    BY DEF CP!SAddOn, CP!Outcome, R
  <2>4. CP!SRemOn(e, members).result \in {0, CP!Cardinality(R \cap e.set)}
    BY DEF CP!SRemOn, CP!Outcome, R
  <2> HIDE DEF t
  <2>5. QED
    BY <2>2, <2>3, <2>4
<1>4. CP!Next
  BY SameTypes DEF CP!Next, CP!SetOp
<1>5. last'[1] = type /\ last'[2] = k /\ last'[4] \in Int
  BY <1>3, CallLeavesLast DEF CP!SAdd, CP!SRem, e
<1>6. QED
  BY <1>4, <1>5 DEF Serves, MethodOf, Numeric, Incrs

LEMMA WrapInt64 == \A n \in Int : Wrap(n) \in Int64
<1> SUFFICES ASSUME NEW n \in Int PROVE Wrap(n) \in Int64
  OBVIOUS
<1>1. CP!Wrap(n) \in CP!Int64
  BY Parameters, CP!WrapInt64
    DEF CP!CacheValueAssumption, CP!AbsentAssumption, CP!CacheAssumption
<1>2. QED
  BY <1>1, SameTypes DEF CP!Wrap, Wrap

\* The delta of INCRBY and DECRBY is an int64, negated or not, parsed or not.
LEMMA DeltaIsInt64 ==
  ASSUME NEW c, c.type \in Incrs
  PROVE  DeltaOf(c) \in Int64
<1>1. 1 \in Int64 /\ -1 \in Int64 /\ Int64 \subseteq Int
  BY CacheValueAssumption DEF Int64
<1>2. CASE c.type \in {"incr", "decr"}
  BY <1>1, <1>2 DEF DeltaOf
<1>3. CASE c.type = "incrby"
  BY <1>1, <1>3 DEF DeltaOf
<1>4. CASE c.type = "decrby"
  <2>1. CASE c.args[1] \in Int64
    <3>1. \A n \in Int : -n \in Int
      OBVIOUS
    <3>2. -c.args[1] \in Int
      BY <1>1, <2>1, <3>1
    <3>3. DeltaOf(c) = Wrap(-c.args[1])
      BY <1>4, <2>1 DEF DeltaOf
    <3>4. QED
      BY <3>2, <3>3, WrapInt64
  <2>2. CASE c.args[1] \notin Int64
    BY <1>1, <1>4, <2>2 DEF DeltaOf
  <2>3. QED
    BY <2>1, <2>2
<1>5. QED
  BY <1>2, <1>3, <1>4 DEF Incrs

\* The arguments have the types the methods of the cache take.
LEMMA ArgumentTypes ==
  ASSUME NEW c, NEW r, WellSorted(c), Arrives(c, r),
         r.type \notin {"ping", "unknown"}, Len(r.args) >= MinArgs(r.type)
  PROVE  /\ r.key \in Key /\ r.ttl \in Int
         /\ r.type \in {"set", "sismember"} => r.args[1] \in Text
         /\ r.type \in OnHash => r.args[1] \in Field
         /\ r.type = "hset" => r.args[2] \in Text
         /\ r.type \in {"lpush", "rpush", "sadd", "srem"} => r.args \in Seq(Text)
         /\ r.type \in Incrs => DeltaOf(r) \in Int64
<1>1. r.key \in Key /\ r.ttl \in Int
  BY ProtocolAssumption DEF WellSorted, Arrives, Duration
<1>2. r.args \in Seq(Text \cup Field)
  BY DEF WellSorted, CommandRecord, Arrives
<1>3. r.type \notin OnHash => r.args \in Seq(Text)
  BY DEF WellSorted, Arrives
<1>4. r.type \in {"set", "sismember"} => r.args[1] \in Text
  <2> SUFFICES ASSUME r.type \in {"set", "sismember"} PROVE r.args[1] \in Text
    OBVIOUS
  <2>1. r.args \in Seq(Text)
    BY <1>3 DEF OnHash
  <2>2. Len(r.args) >= 1
    BY DEF MinArgs
  <2>3. QED
    BY <2>1, <2>2
<1>5. r.type \in OnHash => r.args[1] \in Field
  <2> SUFFICES ASSUME r.type \in OnHash PROVE r.args[1] \in Field
    OBVIOUS
  <2>1. Len(r.args) \in Nat
    BY <1>2
  <2>2. Len(r.args) >= 1
    BY <2>1 DEF MinArgs, OnHash
  <2>3. QED
    BY <2>1, <2>2 DEF WellSorted, Arrives
<1>6. r.type = "hset" => r.args[2] \in Text
  <2> SUFFICES ASSUME r.type = "hset" PROVE r.args[2] \in Text
    OBVIOUS
  <2>1. Len(r.args) \in Nat /\ Len(r.args) >= 2
    BY <1>2 DEF MinArgs
  <2>2. QED
    BY <2>1 DEF WellSorted, Arrives, OnHash
<1>7. r.type \in {"lpush", "rpush", "sadd", "srem"} => r.args \in Seq(Text)
  BY <1>3 DEF OnHash
<1>8. r.type \in Incrs => DeltaOf(r) \in Int64
  BY DeltaIsInt64
<1>9. QED
  BY <1>1, <1>4, <1>5, <1>6, <1>7, <1>8

\* Every handler calls a method of the cache.
LEMMA RunCalls ==
  ASSUME NEW r, Run(r)
  PROVE  LET k == r.key
         IN  \/ r.type \in Incrs /\ CP!IncrBy(k, DeltaOf(r))
             \/ r.type = "ttl" /\ CP!TTL(k)
             \/ r.type = "get" /\ CP!Get(k)
             \/ r.type = "set" /\ CP!Set(k, r.args[1], r.ttl)
             \/ r.type = "del" /\ CP!Del(k)
             \/ r.type = "exists" /\ CP!Exists(k)
             \/ r.type = "expire" /\ CP!Expire(k, r.ttl)
             \/ r.type = "persist" /\ CP!Persist(k)
             \/ r.type = "hget" /\ CP!HGet(k, r.args[1])
             \/ r.type = "hset" /\ CP!HSet(k, r.args[1], r.args[2])
             \/ r.type = "hdel" /\ CP!HDel(k, r.args[1])
             \/ r.type = "hexists" /\ CP!HExists(k, r.args[1])
             \/ r.type = "hgetall" /\ CP!HGetAll(k)
             \/ r.type = "lpop" /\ CP!LPop(k)
             \/ r.type = "rpop" /\ CP!RPop(k)
             \/ r.type = "llen" /\ CP!LLen(k)
             \/ r.type = "smembers" /\ CP!SMembers(k)
             \/ r.type = "sismember" /\ CP!SIsMember(k, r.args[1])
             \/ r.type = "lpush" /\ CP!LPush(k, r.args)
             \/ r.type = "rpush" /\ CP!RPush(k, r.args)
             \/ r.type = "sadd" /\ CP!SAdd(k, r.args)
             \/ r.type = "srem" /\ CP!SRem(k, r.args)
BY SameKeyOps, SameHashOps, SameListOps, SameSetOps DEF Run, Incrs

\* What a handler calls serves its command.
LEMMA RunServes ==
  ASSUME CP!CacheInv, NEW c, NEW r, WellSorted(c), Arrives(c, r),
         r.type \notin {"ping", "unknown"}, Len(r.args) >= MinArgs(r.type), Run(r)
  PROVE  Serves(r.type, r.key)
<1> DEFINE k == r.key
<1>1. /\ k \in Key /\ r.ttl \in Int
      /\ r.type \in {"set", "sismember"} => r.args[1] \in Text
      /\ r.type \in OnHash => r.args[1] \in Field
      /\ r.type = "hset" => r.args[2] \in Text
      /\ r.type \in {"lpush", "rpush", "sadd", "srem"} => r.args \in Seq(Text)
      /\ r.type \in Incrs => DeltaOf(r) \in Int64
  BY ArgumentTypes
<1> HIDE DEF k
<1>2. CASE r.type \in Incrs /\ CP!IncrBy(k, DeltaOf(r))
  BY <1>1, <1>2, IncrByServes DEF k
<1>3. CASE r.type = "ttl" /\ CP!TTL(k)
  BY <1>1, <1>3, TTLServes DEF k
<1>4. CASE \/ r.type = "get" /\ CP!Get(k)
           \/ r.type = "set" /\ CP!Set(k, r.args[1], r.ttl)
           \/ r.type = "del" /\ CP!Del(k)
           \/ r.type = "exists" /\ CP!Exists(k)
           \/ r.type = "expire" /\ CP!Expire(k, r.ttl)
           \/ r.type = "persist" /\ CP!Persist(k)
  BY <1>1, <1>4, KeyOpServes DEF k
<1>5. CASE \/ r.type = "hget" /\ CP!HGet(k, r.args[1])
           \/ r.type = "hset" /\ CP!HSet(k, r.args[1], r.args[2])
           \/ r.type = "hdel" /\ CP!HDel(k, r.args[1])
           \/ r.type = "hexists" /\ CP!HExists(k, r.args[1])
  BY <1>1, <1>5, HashOpServes DEF k, OnHash
<1>6. CASE \/ r.type = "hgetall" /\ CP!HGetAll(k)
           \/ r.type = "lpop" /\ CP!LPop(k)
           \/ r.type = "rpop" /\ CP!RPop(k)
           \/ r.type = "smembers" /\ CP!SMembers(k)
           \/ r.type = "sismember" /\ CP!SIsMember(k, r.args[1])
  BY <1>1, <1>6, PlainOpServes DEF k
<1>7. CASE r.type = "llen" /\ CP!LLen(k)
  <2>1. PICK none \in Seq(Text) : none = <<>>
    <3>1. <<>> \in Seq(Text)
      OBVIOUS
    <3>2. QED
      BY <3>1
  <2>2. QED
    BY <1>1, <1>7, ListOpServes DEF k
<1>8. CASE \/ r.type = "lpush" /\ CP!LPush(k, r.args)
           \/ r.type = "rpush" /\ CP!RPush(k, r.args)
  BY <1>1, <1>8, ListOpServes DEF k
<1>9. CASE \/ r.type = "sadd" /\ CP!SAdd(k, r.args)
           \/ r.type = "srem" /\ CP!SRem(k, r.args)
  BY <1>1, <1>9, SetOpServes DEF k
<1>10. QED
  BY <1>2, <1>3, <1>4, <1>5, <1>6, <1>7, <1>8, <1>9, RunCalls DEF k

-------------------------------------------------------------------------------
(* The answer *)

\* The types of the responses a handler makes of a method's result.
TypesOf(type) ==
  IF type \in {"get", "hget", "lpop", "rpop"} THEN {"nil", "string"}
  ELSE IF type \in Incrs THEN {"error", "int"}
  ELSE IF type \in {"set", "hset"} THEN {"ok"}
  ELSE IF type \in {"hgetall", "smembers"} THEN {"array"}
  ELSE {"int"}

LEMMA ResponseFields ==
  \A type, value : Response(type, value).type = type /\ Response(type, value).data = value
BY DEF Response

LEMMA AnswersTyped ==
  ASSUME NEW type \in CommandType \ {"ping"}, NEW r, Numeric(type, r), NEW a \in Answers(type, r)
  PROVE  a.type \in TypesOf(type) /\ (a.type = "int" => a.data \in Int)
<1>1. CASE type \in {"hgetall", "smembers"}
  <2>1. \E items : a = Response("array", items)
    BY <1>1 DEF Answers
  <2>2. QED
    BY <1>1, <2>1, ResponseFields DEF TypesOf, Incrs
<1>2. CASE type \in {"get", "hget", "lpop", "rpop"}
  <2>1. a = Response("nil", 0) \/ a = Response("string", r[1])
    BY <1>2 DEF Answers
  <2>2. QED
    BY <1>2, <2>1, ResponseFields DEF TypesOf
<1>3. CASE type \in Incrs
  <2>1. \/ a = Response("error", ErrorText)
        \/ r # <<>> /\ a = Response("int", r[1])
    BY <1>3 DEF Answers, Incrs
  <2>2. QED
    BY <1>3, <2>1, ResponseFields DEF TypesOf, Numeric, Incrs
<1>4. CASE type \in {"set", "hset"}
  <2>1. a = Response("ok", 0)
    BY <1>4 DEF Answers
  <2>2. QED
    BY <1>4, <2>1, ResponseFields DEF TypesOf, Incrs
<1>5. CASE type \in {"del", "exists", "expire", "persist", "hdel", "hexists", "sismember"}
  <2>1. a = Response("int", 0) \/ a = Response("int", 1)
    BY <1>5 DEF Answers, Flag
  <2>2. QED
    BY <1>5, <2>1, ResponseFields DEF TypesOf, Incrs
<1>6. CASE type = "ttl"
  <2>1. a = Response("int", Seconds(r))
    BY <1>6 DEF Answers
  <2>2. r \in Int
    BY <1>6 DEF Numeric
  <2>3. Seconds(r) \in Int
    BY <2>2, ProtocolAssumption DEF Seconds
  <2>4. QED
    BY <1>6, <2>1, <2>3, ResponseFields DEF TypesOf, Incrs
<1>7. CASE type \in {"lpush", "rpush", "llen", "sadd", "srem"}
  <2>1. a = Response("int", r)
    BY <1>7 DEF Answers
  <2>2. QED
    BY <1>7, <2>1, ResponseFields DEF TypesOf, Numeric, Incrs
<1>8. QED
  BY <1>1, <1>2, <1>3, <1>4, <1>5, <1>6, <1>7 DEF CommandType, Incrs

\* What a request is refused with, or served by.
Refused == resp' = Nothing /\ Untouched
Pinged(c) == c.type = "ping" /\ resp' = Response("string", Pong) /\ Untouched
Rejected(c) == /\ c.type = "unknown" \/ Len(c.args) < MinArgs(c.type)
               /\ resp' = Response("error", ErrorText) /\ Untouched
Served(c, r) == /\ Arrives(c, r) /\ c.type \in CommandType \ {"ping"}
                /\ Len(r.args) >= MinArgs(r.type)
                /\ Run(r) /\ Serves(c.type, c.key) /\ resp' \in Answers(c.type, last'[4])

LEMMA RequestOutcome ==
  ASSUME CP!CacheInv, NEW c, WellSorted(c), Request(c)
  PROVE  Refused \/ Pinged(c) \/ Rejected(c) \/ \E r : Served(c, r)
<1>1. PICK r \in ReadCommand(c) : IF r = Malformed THEN Refused ELSE executeCommand(r)
  BY DEF Request, Refused
<1>2. CASE r = Malformed
  BY <1>1, <1>2
<1>3. CASE r # Malformed
  <2>1. Arrives(c, r) /\ executeCommand(r)
    BY <1>1, <1>3, ReadsWhatWasSent
  <2>2. c.type \in CommandType \cup {"unknown"}
    BY DEF WellSorted, CommandRecord
  <2>3. r.type = c.type /\ r.args = c.args /\ r.key = c.key
    BY <2>1 DEF Arrives
  <2>4. CASE r.type = "ping"
    BY <2>1, <2>3, <2>4 DEF executeCommand, Pinged
  <2>5. CASE r.type # "ping" /\ (r.type = "unknown" \/ Len(r.args) < MinArgs(r.type))
    BY <2>1, <2>3, <2>5 DEF executeCommand, Rejected
  <2>6. CASE r.type # "ping" /\ ~ (r.type = "unknown" \/ Len(r.args) < MinArgs(r.type))
    <3>1. Run(r) /\ resp' \in Answers(r.type, last'[4])
      BY <2>1, <2>6 DEF executeCommand
    <3>2. r.args \in Seq(Text \cup Field)
      BY <2>3 DEF WellSorted, CommandRecord
    <3>3. Len(r.args) >= MinArgs(r.type)
      BY <2>6, <3>2 DEF MinArgs
    <3>4. Serves(r.type, r.key)
      BY <2>1, <2>6, <3>1, <3>3, RunServes
    <3>5. QED
      BY <2>1, <2>2, <2>3, <2>6, <3>1, <3>3, <3>4 DEF Served
  <2>7. QED
    BY <2>4, <2>5, <2>6
<1>4. QED
  BY <1>2, <1>3

\* What a caller gets is a value or an error, and for a type of response its method
\* accepts not the error that it does not.
LEMMA ReadIsTyped ==
  ASSUME NEW type, NEW a,
         a = Nothing \/ a.type = "error" \/ a.type \in TypesOf(type)
           \/ (type = "ping" /\ a.type \in ResponseType)
  PROVE  Read(type, a)[1] \in {"ok", "error"} /\ Read(type, a) # Failed("unexpected response type")
<1>1. \A why : Failed(why)[1] = "error" /\ Failed(why)[2] = why
  BY DEF Failed
<1>2. \A value : Done(value)[1] = "ok"
  BY DEF Done
<1>3. \/ Read(type, a) \in {Failed("connection"), Failed("server"), Failed("not found")}
      \/ \E value : Read(type, a) = Done(value)
      \/ /\ Read(type, a) = Failed("unexpected response type")
         /\ a # Nothing /\ a.type # "error" /\ a.type \notin Expected(type)
         /\ ~ (a.type = "nil" /\ type \in {"get", "hget", "lpop"})
  BY Zenon DEF Read
<1>4. \/ a = Nothing \/ a.type = "error" \/ a.type \in Expected(type)
      \/ (a.type = "nil" /\ type \in {"get", "hget", "lpop"})
  BY DEF TypesOf, Expected, ResponseType, Incrs
<1>5. QED
  BY <1>1, <1>2, <1>3, <1>4

LEMMA NothingType == Nothing.type = "none" /\ Nothing.type \notin ResponseType
BY ResponseFields DEF Nothing, ResponseType

SessionInv ==
  /\ CP!CacheInv
  /\ resp = Nothing \/ resp.type \in ResponseType
  /\ resp.type = "int" => resp.data \in Int
  /\ reply[1] \in {"ok", "error"}
  /\ TypedReplies /\ TypedCommandsServed

LEMMA InitSessionInv == Init => SessionInv
<1> SUFFICES ASSUME Init PROVE SessionInv
  OBVIOUS
<1>1. CP!CacheInv
  BY SessionAssumption DEF Init, C!Init, CP!CacheInv, CP!WellFormed
<1>2. resp = Nothing /\ resp.type = "none"
  BY NothingType DEF Init
<1>3. reply = <<"ok", 0>>
  BY DEF Init, Done
<1>4. TypedReplies
  BY <1>3 DEF TypedReplies, Failed
<1>5. QED
  BY <1>1, <1>2, <1>3, <1>4 DEF SessionInv, TypedCommandsServed

LEMMA RequestKeepsInv ==
  ASSUME SessionInv, NEW c \in Commands \cup Typed, Request(c)
  PROVE  SessionInv'
<1>1. cmd' = c /\ reply' = Read(c.type, resp')
  BY DEF Request
<1>2. WellSorted(c) /\ c.type \in CommandType \cup {"unknown"}
  BY SentIsWellSorted DEF WellSorted, CommandRecord
<1>3. Refused \/ Pinged(c) \/ Rejected(c) \/ \E r : Served(c, r)
  BY <1>2, RequestOutcome DEF SessionInv
<1>4. CASE Refused
  <2>1. CP!CacheInv'
    BY <1>4 DEF SessionInv, Refused, Untouched, CP!CacheInv, CP!WellFormed
  <2>2. resp' = Nothing /\ resp'.type = "none"
    BY <1>4, NothingType DEF Refused
  <2>3. reply'[1] \in {"ok", "error"} /\ TypedReplies'
    BY <1>1, <2>2, ReadIsTyped DEF TypedReplies
  <2>4. QED
    BY <2>1, <2>2, <2>3 DEF SessionInv, TypedCommandsServed
<1>5. CASE Pinged(c)
  <2>1. CP!CacheInv'
    BY <1>5 DEF SessionInv, Pinged, Untouched, CP!CacheInv, CP!WellFormed
  <2>2. resp'.type = "string" /\ resp'.type \in ResponseType /\ c.type = "ping"
    BY <1>5, ResponseFields DEF Pinged, ResponseType
  <2>3. reply'[1] \in {"ok", "error"} /\ TypedReplies'
    BY <1>1, <2>2, ReadIsTyped DEF TypedReplies
  <2>4. QED
    BY <2>1, <2>2, <2>3 DEF SessionInv, TypedCommandsServed
<1>6. CASE Rejected(c)
  <2>1. CP!CacheInv'
    BY <1>6 DEF SessionInv, Rejected, Untouched, CP!CacheInv, CP!WellFormed
  <2>2. resp'.type = "error" /\ resp'.type \in ResponseType
    BY <1>6, ResponseFields DEF Rejected, ResponseType
  <2>3. reply'[1] \in {"ok", "error"} /\ TypedReplies'
    BY <1>1, <2>2, ReadIsTyped DEF TypedReplies
  <2>4. c \notin Typed
    <3>1. Len(c.args) \in Nat /\ MinArgs(c.type) \in Nat
      BY <1>2 DEF WellSorted, CommandRecord, MinArgs
    <3>2. QED
      BY <1>6, <3>1, TypedIsWellSorted DEF Rejected
  <2>5. QED
    BY <1>1, <2>1, <2>2, <2>3, <2>4 DEF SessionInv, TypedCommandsServed
<1>7. CASE \E r : Served(c, r)
  <2>1. PICK r : Served(c, r)
    BY <1>7
  <2>2. CP!CacheInv'
    BY <2>1, CacheSteps DEF Served, Serves, SessionInv
  <2>3. resp'.type \in TypesOf(c.type) /\ (resp'.type = "int" => resp'.data \in Int)
    <3>1. Numeric(c.type, last'[4])
      BY <2>1 DEF Served, Serves
    <3>2. QED
      BY <2>1, <3>1, AnswersTyped DEF Served
  <2>4. resp'.type \in ResponseType
    BY <2>3 DEF TypesOf, ResponseType
  <2>5. reply'[1] \in {"ok", "error"} /\ TypedReplies'
    BY <1>1, <2>3, ReadIsTyped DEF TypedReplies
  <2>6. c \in Typed /\ resp'.type = "error" => c.type \in {"incr", "decr"}
    <3>1. resp'.type = "error" => c.type \in Incrs
      BY <2>3 DEF TypesOf
    <3>2. QED
      BY <3>1, TypedIsWellSorted DEF Incrs
  <2>7. QED
    BY <1>1, <2>2, <2>3, <2>4, <2>5, <2>6 DEF SessionInv, TypedCommandsServed
<1>8. QED
  BY <1>3, <1>4, <1>5, <1>6, <1>7

LEMMA NextKeepsSessionInv == SessionInv /\ [Next]_vars => SessionInv'
<1> SUFFICES ASSUME SessionInv, [Next]_vars PROVE SessionInv'
  OBVIOUS
<1>1. CASE \E c \in Commands \cup Typed : Request(c)
  BY <1>1, RequestKeepsInv
<1>2. CASE (C!cleanupExpired \/ C!Tick) /\ Quiet
  <2>1. CP!CacheInv'
    BY <1>2, SameBackground, CacheSteps DEF SessionInv, CP!Next
  <2>2. QED
    BY <1>2, <2>1 DEF Quiet, SessionInv, TypedReplies, TypedCommandsServed
<1>3. CASE UNCHANGED vars
  BY <1>3 DEF vars, cache, SessionInv, TypedReplies, TypedCommandsServed, CP!CacheInv,
              CP!WellFormed
<1>4. QED
  BY <1>1, <1>2, <1>3 DEF Next

-------------------------------------------------------------------------------
(* The theorems *)

\* For every set of commands and text lines, what the handlers store through
\* server.go:204-548 is what the cache can hold, and a response that announces a
\* number carries one (the types, and more than them: see SessionInv).
THEOREM SessionInvariant == Spec => []SessionInv
BY InitSessionInv, NextKeepsSessionInv, PTL DEF Spec

\* The types alone.
THEOREM SessionAlwaysTyped == Spec => []TypeOK
<1>1. SessionInv => TypeOK
  BY SameTypes DEF SessionInv, TypeOK, C!TypeOK, CP!CacheInv
<1>2. QED
  BY <1>1, SessionInvariant, PTL

\* A method of Client (client.go:370-1042) never meets a response type it does not
\* expect from the handler of its command.
THEOREM RepliesAlwaysTyped == Spec => []TypedReplies
<1>1. SessionInv => TypedReplies
  BY DEF SessionInv
<1>2. QED
  BY <1>1, SessionInvariant, PTL

\* What ParseTextCommand accepts (protocol.go:434-522) has the arguments its handler
\* asks for: only INCR and DECR can fail, on a value that is no integer.
THEOREM TypedCommandsAlwaysServed == Spec => []TypedCommandsServed
<1>1. SessionInv => TypedCommandsServed
  BY DEF SessionInv
<1>2. QED
  BY <1>1, SessionInvariant, PTL
-------------------------------------------------------------------------------
(* The cache as callers drive it *)

LEMMA SameNext == CP!Next => C!Next
<1> SUFFICES ASSUME CP!Next PROVE C!Next
  OBVIOUS
<1>1. CASE CP!cleanupExpired \/ CP!Tick
  BY <1>1, SameBackground DEF C!Next
<1>2. ASSUME NEW k \in Key, CP!KeyOp(k) PROVE C!Next
  <2>1. C!KeyOp(k)
    BY <1>2, SameKeyOps DEF CP!KeyOp, C!KeyOp
  <2>2. QED
    BY <2>1 DEF C!Next
<1>3. ASSUME NEW k \in Key, CP!HashOp(k) PROVE C!Next
  <2>1. C!HashOp(k)
    BY <1>3, SameHashOps DEF CP!HashOp, C!HashOp
  <2>2. QED
    BY <2>1 DEF C!Next
<1>4. ASSUME NEW k \in Key, CP!ListOp(k) PROVE C!Next
  <2>1. C!ListOp(k)
    BY <1>4, SameListOps DEF CP!ListOp, C!ListOp
  <2>2. QED
    BY <2>1 DEF C!Next
<1>5. ASSUME NEW k \in Key, CP!SetOp(k) PROVE C!Next
  <2>1. C!SetOp(k)
    BY <1>5, SameSetOps, SameTypes DEF CP!SetOp, C!SetOp
  <2>2. QED
    BY <2>1 DEF C!Next
<1>6. QED
  BY <1>1, <1>2, <1>3, <1>4, <1>5 DEF CP!Next

\* Whatever the handlers are sent (server.go:204-548), they do to the map only what a
\* caller of the cache could: what module Cache promises of its specification holds
\* of the keys behind a server.
THEOREM SessionsUseTheCache == Spec => C!Init /\ [][C!Next]_<<data, clock>>
<1>1. Init => C!Init
  BY DEF Init
<1>2. SessionInv /\ [Next]_vars => [C!Next]_<<data, clock>>
  <2> SUFFICES ASSUME SessionInv, [Next]_vars PROVE [C!Next]_<<data, clock>>
    OBVIOUS
  <2>1. ASSUME NEW c \in Commands \cup Typed, Request(c) PROVE [C!Next]_<<data, clock>>
    <3>1. Refused \/ Pinged(c) \/ Rejected(c) \/ \E r : Served(c, r)
      BY <2>1, SentIsWellSorted, RequestOutcome DEF SessionInv
    <3>2. QED
      BY <3>1, SameNext DEF Refused, Pinged, Rejected, Untouched, Served, Serves
  <2>2. CASE UNCHANGED vars
    BY <2>2 DEF vars, cache
  <2>3. QED
    BY <2>1, <2>2 DEF Next, C!Next
<1>3. QED
  BY <1>1, <1>2, SessionInvariant, PTL DEF Spec

-------------------------------------------------------------------------------
(* Deadlines *)

\* A call that leaves a value leaves it in the map.
LEMMA CallStores ==
  ASSUME CP!CacheInv, NEW op, NEW k \in Key, NEW args, NEW out,
         CP!Call(op, k, args, out), out.value # Absent
  PROVE  data'[k] = out.value /\ clock' = clock
<1>1. clock' = clock
  BY DEF CP!Call
<1>2. CASE out.value = CP!Find(k)
  BY <1>1, <1>2 DEF CP!Call, CP!Find
<1>3. CASE out.value # CP!Find(k)
  BY <1>1, <1>3 DEF CP!Call, CP!CacheInv
<1>4. QED
  BY <1>2, <1>3

\* What the three calls that move a deadline make of it.
LEMMA DeadlineWritten ==
  ASSUME CP!CacheInv, NEW k \in Key, NEW v \in Text, NEW ttl \in Int
  PROVE  /\ CP!Set(k, v, ttl) =>
              data'[k].exp = IF ttl > 0 THEN clock + ttl ELSE NoExpiry
         /\ CP!Expire(k, ttl) /\ CP!Find(k) # Absent => data'[k].exp = clock + ttl
         /\ CP!Persist(k) /\ CP!Find(k) # Absent => data'[k].exp = NoExpiry
<1> USE DEF CP!CacheValueAssumption, CP!AbsentAssumption, CP!CacheAssumption
<1>1. clock \in Int /\ CP!WellFormed(CP!Find(k))
  BY CacheSteps, SessionAssumption DEF CP!CacheInv
<1>2. ASSUME CP!Set(k, v, ttl)
      PROVE  data'[k].exp = IF ttl > 0 THEN clock + ttl ELSE NoExpiry
  <2> DEFINE x == IF ttl > 0 THEN clock + ttl ELSE NoExpiry
  <2>1. CP!Call("set", k, <<v, ttl>>, CP!SetOn(v, x))
    BY <1>2 DEF CP!Set
  <2>2. x \in Int \cup {NoExpiry}
    BY <1>1
  <2> HIDE DEF x
  <2> DEFINE n == CP!New("string", x)
             u == [n EXCEPT !.str = v]
  <2>3. "string" \in CP!ValueType
    BY DEF CP!ValueType
  <2>4. n \in CP!Value /\ n.exp = x
    BY <2>2, <2>3, Parameters, CP!NewFields
  <2> HIDE DEF n
  <2>5. v \in CP!Text \cup {NoText}
    BY SameTypes
  <2>6. u \in CP!Value /\ u.exp = x
    BY <2>4, <2>5, Parameters, CP!UpdateStr
  <2>7. CP!SetOn(v, x).value = u
    BY DEF CP!SetOn, CP!Outcome, n
  <2> HIDE DEF u
  <2>8. CP!SetOn(v, x).value # Absent
    BY <2>6, <2>7, Parameters, CP!ValueNotAbsent
  <2>9. QED
    BY <2>1, <2>6, <2>7, <2>8, CallStores DEF x
<1>3. ASSUME CP!Expire(k, ttl) \/ CP!Persist(k), CP!Find(k) # Absent
      PROVE  /\ CP!Expire(k, ttl) => data'[k].exp = clock + ttl
             /\ CP!Persist(k) => data'[k].exp = NoExpiry
  <2> DEFINE e == CP!Find(k)
  <2>1. e \in CP!Value
    BY <1>1, <1>3 DEF CP!WellFormed
  <2>2. ASSUME NEW x \in Int \cup {NoExpiry}, NEW op, NEW args, NEW out,
               CP!Call(op, k, args, out), out.value = [e EXCEPT !.exp = x]
        PROVE  data'[k].exp = x
    <3> DEFINE u == [e EXCEPT !.exp = x]
    <3>1. u \in CP!Value /\ u.exp = x
      BY <2>1, Parameters, CP!UpdateExp
    <3>2. out.value = u
      BY <2>2
    <3> HIDE DEF u
    <3>3. u # Absent
      BY <3>1, Parameters, CP!ValueNotAbsent
    <3>4. data'[k] = u
      BY <2>2, <3>2, <3>3, CallStores
    <3>5. QED
      BY <3>1, <3>4
  <2>3. clock + ttl \in Int \cup {NoExpiry}
    BY <1>1
  <2>4. /\ CP!ExpireOn(e, clock + ttl).value = [e EXCEPT !.exp = clock + ttl]
        /\ CP!PersistOn(e).value = [e EXCEPT !.exp = NoExpiry]
    BY <1>3 DEF CP!ExpireOn, CP!PersistOn, CP!Outcome
  <2>5. CP!Expire(k, ttl) => CP!Call("expire", k, <<ttl>>, CP!ExpireOn(e, clock + ttl))
    BY DEF CP!Expire
  <2>6. CP!Persist(k) => CP!Call("persist", k, <<>>, CP!PersistOn(e))
    BY DEF CP!Persist
  <2> HIDE DEF e
  <2>7. CP!Expire(k, ttl) => data'[k].exp = clock + ttl
    BY <2>2, <2>3, <2>4, <2>5
  <2>8. CP!Persist(k) => data'[k].exp = NoExpiry
    BY <2>2, <2>4, <2>6
  <2>9. QED
    BY <2>7, <2>8
<1>4. QED
  BY <1>2, <1>3

\* The same for a request that the server served.
LEMMA DeadlineServed ==
  ASSUME CP!CacheInv, NEW c, NEW r, WellSorted(c), Served(c, r)
  PROVE  /\ c.key \in Key /\ r.ttl \in Duration
         /\ last'[1] = MethodOf(c.type) /\ last'[2] = c.key
         /\ c.type = "set" =>
              data'[c.key].exp = IF r.ttl > 0 THEN clock + r.ttl ELSE NoExpiry
         /\ c.type = "expire" /\ CP!Find(c.key) # Absent => data'[c.key].exp = clock + r.ttl
         /\ c.type = "persist" /\ CP!Find(c.key) # Absent => data'[c.key].exp = NoExpiry
<1>1. /\ c.key \in Key /\ r.ttl \in Duration /\ r.type = c.type /\ r.key = c.key
      /\ r.args = c.args /\ Run(r) /\ last'[1] = MethodOf(c.type) /\ last'[2] = c.key
  BY DEF Served, Serves, WellSorted, Arrives, CommandType
<1>2. r.ttl \in Int
  BY <1>1, ProtocolAssumption DEF Duration
<1>3. PICK t \in Text : TRUE
  BY CacheValueAssumption DEF Text, Int64
<1>4. c.type = "expire" => CP!Expire(c.key, r.ttl)
  BY <1>1, SameKeyOps DEF Run
<1>5. c.type = "persist" => CP!Persist(c.key)
  BY <1>1, SameKeyOps DEF Run
<1>6. c.type = "set" => CP!Set(c.key, r.args[1], r.ttl) /\ r.args[1] \in Text
  <2> SUFFICES ASSUME c.type = "set"
               PROVE  CP!Set(c.key, r.args[1], r.ttl) /\ r.args[1] \in Text
    OBVIOUS
  <2>1. CP!Set(c.key, r.args[1], r.ttl)
    BY <1>1, SameKeyOps DEF Run
  <2>2. r.args \in Seq(Text)
    BY <1>1 DEF WellSorted, OnHash
  <2>3. Len(r.args) >= 1
    BY <1>1 DEF Served, MinArgs
  <2>4. QED
    BY <2>1, <2>2, <2>3
<1>7. QED
  BY <1>1, <1>2, <1>3, <1>4, <1>5, <1>6, DeadlineWritten
\* What the property says of one key and one step.
RoundedDown(k) ==
  \/ last'[1] = "set" /\ last'[2] = k /\ cmd'.ttl >= Second
  \/ last'[1] = "expire" /\ last'[2] = k /\ cmd'.ttl >= 0 /\ C!Find(k) # Absent
  => /\ data'[k].exp - clock <= cmd'.ttl
     /\ data'[k].exp - clock > cmd'.ttl - Second

LEMMA UntouchedIsIdle == Untouched => last'[1] = "idle"
BY DEF Untouched

LEMMA BackgroundIsIdle == C!cleanupExpired \/ C!Tick => last'[1] = "idle"
BY DEF C!cleanupExpired, C!Tick

LEMMA RequestRoundsDown ==
  ASSUME CP!CacheInv, NEW c, WellSorted(c), Request(c), NEW k \in Key
  PROVE  RoundedDown(k)
<1>1. cmd' = c
  BY DEF Request
<1>2. CASE Refused \/ Pinged(c) \/ Rejected(c)
  BY <1>2, UntouchedIsIdle DEF Refused, Pinged, Rejected, RoundedDown
<1>3. ASSUME NEW r, Served(c, r) PROVE RoundedDown(k)
  <2>1. /\ last'[1] = MethodOf(c.type) /\ last'[2] = c.key
        /\ c.type = "set" =>
             data'[c.key].exp = IF r.ttl > 0 THEN clock + r.ttl ELSE NoExpiry
        /\ c.type = "expire" /\ CP!Find(c.key) # Absent => data'[c.key].exp = clock + r.ttl
    BY <1>3, DeadlineServed
  <2>2. ASSUME c.ttl >= 0
        PROVE  r.ttl \in 0 .. MaxDuration /\ r.ttl <= c.ttl /\ c.ttl < r.ttl + Second
    <3>1. c.ttl \in 0 .. MaxDuration
      BY <2>2, ProtocolAssumption DEF WellSorted, CommandRecord, Duration
    <3>2. PICK n \in SerializeTTL(c.ttl) : r.ttl = deserializeTTL(n)
      BY <1>3 DEF Served, Arrives
    <3>3. QED
      BY <3>1, <3>2, TtlRoundTrip
  <2>3. c.ttl \in Int /\ clock \in Int /\ Second \in Nat \ {0} /\ MaxDuration \in Nat
    BY ProtocolAssumption, SessionAssumption
      DEF WellSorted, CommandRecord, Duration, CP!CacheInv
  <2>4. ASSUME last'[1] = "set" /\ last'[2] = k /\ c.ttl >= Second
        PROVE  data'[k].exp = clock + r.ttl /\ c.ttl >= 0
    <3>1. c.type = "set"
      BY <2>1, <2>4 DEF MethodOf
    <3>2. c.ttl >= 0
      BY <2>3, <2>4
    <3>3. r.ttl > 0
      BY <2>2, <2>3, <2>4, <3>2
    <3>4. QED
      BY <2>1, <2>4, <3>1, <3>2, <3>3
  <2>5. ASSUME last'[1] = "expire" /\ last'[2] = k /\ C!Find(k) # Absent
        PROVE  data'[k].exp = clock + r.ttl
    <3>1. c.type = "expire"
      BY <2>1, <2>5 DEF MethodOf
    <3>2. QED
      BY <2>1, <2>5, <3>1, SameFind
  <2> DEFINE x == data'[k].exp
  <2>6. ASSUME c.ttl >= 0, x = clock + r.ttl
        PROVE  x - clock <= c.ttl /\ x - clock > c.ttl - Second
    <3> HIDE DEF x
    <3>1. QED
      BY <2>2, <2>3, <2>6
  <2> HIDE DEF x
  <2>7. QED
    BY <1>1, <2>4, <2>5, <2>6 DEF RoundedDown, x
<1>4. QED
  BY <1>2, <1>3, RequestOutcome

\* The wire's seconds cost a key less than one of its TTL and never add to it, from
\* the Duration of the caller (client.go:396, 638) to the deadline in the map: what
\* protocol.go:178 cuts off is all that is lost.
THEOREM DeadlinesRoundDown == Spec => DeadlineRoundedDown
<1>1. SessionInv /\ [Next]_vars => [\A k \in Key : RoundedDown(k)]_vars
  <2> SUFFICES ASSUME SessionInv, Next, NEW k \in Key PROVE RoundedDown(k)
    OBVIOUS
  <2>1. ASSUME NEW c \in Commands \cup Typed, Request(c) PROVE RoundedDown(k)
    BY <2>1, SentIsWellSorted, RequestRoundsDown DEF SessionInv
  <2>2. CASE C!cleanupExpired \/ C!Tick
    BY <2>2, BackgroundIsIdle DEF RoundedDown
  <2>3. QED
    BY <2>1, <2>2 DEF Next
<1>2. QED
  BY <1>1, SessionInvariant, PTL DEF DeadlineRoundedDown, RoundedDown, Spec
\* No deadline is further away than a Duration reaches.
DeadlineInv ==
  \A k \in Key : CP!Find(k) # Absent /\ CP!Find(k).exp # NoExpiry =>
    CP!Find(k).exp <= clock + MaxDuration

\* A step of the cache that answers a call, and what it may have made of a deadline.
LEMMA ClockForward ==
  ASSUME CP!CacheInv, CP!Next
  PROVE  clock' \in Int /\ clock' >= clock
<1> USE DEF CP!CacheValueAssumption, CP!AbsentAssumption, CP!CacheAssumption
<1>1. clock \in Int
  BY SessionAssumption DEF CP!CacheInv
<1>2. CP!StepKinds
  BY Parameters, CP!NextIsStepKind
<1>3. clock' = clock \/ clock' = clock + 1
  BY <1>2 DEF CP!StepKinds, CP!EditsKey, CP!Writes, CP!Set, CP!Expire, CP!Persist, CP!Call,
              CP!Del, CP!cleanupExpired, CP!Tick
<1>4. QED
  BY <1>1, <1>3

LEMMA StepKeepsFinite ==
  ASSUME CP!CacheInv, CP!FiniteInv, CP!Next
  PROVE  CP!FiniteInv'
<1> USE DEF CP!CacheValueAssumption, CP!AbsentAssumption, CP!CacheAssumption
<1>1. CASE Key = {}
  BY <1>1 DEF CP!FiniteInv
<1>2. CASE Key # {}
  <2>1. PICK k \in Key : TRUE
    BY <1>2
  <2>2. QED
    BY <2>1, Parameters, CP!StepsOfKeys
<1>3. QED
  BY <1>1, <1>2

\* A live value has the deadline it had, or none, or one that this call gave it.
LEMMA DeadlineOrigin ==
  ASSUME CP!CacheInv, CP!FiniteInv, CP!Next, NEW k \in Key,
         CP!Find(k)' # Absent, CP!Find(k)'.exp # NoExpiry
  PROVE  /\ CP!Find(k)' = data'[k]
         /\ \/ CP!Find(k) # Absent /\ CP!Find(k)'.exp = CP!Find(k).exp
            \/ last'[1] = "set" /\ last'[2] = k
            \/ last'[1] \in {"expire", "persist"} /\ last'[2] = k /\ CP!Find(k) # Absent
<1> USE DEF CP!CacheValueAssumption, CP!AbsentAssumption, CP!CacheAssumption
<1>1. CP!KeyStep(k)
  BY Parameters, CP!StepsOfKeys
<1>2. CP!LiveStep(k)
  BY Parameters, CP!StepsKeepLive
<1>3. CP!Find(k)' = data'[k]
  BY DEF CP!Find
<1>4. CASE CP!Find(k) = Absent
  BY <1>1, <1>3, <1>4 DEF CP!KeyStep, CP!Answers
<1>5. CASE CP!Find(k) # Absent
  BY <1>2, <1>3, <1>5 DEF CP!LiveStep, CP!Answers
<1>6. QED
  BY <1>4, <1>5

LEMMA ServedKeepsDeadlines ==
  ASSUME CP!CacheInv, CP!FiniteInv, DeadlineInv, NEW c, NEW r, WellSorted(c), Served(c, r)
  PROVE  DeadlineInv'
<1> SUFFICES ASSUME NEW k \in Key, CP!Find(k)' # Absent, CP!Find(k)'.exp # NoExpiry
             PROVE  CP!Find(k)'.exp <= clock' + MaxDuration
  BY DEF DeadlineInv
<1>1. CP!Next
  BY DEF Served, Serves
<1>2. clock \in Int /\ clock' \in Int /\ clock' >= clock /\ MaxDuration \in Nat
  BY <1>1, ClockForward, ProtocolAssumption, SessionAssumption DEF CP!CacheInv
<1>3. /\ CP!Find(k)' = data'[k]
      /\ \/ CP!Find(k) # Absent /\ CP!Find(k)'.exp = CP!Find(k).exp
         \/ last'[1] = "set" /\ last'[2] = k
         \/ last'[1] \in {"expire", "persist"} /\ last'[2] = k /\ CP!Find(k) # Absent
  BY <1>1, DeadlineOrigin
<1>4. /\ r.ttl \in Duration /\ last'[1] = MethodOf(c.type) /\ last'[2] = c.key
      /\ c.type = "set" =>
           data'[c.key].exp = IF r.ttl > 0 THEN clock + r.ttl ELSE NoExpiry
      /\ c.type = "expire" /\ CP!Find(c.key) # Absent => data'[c.key].exp = clock + r.ttl
      /\ c.type = "persist" /\ CP!Find(c.key) # Absent => data'[c.key].exp = NoExpiry
  BY DeadlineServed
<1>5. r.ttl \in Int /\ r.ttl <= MaxDuration
  BY <1>2, <1>4 DEF Duration
<1> DEFINE x == CP!Find(k)'.exp
<1>6. CASE CP!Find(k) # Absent /\ CP!Find(k)'.exp = CP!Find(k).exp
  <2>1. x <= clock + MaxDuration /\ x = CP!Find(k).exp
    BY <1>6 DEF DeadlineInv
  <2>2. CP!Find(k) \in CP!Value
    BY <1>6, CacheSteps DEF CP!WellFormed
  <2>3. x \in Int
    BY <1>6, <2>1, <2>2 DEF CP!Value
  <2> HIDE DEF x
  <2>4. x <= clock' + MaxDuration
    BY <1>2, <2>1, <2>3
  <2>5. QED
    BY <2>4 DEF x
<1>7. CASE /\ last'[2] = k
           /\ last'[1] = "set" \/ (last'[1] \in {"expire", "persist"} /\ CP!Find(k) # Absent)
  <2>1. c.type = last'[1] /\ c.key = k
    BY <1>4, <1>7 DEF MethodOf
  <2>2. x = clock + r.ttl
    BY <1>3, <1>4, <1>7, <2>1
  <2> HIDE DEF x
  <2>3. x <= clock' + MaxDuration
    BY <1>2, <1>5, <2>2
  <2>4. QED
    BY <2>3 DEF x
<1>8. QED
  BY <1>3, <1>6, <1>7
LEMMA BackgroundKeepsDeadlines ==
  ASSUME CP!CacheInv, DeadlineInv, CP!cleanupExpired \/ CP!Tick
  PROVE  DeadlineInv'
<1> SUFFICES ASSUME NEW k \in Key, CP!Find(k)' # Absent, CP!Find(k)'.exp # NoExpiry
             PROVE  CP!Find(k)'.exp <= clock' + MaxDuration
  BY DEF DeadlineInv
<1>1. CP!Find(k)' = CP!Find(k)
  BY Parameters, CP!BackgroundFind
    DEF CP!CacheValueAssumption, CP!AbsentAssumption, CP!CacheAssumption
<1>2. clock \in Int /\ clock' \in Int /\ clock' >= clock /\ MaxDuration \in Nat
  BY ClockForward, ProtocolAssumption, SessionAssumption DEF CP!CacheInv, CP!Next
<1>3. CP!Find(k) \in CP!Value
  BY <1>1, CacheSteps DEF CP!WellFormed
<1>4. PICK x \in Int : x = CP!Find(k).exp
  BY <1>1, <1>3 DEF CP!Value
<1>5. x <= clock + MaxDuration
  BY <1>1, <1>4 DEF DeadlineInv
<1>6. x <= clock' + MaxDuration
  BY <1>2, <1>4, <1>5, SMTT(20)
<1>7. QED
  BY <1>1, <1>4, <1>6

TimesInv == SessionInv /\ CP!FiniteInv /\ DeadlineInv

LEMMA SameCacheKeepsTimes ==
  ASSUME CP!FiniteInv, DeadlineInv, UNCHANGED <<data, clock>>
  PROVE  CP!FiniteInv' /\ DeadlineInv'
<1>1. CP!FiniteInv'
  BY DEF CP!FiniteInv, CP!FiniteValue
<1>2. DeadlineInv'
  BY DEF DeadlineInv, CP!Find, CP!isExpired
<1>3. QED
  BY <1>1, <1>2

LEMMA InitTimesInv == Init => TimesInv
<1> SUFFICES ASSUME Init PROVE TimesInv
  OBVIOUS
<1>1. \A k \in Key : data[k] = Absent
  BY DEF Init, C!Init
<1>2. QED
  BY <1>1, InitSessionInv DEF TimesInv, DeadlineInv, CP!Find, CP!FiniteInv, CP!FiniteValue

LEMMA NextKeepsTimesInv == TimesInv /\ [Next]_vars => TimesInv'
<1> SUFFICES ASSUME TimesInv, [Next]_vars PROVE CP!FiniteInv' /\ DeadlineInv'
  BY NextKeepsSessionInv DEF TimesInv
<1>1. CP!CacheInv /\ CP!FiniteInv /\ DeadlineInv
  BY DEF TimesInv, SessionInv
<1>2. ASSUME NEW c \in Commands \cup Typed, Request(c) PROVE CP!FiniteInv' /\ DeadlineInv'
  <2>1. WellSorted(c)
    BY SentIsWellSorted
  <2>2. CASE Refused \/ Pinged(c) \/ Rejected(c)
    BY <1>1, <2>2, SameCacheKeepsTimes DEF Refused, Pinged, Rejected, Untouched
  <2>3. ASSUME NEW r, Served(c, r) PROVE CP!FiniteInv' /\ DeadlineInv'
    <3>1. CP!FiniteInv'
      BY <1>1, <2>3, StepKeepsFinite DEF Served, Serves
    <3>2. DeadlineInv'
      BY <1>1, <2>1, <2>3, ServedKeepsDeadlines
    <3>3. QED
      BY <3>1, <3>2
  <2>4. QED
    BY <1>1, <1>2, <2>1, <2>2, <2>3, RequestOutcome
<1>3. CASE C!cleanupExpired \/ C!Tick
  <2>1. CP!cleanupExpired \/ CP!Tick
    BY <1>3, SameBackground
  <2>2. QED
    BY <1>1, <2>1, StepKeepsFinite, BackgroundKeepsDeadlines DEF CP!Next
<1>4. CASE UNCHANGED vars
  BY <1>1, <1>4, SameCacheKeepsTimes DEF vars, cache
<1>5. QED
  BY <1>2, <1>3, <1>4 DEF Next

\* However the clients set their TTLs, no live key is further from its deadline than
\* the longest Duration: the seconds of a TTL always fit into a response.
THEOREM DeadlinesInReach == Spec => []TimesInv
BY InitTimesInv, NextKeepsTimesInv, PTL DEF Spec
\* What TTL tells a caller of a key that holds e.
TtlSays(e, now, answer) ==
  /\ answer = Done(-2 * Second) <=> (e = Absent \/ e.exp = now)
  /\ answer = Done(-Second) <=> (e # Absent /\ e.exp = NoExpiry)
  /\ (e # Absent /\ e.exp # NoExpiry /\ e.exp # now) =>
       answer[2] <= e.exp - now /\ e.exp - now < answer[2] + Second

LEMMA TtlOfValue ==
  ASSUME NEW e, NEW now \in Int, e # Absent => e.exp \in Int \cup {NoExpiry},
         e # Absent /\ e.exp # NoExpiry => e.exp >= now /\ e.exp <= now + MaxDuration
  PROVE  LET s == Seconds(CP!TTLOn(e, now).result)
         IN  s \in Duration /\ TtlSays(e, now, Done(s * Second))
<1> DEFINE n == CP!TTLOn(e, now).result
           s == Seconds(n)
<1>1. MaxDuration \in Nat \ {0} /\ Second \in Nat \ {0} /\ NoExpiry \notin Int
  BY ProtocolAssumption, CacheValueAssumption
<1>2. n = IF e = Absent THEN -2
          ELSE IF e.exp = NoExpiry THEN -1
          ELSE IF e.exp - now <= 0 THEN -2
          ELSE e.exp - now
  BY DEF CP!TTLOn, CP!Outcome
<1>3. \A a, b : Done(a) = Done(b) <=> a = b
  BY DEF Done
<1>4. \A a : Done(a)[2] = a
  BY DEF Done
<1>5. \A a \in Int : a * Second \in Int
  BY <1>1
<1>6. CASE e = Absent \/ e.exp = now
  <2>1. s = -2
    BY <1>1, <1>2, <1>6 DEF Seconds
  <2> HIDE DEF s
  <2>2. s \in Duration /\ s * Second = -2 * Second /\ -2 * Second # -Second
    BY <1>1, <2>1 DEF Duration
  <2>3. ~ (e # Absent /\ e.exp = NoExpiry)
    BY <1>1, <1>6
  <2>4. TtlSays(e, now, Done(s * Second))
    BY <1>3, <1>6, <2>2, <2>3 DEF TtlSays
  <2>5. QED
    BY <2>2, <2>4 DEF s
<1>7. CASE e # Absent /\ e.exp = NoExpiry
  <2>1. s = -1
    BY <1>2, <1>7 DEF Seconds
  <2> HIDE DEF s
  <2>2. s \in Duration /\ s * Second = -Second /\ -2 * Second # -Second
    BY <1>1, <2>1 DEF Duration
  <2>3. e.exp # now
    BY <1>1, <1>7
  <2>4. TtlSays(e, now, Done(s * Second))
    BY <1>3, <1>7, <2>2, <2>3 DEF TtlSays
  <2>5. QED
    BY <2>2, <2>4 DEF s
<1>8. CASE e # Absent /\ e.exp # NoExpiry /\ e.exp # now
  <2> DEFINE left == e.exp - now
  <2>1. e.exp \in Int /\ left \in Nat /\ left > 0 /\ left <= MaxDuration
    BY <1>1, <1>8
  <2>2. n = left
    BY <1>2, <1>8, <2>1
  <2> HIDE DEF left, n
  <2>3. s = left \div Second
    BY <2>1, <2>2 DEF Seconds
  <2> HIDE DEF s
  <2>4. s \in Nat /\ s * Second <= left /\ left < s * Second + Second
    BY <1>1, <2>1, <2>3, DivMod
  <2>5. s <= s * Second /\ s * Second \in Nat
    BY <1>1, <2>4, TimesAtLeast
  <2>6. s \in Duration
    BY <1>1, <2>1, <2>4, <2>5 DEF Duration
  <2>7. s * Second # -2 * Second /\ s * Second # -Second
    BY <1>1, <2>5
  <2>8. TtlSays(e, now, Done(s * Second))
    BY <1>3, <1>4, <1>8, <2>4, <2>7 DEF TtlSays, left
  <2>9. QED
    BY <2>6, <2>8 DEF s, n
<1>9. QED
  BY <1>6, <1>7, <1>8

\* The number the server answers TTL with reaches the caller, in ticks.
LEMMA TtlIsRead ==
  ASSUME NEW s \in Duration
  PROVE  Read("ttl", Response("int", s)) = Done(s * Second)
<1> DEFINE a == Response("int", s)
<1>1. ReadResponse(a) = a /\ a # Malformed
  BY NumbersFit
<1>2. a.type = "int" /\ a.data = s /\ a # Nothing
  BY ResponseFields, NothingType
<1>3. "int" \in Expected("ttl")
  BY DEF Expected
<1> HIDE DEF a
<1>4. QED
  BY <1>1, <1>2, <1>3 DEF Read, a

LEMMA RequestTellsTtl ==
  ASSUME CP!CacheInv, DeadlineInv, NEW c, WellSorted(c), Request(c), NEW k \in Key,
         last'[1] = "ttl", last'[2] = k
  PROVE  TtlSays(CP!Find(k), clock, reply')
<1>1. reply' = Read(c.type, resp')
  BY DEF Request
<1>2. PICK r : Served(c, r)
  BY RequestOutcome, UntouchedIsIdle DEF Refused, Pinged, Rejected
<1>3. c.type = "ttl" /\ c.key = k /\ r.type = "ttl" /\ r.key = k
  BY <1>2 DEF Served, Serves, MethodOf, Arrives
<1>4. C!TTL(k)
  BY <1>2, <1>3 DEF Served, Run
<1>5. CP!TTL(k)
  BY <1>4, SameKeyOps
<1> DEFINE e == CP!Find(k)
           n == CP!TTLOn(e, clock).result
<1>6. last'[4] = n
  BY <1>5, CallLeavesLast DEF CP!TTL
<1>7. resp' = Response("int", Seconds(n))
  BY <1>2, <1>3, <1>6 DEF Served, Answers
<1>8. clock \in Int /\ MaxDuration \in Nat
  BY ProtocolAssumption, SessionAssumption DEF CP!CacheInv
<1>9. e # Absent => e.exp \in Int \cup {NoExpiry}
  BY CacheSteps DEF CP!WellFormed, CP!Value
<1>10. e # Absent /\ e.exp # NoExpiry => e.exp >= clock /\ e.exp <= clock + MaxDuration
  <2>1. e # Absent /\ e.exp # NoExpiry => ~ (clock > e.exp)
    BY DEF CP!Find, CP!isExpired
  <2>2. QED
    BY <1>8, <1>9, <2>1 DEF DeadlineInv
<1> HIDE DEF e
<1>11. Seconds(n) \in Duration /\ TtlSays(e, clock, Done(Seconds(n) * Second))
  BY <1>8, <1>9, <1>10, TtlOfValue
<1> HIDE DEF n
<1>12. reply' = Done(Seconds(n) * Second)
  BY <1>1, <1>3, <1>7, <1>11, TtlIsRead
<1>13. QED
  BY <1>11, <1>12 DEF e

\* Client.TTL (client.go:690-713) gives its three kinds of answer to the three kinds of
\* key, and whole seconds rounded down to the one that has a deadline: no response is
\* refused by a reader's limit, no product of seconds wraps around, and -1 and -2 are
\* never taken for seconds left.
THEOREM TtlAlwaysTold == Spec => TtlReplies
<1>1. TimesInv /\ [Next]_vars =>
        [\A k \in Key : last'[1] = "ttl" /\ last'[2] = k =>
           TtlSays(C!Find(k), clock, reply')]_vars
  <2> SUFFICES ASSUME TimesInv, Next, NEW k \in Key, last'[1] = "ttl", last'[2] = k
               PROVE  TtlSays(C!Find(k), clock, reply')
    OBVIOUS
  <2>1. ASSUME NEW c \in Commands \cup Typed, Request(c)
        PROVE  TtlSays(C!Find(k), clock, reply')
    BY <2>1, SentIsWellSorted, RequestTellsTtl, SameFind DEF TimesInv, SessionInv
  <2>2. QED
    BY <2>1, BackgroundIsIdle DEF Next
<1>2. QED
  BY <1>1, DeadlinesInReach, PTL DEF TtlReplies, TtlSays, Spec

-------------------------------------------------------------------------------
(* What fits into a frame *)

\* A text fits into an array of its own, and so into a string; a field and its value
\* fit into an array.
ItemFits(t) == Bytes(t) + 2 <= MaxFrame
PairFits(f, v) == Bytes(f) + Bytes(v) + 2 <= MaxFrame

LEMMA UvarintLenSmall ==
  ASSUME NEW n \in 0 .. 127
  PROVE  UvarintLen(n) = 1
<1>1. 128 ^ 1 = 128
  OBVIOUS
<1>2. n < 128 ^ 1 /\ \A a \in 1 .. 1 - 1 : n >= 128 ^ a
  BY <1>1
<1>3. ASSUME NEW b \in 1 .. 10, \A a \in 1 .. b - 1 : n >= 128 ^ a
      PROVE  b = 1
  <2>1. b > 1 => 1 \in 1 .. b - 1
    OBVIOUS
  <2>2. b > 1 => n >= 128 ^ 1
    BY <1>3, <2>1
  <2>. QED  BY <1>1, <2>2
<1>. QED  BY <1>2, <1>3 DEF UvarintLen

LEMMA LengthFits ==
  ASSUME NEW n \in Nat, n < 2 * (MaxDuration + 1)
  PROVE  UvarintLen(n) \in 1 .. 10
<1>1. PICK b \in 1 .. 10 : 2 * (MaxDuration + 1) <= 128 ^ b
  BY FrameAssumption
<1>2. MaxDuration \in Nat /\ 128 ^ b \in Int
  BY ProtocolAssumption
<1>3. n < 128 ^ b
  BY <1>1, <1>2
<1>. QED  BY <1>3, UvarintLenInRange

\* The seconds of a TTL, wrapped around or not, are a uint64.
LEMMA SecondsWritten ==
  ASSUME NEW ttl \in Duration, NEW n \in SerializeTTL(ttl)
  PROVE  n \in Nat /\ n < 2 * (MaxDuration + 1)
<1>1. Second \in Nat \ {0} /\ MaxDuration \in Nat /\ ttl \in Int
      /\ -(MaxDuration + 1) <= ttl /\ ttl <= MaxDuration
  BY ProtocolAssumption DEF Duration
<1>2. CASE ttl >= 0
  <2>1. n = ttl \div Second
    BY <1>2 DEF SerializeTTL
  <2>2. n \in Nat /\ n * Second <= ttl
    BY <1>1, <1>2, <2>1, DivMod
  <2>3. n <= n * Second /\ n * Second \in Nat
    BY <1>1, <2>2, TimesAtLeast
  <2>. QED  BY <1>1, <2>2, <2>3
<1>3. CASE ~ (ttl >= 0)
  <2> DEFINE a == -ttl
             q == a \div Second
  <2>1. a \in Nat /\ a <= MaxDuration + 1 /\ (~ (ttl > -Second) => a >= Second)
    BY <1>1, <1>3
  <2>2. n = 0 \/ (~ (ttl > -Second) /\ n = 2 * (MaxDuration + 1) - q)
    BY <1>3 DEF SerializeTTL
  <2> HIDE DEF a
  <2>3. q \in Nat /\ q * Second <= a /\ a < q * Second + Second
    BY <1>1, <2>1, DivMod
  <2> HIDE DEF q
  <2>4. q <= q * Second /\ q * Second \in Nat
    BY <1>1, <2>3, TimesAtLeast
  <2>5. a >= Second => q > 0
    BY <1>1, <2>1, <2>3
  <2>. QED  BY <1>1, <2>1, <2>2, <2>3, <2>4, <2>5
<1>. QED  BY <1>2, <1>3

\* The sizes of a command that a server accepts.
LEMMA CommandSizes ==
  ASSUME NEW c, WellSorted(c), c.key \in Key,
         NEW n \in SerializeTTL(c.ttl), ~ (CommandLen(c, n) > MaxFrame)
  PROVE  /\ \A i \in DOMAIN c.args : Bytes(c.args[i]) \in Nat /\ ItemFits(c.args[i])
         /\ Len(c.args) >= 2 => PairFits(c.args[1], c.args[2])
<1> DEFINE D == DOMAIN c.args
           f == [i \in D |-> Bytes(c.args[i])]
           l == Len(c.args)
<1>1. c.args \in Seq(Text \cup Field) /\ c.ttl \in Duration /\ l <= MaxDuration
  BY DEF WellSorted, CommandRecord
<1>2. l \in Nat /\ D = 1 .. l
  BY <1>1
<1>3. \A i \in D : c.args[i] \in Text \cup Field
  BY <1>1
<1>4. f \in [D -> Nat] /\ \A i \in D : f[i] = Bytes(c.args[i])
  <2>1. \A x \in Text \cup Field : Bytes(x) \in Nat
    BY SizeAssumption
  <2>2. \A i \in D : Bytes(c.args[i]) \in Nat
    BY <1>3, <2>1
  <2> HIDE DEF D
  <2>. QED  BY <2>2
<1>5. IsFiniteSet(D)
  <2>1. 1 \in Int /\ l \in Int
    BY <1>2
  <2>2. IsFiniteSet(1 .. l)
    BY <2>1, FS_Interval, Zenon
  <2>. QED  BY <1>2, <2>2
<1>6. CommandLen(c, n) = 1 + Bytes(c.key) + (UvarintLen(l) + SumFunction(f)) + UvarintLen(n)
  BY DEF CommandLen, SliceLen
<1> HIDE DEF f, D
<1> DEFINE s == SumFunction(f)
<1>7. /\ s \in Nat /\ \A i \in D : f[i] <= s
      /\ \A i, j \in D : i # j => f[i] + f[j] <= s
  BY <1>4, <1>5, SumAtLeast
<1>8. Bytes(c.key) \in Nat \ {0} /\ MaxFrame \in Nat /\ MaxDuration \in Nat
  BY SizeAssumption, ProtocolAssumption
<1>9. UvarintLen(n) \in 1 .. 10
  BY <1>1, SecondsWritten, LengthFits
<1> HIDE DEF l
<1>10. l < 2 * (MaxDuration + 1)
  BY <1>1, <1>2, <1>8
<1>11. UvarintLen(l) \in 1 .. 10
  BY <1>2, <1>10, LengthFits
<1> HIDE DEF s
<1>12. CommandLen(c, n) = 1 + Bytes(c.key) + (UvarintLen(l) + s) + UvarintLen(n)
  BY <1>6 DEF s
<1>13. s + 2 <= MaxFrame
  BY <1>7, <1>8, <1>9, <1>11, <1>12
<1>14. \A i \in D : Bytes(c.args[i]) \in Nat /\ Bytes(c.args[i]) <= s
  BY <1>4, <1>7
<1>15. l >= 2 => Bytes(c.args[1]) + Bytes(c.args[2]) <= s
  <2>1. l >= 2 => 1 \in D /\ 2 \in D
    BY <1>2
  <2>. QED  BY <1>4, <1>7, <2>1
<1>16. \A i \in D : Bytes(c.args[i]) + 2 <= MaxFrame
  BY <1>7, <1>8, <1>13, <1>14
<1>17. l >= 2 => Bytes(c.args[1]) + Bytes(c.args[2]) + 2 <= MaxFrame
  <2>1. l >= 2 => 1 \in D /\ 2 \in D
    BY <1>2
  <2>. QED  BY <1>7, <1>8, <1>13, <1>14, <1>15, <2>1
<1>. QED  BY <1>14, <1>16, <1>17 DEF ItemFits, PairFits, D, l

-------------------------------------------------------------------------------
(* Answers that reach the caller *)

LEMMA DataTypes ==
  /\ 0 \in Int /\ Int64 \subseteq Duration /\ 0 .. MaxDuration \subseteq Duration
  /\ Duration \subseteq Int /\ MaxList <= MaxDuration
BY SizeAssumption, CacheValueAssumption, ProtocolAssumption DEF Int64, Duration

\* A response that fits is read as it was written.
LEMMA FittingIsRead ==
  ASSUME NEW type \in ResponseType,
         NEW x \in Int \cup Text \cup Seq(Text \cup Field),
         type \in {"ok", "nil"} => x = 0,
         ~ (ResponseLen(Response(type, x)) > MaxFrame)
  PROVE  /\ ReadResponse(Response(type, x)) = Response(type, x)
         /\ Response(type, x) # Malformed /\ Response(type, x) # Nothing
<1> DEFINE a == Response(type, x)
<1>1. a.type = type /\ a.data = x /\ a = [type |-> type, data |-> x]
  BY ResponseFields DEF Response
<1>2. a \in [type : ResponseType, data : Int \cup Text \cup Seq(Text \cup Field)]
  BY <1>1
<1>3. a # Malformed
  BY <1>2, SizeAssumption
<1>4. a # Nothing
  BY <1>1, NothingType
<1>5. type \in {"ok", "nil"} => a = Response(type, 0)
  OBVIOUS
<1> HIDE DEF a
<1>6. DeserializeResponse(a) = a
  BY <1>1, <1>5 DEF DeserializeResponse
<1>7. ReadResponse(a) = a
  BY <1>6 DEF ReadResponse, a
<1>. QED  BY <1>3, <1>4, <1>7 DEF a

LEMMA NumberAnswers ==
  ASSUME NEW type, "int" \in Expected(type), NEW n \in Duration
  PROVE  Read(type, Response("int", n))[1] = "ok"
<1> DEFINE a == Response("int", n)
<1>1. ReadResponse(a) = a /\ a # Malformed
  BY NumbersFit
<1>2. a.type = "int" /\ a # Nothing
  BY ResponseFields, NothingType
<1>3. \A value : Done(value)[1] = "ok"
  BY DEF Done
<1> HIDE DEF a
<1>4. Read(type, a)[1] = "ok"
  BY <1>1, <1>2, <1>3 DEF Read
<1>. QED  BY <1>4 DEF a

LEMMA OkAnswers ==
  ASSUME NEW type \in {"set", "hset"}
  PROVE  Read(type, Response("ok", 0))[1] = "ok"
<1> DEFINE a == Response("ok", 0)
<1>1. a.type = "ok"
  BY ResponseFields
<1>2. ResponseLen(a) = 1
  BY <1>1 DEF ResponseLen
<1>3. ~ (ResponseLen(a) > MaxFrame)
  BY <1>2, FrameAssumption, ProtocolAssumption
<1>4. ReadResponse(a) = a /\ a # Malformed /\ a # Nothing
  BY <1>3, DataTypes, FittingIsRead DEF ResponseType
<1>5. "ok" \in Expected(type)
  BY DEF Expected, ResponseType
<1>6. \A value : Done(value)[1] = "ok"
  BY DEF Done
<1> HIDE DEF a
<1>7. Read(type, a)[1] = "ok"
  BY <1>1, <1>4, <1>5, <1>6 DEF Read
<1>. QED  BY <1>7 DEF a

LEMMA TextAnswers ==
  ASSUME NEW type \in {"get", "hget", "lpop", "rpop"}, NEW t \in Text, ItemFits(t)
  PROVE  Read(type, Response("string", t)) = Done(t) /\ Done(t)[1] = "ok"
<1> DEFINE a == Response("string", t)
<1>1. a.type = "string" /\ a.data = t
  BY ResponseFields
<1>2. ResponseLen(a) = 1 + Bytes(t)
  BY <1>1 DEF ResponseLen
<1>3. Bytes(t) \in Nat /\ MaxFrame \in Nat
  BY SizeAssumption, ProtocolAssumption
<1>4. ~ (ResponseLen(a) > MaxFrame)
  BY <1>2, <1>3 DEF ItemFits
<1>5. ReadResponse(a) = a /\ a # Malformed /\ a # Nothing
  BY <1>4, FittingIsRead DEF ResponseType
<1>6. "string" \in Expected(type)
  BY DEF Expected, ResponseType
<1> HIDE DEF a
<1>7. Read(type, a) = Done(t)
  BY <1>1, <1>5, <1>6 DEF Read
<1>. QED  BY <1>7 DEF a, Done

LEMMA NilAnswers == Read("get", Response("nil", 0)) = Failed("not found")
<1> DEFINE a == Response("nil", 0)
<1>1. a.type = "nil"
  BY ResponseFields
<1>2. ResponseLen(a) = 1
  BY <1>1 DEF ResponseLen
<1>3. ~ (ResponseLen(a) > MaxFrame)
  BY <1>2, FrameAssumption, ProtocolAssumption
<1>4. ReadResponse(a) = a /\ a # Malformed /\ a # Nothing
  BY <1>3, DataTypes, FittingIsRead DEF ResponseType
<1> HIDE DEF a
<1>5. Read("get", a) = Failed("not found")
  BY <1>1, <1>4 DEF Read
<1>. QED  BY <1>5 DEF a

-------------------------------------------------------------------------------
(* What can be read back *)

\* Whatever the value e holds came in a command that was accepted, or is a number.
Readable(e) ==
  /\ e.str # NoText => ItemFits(e.str)
  /\ \A i \in DOMAIN e.list : ItemFits(e.list[i])
  /\ \A m \in e.set : ItemFits(m)
  /\ \A f \in Field : e.hash[f] # NoText => PairFits(f, e.hash[f])
  /\ IsFiniteSet({f \in Field : e.hash[f] # NoText})

Legal(e) == e = Absent \/ (e \in CP!Value /\ Readable(e))

\* What a method makes of the value e it finds: a value that can be read back, the
\* same one unless the caller gets an answer.
Answered(type, result) == \A a \in Answers(type, result) : Read(type, a)[1] = "ok"

Good(type, e, out) == Legal(out.value) /\ (out.value = e \/ Answered(type, out.result))

LEMMA ReadsAreGood ==
  ASSUME NEW type, NEW e, Legal(e), NEW out, out.value = e
  PROVE  Good(type, e, out)
BY DEF Good

LEMMA NewIsReadable ==
  ASSUME NEW type \in CP!ValueType, NEW x \in Int \cup {NoExpiry}
  PROVE  CP!New(type, x) \in CP!Value /\ Readable(CP!New(type, x))
<1> USE DEF CP!CacheValueAssumption, CP!AbsentAssumption, CP!CacheAssumption
<1> DEFINE n == CP!New(type, x)
<1>1. /\ n \in CP!Value /\ n.str = NoText /\ n.list = <<>> /\ n.set = {}
      /\ \A f \in Field : n.hash[f] = NoText
  BY Parameters, CP!NewFields
<1> HIDE DEF n
<1>2. {f \in Field : n.hash[f] # NoText} = {}
  BY <1>1
<1>3. IsFiniteSet({f \in Field : n.hash[f] # NoText})
  BY <1>2, FS_EmptySet
<1>4. DOMAIN n.list = {}
  BY <1>1
<1>. QED  BY <1>1, <1>3, <1>4 DEF Readable, n

LEMMA EnsureIsReadable ==
  ASSUME NEW e, Legal(e), NEW type \in CP!ValueType
  PROVE  CP!Ensure(e, type) \in CP!Value /\ Readable(CP!Ensure(e, type))
<1>1. NoExpiry \in Int \cup {NoExpiry}
  OBVIOUS
<1>. QED  BY <1>1, NewIsReadable DEF Legal, CP!Ensure

LEMMA StringWritten ==
  ASSUME NEW e \in CP!Value, Readable(e), NEW v \in Text, ItemFits(v)
  PROVE  Legal([e EXCEPT !.str = v])
<1> USE DEF CP!CacheValueAssumption, CP!AbsentAssumption, CP!CacheAssumption
<1> DEFINE u == [e EXCEPT !.str = v]
<1>1. v \in CP!Text \cup {NoText}
  BY SameTypes
<1>2. u \in CP!Value /\ u.str = v /\ u.hash = e.hash /\ u.list = e.list /\ u.set = e.set
  BY <1>1, Parameters, CP!UpdateStr
<1> HIDE DEF u
<1>. QED  BY <1>2 DEF Legal, Readable, u

LEMMA DeadlineMoved ==
  ASSUME NEW e \in CP!Value, Readable(e), NEW x \in Int \cup {NoExpiry}
  PROVE  Legal([e EXCEPT !.exp = x])
<1> USE DEF CP!CacheValueAssumption, CP!AbsentAssumption, CP!CacheAssumption
<1> DEFINE u == [e EXCEPT !.exp = x]
<1>1. u \in CP!Value /\ u.str = e.str /\ u.hash = e.hash /\ u.list = e.list /\ u.set = e.set
  BY Parameters, CP!UpdateExp
<1> HIDE DEF u
<1>. QED  BY <1>1 DEF Legal, Readable, u

LEMMA ListWritten ==
  ASSUME NEW e \in CP!Value, Readable(e), NEW l \in Seq(Text),
         \A i \in DOMAIN l : ItemFits(l[i])
  PROVE  Legal([e EXCEPT !.list = l])
<1> USE DEF CP!CacheValueAssumption, CP!AbsentAssumption, CP!CacheAssumption
<1> DEFINE u == [e EXCEPT !.list = l]
<1>1. l \in Seq(CP!Text)
  BY SameTypes
<1>2. u \in CP!Value /\ u.str = e.str /\ u.hash = e.hash /\ u.list = l /\ u.set = e.set
  BY <1>1, Parameters, CP!UpdateList
<1> HIDE DEF u
<1>. QED  BY <1>2 DEF Legal, Readable, u

LEMMA SetWritten ==
  ASSUME NEW e \in CP!Value, Readable(e), NEW s \in SUBSET Text, \A m \in s : ItemFits(m)
  PROVE  Legal([e EXCEPT !.set = s])
<1> USE DEF CP!CacheValueAssumption, CP!AbsentAssumption, CP!CacheAssumption
<1> DEFINE u == [e EXCEPT !.set = s]
<1>1. s \in SUBSET CP!Text
  BY SameTypes
<1>2. u \in CP!Value /\ u.str = e.str /\ u.hash = e.hash /\ u.list = e.list /\ u.set = s
  BY <1>1, Parameters, CP!UpdateSet
<1> HIDE DEF u
<1>. QED  BY <1>2 DEF Legal, Readable, u

LEMMA FieldWritten ==
  ASSUME NEW e \in CP!Value, Readable(e), NEW f \in Field,
         NEW v \in Text \cup {NoText}, v # NoText => PairFits(f, v)
  PROVE  Legal([e EXCEPT !.hash[f] = v])
<1> USE DEF CP!CacheValueAssumption, CP!AbsentAssumption, CP!CacheAssumption
<1> DEFINE u == [e EXCEPT !.hash[f] = v]
           S == {g \in Field : e.hash[g] # NoText}
           T == {g \in Field : u.hash[g] # NoText}
<1>1. v \in CP!Text \cup {NoText}
  BY SameTypes
<1>2. u \in CP!Value /\ u.str = e.str /\ u.list = e.list /\ u.set = e.set
  BY <1>1, Parameters, CP!UpdateHash
<1>3. \A g \in Field : u.hash[g] = IF g = f THEN v ELSE e.hash[g]
  BY DEF CP!Value
<1> HIDE DEF u
<1>4. IsFiniteSet(T)
  <2>1. IsFiniteSet(S)
    BY DEF Readable
  <2>2. T \subseteq S \cup {f}
    BY <1>3
  <2> HIDE DEF S, T
  <2>3. IsFiniteSet(S \cup {f})
    BY <2>1, FS_AddElement
  <2>. QED  BY <2>2, <2>3, FS_Subset
<1>5. \A g \in Field : u.hash[g] # NoText => PairFits(g, u.hash[g])
  BY <1>3 DEF Readable
<1>. QED  BY <1>2, <1>4, <1>5 DEF Legal, Readable, u

-------------------------------------------------------------------------------
(* What each method makes of what it finds *)

LEMMA OutcomeFields ==
  \A e, r : CP!Outcome(e, r).value = e /\ CP!Outcome(e, r).result = r
BY DEF CP!Outcome

\* The answers of the handlers, by what they are made of.
LEMMA AnswerIs ==
  /\ \A type \in {"set", "hset"} : \A r : Answers(type, r) = {Response("ok", 0)}
  /\ \A type \in Incrs : \A r : r # <<>> => Answers(type, r) = {Response("int", r[1])}
  /\ \A type \in {"lpop", "rpop"} : \A r : r # <<>> => Answers(type, r) = {Response("string", r[1])}
  /\ \A type \in {"del", "expire", "persist", "hdel"} : \A r :
       Answers(type, r) \subseteq {Response("int", 0), Response("int", 1)}
  /\ \A type \in {"lpush", "rpush", "sadd", "srem"} : \A r : Answers(type, r) = {Response("int", r)}
<1>1. \A type \in {"set", "hset"} : \A r : Answers(type, r) = {Response("ok", 0)}
  BY DEF Answers
<1>2. \A type \in Incrs : \A r : r # <<>> => Answers(type, r) = {Response("int", r[1])}
  BY DEF Answers, Incrs
<1>3. \A type \in {"lpop", "rpop"} : \A r : r # <<>> => Answers(type, r) = {Response("string", r[1])}
  BY DEF Answers
<1>4. \A type \in {"del", "expire", "persist", "hdel"} : \A r :
        Answers(type, r) \subseteq {Response("int", 0), Response("int", 1)}
  BY DEF Answers, Flag
<1>5. \A type \in {"lpush", "rpush", "sadd", "srem"} : \A r : Answers(type, r) = {Response("int", r)}
  BY DEF Answers
<1>. QED  BY <1>1, <1>2, <1>3, <1>4, <1>5

LEMMA NumbersExpected ==
  \A type \in Incrs \cup {"del", "expire", "persist", "hdel", "lpush", "rpush", "sadd", "srem"} :
    "int" \in Expected(type)
BY DEF Expected, ResponseType, Incrs

LEMMA FlagAnswered ==
  ASSUME NEW type \in {"del", "expire", "persist", "hdel"}, NEW r
  PROVE  Answered(type, r)
<1>1. 0 \in Duration /\ 1 \in Duration
  BY ProtocolAssumption DEF Duration
<1>2. "int" \in Expected(type)
  BY NumbersExpected
<1>3. \A n \in Duration : Read(type, Response("int", n))[1] = "ok"
  BY <1>2, NumberAnswers
<1>. QED  BY <1>1, <1>3, AnswerIs DEF Answered

LEMMA CountAnswered ==
  ASSUME NEW type \in {"lpush", "rpush", "sadd", "srem"}, NEW n \in 0 .. MaxDuration
  PROVE  Answered(type, n)
<1>1. n \in Duration /\ "int" \in Expected(type)
  BY DataTypes, NumbersExpected
<1>2. Read(type, Response("int", n))[1] = "ok"
  BY <1>1, NumberAnswers
<1>. QED  BY <1>2, AnswerIs DEF Answered

LEMMA SetIsGood ==
  ASSUME NEW e, NEW v \in Text, ItemFits(v), NEW x \in Int \cup {NoExpiry}
  PROVE  Good("set", e, CP!SetOn(v, x))
<1> DEFINE n == CP!New("string", x)
<1>1. n \in CP!Value /\ Readable(n)
  BY NewIsReadable DEF CP!ValueType
<1>2. CP!SetOn(v, x) = CP!Outcome([n EXCEPT !.str = v], <<>>)
  BY DEF CP!SetOn
<1> HIDE DEF n
<1>3. Legal(CP!SetOn(v, x).value)
  BY <1>1, <1>2, OutcomeFields, StringWritten
<1>4. \A r : Answered("set", r)
  BY AnswerIs, OkAnswers DEF Answered
<1>. QED  BY <1>3, <1>4 DEF Good

LEMMA IncrByIsGood ==
  ASSUME NEW e, Legal(e), NEW d \in Int64, NEW type \in Incrs
  PROVE  Good(type, e, CP!IncrByOn(e, d))
<1> DEFINE out == CP!IncrByOn(e, d)
<1>1. \A n \in Int64 : n \in Text /\ ItemFits(n) /\ Answered(type, <<n>>)
  <2> SUFFICES ASSUME NEW n \in Int64 PROVE n \in Text /\ ItemFits(n) /\ Answered(type, <<n>>)
    OBVIOUS
  <2>1. n \in Text /\ ItemFits(n)
    BY SizeAssumption DEF Text, ItemFits
  <2>2. Read(type, Response("int", n))[1] = "ok"
    BY DataTypes, NumbersExpected, NumberAnswers
  <2>3. <<n>> # <<>> /\ <<n>>[1] = n
    OBVIOUS
  <2>. QED  BY <2>1, <2>2, <2>3, AnswerIs DEF Answered
<1>2. CASE e = Absent
  <2> DEFINE n == CP!New("string", NoExpiry)
  <2>1. n \in CP!Value /\ Readable(n)
    BY NewIsReadable DEF CP!ValueType
  <2>2. out = CP!Outcome([n EXCEPT !.str = d], <<d>>)
    BY <1>2 DEF CP!IncrByOn
  <2> HIDE DEF n, out
  <2>3. Legal(out.value) /\ out.result = <<d>>
    BY <1>1, <2>1, <2>2, OutcomeFields, StringWritten
  <2>. QED  BY <1>1, <2>3 DEF Good, out
<1>3. CASE e # Absent /\ CP!Holds(e, "string") /\ e.str \in CP!Int64
  <2> DEFINE s == CP!Wrap(e.str + d)
  <2>1. e.str \in Int64 /\ d \in Int /\ e.str \in Int
    BY <1>3, SameTypes, CacheValueAssumption DEF Int64
  <2>2. s \in Int64
    <3>1. e.str + d \in Int
      BY <2>1
    <3>2. Wrap(e.str + d) \in Int64
      BY <3>1, WrapInt64
    <3>. QED  BY <3>2 DEF CP!Wrap, Wrap
  <2>3. out = CP!Outcome([e EXCEPT !.str = s], <<s>>)
    BY <1>3 DEF CP!IncrByOn
  <2> HIDE DEF s, out
  <2>4. Legal(out.value) /\ out.result = <<s>>
    BY <1>1, <1>3, <2>2, <2>3, OutcomeFields, StringWritten DEF Legal
  <2>. QED  BY <1>1, <2>2, <2>4 DEF Good, out
<1>4. CASE e # Absent /\ ~ (CP!Holds(e, "string") /\ e.str \in CP!Int64)
  <2>1. out = CP!Outcome(e, <<>>)
    BY <1>4 DEF CP!IncrByOn
  <2>. QED  BY <2>1, OutcomeFields, ReadsAreGood
<1>. QED  BY <1>2, <1>3, <1>4

LEMMA ExpiryIsGood ==
  ASSUME NEW e, Legal(e), NEW x \in Int \cup {NoExpiry}
  PROVE  Good("expire", e, CP!ExpireOn(e, x)) /\ Good("persist", e, CP!PersistOn(e))
<1>1. CASE e = Absent
  BY <1>1, OutcomeFields, ReadsAreGood DEF CP!ExpireOn, CP!PersistOn
<1>2. CASE e # Absent
  <2>1. NoExpiry \in Int \cup {NoExpiry} /\ e \in CP!Value /\ Readable(e)
    BY <1>2 DEF Legal
  <2>2. /\ CP!ExpireOn(e, x).value = [e EXCEPT !.exp = x]
        /\ CP!PersistOn(e).value = [e EXCEPT !.exp = NoExpiry]
    BY <1>2, OutcomeFields DEF CP!ExpireOn, CP!PersistOn
  <2>3. Legal([e EXCEPT !.exp = x]) /\ Legal([e EXCEPT !.exp = NoExpiry])
    BY <2>1, DeadlineMoved
  <2>4. \A r : Answered("expire", r) /\ Answered("persist", r)
    BY FlagAnswered
  <2>. QED  BY <2>2, <2>3, <2>4 DEF Good
<1>. QED  BY <1>1, <1>2

LEMMA HSetIsGood ==
  ASSUME NEW e, Legal(e), NEW f \in Field, NEW v \in Text, PairFits(f, v)
  PROVE  Good("hset", e, CP!HSetOn(e, f, v))
<1> DEFINE h == CP!Ensure(e, "hash")
<1>1. h \in CP!Value /\ Readable(h)
  BY EnsureIsReadable DEF CP!ValueType
<1>2. CP!HSetOn(e, f, v).value = IF h.type = "hash" THEN [h EXCEPT !.hash[f] = v] ELSE h
  BY OutcomeFields DEF CP!HSetOn
<1> HIDE DEF h
<1>3. Legal(h) /\ Legal([h EXCEPT !.hash[f] = v])
  BY <1>1, FieldWritten DEF Legal
<1>4. \A r : Answered("hset", r)
  BY AnswerIs, OkAnswers DEF Answered
<1>. QED  BY <1>2, <1>3, <1>4 DEF Good

LEMMA HDelIsGood ==
  ASSUME NEW e, Legal(e), NEW f \in Field
  PROVE  Good("hdel", e, CP!HDelOn(e, f))
<1>1. CASE CP!Holds(e, "hash") /\ e.hash[f] # NoText
  <2>1. e \in CP!Value /\ Readable(e)
    BY <1>1 DEF Legal, CP!Holds
  <2>2. CP!HDelOn(e, f).value = [e EXCEPT !.hash[f] = NoText]
    BY <1>1, OutcomeFields DEF CP!HDelOn
  <2>3. Legal([e EXCEPT !.hash[f] = NoText])
    BY <2>1, FieldWritten
  <2>. QED  BY <2>2, <2>3, FlagAnswered DEF Good
<1>2. CASE ~ (CP!Holds(e, "hash") /\ e.hash[f] # NoText)
  BY <1>2, OutcomeFields, ReadsAreGood DEF CP!HDelOn
<1>. QED  BY <1>1, <1>2

LEMMA SameCounting ==
  \A S : /\ CP!Cardinality(S) = Cardinality(S) /\ CP!Range(S) = Range(S)
         /\ CP!IsFiniteSet(S) <=> IsFiniteSet(S)
BY DEF CP!Cardinality, Cardinality, CP!Range, Range, CP!IsFiniteSet, IsFiniteSet

LEMMA PushIsGood ==
  ASSUME NEW e, Legal(e), NEW vs \in Seq(Text), \A i \in DOMAIN vs : ItemFits(vs[i]),
         Len(vs) + (IF CP!Holds(e, "list") THEN Len(e.list) ELSE 0) <= MaxList
  PROVE  Good("lpush", e, CP!LPushOn(e, vs)) /\ Good("rpush", e, CP!RPushOn(e, vs))
<1> USE DEF CP!CacheValueAssumption, CP!AbsentAssumption, CP!CacheAssumption
<1> DEFINE l == CP!Ensure(e, "list")
           n == CP!New("list", NoExpiry)
<1>1. l \in CP!Value /\ Readable(l)
  BY EnsureIsReadable DEF CP!ValueType
<1>2. NoExpiry \in Int \cup {NoExpiry} /\ "list" \in CP!ValueType
  BY DEF CP!ValueType
<1>3. n.list = <<>>
  BY <1>2, Parameters, CP!NewFields
<1>4. l = IF e = Absent THEN n ELSE e
  BY DEF CP!Ensure
<1>5. l.type = "list" => Len(l.list) = IF CP!Holds(e, "list") THEN Len(e.list) ELSE 0
  <2>1. Len(n.list) = 0
    BY <1>3
  <2> HIDE DEF n, l
  <2>2. QED
    BY <1>4, <2>1 DEF CP!Holds
<1> HIDE DEF n, l
<1>6. l.list \in Seq(Text)
  BY <1>1, SameTypes DEF CP!Value
<1>7. Len(vs) \in Nat /\ Len(l.list) \in Nat /\ MaxList \in Nat /\ MaxDuration \in Nat
  BY <1>6, SessionAssumption, ProtocolAssumption
<1>8. l.type = "list" => Len(vs) + Len(l.list) <= MaxDuration
  BY <1>5, <1>7, DataTypes
<1>9. \A type \in {"lpush", "rpush"} :
        /\ Answered(type, 0)
        /\ l.type = "list" => /\ Answered(type, Len(vs) + Len(l.list))
                              /\ Answered(type, Len(l.list) + Len(vs))
  <2>1. 0 \in 0 .. MaxDuration
    BY <1>7
  <2>2. l.type = "list" => /\ Len(vs) + Len(l.list) \in 0 .. MaxDuration
                           /\ Len(l.list) + Len(vs) \in 0 .. MaxDuration
    BY <1>7, <1>8
  <2>3. QED
    BY <2>1, <2>2, CountAnswered
<1>10. ASSUME NEW a \in Seq(Text), NEW b \in Seq(Text),
              \A i \in DOMAIN a : ItemFits(a[i]), \A i \in DOMAIN b : ItemFits(b[i])
       PROVE  a \o b \in Seq(Text) /\ \A i \in DOMAIN (a \o b) : ItemFits((a \o b)[i])
  <2>1. a \o b \in Seq(Text)
    OBVIOUS
  <2>2. ASSUME NEW i \in DOMAIN (a \o b) PROVE ItemFits((a \o b)[i])
    <3>1. i \in 1 .. Len(a) + Len(b)
      OBVIOUS
    <3>2. CASE i <= Len(a)
      <4>1. (a \o b)[i] = a[i] /\ i \in DOMAIN a
        BY <3>1, <3>2
      <4>2. QED
        BY <1>10, <4>1
    <3>3. CASE i > Len(a)
      <4>1. (a \o b)[i] = b[i - Len(a)] /\ i - Len(a) \in DOMAIN b
        BY <3>1, <3>3
      <4>2. QED
        BY <1>10, <4>1
    <3>4. QED
      BY <3>1, <3>2, <3>3
  <2>3. QED
    BY <2>1, <2>2
<1>11. \A i \in DOMAIN l.list : ItemFits(l.list[i])
  BY <1>1 DEF Readable
<1>12. /\ Legal([l EXCEPT !.list = vs \o l.list]) /\ Legal([l EXCEPT !.list = l.list \o vs])
       /\ Legal(l)
  <2>1. /\ vs \o l.list \in Seq(Text)
        /\ \A i \in DOMAIN (vs \o l.list) : ItemFits((vs \o l.list)[i])
    BY <1>6, <1>10, <1>11
  <2>2. /\ l.list \o vs \in Seq(Text)
        /\ \A i \in DOMAIN (l.list \o vs) : ItemFits((l.list \o vs)[i])
    BY <1>6, <1>10, <1>11
  <2>3. Legal([l EXCEPT !.list = vs \o l.list])
    BY <1>1, <2>1, ListWritten
  <2>4. Legal([l EXCEPT !.list = l.list \o vs])
    BY <1>1, <2>2, ListWritten
  <2>5. QED
    BY <1>1, <2>3, <2>4 DEF Legal
<1>13. CP!LPushOn(e, vs) =
         IF l.type = "list"
         THEN CP!Outcome([l EXCEPT !.list = vs \o l.list], Len(vs) + Len(l.list))
         ELSE CP!Outcome(l, 0)
  BY DEF CP!LPushOn, l
<1>14. CP!RPushOn(e, vs) =
         IF l.type = "list"
         THEN CP!Outcome([l EXCEPT !.list = l.list \o vs], Len(l.list) + Len(vs))
         ELSE CP!Outcome(l, 0)
  BY DEF CP!RPushOn, l
<1>15. QED
  BY <1>9, <1>12, <1>13, <1>14, OutcomeFields DEF Good

LEMMA PopIsGood ==
  ASSUME NEW e, Legal(e)
  PROVE  Good("lpop", e, CP!LPopOn(e)) /\ Good("rpop", e, CP!RPopOn(e))
<1>1. CASE CP!Holds(e, "list") /\ e.list # <<>>
  <2> DEFINE s == e.list
             front == SubSeq(s, 1, Len(s) - 1)
  <2>1. e \in CP!Value /\ Readable(e)
    BY <1>1 DEF Legal, CP!Holds
  <2>2. s \in Seq(Text) /\ s # <<>> /\ \A i \in DOMAIN s : ItemFits(s[i])
    BY <1>1, <2>1, SameTypes DEF CP!Value, Readable
  <2>3. CP!LPopOn(e) = CP!Outcome([e EXCEPT !.list = Tail(s)], <<Head(s)>>)
    BY <1>1 DEF CP!LPopOn
  <2>4. CP!RPopOn(e) = CP!Outcome([e EXCEPT !.list = front], <<s[Len(s)]>>)
    BY <1>1 DEF CP!RPopOn
  <2> HIDE DEF s
  <2>5. /\ Head(s) = s[1] /\ 1 \in DOMAIN s /\ Len(s) \in DOMAIN s
        /\ \A i \in DOMAIN s : s[i] \in Text
    BY <2>2
  <2>6. \A t \in Text, type \in {"lpop", "rpop"} : ItemFits(t) => Answered(type, <<t>>)
    <3>1. \A t : <<t>> # <<>> /\ <<t>>[1] = t
      OBVIOUS
    <3>2. \A t \in Text, type \in {"lpop", "rpop"} : ItemFits(t) =>
            Read(type, Response("string", t))[1] = "ok"
      BY TextAnswers
    <3>3. QED
      BY <3>1, <3>2, AnswerIs DEF Answered
  <2>7. Answered("lpop", <<Head(s)>>) /\ Answered("rpop", <<s[Len(s)]>>)
    BY <2>2, <2>5, <2>6
  <2>8. /\ Tail(s) \in Seq(Text) /\ DOMAIN Tail(s) = 1 .. Len(s) - 1
        /\ \A i \in 1 .. Len(s) - 1 : Tail(s)[i] = s[i + 1] /\ i + 1 \in DOMAIN s
    BY <2>2
  <2>9. /\ front \in Seq(Text) /\ DOMAIN front = 1 .. Len(s) - 1
        /\ \A i \in 1 .. Len(s) - 1 : front[i] = s[i] /\ i \in DOMAIN s
    BY <2>2
  <2> HIDE DEF front
  <2>10. Legal([e EXCEPT !.list = Tail(s)]) /\ Legal([e EXCEPT !.list = front])
    <3>1. \A i \in DOMAIN Tail(s) : ItemFits(Tail(s)[i])
      BY <2>2, <2>8
    <3>2. \A i \in DOMAIN front : ItemFits(front[i])
      BY <2>2, <2>9
    <3>3. QED
      BY <2>1, <2>8, <2>9, <3>1, <3>2, ListWritten
  <2>11. QED
    BY <2>3, <2>4, <2>7, <2>10, OutcomeFields DEF Good
<1>2. CASE ~ (CP!Holds(e, "list") /\ e.list # <<>>)
  BY <1>2, OutcomeFields, ReadsAreGood DEF CP!LPopOn, CP!RPopOn
<1>3. QED
  BY <1>1, <1>2

\* A set of arguments has no more members than there are arguments.
LEMMA FewArguments ==
  ASSUME NEW ms \in Seq(Text), Len(ms) <= MaxDuration, NEW S, S \subseteq Range(ms)
  PROVE  CP!Cardinality(S) \in 0 .. MaxDuration
<1> DEFINE R == Range(ms)
           n == Len(ms)
<1>1. n \in Nat /\ DOMAIN ms = 1 .. n
  OBVIOUS
<1>2. ms \in Surjection(1 .. n, R)
  BY <1>1 DEF Surjection, Range
<1>3. IsFiniteSet(1 .. n) /\ Cardinality(1 .. n) = n
  <2>1. 1 \in Int /\ n \in Int
    BY <1>1
  <2>2. IsFiniteSet(1 .. n) /\ Cardinality(1 .. n) = IF 1 > n THEN 0 ELSE n - 1 + 1
    BY <2>1, FS_Interval, Zenon
  <2> HIDE DEF n
  <2>3. (IF 1 > n THEN 0 ELSE n - 1 + 1) = n
    BY <1>1
  <2>4. QED
    BY <2>2, <2>3
<1>4. IsFiniteSet(R) /\ Cardinality(R) <= n
  BY <1>2, <1>3, FS_Surjection
<1>5. S \subseteq R /\ n <= MaxDuration
  OBVIOUS
<1> HIDE DEF R, n
<1>6. IsFiniteSet(S) /\ Cardinality(S) <= Cardinality(R)
  BY <1>4, <1>5, FS_Subset
<1>7. Cardinality(S) \in Nat /\ Cardinality(R) \in Nat
  BY <1>4, <1>6, FS_CardinalityType
<1>8. Cardinality(S) \in 0 .. MaxDuration
  BY <1>1, <1>4, <1>5, <1>6, <1>7, ProtocolAssumption
<1>9. QED
  BY <1>8, SameCounting

LEMMA SetCallsAreGood ==
  ASSUME NEW e, Legal(e), NEW ms \in Seq(Text), Len(ms) <= MaxDuration,
         \A i \in DOMAIN ms : ItemFits(ms[i])
  PROVE  Good("sadd", e, CP!SAddOn(e, ms)) /\ Good("srem", e, CP!SRemOn(e, ms))
<1> DEFINE s == CP!Ensure(e, "set")
           R == CP!Range(ms)
<1>1. s \in CP!Value /\ Readable(s) /\ s.set \in SUBSET Text
  BY EnsureIsReadable, SameTypes DEF CP!ValueType, CP!Value
<1>2. R \in SUBSET Text /\ \A m \in R : ItemFits(m)
  BY DEF CP!Range
<1>3. \A S \in SUBSET R, type \in {"sadd", "srem"} :
        Answered(type, CP!Cardinality(S)) /\ Answered(type, 0)
  <2>1. R = Range(ms)
    BY SameCounting
  <2>2. \A S \in SUBSET R : CP!Cardinality(S) \in 0 .. MaxDuration
    BY <2>1, FewArguments
  <2>3. 0 \in 0 .. MaxDuration
    BY ProtocolAssumption
  <2>4. QED
    BY <2>2, <2>3, CountAnswered
<1>4. CP!SAddOn(e, ms) = IF s.type = "set"
                         THEN CP!Outcome([s EXCEPT !.set = s.set \cup R], CP!Cardinality(R \ s.set))
                         ELSE CP!Outcome(s, 0)
  BY DEF CP!SAddOn
<1>5. CP!SRemOn(e, ms) = IF CP!Holds(e, "set")
                         THEN CP!Outcome([e EXCEPT !.set = e.set \ R], CP!Cardinality(R \cap e.set))
                         ELSE CP!Outcome(e, 0)
  BY DEF CP!SRemOn
<1> HIDE DEF s, R
<1>6. Good("sadd", e, CP!SAddOn(e, ms))
  <2>1. R \ s.set \in SUBSET R /\ {} \in SUBSET R
    OBVIOUS
  <2>2. Answered("sadd", CP!Cardinality(R \ s.set)) /\ Answered("sadd", 0)
    BY <1>3, <2>1
  <2>3. s.set \cup R \in SUBSET Text /\ \A m \in s.set \cup R : ItemFits(m)
    BY <1>1, <1>2 DEF Readable
  <2>4. Legal([s EXCEPT !.set = s.set \cup R]) /\ Legal(s)
    BY <1>1, <2>3, SetWritten DEF Legal
  <2>5. QED
    BY <1>4, <2>2, <2>4, OutcomeFields DEF Good
<1>7. Good("srem", e, CP!SRemOn(e, ms))
  <2>1. CASE CP!Holds(e, "set")
    <3>1. e \in CP!Value /\ Readable(e) /\ e.set \in SUBSET Text
      BY <2>1, SameTypes DEF Legal, CP!Holds, CP!Value
    <3>2. R \cap e.set \in SUBSET R
      OBVIOUS
    <3>3. Answered("srem", CP!Cardinality(R \cap e.set))
      BY <1>3, <3>2
    <3>4. e.set \ R \in SUBSET Text /\ \A m \in e.set \ R : ItemFits(m)
      BY <3>1 DEF Readable
    <3>5. Legal([e EXCEPT !.set = e.set \ R])
      BY <3>1, <3>4, SetWritten
    <3>6. QED
      BY <1>5, <2>1, <3>3, <3>5, OutcomeFields DEF Good
  <2>2. CASE ~ CP!Holds(e, "set")
    BY <1>5, <2>2, OutcomeFields, ReadsAreGood
  <2>3. QED
    BY <2>1, <2>2
<1>8. QED
  BY <1>6, <1>7

-------------------------------------------------------------------------------
(* What each command makes of what it finds *)

\* Everything in the map can be read back.
SizesInv == \A k \in Key : data[k] # Absent => Readable(data[k])

LEMMA FindIsLegal ==
  ASSUME CP!CacheInv, SizesInv, NEW k \in Key
  PROVE  Legal(CP!Find(k))
<1>1. CP!Find(k) # Absent => CP!Find(k) \in CP!Value
  BY CacheSteps DEF CP!WellFormed
<1>2. CP!Find(k) # Absent => CP!Find(k) = data[k]
  BY DEF CP!Find
<1>3. QED
  BY <1>1, <1>2 DEF Legal, SizesInv

\* A call whose outcome is good.
CallIsGood(type, k) ==
  \E op, args, out : CP!Call(op, k, args, out) /\ Good(type, CP!Find(k), out)

LEMMA GoodCall ==
  ASSUME NEW type, NEW k, NEW op, NEW args, NEW out,
         CP!Call(op, k, args, out), Good(type, CP!Find(k), out)
  PROVE  CallIsGood(type, k)
BY DEF CallIsGood

\* The methods that change nothing.
LEMMA ReadsOnly ==
  /\ \A e : /\ CP!GetOn(e).value = e /\ CP!ExistsOn(e).value = e /\ CP!HGetAllOn(e).value = e
            /\ CP!LLenOn(e).value = e /\ CP!SMembersOn(e).value = e
  /\ \A e, x : /\ CP!TTLOn(e, x).value = e /\ CP!HGetOn(e, x).value = e
               /\ CP!HExistsOn(e, x).value = e /\ CP!SIsMemberOn(e, x).value = e
<1>1. \A e : /\ CP!GetOn(e).value = e /\ CP!ExistsOn(e).value = e /\ CP!HGetAllOn(e).value = e
             /\ CP!LLenOn(e).value = e /\ CP!SMembersOn(e).value = e
  BY DEF CP!GetOn, CP!ExistsOn, CP!HGetAllOn, CP!LLenOn, CP!SMembersOn, CP!Outcome
<1>2. \A e, x : /\ CP!TTLOn(e, x).value = e /\ CP!HGetOn(e, x).value = e
                /\ CP!HExistsOn(e, x).value = e /\ CP!SIsMemberOn(e, x).value = e
  BY DEF CP!TTLOn, CP!HGetOn, CP!HExistsOn, CP!SIsMemberOn, CP!Outcome
<1>3. QED
  BY <1>1, <1>2

LEMMA ReadCallIsGood ==
  ASSUME CP!CacheInv, SizesInv, NEW type, NEW k \in Key, NEW x,
         \/ CP!Get(k) \/ CP!Exists(k) \/ CP!TTL(k) \/ CP!HGetAll(k) \/ CP!LLen(k)
         \/ CP!SMembers(k) \/ CP!HGet(k, x) \/ CP!HExists(k, x) \/ CP!SIsMember(k, x)
  PROVE  CallIsGood(type, k)
<1>1. \E op, args, out : CP!Call(op, k, args, out) /\ out.value = CP!Find(k)
  BY ReadsOnly DEF CP!Get, CP!Exists, CP!TTL, CP!HGetAll, CP!LLen, CP!SMembers, CP!HGet,
                   CP!HExists, CP!SIsMember
<1>2. PICK op, args, out : CP!Call(op, k, args, out) /\ out.value = CP!Find(k)
  BY <1>1
<1>3. Good(type, CP!Find(k), out)
  BY <1>2, FindIsLegal, ReadsAreGood
<1>4. QED
  BY <1>2, <1>3, GoodCall

LEMMA ServedIsGood ==
  ASSUME CP!CacheInv, SizesInv, NEW c, NEW r, WellSorted(c), Served(c, r)
  PROVE  /\ c.key \in Key
         /\ CallIsGood(c.type, c.key) \/ (c.type = "del" /\ CP!Del(c.key))
<1> DEFINE k == r.key
           e == CP!Find(k)
<1>1. /\ r.type = c.type /\ r.key = c.key /\ r.args = c.args /\ Arrives(c, r)
      /\ r.type \notin {"ping", "unknown"} /\ Len(r.args) >= MinArgs(r.type) /\ Run(r)
  BY DEF Served, Arrives, CommandType
<1>2. /\ k \in Key /\ r.ttl \in Int
      /\ r.type \in {"set", "sismember"} => r.args[1] \in Text
      /\ r.type \in OnHash => r.args[1] \in Field
      /\ r.type = "hset" => r.args[2] \in Text
      /\ r.type \in {"lpush", "rpush", "sadd", "srem"} => r.args \in Seq(Text)
      /\ r.type \in Incrs => DeltaOf(r) \in Int64
  BY <1>1, ArgumentTypes
<1>3. /\ \A i \in DOMAIN r.args : ItemFits(r.args[i])
      /\ Len(r.args) >= 2 => PairFits(r.args[1], r.args[2])
      /\ Len(r.args) <= MaxDuration /\ r.args \in Seq(Text \cup Field)
  <2>1. PICK n \in SerializeTTL(c.ttl) : ~ (CommandLen(c, n) > MaxFrame)
    BY <1>1 DEF Arrives
  <2>2. c.key \in Key
    BY <1>1, <1>2
  <2>3. QED
    BY <1>1, <2>1, <2>2, CommandSizes DEF WellSorted, CommandRecord
<1>4. Legal(e)
  BY <1>2, FindIsLegal
<1>5. clock \in Int
  BY SessionAssumption DEF CP!CacheInv
<1> SUFFICES CallIsGood(r.type, k) \/ (r.type = "del" /\ CP!Del(k))
  BY <1>1, <1>2
<1>6. CASE r.type \in Incrs /\ CP!IncrBy(k, DeltaOf(r))
  <2>1. Good(r.type, e, CP!IncrByOn(e, DeltaOf(r)))
    BY <1>2, <1>4, <1>6, IncrByIsGood
  <2>2. QED
    BY <1>6, <2>1, GoodCall DEF CP!IncrBy
<1>7. CASE \/ r.type = "get" /\ CP!Get(k)
           \/ r.type = "exists" /\ CP!Exists(k)
           \/ r.type = "ttl" /\ CP!TTL(k)
           \/ r.type = "hgetall" /\ CP!HGetAll(k)
           \/ r.type = "llen" /\ CP!LLen(k)
           \/ r.type = "smembers" /\ CP!SMembers(k)
           \/ r.type = "hget" /\ CP!HGet(k, r.args[1])
           \/ r.type = "hexists" /\ CP!HExists(k, r.args[1])
           \/ r.type = "sismember" /\ CP!SIsMember(k, r.args[1])
  BY <1>2, <1>7, ReadCallIsGood
<1>8. CASE r.type = "set" /\ CP!Set(k, r.args[1], r.ttl)
  <2> DEFINE x == IF r.ttl > 0 THEN clock + r.ttl ELSE NoExpiry
             v == r.args[1]
  <2>1. x \in Int \cup {NoExpiry}
    BY <1>2, <1>5
  <2>2. v \in Text /\ ItemFits(v)
    <3>1. Len(r.args) \in Nat /\ Len(r.args) >= 1 /\ DOMAIN r.args = 1 .. Len(r.args)
      BY <1>1, <1>3, <1>8 DEF MinArgs
    <3>2. 1 \in DOMAIN r.args
      BY <3>1
    <3>3. QED
      BY <1>2, <1>3, <1>8, <3>2
  <2>3. CP!Call("set", k, <<v, r.ttl>>, CP!SetOn(v, x))
    BY <1>8 DEF CP!Set
  <2> HIDE DEF x, v, e
  <2>4. Good("set", e, CP!SetOn(v, x))
    BY <2>1, <2>2, SetIsGood
  <2>5. QED
    BY <1>8, <2>3, <2>4, GoodCall DEF e
<1>9. CASE r.type = "del" /\ CP!Del(k)
  BY <1>9
<1>10. CASE r.type = "expire" /\ CP!Expire(k, r.ttl)
  <2>1. clock + r.ttl \in Int \cup {NoExpiry}
    BY <1>2, <1>5
  <2>2. Good("expire", e, CP!ExpireOn(e, clock + r.ttl))
    BY <1>4, <2>1, ExpiryIsGood
  <2>3. QED
    BY <1>10, <2>2, GoodCall DEF CP!Expire
<1>11. CASE r.type = "persist" /\ CP!Persist(k)
  <2>1. NoExpiry \in Int \cup {NoExpiry}
    OBVIOUS
  <2>2. Good("persist", e, CP!PersistOn(e))
    BY <1>4, <2>1, ExpiryIsGood
  <2>3. QED
    BY <1>11, <2>2, GoodCall DEF CP!Persist
<1>12. CASE r.type = "hset" /\ CP!HSet(k, r.args[1], r.args[2])
  <2>1. r.args[1] \in Field /\ r.args[2] \in Text /\ PairFits(r.args[1], r.args[2])
    <3>1. Len(r.args) >= 2
      BY <1>1, <1>12 DEF MinArgs
    <3>2. QED
      BY <1>2, <1>3, <1>12, <3>1 DEF OnHash
  <2>2. Good("hset", e, CP!HSetOn(e, r.args[1], r.args[2]))
    BY <1>4, <2>1, HSetIsGood
  <2>3. QED
    BY <1>12, <2>2, GoodCall DEF CP!HSet
<1>13. CASE r.type = "hdel" /\ CP!HDel(k, r.args[1])
  <2>1. r.args[1] \in Field
    BY <1>2, <1>13 DEF OnHash
  <2>2. Good("hdel", e, CP!HDelOn(e, r.args[1]))
    BY <1>4, <2>1, HDelIsGood
  <2>3. QED
    BY <1>13, <2>2, GoodCall DEF CP!HDel
<1>14. CASE \/ r.type = "lpop" /\ CP!LPop(k)
            \/ r.type = "rpop" /\ CP!RPop(k)
  <2>1. Good("lpop", e, CP!LPopOn(e)) /\ Good("rpop", e, CP!RPopOn(e))
    BY <1>4, PopIsGood
  <2>2. QED
    BY <1>14, <2>1, GoodCall DEF CP!LPop, CP!RPop
<1>15. CASE \/ r.type = "lpush" /\ CP!LPush(k, r.args)
            \/ r.type = "rpush" /\ CP!RPush(k, r.args)
  <2>1. r.args \in Seq(Text)
    BY <1>2, <1>15
  <2>2. Len(r.args) + (IF CP!Holds(e, "list") THEN Len(e.list) ELSE 0) <= MaxList
    BY <1>15 DEF CP!LPush, CP!RPush, CP!ListFits
  <2>3. Good("lpush", e, CP!LPushOn(e, r.args)) /\ Good("rpush", e, CP!RPushOn(e, r.args))
    BY <1>3, <1>4, <2>1, <2>2, PushIsGood
  <2>4. QED
    BY <1>15, <2>3, GoodCall DEF CP!LPush, CP!RPush
<1>16. CASE \/ r.type = "sadd" /\ CP!SAdd(k, r.args)
            \/ r.type = "srem" /\ CP!SRem(k, r.args)
  <2>1. r.args \in Seq(Text)
    BY <1>2, <1>16
  <2>2. Good("sadd", e, CP!SAddOn(e, r.args)) /\ Good("srem", e, CP!SRemOn(e, r.args))
    BY <1>3, <1>4, <2>1, SetCallsAreGood
  <2>3. QED
    BY <1>16, <2>2, GoodCall DEF CP!SAdd, CP!SRem
<1>17. QED
  BY <1>1, <1>6, <1>7, <1>8, <1>9, <1>10, <1>11, <1>12, <1>13, <1>14, <1>15, <1>16, RunCalls

-------------------------------------------------------------------------------
(* Counters *)

\* The two differ by one turn of int64 at most.
Turned(x, y) == y = x \/ y = x + 2 * (MaxInt + 1) \/ y = x - 2 * (MaxInt + 1)

LEMMA TurnsOf ==
  ASSUME NEW x \in Int, NEW y \in Int, Turned(x, y)
  PROVE  \E turns \in {-1, 0, 1} : y = x + turns * 2 * (MaxInt + 1)
<1>1. MaxInt \in Int
  BY CacheValueAssumption
<1>2. CASE y = x
  <2>1. y = x + 0 * 2 * (MaxInt + 1)
    BY <1>1, <1>2
  <2>2. QED
    BY <2>1
<1>3. CASE y = x + 2 * (MaxInt + 1)
  <2>1. y = x + 1 * 2 * (MaxInt + 1)
    BY <1>1, <1>3
  <2>2. QED
    BY <2>1
<1>4. CASE y = x - 2 * (MaxInt + 1)
  <2>1. y = x + (-1) * 2 * (MaxInt + 1)
    BY <1>1, <1>4
  <2>2. QED
    BY <2>1
<1>5. QED
  BY <1>2, <1>3, <1>4 DEF Turned

LEMMA ProductSign ==
  ASSUME NEW q \in Int, NEW b \in Nat \ {0}
  PROVE  /\ q >= 0 => b * q >= 0
         /\ q >= 1 => b * q >= b
         /\ q <= -1 => b * q <= -b
OBVIOUS

\* A remainder is the number itself, a modulus up or down.
LEMMA ModTurn ==
  ASSUME NEW a \in Int, NEW b \in Nat \ {0}, NEW r \in Int, 0 <= r, r < b,
         r = a \/ r = a + b \/ r = a - b
  PROVE  a % b = r
<1> DEFINE q == a \div b
           m == a % b
<1>1. q \in Int /\ m \in Int /\ 0 <= m /\ m < b /\ a = b * q + m
  OBVIOUS
<1> HIDE DEF q, m
<1>2. CASE r = a
  <2>1. q = 0
    BY <1>1, <1>2, ProductSign
  <2>2. QED
    BY <1>1, <1>2, <2>1 DEF m
<1>3. CASE r = a + b
  <2>1. b * (q + 1) = b * q + b
    BY <1>1
  <2>2. q + 1 = 0
    BY <1>1, <1>3, <2>1, ProductSign
  <2>3. QED
    BY <1>1, <1>3, <2>1, <2>2 DEF m
<1>4. CASE r = a - b
  <2>1. b * (q - 1) = b * q - b
    BY <1>1
  <2>2. q - 1 = 0
    BY <1>1, <1>4, <2>1, ProductSign
  <2>3. QED
    BY <1>1, <1>4, <2>1, <2>2 DEF m
<1>5. QED
  BY <1>2, <1>3, <1>4

\* A sum of two numbers of int64, and one beyond it, is turned back at most once.
LEMMA WrapTurns ==
  ASSUME NEW n \in Int, n >= -2 * (MaxInt + 1), n <= 2 * MaxInt + 1
  PROVE  Wrap(n) = IF n > MaxInt THEN n - 2 * (MaxInt + 1)
                   ELSE IF n < -(MaxInt + 1) THEN n + 2 * (MaxInt + 1) ELSE n
<1> DEFINE a == n + MaxInt + 1
           b == 2 * (MaxInt + 1)
<1>1. MaxInt \in Nat \ {0} /\ a \in Int /\ b \in Nat \ {0}
  BY CacheValueAssumption
<1>2. Wrap(n) = (a % b) - (MaxInt + 1)
  BY DEF Wrap
<1>3. a = n + MaxInt + 1 /\ b = 2 * (MaxInt + 1)
  OBVIOUS
<1> HIDE DEF a, b
<1>4. CASE n > MaxInt
  <2>1. a - b \in Int /\ 0 <= a - b /\ a - b < b
    BY <1>1, <1>3, <1>4
  <2>2. a % b = a - b
    BY <1>1, <2>1, ModTurn
  <2>3. QED
    BY <1>1, <1>2, <1>3, <1>4, <2>2
<1>5. CASE n < -(MaxInt + 1)
  <2>1. a + b \in Int /\ 0 <= a + b /\ a + b < b
    BY <1>1, <1>3, <1>5
  <2>2. a % b = a + b
    BY <1>1, <2>1, ModTurn
  <2>3. QED
    BY <1>1, <1>2, <1>3, <1>5, <2>2
<1>6. CASE n <= MaxInt /\ n >= -(MaxInt + 1)
  <2>1. 0 <= a /\ a < b
    BY <1>1, <1>3, <1>6
  <2>2. a % b = a
    BY <1>1, <2>1, ModTurn
  <2>3. QED
    BY <1>1, <1>2, <1>3, <1>6, <2>2
<1>7. QED
  BY <1>1, <1>4, <1>5, <1>6

\* The delta is the amount asked for, unless that is the one number whose negation
\* is not an int64.
LEMMA DeltaIsAsked ==
  ASSUME NEW c, c.type \in Incrs, NEW n \in Asked(c)
  PROVE  \/ n \in Int64 /\ DeltaOf(c) = n
         \/ n = MaxInt + 1 /\ DeltaOf(c) = -(MaxInt + 1)
<1>1. MaxInt \in Nat \ {0} /\ \A x : x \in Int64 <=> x \in Int /\ x >= -(MaxInt + 1) /\ x <= MaxInt
  BY CacheValueAssumption DEF Int64
<1>2. CASE c.type \in {"incr", "decr"}
  BY <1>1, <1>2 DEF Asked, DeltaOf
<1>3. CASE c.type = "incrby"
  BY <1>3 DEF Asked, DeltaOf
<1>4. CASE c.type = "decrby"
  <2>1. c.args[1] \in Int64 /\ n = -c.args[1]
    BY <1>4 DEF Asked
  <2>2. DeltaOf(c) = Wrap(n)
    BY <1>4, <2>1 DEF DeltaOf
  <2>3. n \in Int /\ n >= -MaxInt /\ n <= MaxInt + 1
    BY <1>1, <2>1
  <2>4. Wrap(n) = IF n > MaxInt THEN n - 2 * (MaxInt + 1)
                  ELSE IF n < -(MaxInt + 1) THEN n + 2 * (MaxInt + 1) ELSE n
    BY <1>1, <2>3, WrapTurns
  <2>5. QED
    BY <1>1, <2>2, <2>3, <2>4
<1>5. QED
  BY <1>2, <1>3, <1>4 DEF Incrs

LEMMA SumTurns ==
  ASSUME NEW old \in Int64, NEW d \in Int64, NEW n \in Int,
         n = d \/ (n = MaxInt + 1 /\ d = -(MaxInt + 1))
  PROVE  Turned(old + n, Wrap(old + d)) /\ Turned(n, d)
<1>1. MaxInt \in Nat \ {0}
  BY CacheValueAssumption
<1>2. /\ old \in Int /\ old >= -(MaxInt + 1) /\ old <= MaxInt
      /\ d \in Int /\ d >= -(MaxInt + 1) /\ d <= MaxInt
  BY <1>1 DEF Int64
<1> DEFINE s == old + d
           t == Wrap(s)
<1>3. s \in Int /\ s = old + d /\ s >= -2 * (MaxInt + 1) /\ s <= 2 * MaxInt + 1
  BY <1>1, <1>2
<1> HIDE DEF s
<1>4. t = IF s > MaxInt THEN s - 2 * (MaxInt + 1)
          ELSE IF s < -(MaxInt + 1) THEN s + 2 * (MaxInt + 1) ELSE s
  BY <1>3, WrapTurns
<1> HIDE DEF t
<1>5. Turned(old + n, t)
  BY <1>1, <1>2, <1>3, <1>4 DEF Turned
<1>6. Turned(n, d)
  BY <1>1, <1>2 DEF Turned
<1>7. QED
  BY <1>5, <1>6 DEF s, t

\* The property of CountersAddUp, for one key.
CounterRight(k) ==
  last'[1] = "incrby" /\ last'[2] = k /\ reply'[1] = "ok" =>
    LET old == IF C!Find(k) = Absent THEN 0 ELSE C!Find(k).str
        new == reply'[2]
    IN  /\ new \in Int64 /\ data'[k].str = new
        /\ \A n \in Asked(cmd') : \E turns \in {-1, 0, 1} :
             new = old + n + turns * 2 * (MaxInt + 1)

\* IncrBy's outcome, for a value the cache may hold.
LEMMA IncrByOutcome ==
  ASSUME NEW e, Legal(e), NEW d \in Int64
  PROVE  LET out == CP!IncrByOn(e, d)
             old == IF e = Absent THEN 0 ELSE e.str
         IN  \/ out.result = <<>>
             \/ /\ out.result # <<>> /\ old \in Int64 /\ out.result[1] \in Int64
                /\ out.value # Absent /\ out.value.str = out.result[1]
                /\ IF e = Absent THEN out.result[1] = d ELSE out.result[1] = Wrap(old + d)
<1> DEFINE out == CP!IncrByOn(e, d)
<1>1. 0 \in Int64
  BY CacheValueAssumption DEF Int64
<1>2. \A n \in Int64 : n \in Text
  BY DEF Text
<1>3. CASE e = Absent
  <2> DEFINE u == CP!New("string", NoExpiry)
             v == [u EXCEPT !.str = d]
  <2>1. out = CP!Outcome(v, <<d>>)
    BY <1>3 DEF CP!IncrByOn
  <2>2. v.str = d /\ v # Absent
    <3>1. u \in CP!Value /\ Readable(u)
      BY NewIsReadable DEF CP!ValueType
    <3>2. u \in Value
      BY <3>1, SameTypes
    <3>3. v.str = d /\ v \in Value
      BY <1>2, <3>2 DEF Value
    <3>4. QED
      BY <3>3, AbsentAssumption
  <2> HIDE DEF out, v
  <2>3. out.result = <<d>> /\ out.value = v
    BY <2>1, OutcomeFields
  <2>4. out.result # <<>> /\ out.result[1] = d
    BY <2>3
  <2>. QED  BY <1>1, <1>3, <2>2, <2>3, <2>4 DEF out
<1>4. CASE e # Absent /\ CP!Holds(e, "string") /\ e.str \in CP!Int64
  <2> DEFINE t == CP!Wrap(e.str + d)
             v == [e EXCEPT !.str = t]
  <2>1. e.str \in Int64 /\ e.str + d \in Int
    BY <1>4, SameTypes, CacheValueAssumption DEF Int64
  <2>2. t = Wrap(e.str + d) /\ t \in Int64
    BY <2>1, WrapInt64 DEF CP!Wrap, Wrap
  <2>3. out = CP!Outcome(v, <<t>>)
    BY <1>4 DEF CP!IncrByOn
  <2> HIDE DEF out, t
  <2>4. v.str = t /\ v # Absent
    <3>1. e \in Value
      BY <1>4, SameTypes DEF Legal
    <3>2. v.str = t /\ v \in Value
      BY <1>2, <2>2, <3>1 DEF Value
    <3>3. QED
      BY <3>2, AbsentAssumption
  <2> HIDE DEF v
  <2>5. out.result = <<t>> /\ out.value = v
    BY <2>3, OutcomeFields
  <2>6. out.result # <<>> /\ out.result[1] = t
    BY <2>5
  <2>. QED  BY <1>4, <2>1, <2>2, <2>4, <2>5, <2>6 DEF out
<1>5. CASE e # Absent /\ ~ (CP!Holds(e, "string") /\ e.str \in CP!Int64)
  <2>1. out = CP!Outcome(e, <<>>)
    BY <1>5 DEF CP!IncrByOn
  <2>. QED  BY <2>1, OutcomeFields
<1>. QED  BY <1>3, <1>4, <1>5

\* What the caller of a counter's method is told.
LEMMA CounterAnswer ==
  ASSUME NEW type \in Incrs, NEW r, r = <<>> \/ r[1] \in Int64,
         NEW a \in Answers(type, r), Read(type, a)[1] = "ok"
  PROVE  r # <<>> /\ Read(type, a)[2] = r[1]
<1>1. \A why : Failed(why)[1] = "error"
  BY DEF Failed
<1>2. CASE r = <<>>
  <2>1. a = Response("error", ErrorText)
    BY <1>2 DEF Answers, Incrs
  <2>2. a.type = "error"
    BY <2>1, ResponseFields
  <2> HIDE DEF Failed
  <2>3. Read(type, a) \in {Failed("connection"), Failed("server")}
    BY <2>2 DEF Read
  <2>. QED  BY <1>1, <2>3
<1>3. CASE r # <<>>
  <2> DEFINE n == r[1]
  <2>1. n \in Int64 /\ n \in Duration
    BY <1>3, DataTypes
  <2>2. a = Response("int", n)
    BY <1>3, AnswerIs
  <2> HIDE DEF n
  <2>3. ReadResponse(a) = a /\ a # Malformed
    BY <2>1, <2>2, NumbersFit
  <2>4. a.type = "int" /\ a.data = n /\ a # Nothing
    BY <2>2, ResponseFields, NothingType
  <2>5. Read(type, a) = Done(n)
    <3>1. "int" \in Expected(type)
      BY NumbersExpected
    <3>. QED  BY <2>3, <2>4, <3>1 DEF Read, Incrs
  <2>6. Done(n)[2] = n
    BY DEF Done
  <2>. QED  BY <1>3, <2>5, <2>6 DEF n
<1>. QED  BY <1>2, <1>3

LEMMA ServedCounts ==
  ASSUME CP!CacheInv, SizesInv, NEW c, NEW r, WellSorted(c), Served(c, r),
         cmd' = c, reply' = Read(c.type, resp'), NEW k \in Key
  PROVE  CounterRight(k)
<1> SUFFICES ASSUME last'[1] = "incrby", last'[2] = k, reply'[1] = "ok"
             PROVE  LET old == IF C!Find(k) = Absent THEN 0 ELSE C!Find(k).str
                        new == reply'[2]
                    IN  /\ new \in Int64 /\ data'[k].str = new
                        /\ \A n \in Asked(c) : \E turns \in {-1, 0, 1} :
                             new = old + n + turns * 2 * (MaxInt + 1)
  BY DEF CounterRight
<1> DEFINE e == CP!Find(k)
           d == DeltaOf(c)
           out == CP!IncrByOn(e, d)
           old == IF e = Absent THEN 0 ELSE e.str
           new == reply'[2]
<1>1. /\ r.type = c.type /\ r.key = c.key /\ r.args = c.args /\ Run(r)
      /\ resp' \in Answers(c.type, last'[4])
      /\ last'[1] = MethodOf(c.type) /\ last'[2] = c.key
  BY DEF Served, Serves, Arrives
<1>2. c.type \in Incrs /\ c.key = k
  BY <1>1 DEF MethodOf, Incrs
<1>3. d \in Int64 /\ DeltaOf(r) = d
  <2>1. d \in Int64
    BY <1>2, DeltaIsInt64
  <2>2. DeltaOf(r) = d
    BY <1>1, Zenon DEF DeltaOf
  <2>. QED  BY <2>1, <2>2
<1>4. CP!IncrBy(k, d)
  BY <1>1, <1>2, <1>3, RunCalls DEF Incrs
<1>5. Legal(e) /\ C!Find(k) = e
  BY FindIsLegal, SameFind
<1> HIDE DEF d
<1>6. \/ out.result = <<>>
      \/ /\ out.result # <<>> /\ old \in Int64 /\ out.result[1] \in Int64
         /\ out.value # Absent /\ out.value.str = out.result[1]
         /\ IF e = Absent THEN out.result[1] = d ELSE out.result[1] = Wrap(old + d)
  BY <1>3, <1>5, IncrByOutcome
<1>7. /\ last'[4] = out.result
      /\ data' = IF out.value = e THEN data ELSE [data EXCEPT ![k] = out.value]
  BY <1>4, CallLeavesLast DEF CP!IncrBy, CP!Call
<1> HIDE DEF out, old
<1>8. out.result # <<>> /\ new = out.result[1]
  BY <1>1, <1>2, <1>6, <1>7, CounterAnswer
<1>9. data'[k] = out.value
  <2>1. out.value = e => data[k] = e
    BY <1>6, <1>8 DEF CP!Find
  <2>2. data \in [Key -> CP!Value \cup {Absent}]
    BY DEF CP!CacheInv
  <2>. QED  BY <1>7, <2>1, <2>2
<1>10. new \in Int64 /\ data'[k].str = new
  BY <1>6, <1>8, <1>9
<1>11. ASSUME NEW n \in Asked(c)
       PROVE  \E turns \in {-1, 0, 1} : new = old + n + turns * 2 * (MaxInt + 1)
  <2>1. \/ n \in Int64 /\ d = n
        \/ n = MaxInt + 1 /\ d = -(MaxInt + 1)
    BY <1>2, DeltaIsAsked DEF d
  <2>2. n \in Int /\ old \in Int /\ new \in Int
    BY <1>6, <1>8, <1>10, <2>1, CacheValueAssumption DEF Int64
  <2>3. Turned(old + n, Wrap(old + d)) /\ Turned(n, d)
    BY <1>3, <1>6, <1>8, <2>1, <2>2, SumTurns
  <2>4. Turned(old + n, new)
    <3>1. CASE e = Absent
      <4>1. old = 0 /\ new = d
        BY <1>6, <1>8, <3>1 DEF old
      <4>2. old + n = n
        BY <2>2, <4>1
      <4>. QED  BY <2>3, <4>1, <4>2
    <3>2. CASE e # Absent
      BY <1>6, <1>8, <2>3, <3>2
    <3>. QED  BY <3>1, <3>2
  <2>5. old + n \in Int
    BY <2>2
  <2> HIDE DEF new
  <2>. QED  BY <2>2, <2>4, <2>5, TurnsOf
<1>. QED  BY <1>5, <1>10, <1>11 DEF old

-------------------------------------------------------------------------------
(* Errors change nothing *)

\* What a good call leaves.
LEMMA GoodCallMakes ==
  ASSUME CP!CacheInv, SizesInv, NEW type, NEW k \in Key, CallIsGood(type, k)
  PROVE  /\ SizesInv' /\ clock' = clock
         /\ data' = data \/ Answered(type, last'[4])
<1>1. PICK op, args, out : CP!Call(op, k, args, out) /\ Good(type, CP!Find(k), out)
  BY DEF CallIsGood
<1>2. /\ data' = IF out.value = CP!Find(k) THEN data ELSE [data EXCEPT ![k] = out.value]
      /\ clock' = clock /\ last'[4] = out.result
  BY <1>1, CallLeavesLast DEF CP!Call
<1>3. out.value # Absent => Readable(out.value)
  BY <1>1 DEF Good, Legal
<1>4. \A j \in Key : data'[j] = data[j] \/ data'[j] = out.value
  BY <1>2 DEF CP!CacheInv
<1>5. SizesInv'
  BY <1>3, <1>4 DEF SizesInv
<1>6. data' = data \/ Answered(type, last'[4])
  BY <1>1, <1>2 DEF Good
<1>7. QED
  BY <1>2, <1>5, <1>6

LEMMA SameMapKeepsSizes == SizesInv /\ UNCHANGED data => SizesInv'
BY DEF SizesInv

LEMMA SameCacheSameFind ==
  ASSUME UNCHANGED <<data, clock>>, NEW k
  PROVE  CP!Find(k)' = CP!Find(k)
BY DEF CP!Find, CP!isExpired

LEMMA RequestKeepsSizes ==
  ASSUME CP!CacheInv, SizesInv, NEW c, WellSorted(c), Request(c)
  PROVE  /\ SizesInv'
         /\ reply'[1] = "error" => \A k \in Key : CP!Find(k)' = CP!Find(k)
<1>1. CASE Refused \/ Pinged(c) \/ Rejected(c)
  <2>1. UNCHANGED <<data, clock>>
    BY <1>1 DEF Refused, Pinged, Rejected, Untouched
  <2>2. QED
    BY <2>1, SameMapKeepsSizes, SameCacheSameFind
<1>2. ASSUME NEW r, Served(c, r)
      PROVE  /\ SizesInv'
             /\ reply'[1] = "error" => \A k \in Key : CP!Find(k)' = CP!Find(k)
  <2>1. c.key \in Key /\ (CallIsGood(c.type, c.key) \/ (c.type = "del" /\ CP!Del(c.key)))
    BY <1>2, ServedIsGood
  <2>2. Answered(c.type, last'[4]) => reply'[1] = "ok"
    BY <1>2 DEF Served, Answered, Request
  <2>3. CASE CallIsGood(c.type, c.key)
    BY <2>1, <2>2, <2>3, GoodCallMakes, SameCacheSameFind
  <2>4. CASE c.type = "del" /\ CP!Del(c.key)
    <3>1. reply'[1] = "ok"
      BY <2>2, <2>4, FlagAnswered
    <3>2. \A j \in Key : data'[j] = data[j] \/ data'[j] = Absent
      BY <2>4 DEF CP!Del, CP!CacheInv
    <3>3. SizesInv'
      BY <3>2 DEF SizesInv
    <3>4. QED
      BY <3>1, <3>3
  <2>5. QED
    BY <2>1, <2>3, <2>4
<1>3. QED
  BY <1>1, <1>2, RequestOutcome

\* What the background does to the map.
LEMMA BackgroundKeepsSizes ==
  ASSUME CP!CacheInv, SizesInv, C!cleanupExpired \/ C!Tick
  PROVE  /\ SizesInv'
         /\ clock' = clock => \A k \in Key : CP!Find(k)' = CP!Find(k)
<1>1. \A k \in Key : data'[k] = data[k] \/ data'[k] = Absent
  BY SameBackground DEF CP!cleanupExpired, CP!Tick, CP!CacheInv
<1>2. SizesInv'
  BY <1>1 DEF SizesInv
<1>3. CASE C!Tick
  <2>1. clock' # clock
    BY <1>3, SessionAssumption DEF C!Tick, CP!CacheInv
  <2>2. QED
    BY <1>2, <2>1
<1>4. CASE C!cleanupExpired
  <2>1. \A k \in Key : CP!Find(k)' = CP!Find(k)
    BY <1>4, SameBackground DEF CP!cleanupExpired, CP!Find, CP!isExpired, CP!CacheInv
  <2>2. QED
    BY <1>2, <2>1
<1>5. QED
  BY <1>3, <1>4

StoredInv == TimesInv /\ SizesInv

LEMMA InitStoredInv == Init => StoredInv
<1>1. Init => \A k \in Key : data[k] = Absent
  BY DEF Init, C!Init
<1>2. QED
  BY <1>1, InitTimesInv DEF StoredInv, SizesInv

LEMMA NextKeepsStoredInv == StoredInv /\ [Next]_vars => StoredInv'
<1> SUFFICES ASSUME StoredInv, [Next]_vars PROVE SizesInv'
  BY NextKeepsTimesInv DEF StoredInv
<1>1. CP!CacheInv /\ SizesInv
  BY DEF StoredInv, TimesInv, SessionInv
<1>2. ASSUME NEW c \in Commands \cup Typed, Request(c) PROVE SizesInv'
  BY <1>1, <1>2, SentIsWellSorted, RequestKeepsSizes
<1>3. CASE C!cleanupExpired \/ C!Tick
  BY <1>1, <1>3, BackgroundKeepsSizes
<1>4. CASE UNCHANGED vars
  BY <1>1, <1>4, SameMapKeepsSizes DEF vars, cache
<1>5. QED
  BY <1>2, <1>3, <1>4 DEF Next

\* Whatever is stored came in a command that the server accepted (protocol.go:657), or
\* is a number: each text and each field with its value fits into a response that the
\* client accepts (protocol.go:585).
THEOREM StoredIsReadable == Spec => []StoredInv
BY InitStoredInv, NextKeepsStoredInv, PTL DEF Spec

\* A method of Client that returns an error has changed no key: INCR of a text is
\* refused before anything is written (server.go:296, 306), and whatever a handler
\* answers after a write is small enough for the client's reader (protocol.go:585),
\* the element that LPOP took off the list included.
THEOREM ErrorsNeverChange == Spec => ErrorsChangeNothing
<1>1. StoredInv /\ [Next]_vars =>
        [\A k \in Key : reply'[1] = "error" /\ clock' = clock => C!Find(k)' = C!Find(k)]_vars
  <2> SUFFICES ASSUME StoredInv, Next, NEW k \in Key, reply'[1] = "error", clock' = clock
               PROVE  C!Find(k)' = C!Find(k)
    OBVIOUS
  <2>1. CP!CacheInv /\ SizesInv
    BY DEF StoredInv, TimesInv, SessionInv
  <2>2. ASSUME NEW c \in Commands \cup Typed, Request(c) PROVE CP!Find(k)' = CP!Find(k)
    BY <2>1, <2>2, SentIsWellSorted, RequestKeepsSizes
  <2>3. CASE C!cleanupExpired \/ C!Tick
    BY <2>1, <2>3, BackgroundKeepsSizes, SameFind
  <2>4. QED
    BY <2>2, <2>3, SameFind DEF Next
<1>2. QED
  BY <1>1, StoredIsReadable, PTL DEF ErrorsChangeNothing, Spec

\* INCR, DECR, INCRBY and DECRBY through all layers: what the caller is told is what
\* the key then holds, and it differs from what the key held by the amount asked for,
\* but for one turn of int64 (cache.go:315-345, server.go:318-357): the negation in
\* handleDecrBy turns at most one amount, and the sum never turns twice.
THEOREM CountersAlwaysAddUp == Spec => CountersAddUp
<1>1. StoredInv /\ [Next]_vars => [\A k \in Key : CounterRight(k)]_vars
  <2> SUFFICES ASSUME StoredInv, Next, NEW k \in Key PROVE CounterRight(k)
    OBVIOUS
  <2>1. CP!CacheInv /\ SizesInv
    BY DEF StoredInv, TimesInv, SessionInv
  <2>2. ASSUME NEW c \in Commands \cup Typed, Request(c) PROVE CounterRight(k)
    <3>1. WellSorted(c) /\ cmd' = c /\ reply' = Read(c.type, resp')
      BY <2>2, SentIsWellSorted DEF Request
    <3>2. CASE Refused \/ Pinged(c) \/ Rejected(c)
      BY <3>2, UntouchedIsIdle DEF Refused, Pinged, Rejected, CounterRight
    <3>3. ASSUME NEW r, Served(c, r) PROVE CounterRight(k)
      BY <2>1, <3>1, <3>3, ServedCounts
    <3>. QED  BY <2>1, <2>2, <3>1, <3>2, <3>3, RequestOutcome
  <2>3. CASE C!cleanupExpired \/ C!Tick
    BY <2>3, BackgroundIsIdle DEF CounterRight
  <2>. QED  BY <2>2, <2>3 DEF Next
<1>. QED  BY <1>1, StoredIsReadable, PTL DEF CountersAddUp, CounterRight, Spec

-------------------------------------------------------------------------------
(* Reads match the store *)

\* An array of no items, of one that fits, or of a pair that fits can be read.
LEMMA ShortArrayFits ==
  ASSUME NEW items \in Seq(Text \cup Field),
         \/ Len(items) = 0
         \/ Len(items) = 1 /\ ItemFits(items[1])
         \/ Len(items) = 2 /\ PairFits(items[1], items[2])
  PROVE  ~ (ResponseLen(Response("array", items)) > MaxFrame)
<1> DEFINE a == Response("array", items)
           n == Len(items)
           D == DOMAIN items
           f == [i \in D |-> Bytes(items[i])]
<1>1. a.type = "array" /\ a.data = items
  BY ResponseFields
<1>2. n \in Nat /\ D = 1 .. n /\ \A i \in D : items[i] \in Text \cup Field
  OBVIOUS
<1>3. ResponseLen(a) = 1 + (UvarintLen(n) + SumFunction(f))
  BY <1>1 DEF ResponseLen, SliceLen
<1>4. \A i \in D : Bytes(items[i]) \in Nat
  <2>1. \A x \in Text \cup Field : Bytes(x) \in Nat
    BY SizeAssumption
  <2>2. QED
    BY <1>2, <2>1
<1>5. f \in [D -> Nat] /\ \A i \in D : f[i] = Bytes(items[i])
  <2> HIDE DEF D
  <2>1. QED
    BY <1>4
<1>6. n <= 2
  <2>1. n = 0 \/ n = 1 \/ n = 2
    OBVIOUS
  <2> HIDE DEF n
  <2>2. QED
    BY <2>1
<1> HIDE DEF a, f, D, n
<1>7. UvarintLen(n) = 1
  <2>1. n \in 0 .. 127
    BY <1>2, <1>6
  <2>2. QED
    BY <2>1, UvarintLenSmall
<1>8. MaxFrame \in Nat /\ MaxFrame >= 11
  BY ProtocolAssumption, FrameAssumption
<1>9. CASE n = 0
  <2>1. D = {}
    BY <1>2, <1>9
  <2>2. IsFiniteSet(D)
    BY <2>1, FS_EmptySet
  <2>3. SumFunction(f) = Cardinality({x \in D : f[x] > 0})
    BY <1>5, <2>1, <2>2, SumAtLeast
  <2>4. {x \in D : f[x] > 0} = {}
    BY <2>1
  <2>5. SumFunction(f) = 0
    BY <2>3, <2>4, FS_EmptySet
  <2>6. QED
    BY <1>3, <1>7, <1>8, <2>5 DEF a
<1>10. CASE n = 1 /\ ItemFits(items[1])
  <2>1. PICK i : i = 1
    OBVIOUS
  <2>2. D = {i}
    BY <1>2, <1>10, <2>1
  <2>3. f \in [{i} -> Nat]
    BY <1>5, <2>2
  <2>4. SumFunction(f) = f[i]
    BY <2>3, SumOfOne
  <2>5. f[i] = Bytes(items[1]) /\ Bytes(items[1]) \in Nat
    BY <1>4, <1>5, <2>1, <2>2
  <2>6. QED
    BY <1>3, <1>7, <1>8, <1>10, <2>4, <2>5 DEF a, ItemFits
<1>11. CASE n = 2 /\ PairFits(items[1], items[2])
  <2>1. PICK i, j : i = 1 /\ j = 2
    OBVIOUS
  <2>2. D = {i, j} /\ i # j
    BY <1>2, <1>11, <2>1
  <2>3. f \in [{i, j} -> Nat]
    BY <1>5, <2>2
  <2>4. SumFunction(f) = f[i] + f[j]
    BY <2>2, <2>3, SumOfTwo
  <2>5. /\ f[i] = Bytes(items[1]) /\ Bytes(items[1]) \in Nat
        /\ f[j] = Bytes(items[2]) /\ Bytes(items[2]) \in Nat
    BY <1>4, <1>5, <2>1, <2>2
  <2>6. QED
    BY <1>3, <1>7, <1>8, <1>11, <2>4, <2>5 DEF a, PairFits
<1>12. QED
  BY <1>9, <1>10, <1>11 DEF n, a

LEMMA ArrayIsRead ==
  ASSUME NEW items \in Seq(Text \cup Field), NEW type \in {"hgetall", "smembers"}
  PROVE  LET a == Response("array", items)
         IN  Read(type, a) = IF ResponseLen(a) > MaxFrame THEN Failed("connection")
                             ELSE Done(IF type = "hgetall" THEN MapOf(items) ELSE items)
<1> DEFINE a == Response("array", items)
<1>1. a.type = "array" /\ a.data = items /\ a # Nothing
  BY ResponseFields, NothingType
<1>2. CASE ResponseLen(a) > MaxFrame
  <2> HIDE DEF a
  <2>1. ReadResponse(a) = Malformed
    BY <1>2 DEF ReadResponse
  <2>2. QED
    BY <1>2, <2>1 DEF Read, a
<1>3. CASE ~ (ResponseLen(a) > MaxFrame)
  <2>1. ReadResponse(a) = a /\ a # Malformed
    BY <1>3, FittingIsRead DEF ResponseType
  <2>2. "array" \in Expected(type)
    BY DEF Expected
  <2> HIDE DEF a
  <2>3. Read(type, a) = Done(IF type = "hgetall" THEN MapOf(items) ELSE items)
    BY <1>1, <2>1, <2>2 DEF Read
  <2>4. QED
    BY <1>3, <2>3 DEF a
<1>4. QED
  BY <1>2, <1>3

\* An enumeration of a finite set names each member at one place.
LEMMA Enumerated ==
  ASSUME NEW S, IsFiniteSet(S), NEW fs \in SetToSeqs(S)
  PROVE  /\ fs \in Seq(S) /\ Len(fs) = Cardinality(S) /\ Cardinality(S) \in Nat
         /\ DOMAIN fs = 1 .. Len(fs)
         /\ \A x \in S : \E i \in 1 .. Len(fs) : fs[i] = x
<1> DEFINE n == Cardinality(S)
           D == 1 .. n
<1>1. n \in Nat
  BY FS_CardinalityType
<1>2. fs \in [D -> S] /\ \A i, j \in D : i # j => fs[i] # fs[j]
  BY DEF SetToSeqs
<1>3. IsFiniteSet(D) /\ Cardinality(D) = n
  <2>1. 1 \in Int /\ n \in Int
    BY <1>1
  <2>2. IsFiniteSet(D) /\ Cardinality(D) = IF 1 > n THEN 0 ELSE n - 1 + 1
    BY <2>1, FS_Interval, Zenon
  <2> HIDE DEF n
  <2>3. (IF 1 > n THEN 0 ELSE n - 1 + 1) = n
    BY <1>1
  <2>4. QED
    BY <2>2, <2>3
<1>4. fs \in Seq(S) /\ Len(fs) = n
  <2> HIDE DEF n
  <2>1. QED
    BY <1>1, <1>2
<1>5. Cardinality(D) = Cardinality(S)
  BY <1>3
<1> HIDE DEF n, D
<1>6. fs \in Injection(D, S)
  BY <1>2 DEF Injection, IsInjective
<1>7. fs \in Surjection(D, S)
  BY <1>5, <1>6, FS_Injection
<1>8. \A x \in S : \E i \in D : fs[i] = x
  BY <1>7 DEF Surjection
<1>9. QED
  BY <1>1, <1>2, <1>4, <1>8 DEF n, D

\* What HGetAll makes of the array is the hash the handler was given.
LEMMA PairsMapBack ==
  ASSUME NEW H, NEW F, F = {f \in Field : H[f] # NoText}, IsFiniteSet(F),
         \A f \in F : H[f] \in Text, NEW items \in Pairs(H)
  PROVE  /\ items \in Seq(Text \cup Field) /\ Len(items) = 2 * Cardinality(F)
         /\ Cardinality(F) \in Nat
         /\ Len(items) = 2 => items[1] \in F /\ items[2] = H[items[1]]
         /\ MapOf(items) = [f \in F |-> H[f]]
<1>1. PICK fs \in SetToSeqs(F) :
        items = [i \in 1 .. 2 * Len(fs) |->
                   IF i % 2 = 1 THEN fs[(i + 1) \div 2] ELSE H[fs[i \div 2]]]
  BY DEF Pairs
<1> DEFINE n == Len(fs)
<1>2. /\ fs \in Seq(F) /\ n = Cardinality(F) /\ n \in Nat
      /\ \A i \in 1 .. n : fs[i] \in F
      /\ \A f \in F : \E i \in 1 .. n : fs[i] = f
  <2>1. /\ fs \in Seq(F) /\ n = Cardinality(F) /\ n \in Nat
        /\ \A f \in F : \E i \in 1 .. n : fs[i] = f
    BY Enumerated
  <2>2. DOMAIN fs = 1 .. n
    BY <2>1
  <2>3. \A i \in 1 .. n : fs[i] \in F
    BY <2>1, <2>2
  <2> HIDE DEF n
  <2>4. QED
    BY <2>1, <2>3
<1> HIDE DEF n
<1>3. DOMAIN items = 1 .. 2 * n
  BY <1>1 DEF n
<1>4. \A i \in 1 .. 2 * n : items[i] = IF i % 2 = 1 THEN fs[(i + 1) \div 2] ELSE H[fs[i \div 2]]
  BY <1>1 DEF n
<1>5. \A i \in 1 .. 2 * n : IF i % 2 = 1 THEN (i + 1) \div 2 \in 1 .. n ELSE i \div 2 \in 1 .. n
  BY <1>2
<1>6. \A i \in 1 .. 2 * n : items[i] \in Text \cup Field
  BY <1>2, <1>4, <1>5
<1>7. items \in Seq(Text \cup Field) /\ Len(items) = 2 * n
  <2>1. items \in [1 .. 2 * n -> Text \cup Field]
    <3>1. items = [i \in 1 .. 2 * n |-> items[i]]
      BY <1>1 DEF n
    <3>2. QED
      BY <1>6, <3>1
  <2>2. 2 * n \in Nat
    BY <1>2
  <2>3. QED
    BY <2>1, <2>2
<1>8. \A i \in 1 .. n : items[2 * i - 1] = fs[i] /\ items[2 * i] = H[fs[i]]
  <2>1. TAKE i \in 1 .. n
  <2>2. /\ 2 * i - 1 \in 1 .. 2 * n /\ (2 * i - 1) % 2 = 1 /\ (2 * i - 1 + 1) \div 2 = i
        /\ 2 * i \in 1 .. 2 * n /\ (2 * i) % 2 = 0 /\ (2 * i) \div 2 = i
    BY <1>2
  <2>3. QED
    BY <1>4, <2>2
<1>9. Len(items) \div 2 = n
  BY <1>2, <1>7
<1>10. {items[2 * i - 1] : i \in 1 .. n} = F
  <2>1. ASSUME NEW x \in {items[2 * i - 1] : i \in 1 .. n} PROVE x \in F
    <3>1. PICK i \in 1 .. n : x = items[2 * i - 1]
      OBVIOUS
    <3>2. QED
      BY <1>2, <1>8, <3>1
  <2>2. ASSUME NEW x \in F PROVE x \in {items[2 * i - 1] : i \in 1 .. n}
    <3>1. PICK i \in 1 .. n : fs[i] = x
      BY <1>2
    <3>2. items[2 * i - 1] = x
      BY <1>8, <3>1
    <3>3. QED
      BY <3>2
  <2>3. QED
    BY <2>1, <2>2
<1>11. \A f \in F : items[2 * CHOOSE i \in 1 .. n : items[2 * i - 1] = f] = H[f]
  <2>1. TAKE f \in F
  <2> DEFINE j == CHOOSE i \in 1 .. n : items[2 * i - 1] = f
  <2>2. \E i \in 1 .. n : items[2 * i - 1] = f
    <3>1. PICK i \in 1 .. n : fs[i] = f
      BY <1>2
    <3>2. items[2 * i - 1] = f
      BY <1>8, <3>1
    <3>3. QED
      BY <3>2
  <2>3. j \in 1 .. n /\ items[2 * j - 1] = f
    BY <2>2
  <2> HIDE DEF j
  <2>4. items[2 * j] = H[f]
    BY <1>8, <2>3
  <2>5. QED
    BY <2>4 DEF j
<1>12. MapOf(items) = [f \in F |-> H[f]]
  <2> DEFINE m == Len(items) \div 2
  <2>1. MapOf(items) = [f \in {items[2 * i - 1] : i \in 1 .. m} |->
                          items[2 * CHOOSE i \in 1 .. m : items[2 * i - 1] = f]]
    BY Zenon DEF MapOf
  <2>2. m = n
    BY <1>9
  <2> HIDE DEF m
  <2> DEFINE At(f) == items[2 * CHOOSE i \in 1 .. n : items[2 * i - 1] = f]
  <2>3. MapOf(items) = [f \in F |-> At(f)]
    BY <1>10, <2>1, <2>2
  <2>4. \A f \in F : At(f) = H[f]
    BY <1>11
  <2> HIDE DEF At
  <2>5. QED
    BY <2>3, <2>4
<1>13. Len(items) = 2 => items[1] \in F /\ items[2] = H[items[1]]
  <2>1. HAVE Len(items) = 2
  <2>2. n = 1
    <3>1. n \in Nat /\ 2 * n = 2
      BY <1>2, <1>7, <2>1
    <3>2. QED
      BY <3>1
  <2>3. 1 \in 1 .. n /\ 2 * 1 - 1 = 1 /\ 2 * 1 = 2
    BY <2>2
  <2>4. items[1] = fs[1] /\ items[2] = H[fs[1]]
    BY <1>8, <2>3
  <2>5. QED
    BY <1>2, <2>3, <2>4
<1>14. QED
  BY <1>2, <1>7, <1>12, <1>13

\* What a read of key k tells its caller, of a key that holds e.
HashIn(e) == [f \in {g \in Field : Holds(e, "hash") /\ e.hash[g] # NoText} |-> e.hash[f]]
MembersIn(e) == IF Holds(e, "set") THEN e.set ELSE {}

TextRead(e, answer) ==
  answer = IF Holds(e, "string") THEN Done(e.str) ELSE Failed("not found")
HashRead(e, answer) ==
  \/ answer = Done(HashIn(e))
  \/ answer = Failed("connection") /\ Cardinality(DOMAIN HashIn(e)) > 1
MembersRead(e, answer) ==
  \/ answer[1] = "ok" /\ answer[2] \in SetToSeqs(MembersIn(e))
  \/ answer = Failed("connection") /\ Cardinality(MembersIn(e)) > 1

LEMMA TextIsRead ==
  ASSUME NEW e, Legal(e), e # Absent => CP!PayloadMatches(e),
         NEW a \in Answers("get", CP!GetOn(e).result)
  PROVE  TextRead(e, Read("get", a))
<1>1. CP!Holds(e, "string") <=> Holds(e, "string")
  BY DEF CP!Holds, Holds
<1>2. CASE Holds(e, "string")
  <2> DEFINE t == e.str
  <2>1. e \in CP!Value /\ Readable(e) /\ e.type = "string" /\ t # NoText
    BY <1>2 DEF Legal, Holds, CP!PayloadMatches
  <2>2. t \in Text /\ ItemFits(t)
    BY <2>1, SameTypes DEF CP!Value, Readable
  <2>3. CP!GetOn(e).result = <<t>>
    BY <1>1, <1>2 DEF CP!GetOn, CP!Outcome
  <2> HIDE DEF t
  <2>4. a = Response("string", t)
    <3>1. <<t>> # <<>> /\ <<t>>[1] = t
      OBVIOUS
    <3>2. QED
      BY <2>3, <3>1 DEF Answers
  <2>5. Read("get", a) = Done(t)
    BY <2>2, <2>4, TextAnswers
  <2>6. QED
    BY <1>2, <2>5 DEF TextRead, t
<1>3. CASE ~ Holds(e, "string")
  <2>1. CP!GetOn(e).result = <<>>
    BY <1>1, <1>3 DEF CP!GetOn, CP!Outcome
  <2>2. a = Response("nil", 0)
    BY <2>1 DEF Answers
  <2>3. QED
    BY <1>3, <2>2, NilAnswers DEF TextRead
<1>4. QED
  BY <1>2, <1>3

LEMMA HashIsRead ==
  ASSUME NEW e, Legal(e), NEW a \in Answers("hgetall", CP!HGetAllOn(e).result)
  PROVE  HashRead(e, Read("hgetall", a))
<1> DEFINE H == CP!HGetAllOn(e).result
           F == {f \in Field : H[f] # NoText}
           h == HashIn(e)
<1>1. H = IF Holds(e, "hash") THEN e.hash ELSE [f \in Field |-> NoText]
  BY DEF CP!HGetAllOn, CP!Outcome, CP!Holds, Holds
<1>2. PICK items \in Pairs(H) : a = Response("array", items)
  BY DEF Answers
<1>3. IsFiniteSet(F) /\ \A f \in F : H[f] \in Text /\ PairFits(f, H[f])
  <2>1. CASE Holds(e, "hash")
    <3>1. e \in CP!Value /\ Readable(e) /\ H = e.hash
      BY <1>1, <2>1 DEF Legal, Holds
    <3> HIDE DEF H
    <3>2. IsFiniteSet(F)
      BY <3>1 DEF Readable
    <3>3. \A f \in F : H[f] \in Text /\ PairFits(f, H[f])
      BY <3>1, SameTypes DEF Readable, CP!Value
    <3>4. QED
      BY <3>2, <3>3
  <2>2. CASE ~ Holds(e, "hash")
    <3>1. H = [f \in Field |-> NoText]
      BY <1>1, <2>2
    <3> HIDE DEF H
    <3>2. F = {}
      BY <3>1
    <3> HIDE DEF F
    <3>3. QED
      BY <3>2, FS_EmptySet
  <2>3. QED
    BY <2>1, <2>2
<1>4. /\ h = [f \in F |-> H[f]] /\ DOMAIN h = F
  <2>1. {g \in Field : Holds(e, "hash") /\ e.hash[g] # NoText} = F
    BY <1>1
  <2>2. \A f \in F : H[f] = e.hash[f]
    BY <1>1
  <2> HIDE DEF H, F
  <2>3. h = [f \in F |-> e.hash[f]]
    BY <2>1 DEF HashIn
  <2>4. QED
    BY <2>2, <2>3
<1>5. F = {f \in Field : H[f] # NoText}
  OBVIOUS
<1> HIDE DEF H, F, h
<1>6. /\ items \in Seq(Text \cup Field) /\ Len(items) = 2 * Cardinality(F)
      /\ Cardinality(F) \in Nat
      /\ Len(items) = 2 => items[1] \in F /\ items[2] = H[items[1]]
      /\ MapOf(items) = [f \in F |-> H[f]]
  BY <1>3, <1>5, PairsMapBack
<1>7. Read("hgetall", a) = IF ResponseLen(a) > MaxFrame THEN Failed("connection") ELSE Done(h)
  BY <1>2, <1>4, <1>6, ArrayIsRead
<1>8. CASE ResponseLen(a) > MaxFrame
  <2> DEFINE n == Cardinality(F)
  <2>1. n \in Nat /\ Len(items) = 2 * n
    BY <1>6
  <2>2. ~ (Len(items) = 0)
    BY <1>2, <1>6, <1>8, ShortArrayFits
  <2>3. ~ (Len(items) = 2)
    <3>1. Len(items) = 2 => PairFits(items[1], items[2])
      BY <1>3, <1>6
    <3>2. QED
      BY <1>2, <1>6, <1>8, <3>1, ShortArrayFits
  <2> HIDE DEF n
  <2>4. n > 1
    BY <2>1, <2>2, <2>3
  <2>5. QED
    BY <1>4, <1>7, <1>8, <2>4 DEF HashRead, h, n
<1>9. CASE ~ (ResponseLen(a) > MaxFrame)
  BY <1>7, <1>9 DEF HashRead, h
<1>10. QED
  BY <1>8, <1>9

LEMMA MembersAreRead ==
  ASSUME NEW e, Legal(e), e = Absent \/ IsFiniteSet(e.set),
         NEW a \in Answers("smembers", CP!SMembersOn(e).result)
  PROVE  MembersRead(e, Read("smembers", a))
<1> DEFINE s == MembersIn(e)
<1>1. CP!SMembersOn(e).result = s
  BY DEF CP!SMembersOn, CP!Outcome, CP!Holds, Holds, MembersIn
<1>2. PICK items \in SetToSeqs(s) : a = Response("array", items)
  BY <1>1 DEF Answers
<1>3. IsFiniteSet(s) /\ s \in SUBSET Text /\ \A m \in s : ItemFits(m)
  <2>1. CASE Holds(e, "set")
    <3>1. s = e.set /\ e \in CP!Value /\ Readable(e) /\ IsFiniteSet(e.set)
      BY <2>1 DEF MembersIn, Holds, Legal
    <3>2. QED
      BY <3>1, SameTypes DEF CP!Value, Readable
  <2>2. CASE ~ Holds(e, "set")
    <3>1. s = {}
      BY <2>2 DEF MembersIn
    <3>2. QED
      BY <3>1, FS_EmptySet
  <2>3. QED
    BY <2>1, <2>2
<1> HIDE DEF s
<1>4. /\ items \in Seq(s) /\ Len(items) = Cardinality(s) /\ Cardinality(s) \in Nat
      /\ DOMAIN items = 1 .. Len(items)
  BY <1>3, Enumerated
<1>5. items \in Seq(Text \cup Field)
  BY <1>3, <1>4
<1>6. Read("smembers", a) = IF ResponseLen(a) > MaxFrame THEN Failed("connection")
                            ELSE Done(items)
  BY <1>2, <1>5, ArrayIsRead
<1>7. CASE ResponseLen(a) > MaxFrame
  <2>1. ~ (Len(items) = 0)
    BY <1>2, <1>5, <1>7, ShortArrayFits
  <2>2. ~ (Len(items) = 1)
    <3>1. \A i \in DOMAIN items : items[i] \in s
      BY <1>4
    <3>2. Len(items) = 1 => items[1] \in s
      BY <1>4, <3>1
    <3>3. QED
      BY <1>2, <1>3, <1>5, <1>7, <3>2, ShortArrayFits
  <2>3. Cardinality(s) > 1
    BY <1>4, <2>1, <2>2
  <2>4. QED
    BY <1>6, <1>7, <2>3 DEF MembersRead, s
<1>8. CASE ~ (ResponseLen(a) > MaxFrame)
  <2>1. Done(items)[1] = "ok" /\ Done(items)[2] = items
    BY DEF Done
  <2>2. QED
    BY <1>2, <1>6, <1>8, <2>1 DEF MembersRead, s
<1>9. QED
  BY <1>7, <1>8

ReadsRight(k) ==
  /\ last'[1] = "get" /\ last'[2] = k => TextRead(C!Find(k), reply')
  /\ last'[1] = "hgetall" /\ last'[2] = k => HashRead(C!Find(k), reply')
  /\ last'[1] = "smembers" /\ last'[2] = k => MembersRead(C!Find(k), reply')

LEMMA RequestReadsRight ==
  ASSUME CP!CacheInv, CP!FiniteInv, SizesInv, NEW c, WellSorted(c), Request(c), NEW k \in Key
  PROVE  ReadsRight(k)
<1> DEFINE e == CP!Find(k)
<1>1. reply' = Read(c.type, resp')
  BY DEF Request
<1>2. CASE Refused \/ Pinged(c) \/ Rejected(c)
  BY <1>2, UntouchedIsIdle DEF Refused, Pinged, Rejected, ReadsRight
<1>3. ASSUME NEW r, Served(c, r) PROVE ReadsRight(k)
  <2>1. /\ r.type = c.type /\ r.key = c.key /\ Run(r) /\ resp' \in Answers(c.type, last'[4])
        /\ last'[1] = MethodOf(c.type) /\ last'[2] = c.key
    BY <1>3 DEF Served, Serves, Arrives
  <2>2. Legal(e) /\ C!Find(k) = e
    BY FindIsLegal, SameFind
  <2>3. e # Absent => CP!PayloadMatches(e)
    BY CacheSteps DEF CP!WellFormed
  <2>4. e = Absent \/ IsFiniteSet(e.set)
    BY SameCounting DEF CP!FiniteInv, CP!FiniteValue, CP!Find
  <2>5. ASSUME last'[1] = "get", last'[2] = k PROVE TextRead(e, reply')
    <3>1. c.type = "get" /\ r.key = k
      BY <2>1, <2>5 DEF MethodOf
    <3>2. CP!Get(k)
      BY <2>1, <3>1, SameKeyOps DEF Run
    <3>3. last'[4] = CP!GetOn(e).result
      BY <3>2, CallLeavesLast DEF CP!Get
    <3>4. QED
      BY <1>1, <2>1, <2>2, <2>3, <3>1, <3>3, TextIsRead
  <2>6. ASSUME last'[1] = "hgetall", last'[2] = k PROVE HashRead(e, reply')
    <3>1. c.type = "hgetall" /\ r.key = k
      BY <2>1, <2>6 DEF MethodOf
    <3>2. CP!HGetAll(k)
      BY <2>1, <3>1, SameHashOps DEF Run
    <3>3. last'[4] = CP!HGetAllOn(e).result
      BY <3>2, CallLeavesLast DEF CP!HGetAll
    <3>4. QED
      BY <1>1, <2>1, <2>2, <3>1, <3>3, HashIsRead
  <2>7. ASSUME last'[1] = "smembers", last'[2] = k PROVE MembersRead(e, reply')
    <3>1. c.type = "smembers" /\ r.key = k
      BY <2>1, <2>7 DEF MethodOf
    <3>2. CP!SMembers(k)
      BY <2>1, <3>1, SameSetOps DEF Run
    <3>3. last'[4] = CP!SMembersOn(e).result
      BY <3>2, CallLeavesLast DEF CP!SMembers
    <3>4. QED
      BY <1>1, <2>1, <2>2, <2>4, <3>1, <3>3, MembersAreRead
  <2>8. QED
    BY <2>2, <2>5, <2>6, <2>7 DEF ReadsRight
<1>4. QED
  BY <1>2, <1>3, RequestOutcome

\* A caller reads what the key holds: nothing that was stored is too large for the
\* response that carries it alone, and the alternating array of HGETALL
\* (server.go:448-455) is put together again by Client.HGetAll (client.go:853-859),
\* in whatever order the map was walked.  Only an array of several items can fail,
\* and then with an error.
THEOREM ReadsAlwaysMatch == Spec => ReadsMatchStore
<1>1. StoredInv /\ [Next]_vars => [\A k \in Key : ReadsRight(k)]_vars
  <2> SUFFICES ASSUME StoredInv, Next, NEW k \in Key PROVE ReadsRight(k)
    OBVIOUS
  <2>1. CP!CacheInv /\ CP!FiniteInv /\ SizesInv
    BY DEF StoredInv, TimesInv, SessionInv
  <2>2. ASSUME NEW c \in Commands \cup Typed, Request(c) PROVE ReadsRight(k)
    BY <2>1, <2>2, SentIsWellSorted, RequestReadsRight
  <2>3. CASE C!cleanupExpired \/ C!Tick
    BY <2>3, BackgroundIsIdle DEF ReadsRight
  <2>4. QED
    BY <2>2, <2>3 DEF Next
<1>2. QED
  BY <1>1, StoredIsReadable, PTL
    DEF ReadsMatchStore, ReadsRight, TextRead, HashRead, MembersRead, HashIn, MembersIn, Spec
===============================================================================
