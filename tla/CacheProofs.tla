------------------------------ MODULE CacheProofs ------------------------------
(***************************************************************************)
(* Theorems of Cache for every set of keys, texts and fields, every width  *)
(* of the integers and every duration.                                     *)
(***************************************************************************)
EXTENDS Cache, TLAPS, FiniteSetTheorems

USE CacheValueAssumption, AbsentAssumption DEF CacheValueAssumption

-------------------------------------------------------------------------------
(* What the operations do to a value *)

\* A value of the map: of the right type, with its payload in the right place.
WellFormed(e) == e = Absent \/ (e \in Value /\ PayloadMatches(e))

\* What an operation on the contents of a value may do to it: a live value
\* stays, with its type and deadline.
Edits(e, new) ==
  /\ WellFormed(new)
  /\ e # Absent => new # Absent /\ new.type = e.type /\ new.exp = e.exp

LEMMA ValueNotAbsent == \A e \in Value : e # Absent
BY AbsentAssumption

LEMMA NewFields ==
  ASSUME NEW type \in ValueType, NEW exp \in Int \cup {NoExpiry}
  PROVE  /\ New(type, exp) \in Value
         /\ New(type, exp).type = type /\ New(type, exp).exp = exp
         /\ New(type, exp).str = NoText /\ New(type, exp).list = <<>>
         /\ New(type, exp).set = {}
         /\ \A f \in Field : New(type, exp).hash[f] = NoText
BY DEF New, Value

LEMMA NewTypes == "string" \in ValueType /\ "hash" \in ValueType /\ "list" \in ValueType
                  /\ "set" \in ValueType /\ NoExpiry \in Int \cup {NoExpiry}
BY DEF ValueType

\* Updating one field of a value leaves the others alone.
LEMMA UpdateStr ==
  ASSUME NEW e \in Value, NEW v \in Text \cup {NoText}
  PROVE  LET u == [e EXCEPT !.str = v]
         IN  /\ u \in Value /\ u.str = v /\ u.type = e.type /\ u.exp = e.exp
             /\ u.hash = e.hash /\ u.list = e.list /\ u.set = e.set
BY DEF Value

LEMMA UpdateHash ==
  ASSUME NEW e \in Value, NEW f \in Field, NEW v \in Text \cup {NoText}
  PROVE  LET u == [e EXCEPT !.hash[f] = v]
         IN  /\ u \in Value /\ u.type = e.type /\ u.exp = e.exp
             /\ u.str = e.str /\ u.list = e.list /\ u.set = e.set
BY DEF Value

LEMMA UpdateList ==
  ASSUME NEW e \in Value, NEW l \in Seq(Text)
  PROVE  LET u == [e EXCEPT !.list = l]
         IN  /\ u \in Value /\ u.list = l /\ u.type = e.type /\ u.exp = e.exp
             /\ u.str = e.str /\ u.hash = e.hash /\ u.set = e.set
BY DEF Value

LEMMA UpdateSet ==
  ASSUME NEW e \in Value, NEW s \in SUBSET Text
  PROVE  LET u == [e EXCEPT !.set = s]
         IN  /\ u \in Value /\ u.set = s /\ u.type = e.type /\ u.exp = e.exp
             /\ u.str = e.str /\ u.hash = e.hash /\ u.list = e.list
BY DEF Value

LEMMA UpdateExp ==
  ASSUME NEW e \in Value, NEW x \in Int \cup {NoExpiry}
  PROVE  LET u == [e EXCEPT !.exp = x]
         IN  /\ u \in Value /\ u.exp = x /\ u.type = e.type
             /\ u.str = e.str /\ u.hash = e.hash /\ u.list = e.list /\ u.set = e.set
BY DEF Value

\* What is created when a writer finds nothing, or found when it does.
LEMMA EnsureWellFormed ==
  ASSUME NEW e, WellFormed(e), NEW type \in ValueType \ {"string"}
  PROVE  /\ Ensure(e, type) \in Value /\ PayloadMatches(Ensure(e, type))
         /\ e # Absent => Ensure(e, type) = e
         /\ e = Absent => Ensure(e, type).type = type
<1>1. CASE e = Absent
  <2>. DEFINE n == New(type, NoExpiry)
  <2>1. Ensure(e, type) = n
    BY <1>1 DEF Ensure
  <2>2. /\ n \in Value /\ n.type = type /\ n.str = NoText /\ n.list = <<>> /\ n.set = {}
        /\ \A f \in Field : n.hash[f] = NoText
    BY NewFields DEF New, Value
  <2>3. type # "string"
    OBVIOUS
  <2>. HIDE DEF n
  <2>. QED  BY <1>1, <2>1, <2>2, <2>3 DEF PayloadMatches
<1>2. CASE e # Absent
  BY <1>2 DEF Ensure, WellFormed
<1>. QED  BY <1>1, <1>2

LEMMA SetOnWellFormed ==
  ASSUME NEW v \in Text, NEW exp \in Int \cup {NoExpiry}
  PROVE  WellFormed(SetOn(v, exp).value)
<1>. DEFINE n == New("string", exp)
<1>1. /\ n \in Value /\ n.type = "string" /\ n.list = <<>> /\ n.set = {}
      /\ \A f \in Field : n.hash[f] = NoText
  BY NewFields DEF ValueType
<1>2. v # NoText
  BY DEF Text, Int64
<1>. HIDE DEF n
<1>3. PayloadMatches([n EXCEPT !.str = v]) /\ [n EXCEPT !.str = v] \in Value
  BY <1>1, <1>2, UpdateStr DEF PayloadMatches
<1>4. SetOn(v, exp).value = [n EXCEPT !.str = v]
  BY DEF SetOn, Outcome, n
<1>. QED  BY <1>3, <1>4 DEF WellFormed

\* Wrapped addition stays within int64.
LEMMA WrapInt64 == \A n \in Int : Wrap(n) \in Int64
<1>. SUFFICES ASSUME NEW n \in Int PROVE Wrap(n) \in Int64
  OBVIOUS
<1>. DEFINE m == 2 * (MaxInt + 1)
<1>1. m \in Nat \ {0} /\ n + MaxInt + 1 \in Int
  OBVIOUS
<1>2. (n + MaxInt + 1) % m \in 0 .. m - 1
  BY <1>1
<1>. QED  BY <1>2 DEF Wrap, Int64

LEMMA IncrByOnEdits ==
  ASSUME NEW e, WellFormed(e), NEW delta \in Int64
  PROVE  Edits(e, IncrByOn(e, delta).value)
<1>1. CASE e = Absent
  <2>1. IncrByOn(e, delta).value = SetOn(delta, NoExpiry).value
    BY <1>1 DEF IncrByOn, SetOn, Outcome
  <2>. QED  BY <1>1, <2>1, SetOnWellFormed DEF Edits, Text
<1>2. CASE e # Absent /\ Holds(e, "string") /\ e.str \in Int64
  <2>. DEFINE n == Wrap(e.str + delta)
              u == [e EXCEPT !.str = n]
  <2>1. n \in Int64 /\ n \in Int
    BY <1>2, WrapInt64 DEF Int64
  <2>2. n \in Text /\ n # NoText
    BY <2>1 DEF Text
  <2>3. e \in Value /\ PayloadMatches(e) /\ e.type = "string"
    BY <1>2 DEF WellFormed, Holds
  <2>4. IncrByOn(e, delta).value = u
    BY <1>2 DEF IncrByOn, Outcome
  <2>. HIDE DEF n
  <2>5. u \in Value /\ u.type = e.type /\ u.exp = e.exp /\ PayloadMatches(u)
    BY <2>2, <2>3, UpdateStr DEF PayloadMatches
  <2>. QED  BY <2>4, <2>5, ValueNotAbsent DEF Edits, WellFormed
<1>3. CASE e # Absent /\ ~ (Holds(e, "string") /\ e.str \in Int64)
  BY <1>3 DEF Edits, IncrByOn, Outcome
<1>. QED  BY <1>1, <1>2, <1>3

LEMMA HSetOnEdits ==
  ASSUME NEW e, WellFormed(e), NEW f \in Field, NEW v \in Text
  PROVE  Edits(e, HSetOn(e, f, v).value)
<1>. DEFINE h == Ensure(e, "hash")
            u == [h EXCEPT !.hash[f] = v]
<1>1. h \in Value /\ PayloadMatches(h) /\ (e # Absent => h = e)
  BY EnsureWellFormed DEF ValueType
<1>2. HSetOn(e, f, v).value = IF h.type = "hash" THEN u ELSE h
  BY DEF HSetOn, Outcome
<1>. HIDE DEF h
<1>3. /\ u \in Value /\ u.type = h.type /\ u.exp = h.exp
      /\ h.type = "hash" => PayloadMatches(u)
  BY <1>1, UpdateHash DEF PayloadMatches
<1>. QED  BY <1>1, <1>2, <1>3, ValueNotAbsent DEF Edits, WellFormed

LEMMA HDelOnEdits ==
  ASSUME NEW e, WellFormed(e), NEW f \in Field
  PROVE  Edits(e, HDelOn(e, f).value)
<1>1. CASE Holds(e, "hash") /\ e.hash[f] # NoText
  <2>. DEFINE u == [e EXCEPT !.hash[f] = NoText]
  <2>1. HDelOn(e, f).value = u /\ e \in Value /\ PayloadMatches(e) /\ e.type = "hash"
    BY <1>1 DEF HDelOn, Outcome, Holds, WellFormed
  <2>2. u \in Value /\ u.type = e.type /\ u.exp = e.exp /\ PayloadMatches(u)
    BY <2>1, UpdateHash DEF PayloadMatches
  <2>. QED  BY <2>1, <2>2, ValueNotAbsent DEF Edits, WellFormed
<1>2. CASE ~ (Holds(e, "hash") /\ e.hash[f] # NoText)
  BY <1>2 DEF Edits, HDelOn, Outcome
<1>. QED  BY <1>1, <1>2

\* Lists: whatever list of texts replaces the one a list value has.
LEMMA ListEdit ==
  ASSUME NEW e \in Value, PayloadMatches(e), e.type = "list", NEW l \in Seq(Text)
  PROVE  /\ [e EXCEPT !.list = l] \in Value /\ PayloadMatches([e EXCEPT !.list = l])
         /\ [e EXCEPT !.list = l].type = e.type /\ [e EXCEPT !.list = l].exp = e.exp
<1>. DEFINE u == [e EXCEPT !.list = l]
<1>1. /\ u \in Value /\ u.type = e.type /\ u.exp = e.exp
      /\ u.str = e.str /\ u.hash = e.hash /\ u.set = e.set
  BY UpdateList
<1>. HIDE DEF u
<1>2. PayloadMatches(u)
  BY <1>1 DEF PayloadMatches
<1>. QED  BY <1>1, <1>2 DEF u

LEMMA PushEdits ==
  ASSUME NEW e, WellFormed(e), NEW values \in Seq(Text)
  PROVE  Edits(e, LPushOn(e, values).value) /\ Edits(e, RPushOn(e, values).value)
<1>. DEFINE l == Ensure(e, "list")
<1>1. l \in Value /\ PayloadMatches(l) /\ (e # Absent => l = e)
  BY EnsureWellFormed DEF ValueType
<1>2. /\ LPushOn(e, values).value =
           IF l.type = "list" THEN [l EXCEPT !.list = values \o l.list] ELSE l
      /\ RPushOn(e, values).value =
           IF l.type = "list" THEN [l EXCEPT !.list = l.list \o values] ELSE l
  BY DEF LPushOn, RPushOn, Outcome
<1>. HIDE DEF l
<1>3. values \o l.list \in Seq(Text) /\ l.list \o values \in Seq(Text)
  BY <1>1 DEF Value
<1>4. CASE l.type = "list"
  <2>1. LPushOn(e, values).value = [l EXCEPT !.list = values \o l.list]
    BY <1>2, <1>4
  <2>2. RPushOn(e, values).value = [l EXCEPT !.list = l.list \o values]
    BY <1>2, <1>4
  <2>3. Edits(e, [l EXCEPT !.list = values \o l.list])
    BY <1>1, <1>3, <1>4, ListEdit, ValueNotAbsent DEF Edits, WellFormed
  <2>4. Edits(e, [l EXCEPT !.list = l.list \o values])
    BY <1>1, <1>3, <1>4, ListEdit, ValueNotAbsent DEF Edits, WellFormed
  <2>. QED  BY <2>1, <2>2, <2>3, <2>4
<1>5. CASE l.type # "list"
  BY <1>1, <1>2, <1>5 DEF Edits, WellFormed
<1>. QED  BY <1>4, <1>5

LEMMA PopEdits ==
  ASSUME NEW e, WellFormed(e)
  PROVE  Edits(e, LPopOn(e).value) /\ Edits(e, RPopOn(e).value)
<1>1. CASE Holds(e, "list") /\ e.list # <<>>
  <2>1. e \in Value /\ PayloadMatches(e) /\ e.type = "list" /\ e.list \in Seq(Text)
    BY <1>1 DEF Holds, WellFormed, Value
  <2>2. Tail(e.list) \in Seq(Text) /\ SubSeq(e.list, 1, Len(e.list) - 1) \in Seq(Text)
    BY <1>1, <2>1
  <2>3. /\ LPopOn(e).value = [e EXCEPT !.list = Tail(e.list)]
        /\ RPopOn(e).value = [e EXCEPT !.list = SubSeq(e.list, 1, Len(e.list) - 1)]
    BY <1>1 DEF LPopOn, RPopOn, Outcome
  <2>4. Edits(e, [e EXCEPT !.list = Tail(e.list)])
    BY <2>1, <2>2, ListEdit, ValueNotAbsent DEF Edits, WellFormed
  <2>5. Edits(e, [e EXCEPT !.list = SubSeq(e.list, 1, Len(e.list) - 1)])
    BY <2>1, <2>2, ListEdit, ValueNotAbsent DEF Edits, WellFormed
  <2>. QED  BY <2>3, <2>4, <2>5
<1>2. CASE ~ (Holds(e, "list") /\ e.list # <<>>)
  BY <1>2 DEF Edits, LPopOn, RPopOn, Outcome
<1>. QED  BY <1>1, <1>2

LEMMA SetEdits ==
  ASSUME NEW e, WellFormed(e), NEW members \in Seq(Text)
  PROVE  Edits(e, SAddOn(e, members).value) /\ Edits(e, SRemOn(e, members).value)
<1>1. Range(members) \subseteq Text
  BY DEF Range
<1>2. ASSUME NEW d \in Value, PayloadMatches(d), d.type = "set", NEW s \in SUBSET Text,
             e # Absent => d = e
      PROVE  Edits(e, [d EXCEPT !.set = s])
  <2>. DEFINE u == [d EXCEPT !.set = s]
  <2>1. /\ u \in Value /\ u.type = d.type /\ u.exp = d.exp
        /\ u.str = d.str /\ u.hash = d.hash /\ u.list = d.list
    BY UpdateSet
  <2>. HIDE DEF u
  <2>2. PayloadMatches(u)
    BY <1>2, <2>1 DEF PayloadMatches
  <2>3. Edits(e, u)
    BY <1>2, <2>1, <2>2, ValueNotAbsent DEF Edits, WellFormed
  <2>. QED  BY <2>3 DEF u
<1>3. Edits(e, SAddOn(e, members).value)
  <2>. DEFINE d == Ensure(e, "set")
  <2>1. d \in Value /\ PayloadMatches(d) /\ (e # Absent => d = e)
    BY EnsureWellFormed DEF ValueType
  <2>2. SAddOn(e, members).value =
          IF d.type = "set" THEN [d EXCEPT !.set = d.set \cup Range(members)] ELSE d
    BY DEF SAddOn, Outcome
  <2>. HIDE DEF d
  <2>3. d.set \cup Range(members) \in SUBSET Text
    BY <1>1, <2>1 DEF Value
  <2>4. CASE d.type = "set"
    BY <1>2, <2>1, <2>2, <2>3, <2>4
  <2>5. CASE d.type # "set"
    BY <2>1, <2>2, <2>5 DEF Edits, WellFormed
  <2>. QED  BY <2>4, <2>5
<1>4. Edits(e, SRemOn(e, members).value)
  <2>1. CASE Holds(e, "set")
    <3>1. e \in Value /\ PayloadMatches(e) /\ e.type = "set"
      BY <2>1 DEF Holds, WellFormed
    <3>2. e.set \ Range(members) \in SUBSET Text
      BY <3>1 DEF Value
    <3>3. SRemOn(e, members).value = [e EXCEPT !.set = e.set \ Range(members)]
      BY <2>1 DEF SRemOn, Outcome
    <3>. QED  BY <1>2, <3>1, <3>2, <3>3
  <2>2. CASE ~ Holds(e, "set")
    BY <2>2 DEF SRemOn, Outcome, Edits
  <2>. QED  BY <2>1, <2>2
<1>. QED  BY <1>3, <1>4

-------------------------------------------------------------------------------
(* The inductive invariant *)

\* Exactly the values a caller or the cleanup may leave behind.
CacheInv == /\ data \in [Key -> Value \cup {Absent}]
            /\ clock \in 0 .. MaxClock
            /\ \A k \in Key : WellFormed(data[k])

LEMMA FindWellFormed == CacheInv => \A k \in Key : WellFormed(Find(k))
BY DEF CacheInv, Find, WellFormed

Writes(k, new) ==
  /\ data' = IF new = Find(k) THEN data ELSE [data EXCEPT ![k] = new]
  /\ UNCHANGED clock

\* The operations that change no type and no deadline.
Editors == {"get", "exists", "ttl", "hget", "hexists", "hgetall", "llen", "smembers",
            "sismember", "incrby", "hset", "hdel", "lpush", "rpush", "lpop", "rpop",
            "sadd", "srem"}

\* A step that answers a call of such an operation for key k.
EditsKey(k) == /\ \E new : Edits(Find(k), new) /\ Writes(k, new)
               /\ last'[1] \in Editors /\ last'[2] = k

LEMMA CallEdits ==
  ASSUME NEW k \in Key, NEW op \in Editors, NEW args, NEW out, Call(op, k, args, out),
         Edits(Find(k), out.value)
  PROVE  EditsKey(k)
BY DEF Call, Writes, EditsKey

LEMMA CallReads ==
  ASSUME NEW k \in Key, NEW op \in Editors, NEW args, NEW out, Call(op, k, args, out),
         WellFormed(Find(k)), out.value = Find(k)
  PROVE  EditsKey(k)
BY CallEdits DEF Edits

\* Every step edits one key, replaces or removes one, or lets time do its work.
StepKinds ==
  \/ \E k \in Key : EditsKey(k)
  \/ \E k \in Key, v \in Input, ttl \in Ttl : Set(k, v, ttl)
  \/ \E k \in Key, ttl \in Ttl : Expire(k, ttl)
  \/ \E k \in Key : Persist(k)
  \/ \E k \in Key : Del(k)
  \/ cleanupExpired
  \/ Tick

LEMMA NextIsStepKind == CacheInv /\ Next => StepKinds
<1>. SUFFICES ASSUME CacheInv, Next PROVE StepKinds
  OBVIOUS
<1>0. \A k \in Key : WellFormed(Find(k))
  BY FindWellFormed
<1>. USE CacheAssumption DEF CacheAssumption
<1>1. ASSUME NEW k \in Key, KeyOp(k) PROVE StepKinds
  <2>1. CASE Get(k)
    <3>1. GetOn(Find(k)).value = Find(k)
      BY DEF GetOn, Outcome
    <3>. QED  BY <1>0, <2>1, <3>1, CallReads DEF Get, Editors, StepKinds
  <2>2. CASE Exists(k)
    <3>1. ExistsOn(Find(k)).value = Find(k)
      BY DEF ExistsOn, Outcome
    <3>. QED  BY <1>0, <2>2, <3>1, CallReads DEF Exists, Editors, StepKinds
  <2>3. CASE TTL(k)
    <3>1. TTLOn(Find(k), clock).value = Find(k)
      BY DEF TTLOn, Outcome
    <3>. QED  BY <1>0, <2>3, <3>1, CallReads DEF TTL, Editors, StepKinds
  <2>4. ASSUME NEW d \in Delta, IncrBy(k, d) PROVE StepKinds
    <3>1. Edits(Find(k), IncrByOn(Find(k), d).value)
      BY <1>0, IncrByOnEdits
    <3>. QED  BY <2>4, <3>1, CallEdits DEF IncrBy, Editors, StepKinds
  <2>. QED  BY <1>1, <2>1, <2>2, <2>3, <2>4 DEF KeyOp, StepKinds
<1>2. ASSUME NEW k \in Key, HashOp(k) PROVE StepKinds
  <2>1. CASE HGetAll(k)
    <3>1. HGetAllOn(Find(k)).value = Find(k)
      BY DEF HGetAllOn, Outcome
    <3>. QED  BY <1>0, <2>1, <3>1, CallReads DEF HGetAll, Editors, StepKinds
  <2>. SUFFICES ASSUME ~ HGetAll(k) PROVE StepKinds
    BY <2>1
  <2>. PICK f \in Field : \/ \E v \in Input : HSet(k, f, v)
                          \/ HGet(k, f) \/ HDel(k, f) \/ HExists(k, f)
    BY <1>2 DEF HashOp
  <2>2. ASSUME NEW v \in Input, HSet(k, f, v) PROVE StepKinds
    <3>1. Edits(Find(k), HSetOn(Find(k), f, v).value)
      BY <1>0, HSetOnEdits
    <3>. QED  BY <2>2, <3>1, CallEdits DEF HSet, Editors, StepKinds
  <2>3. CASE HGet(k, f)
    <3>1. HGetOn(Find(k), f).value = Find(k)
      BY DEF HGetOn, Outcome
    <3>. QED  BY <1>0, <2>3, <3>1, CallReads DEF HGet, Editors, StepKinds
  <2>4. CASE HDel(k, f)
    <3>1. Edits(Find(k), HDelOn(Find(k), f).value)
      BY <1>0, HDelOnEdits
    <3>. QED  BY <2>4, <3>1, CallEdits DEF HDel, Editors, StepKinds
  <2>5. CASE HExists(k, f)
    <3>1. HExistsOn(Find(k), f).value = Find(k)
      BY DEF HExistsOn, Outcome
    <3>. QED  BY <1>0, <2>5, <3>1, CallReads DEF HExists, Editors, StepKinds
  <2>. QED  BY <2>1, <2>2, <2>3, <2>4, <2>5
<1>3. ASSUME NEW k \in Key, ListOp(k) PROVE StepKinds
  <2>1. ASSUME NEW b \in Batch, LPush(k, b) \/ RPush(k, b) PROVE StepKinds
    <3>1. Edits(Find(k), LPushOn(Find(k), b).value) /\ Edits(Find(k), RPushOn(Find(k), b).value)
      BY <1>0, PushEdits
    <3>. QED  BY <2>1, <3>1, CallEdits DEF LPush, RPush, Editors, StepKinds
  <2>2. CASE LPop(k) \/ RPop(k)
    <3>1. Edits(Find(k), LPopOn(Find(k)).value) /\ Edits(Find(k), RPopOn(Find(k)).value)
      BY <1>0, PopEdits
    <3>. QED  BY <2>2, <3>1, CallEdits DEF LPop, RPop, Editors, StepKinds
  <2>3. CASE LLen(k)
    <3>1. LLenOn(Find(k)).value = Find(k)
      BY DEF LLenOn, Outcome
    <3>. QED  BY <1>0, <2>3, <3>1, CallReads DEF LLen, Editors, StepKinds
  <2>. QED  BY <1>3, <2>1, <2>2, <2>3 DEF ListOp
<1>4. ASSUME NEW k \in Key, SetOp(k) PROVE StepKinds
  <2>1. ASSUME NEW b \in Batch, SAdd(k, b) \/ SRem(k, b) PROVE StepKinds
    <3>1. Edits(Find(k), SAddOn(Find(k), b).value) /\ Edits(Find(k), SRemOn(Find(k), b).value)
      BY <1>0, SetEdits
    <3>. QED  BY <2>1, <3>1, CallEdits DEF SAdd, SRem, Editors, StepKinds
  <2>2. ASSUME NEW m \in Input, SIsMember(k, m) PROVE StepKinds
    <3>1. SIsMemberOn(Find(k), m).value = Find(k)
      BY DEF SIsMemberOn, Outcome
    <3>. QED  BY <1>0, <2>2, <3>1, CallReads DEF SIsMember, Editors, StepKinds
  <2>3. CASE SMembers(k)
    <3>1. SMembersOn(Find(k)).value = Find(k)
      BY DEF SMembersOn, Outcome
    <3>. QED  BY <1>0, <2>3, <3>1, CallReads DEF SMembers, Editors, StepKinds
  <2>. QED  BY <1>4, <2>1, <2>2, <2>3 DEF SetOp
<1>. QED  BY <1>1, <1>2, <1>3, <1>4 DEF Next, StepKinds

\* The value Set, Expire and Persist leave behind.
LEMMA ExpireOnWellFormed ==
  ASSUME NEW e, WellFormed(e), NEW x \in Int \cup {NoExpiry}
  PROVE  /\ WellFormed(ExpireOn(e, x).value) /\ WellFormed(PersistOn(e).value)
         /\ e = Absent <=> ExpireOn(e, x).value = Absent
         /\ e = Absent <=> PersistOn(e).value = Absent
         /\ e # Absent => /\ ExpireOn(e, x).value.type = e.type
                          /\ PersistOn(e).value.type = e.type
<1>1. CASE e = Absent
  BY <1>1 DEF ExpireOn, PersistOn, Outcome, WellFormed
<1>2. CASE e # Absent
  <2>1. e \in Value /\ PayloadMatches(e)
    BY <1>2 DEF WellFormed
  <2>2. ASSUME NEW y \in Int \cup {NoExpiry}
        PROVE  WellFormed([e EXCEPT !.exp = y]) /\ [e EXCEPT !.exp = y] # Absent
               /\ [e EXCEPT !.exp = y].type = e.type
    <3>. DEFINE u == [e EXCEPT !.exp = y]
    <3>1. /\ u \in Value /\ u.type = e.type
          /\ u.str = e.str /\ u.hash = e.hash /\ u.list = e.list /\ u.set = e.set
      BY <2>1, UpdateExp
    <3>. HIDE DEF u
    <3>2. PayloadMatches(u)
      BY <2>1, <3>1 DEF PayloadMatches
    <3>3. WellFormed(u) /\ u # Absent /\ u.type = e.type
      BY <3>1, <3>2, ValueNotAbsent DEF WellFormed
    <3>. QED  BY <3>3 DEF u
  <2>3. /\ ExpireOn(e, x).value = [e EXCEPT !.exp = x]
        /\ PersistOn(e).value = [e EXCEPT !.exp = NoExpiry]
    BY <1>2 DEF ExpireOn, PersistOn, Outcome
  <2>4. WellFormed([e EXCEPT !.exp = x]) /\ [e EXCEPT !.exp = x] # Absent
        /\ [e EXCEPT !.exp = x].type = e.type
    BY <2>2
  <2>5. WellFormed([e EXCEPT !.exp = NoExpiry]) /\ [e EXCEPT !.exp = NoExpiry] # Absent
        /\ [e EXCEPT !.exp = NoExpiry].type = e.type
    BY <2>2
  <2>. QED  BY <1>2, <2>3, <2>4, <2>5
<1>. QED  BY <1>1, <1>2

LEMMA WritesInv ==
  ASSUME CacheInv, NEW k \in Key, NEW new, WellFormed(new), Writes(k, new)
  PROVE  CacheInv'
<1>1. data' = data \/ data' = [data EXCEPT ![k] = new]
  BY DEF Writes
<1>2. new \in Value \cup {Absent}
  BY DEF WellFormed
<1>. QED  BY <1>1, <1>2 DEF CacheInv, Writes, WellFormed, PayloadMatches

LEMMA CallWrites ==
  ASSUME NEW op, NEW k, NEW args, NEW out, Call(op, k, args, out)
  PROVE  Writes(k, out.value) /\ last' = <<op, k, args, out.result>>
BY DEF Call, Writes

\* The three calls that may change a deadline, as writes.
LEMMA OverwriteWrites ==
  ASSUME CacheInv, NEW k \in Key,
         \/ \E v \in Input, ttl \in Ttl : Set(k, v, ttl)
         \/ \E ttl \in Ttl : Expire(k, ttl)
         \/ Persist(k)
  PROVE  \E new : /\ WellFormed(new) /\ Writes(k, new)
                  /\ last'[1] \in {"set", "expire", "persist"} /\ last'[2] = k
                  /\ last'[1] # "set" =>
                       /\ Find(k) = Absent <=> new = Absent
                       /\ Find(k) # Absent => new.type = Find(k).type
<1>. USE CacheAssumption DEF CacheAssumption
<1>0. WellFormed(Find(k)) /\ clock \in Int
  BY FindWellFormed DEF CacheInv
<1>1. ASSUME NEW v \in Input, NEW ttl \in Ttl, Set(k, v, ttl)
      PROVE  LET x == IF ttl > 0 THEN clock + ttl ELSE NoExpiry
             IN  /\ WellFormed(SetOn(v, x).value) /\ Writes(k, SetOn(v, x).value)
                 /\ last'[1] = "set" /\ last'[2] = k
  <2>. DEFINE x == IF ttl > 0 THEN clock + ttl ELSE NoExpiry
  <2>1. x \in Int \cup {NoExpiry} /\ v \in Text
    BY <1>0
  <2>2. Call("set", k, <<v, ttl>>, SetOn(v, x))
    BY <1>1 DEF Set
  <2>. HIDE DEF x
  <2>3. WellFormed(SetOn(v, x).value)
    BY <2>1, SetOnWellFormed
  <2>4. Writes(k, SetOn(v, x).value) /\ last' = <<"set", k, <<v, ttl>>, SetOn(v, x).result>>
    BY <2>2, CallWrites
  <2>. QED  BY <2>3, <2>4 DEF x
<1>2. ASSUME NEW ttl \in Ttl, Expire(k, ttl)
      PROVE  /\ WellFormed(ExpireOn(Find(k), clock + ttl).value)
             /\ Writes(k, ExpireOn(Find(k), clock + ttl).value)
             /\ last'[1] = "expire" /\ last'[2] = k
             /\ Find(k) = Absent <=> ExpireOn(Find(k), clock + ttl).value = Absent
             /\ Find(k) # Absent =>
                  ExpireOn(Find(k), clock + ttl).value.type = Find(k).type
  <2>1. clock + ttl \in Int \cup {NoExpiry}
    BY <1>0
  <2>. DEFINE out == ExpireOn(Find(k), clock + ttl)
  <2>2. Call("expire", k, <<ttl>>, out)
    BY <1>2 DEF Expire
  <2>3. /\ WellFormed(out.value)
        /\ Find(k) = Absent <=> out.value = Absent
        /\ Find(k) # Absent => out.value.type = Find(k).type
    BY <1>0, <2>1, ExpireOnWellFormed
  <2>. HIDE DEF out
  <2>4. Writes(k, out.value) /\ last' = <<"expire", k, <<ttl>>, out.result>>
    BY <2>2, CallWrites
  <2>5. last'[1] = "expire" /\ last'[2] = k
    BY <2>4
  <2>. QED  BY <2>3, <2>4, <2>5 DEF out
<1>3. ASSUME Persist(k)
      PROVE  /\ WellFormed(PersistOn(Find(k)).value)
             /\ Writes(k, PersistOn(Find(k)).value)
             /\ last'[1] = "persist" /\ last'[2] = k
             /\ Find(k) = Absent <=> PersistOn(Find(k)).value = Absent
             /\ Find(k) # Absent => PersistOn(Find(k)).value.type = Find(k).type
  <2>. DEFINE out == PersistOn(Find(k))
  <2>2. Call("persist", k, <<>>, out)
    BY <1>3 DEF Persist
  <2>3. /\ WellFormed(out.value)
        /\ Find(k) = Absent <=> out.value = Absent
        /\ Find(k) # Absent => out.value.type = Find(k).type
    BY <1>0, ExpireOnWellFormed
  <2>. HIDE DEF out
  <2>4. Writes(k, out.value) /\ last' = <<"persist", k, <<>>, out.result>>
    BY <2>2, CallWrites
  <2>5. last'[1] = "persist" /\ last'[2] = k
    BY <2>4
  <2>. QED  BY <2>3, <2>4, <2>5 DEF out
<1>. QED  BY <1>1, <1>2, <1>3

LEMMA StepInv == CacheInv /\ Next => CacheInv'
<1>. SUFFICES ASSUME CacheInv, Next PROVE CacheInv'
  OBVIOUS
<1>1. ASSUME NEW k \in Key, EditsKey(k) PROVE CacheInv'
  BY <1>1, WritesInv DEF EditsKey, Edits
<1>2. ASSUME NEW k \in Key, \/ \E v \in Input, ttl \in Ttl : Set(k, v, ttl)
                            \/ \E ttl \in Ttl : Expire(k, ttl)
                            \/ Persist(k)
      PROVE  CacheInv'
  BY <1>2, OverwriteWrites, WritesInv
<1>3. ASSUME NEW k \in Key, Del(k) PROVE CacheInv'
  BY <1>3 DEF Del, CacheInv, WellFormed
<1>4. CASE cleanupExpired
  BY <1>4 DEF cleanupExpired, CacheInv, WellFormed
<1>5. CASE Tick
  BY <1>5, CacheAssumption DEF CacheAssumption, Tick, CacheInv, WellFormed
<1>. QED  BY <1>1, <1>2, <1>3, <1>4, <1>5, NextIsStepKind DEF StepKinds

LEMMA CacheInvariant == Spec => []CacheInv
<1>1. Init => CacheInv
  BY CacheAssumption DEF CacheAssumption, Init, CacheInv, WellFormed
<1>2. CacheInv /\ UNCHANGED vars => CacheInv'
  BY DEF CacheInv, vars, WellFormed
<1>. QED  BY <1>1, <1>2, StepInv, PTL DEF Spec

\* The state keeps its types: whatever is stored is a value of the map.
THEOREM CacheAlwaysTyped == Spec => []TypeOK
<1>1. CacheInv => TypeOK
  BY DEF CacheInv, TypeOK
<1>. QED  BY <1>1, CacheInvariant, PTL

\* Whatever is called, in any order and at any time, every entry is a value of
\* its own type: no type assertion of cache.go can fail.
THEOREM PayloadAlwaysMatches == Spec => [](TypeOK /\ PayloadMatchesType)
<1>1. CacheInv => TypeOK /\ PayloadMatchesType
  BY DEF CacheInv, TypeOK, PayloadMatchesType, WellFormed
<1>. QED  BY <1>1, CacheInvariant, PTL

-------------------------------------------------------------------------------
(* What a step may do to a live value *)

\* Only the key a call names is affected by it, and a written value is seen
\* unless it has already expired.
LEMMA WritesFind ==
  ASSUME CacheInv, NEW k \in Key, NEW new, WellFormed(new), Writes(k, new), NEW j \in Key
  PROVE  /\ j # k => Find(j)' = Find(j)
         /\ j = k => Find(j)' \in {new, Absent}
<1>1. clock' = clock
  BY DEF Writes
<1>2. CASE new = Find(k)
  BY <1>1, <1>2 DEF Writes, Find, isExpired
<1>3. CASE new # Find(k)
  <2>1. data' = [data EXCEPT ![k] = new]
    BY <1>3 DEF Writes
  <2>. QED  BY <1>1, <2>1 DEF Find, isExpired, CacheInv
<1>. QED  BY <1>2, <1>3

\* What a call writes with the deadline it found, or without one, is seen.
LEMMA WritesAlive ==
  ASSUME CacheInv, NEW k \in Key, NEW new, WellFormed(new), Writes(k, new),
         \/ new = Absent
         \/ new.exp = NoExpiry
         \/ Find(k) # Absent /\ new.exp = Find(k).exp
  PROVE  Find(k)' = new
<1>1. clock' = clock
  BY DEF Writes
<1>2. CASE new = Find(k)
  BY <1>1, <1>2 DEF Writes, Find, isExpired
<1>3. CASE new # Find(k)
  <2>1. data' = [data EXCEPT ![k] = new] /\ data'[k] = new
    BY <1>3 DEF Writes, CacheInv
  <2>2. Find(k) # Absent => Find(k) = data[k] /\ ~ isExpired(data[k])
    BY DEF Find
  <2>3. new # Absent => ~ isExpired(new)'
    BY <1>1, <2>2 DEF isExpired
  <2>. QED  BY <2>1, <2>3 DEF Find
<1>. QED  BY <1>2, <1>3

\* Time and the cleanup do not touch a value that stays alive.
LEMMA BackgroundFind ==
  ASSUME CacheInv, cleanupExpired \/ Tick, NEW k \in Key
  PROVE  Find(k)' \in {Find(k), Absent}
<1>1. CASE cleanupExpired
  BY <1>1 DEF cleanupExpired, Find, isExpired, CacheInv
<1>2. CASE Tick
  <2>1. data' = data /\ clock' = clock + 1 /\ clock \in Int
    BY <1>2 DEF Tick, CacheInv
  <2>2. data[k] # Absent => data[k].exp \in Int \cup {NoExpiry}
    BY DEF CacheInv, Value
  <2>3. data[k] # Absent /\ isExpired(data[k]) => isExpired(data[k])'
    BY <2>1, <2>2 DEF isExpired
  <2>. QED  BY <2>1, <2>3 DEF Find
<1>. QED  BY <1>1, <1>2

LEMMA DelFind ==
  ASSUME CacheInv, NEW j \in Key, Del(j), NEW k \in Key
  PROVE  Find(k)' \in {Find(k), Absent}
BY DEF Del, Find, isExpired, CacheInv

\* The two facts together, for one key and one step.
LiveStep(k) ==
  Find(k) # Absent /\ Find(k)' # Absent =>
    /\ Find(k)'.type = Find(k).type \/ Answers({"set"}, k)
    /\ Find(k)'.exp = Find(k).exp \/ Answers({"set", "expire", "persist"}, k)

LEMMA StepsKeepLive ==
  ASSUME CacheInv, [Next]_vars, NEW k \in Key
  PROVE  LiveStep(k)
<1>1. CASE UNCHANGED vars
  BY <1>1 DEF vars, LiveStep, Find, isExpired
<1>2. ASSUME NEW j \in Key, EditsKey(j) PROVE LiveStep(k)
  <2>1. PICK new : Edits(Find(j), new) /\ Writes(j, new)
    BY <1>2 DEF EditsKey
  <2>2. /\ j # k => Find(k)' = Find(k)
        /\ j = k => Find(k)' \in {new, Absent}
    BY <2>1, WritesFind DEF Edits
  <2>. QED  BY <2>1, <2>2 DEF Edits, LiveStep
<1>3. ASSUME NEW j \in Key, \/ \E v \in Input, ttl \in Ttl : Set(j, v, ttl)
                            \/ \E ttl \in Ttl : Expire(j, ttl)
                            \/ Persist(j)
      PROVE  LiveStep(k)
  <2>1. PICK new : /\ WellFormed(new) /\ Writes(j, new)
                   /\ last'[1] \in {"set", "expire", "persist"} /\ last'[2] = j
                   /\ last'[1] # "set" =>
                        /\ Find(j) = Absent <=> new = Absent
                        /\ Find(j) # Absent => new.type = Find(j).type
    BY <1>3, OverwriteWrites
  <2>2. /\ j # k => Find(k)' = Find(k)
        /\ j = k => Find(k)' \in {new, Absent}
    BY <2>1, WritesFind
  <2>. QED  BY <2>1, <2>2 DEF LiveStep, Answers
<1>4. ASSUME NEW j \in Key, Del(j) PROVE LiveStep(k)
  BY <1>4, DelFind DEF LiveStep
<1>5. CASE cleanupExpired \/ Tick
  BY <1>5, BackgroundFind DEF LiveStep
<1>. QED  BY <1>1, <1>2, <1>3, <1>4, <1>5, NextIsStepKind DEF StepKinds

\* Only Set changes the type of a live value: an operation of another type, a
\* failed increment or the cleanup never do (cache.go:503, 642, 684, 831).
THEOREM TypeAlwaysStable == Spec => TypeStable
<1>1. CacheInv /\ [Next]_vars =>
        [\A k \in Key : Find(k) # Absent /\ Find(k)' # Absent =>
           Find(k)'.type = Find(k).type \/ Answers({"set"}, k)]_vars
  BY StepsKeepLive DEF LiveStep
<1>. QED  BY <1>1, CacheInvariant, PTL DEF TypeStable, Spec

\* Editing the contents of a live value never moves its deadline, as long as it
\* lives (cache.go:342-343, 511, 653, 693).
THEOREM DeadlineAlwaysKept == Spec => DeadlineKept
<1>1. CacheInv /\ [Next]_vars =>
        [\A k \in Key : Find(k) # Absent /\ Find(k)' # Absent =>
           Find(k)'.exp = Find(k).exp \/ Answers({"set", "expire", "persist"}, k)]_vars
  BY StepsKeepLive DEF LiveStep
<1>. QED  BY <1>1, CacheInvariant, PTL DEF DeadlineKept, Spec

-------------------------------------------------------------------------------
(* What a call creates, and how a set grows and shrinks *)

Creators == {"set", "incrby", "hset", "lpush", "rpush", "sadd"}

\* What a call of op that finds no live value leaves behind, if it leaves anything.
Created(op, args, new) ==
  /\ op \in Creators
  /\ op # "set" => new.exp = NoExpiry
  /\ Cardinality({f \in Field : new.hash[f] # NoText}) <= 1
  /\ op \in {"lpush", "rpush"} => new.list = args[1]
  /\ op = "sadd" => new.set = Range(args[1])

FiniteValue(e) == e = Absent \/ IsFiniteSet(e.set)

\* What is asked of a call of op that finds e and has the outcome out.
Fits(op, e, args, out) ==
  /\ WellFormed(out.value)
  /\ FiniteValue(e) => FiniteValue(out.value)
  /\ e = Absent => out.value = Absent \/ Created(op, args, out.value)
  /\ FiniteValue(e) /\ op = "sadd" =>
       out.result = Cardinality(MembersOf(out.value)) - Cardinality(MembersOf(e))
  /\ FiniteValue(e) /\ op = "srem" =>
       out.result = Cardinality(MembersOf(e)) - Cardinality(MembersOf(out.value))
  /\ op \in {"sadd", "srem"} /\ e # Absent => out.value # Absent /\ out.value.exp = e.exp

\* Only sets have members.
LEMMA FiniteUnlessSet ==
  ASSUME NEW e, WellFormed(e), e # Absent => e.type # "set"
  PROVE  FiniteValue(e)
BY FS_EmptySet DEF FiniteValue, WellFormed, PayloadMatches

LEMMA ReadsFit ==
  ASSUME NEW op, NEW e, NEW args, NEW out, WellFormed(e), op \notin {"sadd", "srem"},
         out.value = e
  PROVE  Fits(op, e, args, out)
BY DEF Fits

\* A call that finds a live value which is no set leaves one that is no set.
LEMMA EditsFit ==
  ASSUME NEW op, NEW e, NEW args, NEW out, Edits(e, out.value), op \notin {"sadd", "srem"},
         e # Absent /\ e.type = "set" /\ FiniteValue(e) => FiniteValue(out.value),
         e = Absent => out.value = Absent \/ (Created(op, args, out.value)
                                              /\ out.value.type # "set")
  PROVE  Fits(op, e, args, out)
<1>1. WellFormed(out.value)
  BY DEF Edits
<1>2. FiniteValue(e) => FiniteValue(out.value)
  <2>1. CASE e # Absent /\ e.type = "set"
    BY <2>1
  <2>2. CASE out.value = Absent
    BY <2>2 DEF FiniteValue
  <2>3. CASE out.value # Absent /\ ~ (e # Absent /\ e.type = "set")
    <3>1. out.value.type # "set"
      BY <2>3 DEF Edits
    <3>. QED  BY <1>1, <3>1, FiniteUnlessSet
  <2>. QED  BY <2>1, <2>2, <2>3
<1>. QED  BY <1>1, <1>2 DEF Fits

\* No field, or one.
LEMMA NoFields ==
  ASSUME NEW e, \A f \in Field : e.hash[f] = NoText
  PROVE  Cardinality({f \in Field : e.hash[f] # NoText}) <= 1
<1>1. {f \in Field : e.hash[f] # NoText} = {}
  OBVIOUS
<1>. QED  BY <1>1, FS_EmptySet

LEMMA SetOnFits ==
  ASSUME NEW e, NEW v \in Text, NEW x \in Int \cup {NoExpiry}, NEW args
  PROVE  Fits("set", e, args, SetOn(v, x))
<1>. DEFINE n == New("string", x)
            u == [n EXCEPT !.str = v]
<1>1. n \in Value /\ \A f \in Field : n.hash[f] = NoText
  BY NewFields DEF ValueType
<1>2. v \in Text \cup {NoText} /\ n.type = "string"
  BY NewFields DEF ValueType
<1>3. SetOn(v, x).value = u
  BY DEF SetOn, Outcome
<1>. HIDE DEF n
<1>4. u \in Value /\ u.hash = n.hash /\ u.type = "string"
  BY <1>1, <1>2, UpdateStr
<1>. HIDE DEF u
<1>5. WellFormed(u)
  BY <1>3, SetOnWellFormed
<1>6. FiniteValue(u)
  BY <1>4, <1>5, FiniteUnlessSet
<1>7. Created("set", args, u)
  <2>1. Cardinality({f \in Field : u.hash[f] # NoText}) <= 1
    BY <1>1, <1>4, NoFields
  <2>. QED  BY <2>1 DEF Created, Creators
<1>. QED  BY <1>3, <1>5, <1>6, <1>7 DEF Fits

LEMMA IncrByOnFits ==
  ASSUME NEW e, WellFormed(e), NEW delta \in Int64, NEW args
  PROVE  Fits("incrby", e, args, IncrByOn(e, delta))
<1>. DEFINE out == IncrByOn(e, delta)
<1>1. Edits(e, out.value)
  BY IncrByOnEdits
<1>2. e # Absent /\ e.type = "set" => out.value = e
  BY DEF IncrByOn, Outcome, Holds
<1>3. ASSUME e = Absent
      PROVE  Created("incrby", args, out.value) /\ out.value.type # "set"
  <2>. DEFINE n == New("string", NoExpiry)
              u == [n EXCEPT !.str = delta]
  <2>1. /\ n \in Value /\ n.type = "string" /\ n.exp = NoExpiry
        /\ \A f \in Field : n.hash[f] = NoText
    BY NewTypes DEF New, Value
  <2>2. out.value = u
    BY <1>3 DEF IncrByOn, Outcome
  <2>3. delta \in Text \cup {NoText}
    BY DEF Text
  <2>. HIDE DEF n, out
  <2>4. u.hash = n.hash /\ u.type = "string" /\ u.exp = NoExpiry
    BY <2>1, <2>3, UpdateStr
  <2>. HIDE DEF u
  <2>5. Cardinality({f \in Field : u.hash[f] # NoText}) <= 1
    BY <2>1, <2>4, NoFields
  <2>. QED  BY <2>2, <2>4, <2>5 DEF Created, Creators
<1>. HIDE DEF out
<1>4. Fits("incrby", e, args, out)
  BY <1>1, <1>2, <1>3, EditsFit
<1>. QED  BY <1>4 DEF out

LEMMA HSetOnFits ==
  ASSUME NEW e, WellFormed(e), NEW f \in Field, NEW v \in Text, NEW args
  PROVE  Fits("hset", e, args, HSetOn(e, f, v))
<1>. DEFINE out == HSetOn(e, f, v)
<1>1. Edits(e, out.value)
  BY HSetOnEdits
<1>2. e # Absent /\ e.type = "set" => out.value = e
  BY DEF HSetOn, Outcome, Ensure
<1>3. ASSUME e = Absent
      PROVE  Created("hset", args, out.value) /\ out.value.type # "set"
  <2>. DEFINE n == New("hash", NoExpiry)
              u == [n EXCEPT !.hash[f] = v]
  <2>1. /\ n \in Value /\ n.type = "hash" /\ n.exp = NoExpiry
        /\ \A g \in Field : n.hash[g] = NoText
    BY NewTypes DEF New, Value
  <2>2. out.value = u
    BY <1>3, <2>1 DEF HSetOn, Outcome, Ensure
  <2>. HIDE DEF n, out
  <2>3. u.type = "hash" /\ u.exp = NoExpiry /\ \A g \in Field : g # f => u.hash[g] = n.hash[g]
    BY <2>1 DEF Value
  <2>. HIDE DEF u
  <2>4. {g \in Field : u.hash[g] # NoText} \in SUBSET {f}
    BY <2>1, <2>3
  <2>5. Cardinality({g \in Field : u.hash[g] # NoText}) <= 1
    <3>1. IsFiniteSet({f}) /\ Cardinality({f}) = 1
      BY FS_Singleton
    <3>. QED  BY <2>4, <3>1, FS_Subset
  <2>. QED  BY <2>2, <2>3, <2>5 DEF Created, Creators
<1>. HIDE DEF out
<1>4. Fits("hset", e, args, out)
  BY <1>1, <1>2, <1>3, EditsFit
<1>. QED  BY <1>4 DEF out

LEMMA PushFits ==
  ASSUME NEW e, WellFormed(e), NEW values \in Seq(Text)
  PROVE  /\ Fits("lpush", e, <<values>>, LPushOn(e, values))
         /\ Fits("rpush", e, <<values>>, RPushOn(e, values))
<1>. DEFINE l == LPushOn(e, values)
            r == RPushOn(e, values)
<1>1. Edits(e, l.value) /\ Edits(e, r.value)
  BY PushEdits
<1>2. e # Absent /\ e.type = "set" => l.value = e /\ r.value = e
  BY DEF LPushOn, RPushOn, Outcome, Ensure
<1>3. ASSUME e = Absent
      PROVE  /\ Created("lpush", <<values>>, l.value) /\ l.value.type # "set"
             /\ Created("rpush", <<values>>, r.value) /\ r.value.type # "set"
  <2>. DEFINE n == New("list", NoExpiry)
              u == [n EXCEPT !.list = values]
  <2>1. /\ n \in Value /\ n.type = "list" /\ n.exp = NoExpiry /\ n.list = <<>>
        /\ \A f \in Field : n.hash[f] = NoText
    BY NewTypes DEF New, Value
  <2>2. values \o <<>> = values /\ <<>> \o values = values
    OBVIOUS
  <2>3. l.value = u /\ r.value = u
    BY <1>3, <2>1, <2>2 DEF LPushOn, RPushOn, Outcome, Ensure
  <2>. HIDE DEF n, l, r
  <2>4. u.hash = n.hash /\ u.type = "list" /\ u.exp = NoExpiry /\ u.list = values
    BY <2>1, UpdateList
  <2>. HIDE DEF u
  <2>5. Cardinality({f \in Field : u.hash[f] # NoText}) <= 1
    BY <2>1, <2>4, NoFields
  <2>6. <<values>>[1] = values
    OBVIOUS
  <2>. QED  BY <2>3, <2>4, <2>5, <2>6 DEF Created, Creators
<1>. HIDE DEF l, r
<1>4. Fits("lpush", e, <<values>>, l)
  BY <1>1, <1>2, <1>3, EditsFit
<1>5. Fits("rpush", e, <<values>>, r)
  BY <1>1, <1>2, <1>3, EditsFit
<1>. QED  BY <1>4, <1>5 DEF l, r

LEMMA RemovalsFit ==
  ASSUME NEW e, WellFormed(e), NEW f \in Field, NEW args
  PROVE  /\ Fits("hdel", e, args, HDelOn(e, f))
         /\ Fits("lpop", e, args, LPopOn(e)) /\ Fits("rpop", e, args, RPopOn(e))
<1>1. /\ Edits(e, HDelOn(e, f).value)
      /\ Edits(e, LPopOn(e).value) /\ Edits(e, RPopOn(e).value)
  BY HDelOnEdits, PopEdits
<1>2. e = Absent \/ e.type = "set" =>
        HDelOn(e, f).value = e /\ LPopOn(e).value = e /\ RPopOn(e).value = e
  BY DEF HDelOn, LPopOn, RPopOn, Outcome, Holds
<1>. QED  BY <1>1, <1>2, EditsFit

LEMMA ExpireOnFits ==
  ASSUME NEW e, WellFormed(e), NEW x \in Int \cup {NoExpiry}, NEW args
  PROVE  /\ Fits("expire", e, args, ExpireOn(e, x))
         /\ Fits("persist", e, args, PersistOn(e))
<1>1. /\ WellFormed(ExpireOn(e, x).value) /\ WellFormed(PersistOn(e).value)
      /\ e = Absent => ExpireOn(e, x).value = Absent /\ PersistOn(e).value = Absent
  BY ExpireOnWellFormed
<1>2. ASSUME e # Absent
      PROVE  ExpireOn(e, x).value.set = e.set /\ PersistOn(e).value.set = e.set
  <2>1. e \in Value
    BY <1>2 DEF WellFormed
  <2>2. /\ ExpireOn(e, x).value = [e EXCEPT !.exp = x]
        /\ PersistOn(e).value = [e EXCEPT !.exp = NoExpiry]
    BY <1>2 DEF ExpireOn, PersistOn, Outcome
  <2>. QED  BY <2>1, <2>2, UpdateExp
<1>. QED  BY <1>1, <1>2 DEF Fits, FiniteValue

\* A sequence has finitely many members.
LEMMA RangeFinite ==
  ASSUME NEW T, NEW m \in Seq(T)
  PROVE  IsFiniteSet(Range(m)) /\ Range(m) \in SUBSET T
<1>1. Len(m) \in Nat /\ DOMAIN m = 1 .. Len(m) /\ m \in [1 .. Len(m) -> T]
  OBVIOUS
<1>2. m \in Surjection(1 .. Len(m), Range(m))
  BY <1>1 DEF Surjection, Range
<1>3. IsFiniteSet(1 .. Len(m))
  BY <1>1, FS_Interval
<1>4. IsFiniteSet(Range(m))
  BY <1>2, <1>3, FS_Surjection
<1>. QED  BY <1>1, <1>4 DEF Range

\* Sets: what the count of SAdd and SRem is the difference of.
LEMMA UnionGrowsBy ==
  ASSUME NEW S, NEW T, IsFiniteSet(S), IsFiniteSet(T)
  PROVE  /\ IsFiniteSet(S \cup T) /\ IsFiniteSet(S \ T)
         /\ Cardinality(T \ S) = Cardinality(S \cup T) - Cardinality(S)
         /\ Cardinality(T \cap S) = Cardinality(S) - Cardinality(S \ T)
<1>1. /\ IsFiniteSet(T \ S) /\ IsFiniteSet(S \ T) /\ IsFiniteSet(T \cap S)
      /\ IsFiniteSet(S \cup T)
  <2>1. T \ S \in SUBSET T /\ S \ T \in SUBSET S /\ T \cap S \in SUBSET T
    OBVIOUS
  <2>. QED  BY <2>1, FS_Subset, FS_Union
<1>2. /\ Cardinality(S) \in Nat /\ Cardinality(T \ S) \in Nat /\ Cardinality(S \ T) \in Nat
      /\ Cardinality(T \cap S) \in Nat
  BY <1>1, FS_CardinalityType
<1>3. Cardinality(S \cup (T \ S)) = Cardinality(S) + Cardinality(T \ S)
  <2>1. S \cap (T \ S) = {} /\ Cardinality({}) = 0
    BY FS_EmptySet
  <2>2. Cardinality(S \cup (T \ S)) =
          Cardinality(S) + Cardinality(T \ S) - Cardinality(S \cap (T \ S))
    BY <1>1, FS_Union
  <2>3. Cardinality(S \cap (T \ S)) = 0
    BY <2>1
  <2>. QED  BY <1>2, <2>2, <2>3
<1>4. Cardinality((T \cap S) \cup (S \ T)) = Cardinality(T \cap S) + Cardinality(S \ T)
  <2>1. (T \cap S) \cap (S \ T) = {} /\ Cardinality({}) = 0
    BY FS_EmptySet
  <2>2. Cardinality((T \cap S) \cup (S \ T)) =
          Cardinality(T \cap S) + Cardinality(S \ T)
            - Cardinality((T \cap S) \cap (S \ T))
    BY <1>1, FS_Union
  <2>3. Cardinality((T \cap S) \cap (S \ T)) = 0
    BY <2>1
  <2>. QED  BY <1>2, <2>2, <2>3
<1>5. S \cup (T \ S) = S \cup T /\ (T \cap S) \cup (S \ T) = S
  OBVIOUS
<1>6. Cardinality(S \cup T) = Cardinality(S) + Cardinality(T \ S)
  BY <1>3, <1>5
<1>7. Cardinality(S) = Cardinality(T \cap S) + Cardinality(S \ T)
  BY <1>4, <1>5
<1>. QED  BY <1>1, <1>2, <1>6, <1>7

LEMMA SAddOnFits ==
  ASSUME NEW e, WellFormed(e), NEW members \in Seq(Text)
  PROVE  Fits("sadd", e, <<members>>, SAddOn(e, members))
<1>. DEFINE R == Range(members)
            out == SAddOn(e, members)
<1>1. IsFiniteSet(R) /\ R \in SUBSET Text
  BY RangeFinite
<1>2. Edits(e, out.value)
  BY SetEdits
<1>. HIDE DEF R
<1>3. CASE e = Absent
  <2>. DEFINE n == New("set", NoExpiry)
              u == [n EXCEPT !.set = R]
  <2>1. /\ n \in Value /\ n.type = "set" /\ n.exp = NoExpiry /\ n.set = {}
        /\ \A f \in Field : n.hash[f] = NoText
    BY NewTypes DEF New, Value
  <2>2. {} \cup R = R /\ R \ {} = R
    OBVIOUS
  <2>3. out.value = u /\ out.result = Cardinality(R)
    BY <1>3, <2>1, <2>2 DEF SAddOn, Outcome, Ensure, R
  <2>. HIDE DEF n, out
  <2>4. u \in Value /\ u.hash = n.hash /\ u.exp = NoExpiry /\ u.set = R
    BY <1>1, <2>1, UpdateSet
  <2>. HIDE DEF u
  <2>5. Cardinality({f \in Field : u.hash[f] # NoText}) <= 1
    BY <2>1, <2>4, NoFields
  <2>6. Created("sadd", <<members>>, u)
    BY <2>4, <2>5 DEF Created, Creators, R
  <2>7. Cardinality(R) = Cardinality(MembersOf(u)) - Cardinality(MembersOf(e))
    <3>1. u # Absent /\ Cardinality({}) = 0 /\ Cardinality(R) \in Nat
      BY <1>1, <2>4, FS_EmptySet, FS_CardinalityType, ValueNotAbsent
    <3>2. MembersOf(u) = R /\ MembersOf(e) = {}
      BY <1>3, <2>4, <3>1 DEF MembersOf
    <3>. QED  BY <3>1, <3>2
  <2>8. FiniteValue(u)
    BY <1>1, <2>4 DEF FiniteValue
  <2>9. Fits("sadd", e, <<members>>, out)
    BY <1>2, <1>3, <2>3, <2>6, <2>7, <2>8 DEF Fits, Edits
  <2>. QED  BY <2>9 DEF out
<1>4. CASE e # Absent /\ e.type = "set"
  <2>. DEFINE u == [e EXCEPT !.set = e.set \cup R]
  <2>1. out.value = u /\ out.result = Cardinality(R \ e.set)
    BY <1>4 DEF SAddOn, Outcome, Ensure, R
  <2>2. e \in Value /\ e.set \cup R \in SUBSET Text
    BY <1>1, <1>4 DEF WellFormed, Value
  <2>. HIDE DEF out
  <2>3. u \in Value /\ u.set = e.set \cup R /\ u.exp = e.exp
    BY <2>2, UpdateSet
  <2>. HIDE DEF u
  <2>4. u # Absent
    BY <2>3, ValueNotAbsent
  <2>5. MembersOf(u) = e.set \cup R /\ MembersOf(e) = e.set
    BY <1>4, <2>3, <2>4 DEF MembersOf
  <2>6. ASSUME FiniteValue(e)
        PROVE  /\ FiniteValue(u)
               /\ out.result = Cardinality(MembersOf(u)) - Cardinality(MembersOf(e))
    <3>1. IsFiniteSet(e.set)
      BY <1>4, <2>6 DEF FiniteValue
    <3>2. /\ IsFiniteSet(e.set \cup R)
          /\ Cardinality(R \ e.set) = Cardinality(e.set \cup R) - Cardinality(e.set)
      BY <1>1, <3>1, UnionGrowsBy
    <3>. QED  BY <2>1, <2>3, <2>5, <3>2 DEF FiniteValue
  <2>7. Fits("sadd", e, <<members>>, out)
    BY <1>2, <1>4, <2>1, <2>3, <2>4, <2>6 DEF Fits, Edits
  <2>. QED  BY <2>7 DEF out
<1>5. CASE e # Absent /\ e.type # "set"
  <2>1. out.value = e /\ out.result = 0
    BY <1>5 DEF SAddOn, Outcome, Ensure
  <2>2. FiniteValue(e) => Cardinality(MembersOf(e)) \in Nat
    BY <1>5, FS_CardinalityType DEF FiniteValue, MembersOf
  <2>. HIDE DEF out
  <2>3. Fits("sadd", e, <<members>>, out)
    BY <1>5, <2>1, <2>2 DEF Fits
  <2>. QED  BY <2>3 DEF out
<1>. QED  BY <1>3, <1>4, <1>5

LEMMA SRemOnFits ==
  ASSUME NEW e, WellFormed(e), NEW members \in Seq(Text)
  PROVE  Fits("srem", e, <<members>>, SRemOn(e, members))
<1>. DEFINE R == Range(members)
            out == SRemOn(e, members)
<1>1. IsFiniteSet(R) /\ R \in SUBSET Text
  BY RangeFinite
<1>2. Edits(e, out.value)
  BY SetEdits
<1>. HIDE DEF R
<1>3. CASE Holds(e, "set")
  <2>. DEFINE u == [e EXCEPT !.set = e.set \ R]
  <2>1. out.value = u /\ out.result = Cardinality(R \cap e.set)
    BY <1>3 DEF SRemOn, Outcome, R
  <2>2. e # Absent /\ e \in Value /\ e.set \ R \in SUBSET Text
    BY <1>3 DEF WellFormed, Value, Holds
  <2>. HIDE DEF out
  <2>3. u \in Value /\ u.set = e.set \ R /\ u.exp = e.exp
    BY <2>2, UpdateSet
  <2>. HIDE DEF u
  <2>4. u # Absent
    BY <2>3, ValueNotAbsent
  <2>5. MembersOf(u) = e.set \ R /\ MembersOf(e) = e.set
    BY <2>2, <2>3, <2>4 DEF MembersOf
  <2>6. ASSUME FiniteValue(e)
        PROVE  /\ FiniteValue(u)
               /\ out.result = Cardinality(MembersOf(e)) - Cardinality(MembersOf(u))
    <3>1. IsFiniteSet(e.set)
      BY <2>2, <2>6 DEF FiniteValue
    <3>2. /\ IsFiniteSet(e.set \ R)
          /\ Cardinality(R \cap e.set) = Cardinality(e.set) - Cardinality(e.set \ R)
      BY <1>1, <3>1, UnionGrowsBy
    <3>. QED  BY <2>1, <2>3, <2>5, <3>2 DEF FiniteValue
  <2>7. Fits("srem", e, <<members>>, out)
    BY <1>2, <2>1, <2>2, <2>3, <2>4, <2>6 DEF Fits, Edits
  <2>. QED  BY <2>7 DEF out
<1>4. CASE ~ Holds(e, "set")
  <2>1. out.value = e /\ out.result = 0
    BY <1>4 DEF SRemOn, Outcome
  <2>2. FiniteValue(e) => Cardinality(MembersOf(e)) \in Nat
    BY FS_EmptySet, FS_CardinalityType DEF FiniteValue, MembersOf
  <2>. HIDE DEF out
  <2>3. Fits("srem", e, <<members>>, out)
    BY <2>1, <2>2 DEF Fits
  <2>. QED  BY <2>3 DEF out
<1>. QED  BY <1>3, <1>4

\* A call whose outcome fits what the key holds.
FittingCall(k) == \E op, args, out : Call(op, k, args, out) /\ Fits(op, Find(k), args, out)

LEMMA KeyOpFits ==
  ASSUME CacheInv, NEW k \in Key, KeyOp(k)
  PROVE  FittingCall(k) \/ Del(k)
<1>. USE CacheAssumption DEF CacheAssumption
<1>0. WellFormed(Find(k)) /\ clock \in Int /\ NoExpiry \in Int \cup {NoExpiry}
  BY FindWellFormed DEF CacheInv
<1>1. CASE Get(k)
  <2>1. Fits("get", Find(k), <<>>, GetOn(Find(k)))
    BY <1>0, ReadsFit DEF GetOn, Outcome
  <2>. QED  BY <1>1, <2>1 DEF Get, FittingCall
<1>2. CASE Exists(k)
  <2>1. Fits("exists", Find(k), <<>>, ExistsOn(Find(k)))
    BY <1>0, ReadsFit DEF ExistsOn, Outcome
  <2>. QED  BY <1>2, <2>1 DEF Exists, FittingCall
<1>3. CASE TTL(k)
  <2>1. Fits("ttl", Find(k), <<>>, TTLOn(Find(k), clock))
    BY <1>0, ReadsFit DEF TTLOn, Outcome
  <2>. QED  BY <1>3, <2>1 DEF TTL, FittingCall
<1>4. CASE Persist(k)
  <2>1. Fits("persist", Find(k), <<>>, PersistOn(Find(k)))
    BY <1>0, ExpireOnFits
  <2>. QED  BY <1>4, <2>1 DEF Persist, FittingCall
<1>5. ASSUME NEW v \in Input, NEW ttl \in Ttl, Set(k, v, ttl) PROVE FittingCall(k)
  <2>. DEFINE x == IF ttl > 0 THEN clock + ttl ELSE NoExpiry
  <2>1. x \in Int \cup {NoExpiry} /\ v \in Text
    BY <1>0
  <2>2. Call("set", k, <<v, ttl>>, SetOn(v, x))
    BY <1>5 DEF Set
  <2>. HIDE DEF x
  <2>3. Fits("set", Find(k), <<v, ttl>>, SetOn(v, x))
    BY <2>1, SetOnFits
  <2>. QED  BY <2>2, <2>3 DEF FittingCall
<1>6. ASSUME NEW d \in Delta, IncrBy(k, d) PROVE FittingCall(k)
  <2>1. Fits("incrby", Find(k), <<d>>, IncrByOn(Find(k), d))
    BY <1>0, IncrByOnFits
  <2>. QED  BY <1>6, <2>1 DEF IncrBy, FittingCall
<1>7. ASSUME NEW ttl \in Ttl, Expire(k, ttl) PROVE FittingCall(k)
  <2>1. clock + ttl \in Int \cup {NoExpiry}
    BY <1>0
  <2>2. Fits("expire", Find(k), <<ttl>>, ExpireOn(Find(k), clock + ttl))
    BY <1>0, <2>1, ExpireOnFits
  <2>. QED  BY <1>7, <2>2 DEF Expire, FittingCall
<1>. QED  BY <1>1, <1>2, <1>3, <1>4, <1>5, <1>6, <1>7 DEF KeyOp

LEMMA HashOpFits ==
  ASSUME CacheInv, NEW k \in Key, HashOp(k)
  PROVE  FittingCall(k)
<1>. USE CacheAssumption DEF CacheAssumption
<1>0. WellFormed(Find(k))
  BY FindWellFormed
<1>1. CASE HGetAll(k)
  <2>1. Fits("hgetall", Find(k), <<>>, HGetAllOn(Find(k)))
    BY <1>0, ReadsFit DEF HGetAllOn, Outcome
  <2>. QED  BY <1>1, <2>1 DEF HGetAll, FittingCall
<1>. SUFFICES ASSUME ~ HGetAll(k) PROVE FittingCall(k)
  BY <1>1
<1>. PICK f \in Field : \/ \E v \in Input : HSet(k, f, v)
                        \/ HGet(k, f) \/ HDel(k, f) \/ HExists(k, f)
  BY DEF HashOp
<1>2. ASSUME NEW v \in Input, HSet(k, f, v) PROVE FittingCall(k)
  <2>1. Fits("hset", Find(k), <<f, v>>, HSetOn(Find(k), f, v))
    BY <1>0, HSetOnFits
  <2>. QED  BY <1>2, <2>1 DEF HSet, FittingCall
<1>3. CASE HDel(k, f)
  <2>1. Fits("hdel", Find(k), <<f>>, HDelOn(Find(k), f))
    BY <1>0, RemovalsFit
  <2>. QED  BY <1>3, <2>1 DEF HDel, FittingCall
<1>4. CASE HGet(k, f)
  <2>1. Fits("hget", Find(k), <<f>>, HGetOn(Find(k), f))
    BY <1>0, ReadsFit DEF HGetOn, Outcome
  <2>. QED  BY <1>4, <2>1 DEF HGet, FittingCall
<1>5. CASE HExists(k, f)
  <2>1. Fits("hexists", Find(k), <<f>>, HExistsOn(Find(k), f))
    BY <1>0, ReadsFit DEF HExistsOn, Outcome
  <2>. QED  BY <1>5, <2>1 DEF HExists, FittingCall
<1>. QED  BY <1>1, <1>2, <1>3, <1>4, <1>5

LEMMA ListOpFits ==
  ASSUME CacheInv, NEW k \in Key, ListOp(k)
  PROVE  FittingCall(k)
<1>. USE CacheAssumption DEF CacheAssumption
<1>0. WellFormed(Find(k))
  BY FindWellFormed
<1>1. ASSUME NEW b \in Batch, LPush(k, b) \/ RPush(k, b) PROVE FittingCall(k)
  <2>1. /\ Fits("lpush", Find(k), <<b>>, LPushOn(Find(k), b))
        /\ Fits("rpush", Find(k), <<b>>, RPushOn(Find(k), b))
    BY <1>0, PushFits
  <2>. QED  BY <1>1, <2>1 DEF LPush, RPush, FittingCall
<1>2. CASE LPop(k) \/ RPop(k)
  <2>1. /\ Edits(Find(k), LPopOn(Find(k)).value) /\ Edits(Find(k), RPopOn(Find(k)).value)
        /\ Find(k) = Absent \/ Find(k).type = "set" =>
             LPopOn(Find(k)).value = Find(k) /\ RPopOn(Find(k)).value = Find(k)
    BY <1>0, PopEdits DEF LPopOn, RPopOn, Outcome, Holds
  <2>2. /\ Fits("lpop", Find(k), <<>>, LPopOn(Find(k)))
        /\ Fits("rpop", Find(k), <<>>, RPopOn(Find(k)))
    BY <2>1, EditsFit
  <2>. QED  BY <1>2, <2>2 DEF LPop, RPop, FittingCall
<1>3. CASE LLen(k)
  <2>1. Fits("llen", Find(k), <<>>, LLenOn(Find(k)))
    BY <1>0, ReadsFit DEF LLenOn, Outcome
  <2>. QED  BY <1>3, <2>1 DEF LLen, FittingCall
<1>. QED  BY <1>1, <1>2, <1>3 DEF ListOp

LEMMA SetOpFits ==
  ASSUME CacheInv, NEW k \in Key, SetOp(k)
  PROVE  FittingCall(k)
<1>. USE CacheAssumption DEF CacheAssumption
<1>0. WellFormed(Find(k))
  BY FindWellFormed
<1>1. ASSUME NEW b \in Batch, SAdd(k, b) \/ SRem(k, b) PROVE FittingCall(k)
  <2>1. /\ Fits("sadd", Find(k), <<b>>, SAddOn(Find(k), b))
        /\ Fits("srem", Find(k), <<b>>, SRemOn(Find(k), b))
    BY <1>0, SAddOnFits, SRemOnFits
  <2>. QED  BY <1>1, <2>1 DEF SAdd, SRem, FittingCall
<1>2. ASSUME NEW m \in Input, SIsMember(k, m) PROVE FittingCall(k)
  <2>1. Fits("sismember", Find(k), <<m>>, SIsMemberOn(Find(k), m))
    BY <1>0, ReadsFit DEF SIsMemberOn, Outcome
  <2>. QED  BY <1>2, <2>1 DEF SIsMember, FittingCall
<1>3. CASE SMembers(k)
  <2>1. Fits("smembers", Find(k), <<>>, SMembersOn(Find(k)))
    BY <1>0, ReadsFit DEF SMembersOn, Outcome
  <2>. QED  BY <1>3, <2>1 DEF SMembers, FittingCall
<1>. QED  BY <1>1, <1>2, <1>3 DEF SetOp

\* Whatever is in the map, no set is infinite.
FiniteInv == \A k \in Key : FiniteValue(data[k])

LEMMA FindFinite == FiniteInv => \A k \in Key : FiniteValue(Find(k))
BY DEF FiniteInv, FiniteValue, Find

\* What the properties say of one key and one step.
KeyStep(k) ==
  /\ Find(k) = Absent /\ Find(k)' # Absent =>
       /\ Answers(Creators, k)
       /\ last'[1] # "set" => Find(k)'.exp = NoExpiry
       /\ Cardinality({f \in Field : Find(k)'.hash[f] # NoText}) <= 1
       /\ Answers({"lpush", "rpush"}, k) => Find(k)'.list = last'[3][1]
       /\ Answers({"sadd"}, k) => Find(k)'.set = Range(last'[3][1])
  /\ Answers({"sadd"}, k) =>
       last'[4] = Cardinality(MembersOf(Find(k)')) - Cardinality(MembersOf(Find(k)))
  /\ Answers({"srem"}, k) =>
       last'[4] = Cardinality(MembersOf(Find(k))) - Cardinality(MembersOf(Find(k)'))

LEMMA FittingCallStep ==
  ASSUME CacheInv, FiniteInv, NEW j \in Key, FittingCall(j), NEW k \in Key
  PROVE  KeyStep(k) /\ FiniteInv'
<1>1. PICK op, args, out : Call(op, j, args, out) /\ Fits(op, Find(j), args, out)
  BY DEF FittingCall
<1>2. /\ Writes(j, out.value) /\ last' = <<op, j, args, out.result>>
      /\ WellFormed(out.value) /\ FiniteValue(out.value) /\ FiniteValue(Find(j))
  BY <1>1, CallWrites, FindFinite DEF Fits
<1>3. last'[1] = op /\ last'[2] = j /\ last'[3] = args /\ last'[4] = out.result
  BY <1>2
<1>4. FiniteInv'
  <2>1. data' = data \/ data' = [data EXCEPT ![j] = out.value]
    BY <1>2 DEF Writes
  <2>. QED  BY <1>2, <2>1 DEF FiniteInv, CacheInv
<1>5. /\ j # k => Find(k)' = Find(k)
      /\ j = k => Find(k)' \in {out.value, Absent}
  BY <1>2, WritesFind
<1>6. CASE j # k
  <2>1. ~ Answers({"sadd"}, k) /\ ~ Answers({"srem"}, k) /\ Find(k)' = Find(k)
    BY <1>3, <1>5, <1>6 DEF Answers
  <2>. QED  BY <1>4, <2>1 DEF KeyStep
<1>7. CASE j = k
  <2>1. Find(k)' # Absent => Find(k)' = out.value
    BY <1>5, <1>7
  <2>2. ASSUME Find(k) = Absent, Find(k)' # Absent
        PROVE  /\ Answers(Creators, k)
               /\ last'[1] # "set" => Find(k)'.exp = NoExpiry
               /\ Cardinality({f \in Field : Find(k)'.hash[f] # NoText}) <= 1
               /\ Answers({"lpush", "rpush"}, k) => Find(k)'.list = last'[3][1]
               /\ Answers({"sadd"}, k) => Find(k)'.set = Range(last'[3][1])
    <3>1. Find(k)' = out.value /\ Created(op, args, out.value)
      BY <1>1, <1>7, <2>1, <2>2 DEF Fits
    <3>. QED  BY <1>3, <1>7, <3>1 DEF Created, Answers
  <2>3. ASSUME op \in {"sadd", "srem"}
        PROVE  MembersOf(Find(k)') = MembersOf(out.value)
    <3>1. \/ out.value = Absent
          \/ out.value.exp = NoExpiry
          \/ Find(k) # Absent /\ out.value.exp = Find(k).exp
      BY <1>1, <1>7, <2>3 DEF Fits, Created
    <3>2. Find(k)' = out.value
      BY <1>2, <1>7, <3>1, WritesAlive
    <3>. QED  BY <3>2
  <2>4. /\ op = "sadd" => out.result = Cardinality(MembersOf(out.value))
                                       - Cardinality(MembersOf(Find(k)))
        /\ op = "srem" => out.result = Cardinality(MembersOf(Find(k)))
                                       - Cardinality(MembersOf(out.value))
    BY <1>1, <1>2, <1>7 DEF Fits
  <2>5. ASSUME Answers({"sadd"}, k)
        PROVE  last'[4] = Cardinality(MembersOf(Find(k)')) - Cardinality(MembersOf(Find(k)))
    <3>1. op = "sadd"
      BY <1>3, <2>5 DEF Answers
    <3>. QED  BY <1>3, <2>3, <2>4, <3>1
  <2>6. ASSUME Answers({"srem"}, k)
        PROVE  last'[4] = Cardinality(MembersOf(Find(k))) - Cardinality(MembersOf(Find(k)'))
    <3>1. op = "srem"
      BY <1>3, <2>6 DEF Answers
    <3>. QED  BY <1>3, <2>3, <2>4, <3>1
  <2>. QED  BY <1>4, <2>2, <2>5, <2>6 DEF KeyStep
<1>. QED  BY <1>6, <1>7

LEMMA StepsOfKeys ==
  ASSUME CacheInv, FiniteInv, Next, NEW k \in Key
  PROVE  KeyStep(k) /\ FiniteInv'
<1>1. ASSUME NEW j \in Key, FittingCall(j) PROVE KeyStep(k) /\ FiniteInv'
  BY <1>1, FittingCallStep
<1>2. ASSUME NEW j \in Key, Del(j) PROVE KeyStep(k) /\ FiniteInv'
  <2>1. last'[1] = "del" /\ Find(k)' \in {Find(k), Absent}
    BY <1>2, DelFind DEF Del
  <2>2. FiniteInv'
    BY <1>2 DEF Del, FiniteInv, FiniteValue, CacheInv
  <2>. QED  BY <2>1, <2>2 DEF KeyStep, Answers
<1>3. CASE cleanupExpired \/ Tick
  <2>1. last'[1] = "idle" /\ Find(k)' \in {Find(k), Absent}
    BY <1>3, BackgroundFind DEF cleanupExpired, Tick
  <2>2. FiniteInv'
    BY <1>3 DEF cleanupExpired, Tick, FiniteInv, FiniteValue
  <2>. QED  BY <2>1, <2>2 DEF KeyStep, Answers
<1>. QED  BY <1>1, <1>2, <1>3, KeyOpFits, HashOpFits, ListOpFits, SetOpFits DEF Next

LEMMA FiniteInvariant == Spec => [](CacheInv /\ FiniteInv)
<1>1. Init => FiniteInv
  BY DEF Init, FiniteInv, FiniteValue
<1>2. CacheInv /\ FiniteInv /\ [Next]_vars => FiniteInv'
  <2>1. CacheInv /\ FiniteInv /\ Next => FiniteInv'
    <3>. SUFFICES ASSUME CacheInv, FiniteInv, Next, NEW k \in Key PROVE FiniteValue(data[k])'
      BY DEF FiniteInv
    <3>. QED  BY StepsOfKeys DEF FiniteInv
  <2>. QED  BY <2>1 DEF vars, FiniteInv
<1>. QED  BY <1>1, <1>2, CacheInvariant, PTL DEF Spec

\* A key that comes back after its deadline is a new one: nothing of the expired
\* entry is left, collected or not, and only a call that creates makes it
\* (cache.go:320-327, 497-505, 636-644, 678-686, 825-833).
THEOREM ExpiredNeverReturns == Spec => ExpiredLeavesNoTrace
<1>1. CacheInv /\ FiniteInv /\ [Next]_vars =>
        [\A k \in Key : Find(k) = Absent /\ Find(k)' # Absent =>
           /\ Answers({"set", "incrby", "hset", "lpush", "rpush", "sadd"}, k)
           /\ last'[1] # "set" => Find(k)'.exp = NoExpiry
           /\ Cardinality({f \in Field : Find(k)'.hash[f] # NoText}) <= 1
           /\ Answers({"lpush"}, k) =>
                Find(k)'.list \in {last'[3][1], Reversed(last'[3][1])}
           /\ Answers({"rpush"}, k) => Find(k)'.list = last'[3][1]
           /\ Answers({"sadd"}, k) => Find(k)'.set = Range(last'[3][1])]_vars
  BY StepsOfKeys DEF KeyStep, Creators, Answers
<1>. QED  BY <1>1, FiniteInvariant, PTL DEF ExpiredLeavesNoTrace, Spec

\* SAdd and SRem answer by how much the set grew or shrank, repeated and missing
\* members notwithstanding (cache.go:839-846, 877-884).
THEOREM SetCountsAlwaysMatch == Spec => SetCountsMatch
<1>1. CacheInv /\ FiniteInv /\ [Next]_vars =>
        [\A k \in Key :
           /\ Answers({"sadd"}, k) =>
                last'[4] = Cardinality(MembersOf(Find(k)')) - Cardinality(MembersOf(Find(k)))
           /\ Answers({"srem"}, k) =>
                last'[4] = Cardinality(MembersOf(Find(k))) - Cardinality(MembersOf(Find(k)'))]_vars
  BY StepsOfKeys DEF KeyStep
<1>. QED  BY <1>1, FiniteInvariant, PTL DEF SetCountsMatch, Spec

-------------------------------------------------------------------------------
(* The cache implements Store *)

LEMMA FindStillAlive ==
  ASSUME CacheInv, NEW k \in Key
  PROVE  Find(k) = Seen!StillAlive(data[k], clock)
<1>1. data[k] # Absent => data[k].exp \in Int \cup {NoExpiry}
  BY DEF CacheInv, Value
<1>. QED  BY <1>1 DEF Find, isExpired, Seen!StillAlive, CacheInv

\* A call on the map is the same call on what callers see of it.
LEMMA CallPerforms ==
  ASSUME CacheInv, NEW k \in Key, NEW op, NEW args, NEW out, WellFormed(out.value),
         Call(op, k, args, out)
  PROVE  Seen!Perform(op, k, args, out)
<1>1. CacheInv'
  BY CallWrites, WritesInv
<1>2. clock' = clock
  BY DEF Call
<1>3. ASSUME NEW j \in Key
      PROVE  Find(j)' = IF j = k THEN Seen!StillAlive(out.value, clock) ELSE Find(j)
  <2>1. out.value # Absent => out.value.exp \in Int \cup {NoExpiry}
    BY DEF WellFormed, Value
  <2>2. CASE out.value = Find(k)
    BY <1>2, <2>1, <2>2 DEF Call, Find, isExpired, Seen!StillAlive, CacheInv
  <2>3. CASE out.value # Find(k)
    <3>1. data' = [data EXCEPT ![k] = out.value]
      BY <2>3 DEF Call
    <3>. QED  BY <1>2, <2>1, <3>1 DEF Find, isExpired, Seen!StillAlive, CacheInv
  <2>. QED  BY <2>2, <2>3
<1>. DEFINE seen == [j \in Key |-> Find(j)]
<1>4. seen' = [seen EXCEPT ![k] = Seen!StillAlive(out.value, clock)]
  BY <1>3
<1>5. Uncollected' = IF out.value = seen[k] THEN Uncollected
              ELSE IF out.value # Absent /\ seen'[k] = Absent
                   THEN Uncollected \cup {k}
                   ELSE Uncollected \ {k}
  <2>1. seen[k] = Find(k) /\ seen'[k] = Find(k)'
    BY <1>3
  <2>2. CASE out.value = Find(k)
    <3>1. data' = data
      BY <2>2 DEF Call
    <3>2. \A j \in Key : Find(j)' = Find(j)
      BY <1>2, <3>1 DEF Find, isExpired
    <3>. QED  BY <2>1, <2>2, <3>1, <3>2 DEF Uncollected
  <2>3. CASE out.value # Find(k)
    <3>1. data' = [data EXCEPT ![k] = out.value] /\ k \in DOMAIN data
      BY <2>3 DEF Call, CacheInv
    <3>2. \A j \in Key : data'[j] = IF j = k THEN out.value ELSE data[j]
      BY <3>1 DEF CacheInv
    <3>3. \A j \in Key : j # k => Find(j)' = Find(j)
      BY <1>3
    <3>4. Uncollected' = {j \in Key : data'[j] # Absent /\ Find(j)' = Absent}
      BY DEF Uncollected
    <3>5. Uncollected' = IF out.value # Absent /\ Find(k)' = Absent
                         THEN Uncollected \cup {k} ELSE Uncollected \ {k}
      BY <3>2, <3>3, <3>4 DEF Uncollected
    <3>. QED  BY <2>1, <2>3, <3>5
  <2>. QED  BY <2>2, <2>3
<1>6. last' = <<op, k, args, out.result>>
  BY DEF Call
<1>. QED  BY <1>2, <1>4, <1>5, <1>6 DEF Seen!Perform

\* Store and Cache read the same definitions of the operations.
LEMMA SameOperations ==
  /\ \A e : /\ Seen!GetOn(e) = GetOn(e) /\ Seen!ExistsOn(e) = ExistsOn(e)
            /\ Seen!PersistOn(e) = PersistOn(e) /\ Seen!HGetAllOn(e) = HGetAllOn(e)
            /\ Seen!LPopOn(e) = LPopOn(e) /\ Seen!RPopOn(e) = RPopOn(e)
            /\ Seen!LLenOn(e) = LLenOn(e) /\ Seen!SMembersOn(e) = SMembersOn(e)
  /\ \A e, x : /\ Seen!SetOn(e, x) = SetOn(e, x) /\ Seen!IncrByOn(e, x) = IncrByOn(e, x)
               /\ Seen!ExpireOn(e, x) = ExpireOn(e, x) /\ Seen!TTLOn(e, x) = TTLOn(e, x)
               /\ Seen!HGetOn(e, x) = HGetOn(e, x) /\ Seen!HDelOn(e, x) = HDelOn(e, x)
               /\ Seen!HExistsOn(e, x) = HExistsOn(e, x)
               /\ Seen!LPushOn(e, x) = LPushOn(e, x) /\ Seen!RPushOn(e, x) = RPushOn(e, x)
               /\ Seen!SAddOn(e, x) = SAddOn(e, x) /\ Seen!SRemOn(e, x) = SRemOn(e, x)
               /\ Seen!SIsMemberOn(e, x) = SIsMemberOn(e, x)
  /\ \A e, f, v : Seen!HSetOn(e, f, v) = HSetOn(e, f, v)
  /\ \A e, r : Seen!Outcome(e, r) = Outcome(e, r)
<1>. USE DEF Outcome, Seen!Outcome, Holds, Seen!Holds, Ensure, Seen!Ensure, New, Seen!New
<1>1. \A e : /\ Seen!GetOn(e) = GetOn(e) /\ Seen!ExistsOn(e) = ExistsOn(e)
             /\ Seen!PersistOn(e) = PersistOn(e) /\ Seen!HGetAllOn(e) = HGetAllOn(e)
             /\ Seen!LPopOn(e) = LPopOn(e) /\ Seen!RPopOn(e) = RPopOn(e)
             /\ Seen!LLenOn(e) = LLenOn(e) /\ Seen!SMembersOn(e) = SMembersOn(e)
  BY DEF GetOn, Seen!GetOn, ExistsOn, Seen!ExistsOn, PersistOn, Seen!PersistOn,
         HGetAllOn, Seen!HGetAllOn, LPopOn, Seen!LPopOn, RPopOn, Seen!RPopOn,
         LLenOn, Seen!LLenOn, SMembersOn, Seen!SMembersOn
<1>2. \A e, x : /\ Seen!SetOn(e, x) = SetOn(e, x) /\ Seen!IncrByOn(e, x) = IncrByOn(e, x)
                /\ Seen!ExpireOn(e, x) = ExpireOn(e, x) /\ Seen!TTLOn(e, x) = TTLOn(e, x)
  BY DEF SetOn, Seen!SetOn, IncrByOn, Seen!IncrByOn, ExpireOn, Seen!ExpireOn,
         TTLOn, Seen!TTLOn, Wrap, Seen!Wrap, Int64, Seen!Int64
<1>3. \A e, x : /\ Seen!HGetOn(e, x) = HGetOn(e, x) /\ Seen!HDelOn(e, x) = HDelOn(e, x)
                /\ Seen!HExistsOn(e, x) = HExistsOn(e, x)
  BY DEF HGetOn, Seen!HGetOn, HDelOn, Seen!HDelOn, HExistsOn, Seen!HExistsOn
<1>4. \A e, x : /\ Seen!LPushOn(e, x) = LPushOn(e, x) /\ Seen!RPushOn(e, x) = RPushOn(e, x)
                /\ Seen!SAddOn(e, x) = SAddOn(e, x) /\ Seen!SRemOn(e, x) = SRemOn(e, x)
                /\ Seen!SIsMemberOn(e, x) = SIsMemberOn(e, x)
  <2>1. \A S : Seen!Cardinality(S) = Cardinality(S)
    BY DEF Cardinality, Seen!Cardinality
  <2>2. \A f : Seen!Range(f) = Range(f)
    BY DEF Range, Seen!Range
  <2>3. \A e, x : Seen!LPushOn(e, x) = LPushOn(e, x) /\ Seen!RPushOn(e, x) = RPushOn(e, x)
    BY DEF LPushOn, Seen!LPushOn, RPushOn, Seen!RPushOn
  <2>4. ASSUME NEW e, NEW x PROVE Seen!SAddOn(e, x) = SAddOn(e, x)
    <3>1. Seen!Cardinality(Seen!Range(x) \ Ensure(e, "set").set)
            = Cardinality(Range(x) \ Ensure(e, "set").set)
      BY <2>1, <2>2
    <3>2. Seen!Range(x) = Range(x)
      BY <2>2
    <3>. QED  BY <3>1, <3>2 DEF SAddOn, Seen!SAddOn
  <2>5. ASSUME NEW e, NEW x PROVE Seen!SRemOn(e, x) = SRemOn(e, x)
    <3>1. Seen!Cardinality(Seen!Range(x) \cap e.set) = Cardinality(Range(x) \cap e.set)
      BY <2>1, <2>2
    <3>2. Seen!Range(x) = Range(x)
      BY <2>2
    <3>. QED  BY <3>1, <3>2 DEF SRemOn, Seen!SRemOn
  <2>6. \A e, x : Seen!SIsMemberOn(e, x) = SIsMemberOn(e, x)
    BY DEF SIsMemberOn, Seen!SIsMemberOn
  <2>. QED  BY <2>3, <2>4, <2>5, <2>6
<1>5. \A e, f, v : Seen!HSetOn(e, f, v) = HSetOn(e, f, v)
  BY DEF HSetOn, Seen!HSetOn
<1>6. \A e, r : Seen!Outcome(e, r) = Outcome(e, r)
  OBVIOUS
<1>. QED  BY <1>1, <1>2, <1>3, <1>4, <1>5, <1>6

\* Answering a call is a step of Store, for each group of operations.
LEMMA KeyOpImplements ==
  ASSUME CacheInv, NEW k \in Key, KeyOp(k)
  PROVE  Seen!Del(k) \/ Seen!KeyOp(k, Find(k))
<1>. USE CacheAssumption DEF CacheAssumption
<1>0. WellFormed(Find(k)) /\ clock \in Int
  BY FindWellFormed DEF CacheInv
<1>1. CASE Get(k)
  <2>1. GetOn(Find(k)).value = Find(k)
    BY DEF GetOn, Outcome
  <2>. QED  BY <1>0, <1>1, <2>1, CallPerforms, SameOperations DEF Get, Seen!KeyOp
<1>2. CASE Exists(k)
  <2>1. ExistsOn(Find(k)).value = Find(k)
    BY DEF ExistsOn, Outcome
  <2>. QED  BY <1>0, <1>2, <2>1, CallPerforms, SameOperations DEF Exists, Seen!KeyOp
<1>3. CASE TTL(k)
  <2>1. TTLOn(Find(k), clock).value = Find(k)
    BY DEF TTLOn, Outcome
  <2>. QED  BY <1>0, <1>3, <2>1, CallPerforms, SameOperations DEF TTL, Seen!KeyOp
<1>4. CASE Persist(k)
  <2>1. WellFormed(PersistOn(Find(k)).value)
    BY <1>0, ExpireOnWellFormed
  <2>. QED  BY <1>4, <2>1, CallPerforms, SameOperations DEF Persist, Seen!KeyOp
<1>5. ASSUME NEW v \in Input, NEW ttl \in Ttl, Set(k, v, ttl)
      PROVE  Seen!KeyOp(k, Find(k))
  <2>. DEFINE x == IF ttl > 0 THEN clock + ttl ELSE NoExpiry
  <2>1. x \in Int \cup {NoExpiry} /\ v \in Text
    BY <1>0
  <2>2. WellFormed(SetOn(v, x).value)
    BY <2>1, SetOnWellFormed
  <2>3. Seen!Perform("set", k, <<v, ttl>>, SetOn(v, x))
    BY <1>5, <2>2, CallPerforms DEF Set
  <2>. QED  BY <2>3, SameOperations DEF Seen!KeyOp
<1>6. ASSUME NEW d \in Delta, IncrBy(k, d) PROVE Seen!KeyOp(k, Find(k))
  <2>1. WellFormed(IncrByOn(Find(k), d).value)
    BY <1>0, IncrByOnEdits DEF Edits
  <2>. QED  BY <1>6, <2>1, CallPerforms, SameOperations DEF IncrBy, Seen!KeyOp
<1>7. ASSUME NEW ttl \in Ttl, Expire(k, ttl) PROVE Seen!KeyOp(k, Find(k))
  <2>1. clock + ttl \in Int \cup {NoExpiry}
    BY <1>0
  <2>2. WellFormed(ExpireOn(Find(k), clock + ttl).value)
    BY <1>0, <2>1, ExpireOnWellFormed
  <2>. QED  BY <1>7, <2>2, CallPerforms, SameOperations DEF Expire, Seen!KeyOp
<1>8. CASE Del(k)
  \* The result is TRUE for an expired entry too, one of the vanished keys.
  <2>. DEFINE existed == data[k] # Absent
              seen == [j \in Key |-> Find(j)]
  <2>1. existed \in BOOLEAN /\ (seen[k] # Absent => existed)
    BY DEF Find
  <2>2. existed => seen[k] # Absent \/ k \in Uncollected
    BY DEF Uncollected
  <2>3. \A j \in Key : /\ data'[j] = IF j = k THEN Absent ELSE data[j]
                     /\ Find(j)' = IF j = k THEN Absent ELSE Find(j)
    BY <1>8 DEF Del, Find, isExpired, CacheInv
  <2>4. seen' = [seen EXCEPT ![k] = Absent]
    BY <2>3
  <2>5. Uncollected' = Uncollected \ {k}
    <3>1. Uncollected' = {j \in Key : data'[j] # Absent /\ Find(j)' = Absent}
      BY DEF Uncollected
    <3>. QED  BY <2>3, <3>1 DEF Uncollected
  <2>6. last' = <<"del", k, <<>>, existed>> /\ clock' = clock
    BY <1>8 DEF Del
  <2>. QED  BY <2>1, <2>2, <2>4, <2>5, <2>6 DEF Seen!Del
<1>. QED  BY <1>1, <1>2, <1>3, <1>4, <1>5, <1>6, <1>7, <1>8 DEF KeyOp

LEMMA HashOpImplements ==
  ASSUME CacheInv, NEW k \in Key, HashOp(k)
  PROVE  Seen!HashOp(k, Find(k))
<1>. USE CacheAssumption DEF CacheAssumption
<1>0. WellFormed(Find(k))
  BY FindWellFormed
<1>1. CASE HGetAll(k)
  <2>1. HGetAllOn(Find(k)).value = Find(k)
    BY DEF HGetAllOn, Outcome
  <2>. QED  BY <1>0, <1>1, <2>1, CallPerforms, SameOperations DEF HGetAll, Seen!HashOp
<1>. SUFFICES ASSUME ~ HGetAll(k) PROVE Seen!HashOp(k, Find(k))
  BY <1>1
<1>. PICK f \in Field : \/ \E v \in Input : HSet(k, f, v)
                        \/ HGet(k, f) \/ HDel(k, f) \/ HExists(k, f)
  BY DEF HashOp
<1>2. ASSUME NEW v \in Input, HSet(k, f, v) PROVE Seen!HashOp(k, Find(k))
  <2>1. WellFormed(HSetOn(Find(k), f, v).value)
    BY <1>0, HSetOnEdits DEF Edits
  <2>. QED  BY <1>2, <2>1, CallPerforms, SameOperations DEF HSet, Seen!HashOp
<1>3. CASE HDel(k, f)
  <2>1. WellFormed(HDelOn(Find(k), f).value)
    BY <1>0, HDelOnEdits DEF Edits
  <2>. QED  BY <1>3, <2>1, CallPerforms, SameOperations DEF HDel, Seen!HashOp
<1>4. CASE HGet(k, f)
  <2>1. HGetOn(Find(k), f).value = Find(k)
    BY DEF HGetOn, Outcome
  <2>. QED  BY <1>0, <1>4, <2>1, CallPerforms, SameOperations DEF HGet, Seen!HashOp
<1>5. CASE HExists(k, f)
  <2>1. HExistsOn(Find(k), f).value = Find(k)
    BY DEF HExistsOn, Outcome
  <2>. QED  BY <1>0, <1>5, <2>1, CallPerforms, SameOperations DEF HExists, Seen!HashOp
<1>. QED  BY <1>1, <1>2, <1>3, <1>4, <1>5

LEMMA ListOpImplements ==
  ASSUME CacheInv, NEW k \in Key, ListOp(k)
  PROVE  Seen!ListOp(k, Find(k))
<1>. USE CacheAssumption DEF CacheAssumption
<1>0. WellFormed(Find(k))
  BY FindWellFormed
<1>1. ASSUME NEW b \in Batch, LPush(k, b) \/ RPush(k, b) PROVE Seen!ListOp(k, Find(k))
  <2>1. WellFormed(LPushOn(Find(k), b).value) /\ WellFormed(RPushOn(Find(k), b).value)
    BY <1>0, PushEdits DEF Edits
  <2>2. \/ Seen!Perform("lpush", k, <<b>>, LPushOn(Find(k), b))
        \/ Seen!Perform("rpush", k, <<b>>, RPushOn(Find(k), b))
    BY <1>1, <2>1, CallPerforms DEF LPush, RPush
  <2>3. b \in {b, Seen!Reversed(b)}
    OBVIOUS
  <2>. QED  BY <2>2, <2>3, SameOperations DEF Seen!ListOp
<1>2. CASE LPop(k) \/ RPop(k)
  <2>1. WellFormed(LPopOn(Find(k)).value) /\ WellFormed(RPopOn(Find(k)).value)
    BY <1>0, PopEdits DEF Edits
  <2>. QED  BY <1>2, <2>1, CallPerforms, SameOperations DEF LPop, RPop, Seen!ListOp
<1>3. CASE LLen(k)
  <2>1. LLenOn(Find(k)).value = Find(k)
    BY DEF LLenOn, Outcome
  <2>. QED  BY <1>0, <1>3, <2>1, CallPerforms, SameOperations DEF LLen, Seen!ListOp
<1>. QED  BY <1>1, <1>2, <1>3 DEF ListOp

LEMMA SetOpImplements ==
  ASSUME CacheInv, NEW k \in Key, SetOp(k)
  PROVE  Seen!SetOp(k, Find(k))
<1>. USE CacheAssumption DEF CacheAssumption
<1>0. WellFormed(Find(k))
  BY FindWellFormed
<1>1. ASSUME NEW b \in Batch, SAdd(k, b) \/ SRem(k, b) PROVE Seen!SetOp(k, Find(k))
  <2>1. WellFormed(SAddOn(Find(k), b).value) /\ WellFormed(SRemOn(Find(k), b).value)
    BY <1>0, SetEdits DEF Edits
  <2>. QED  BY <1>1, <2>1, CallPerforms, SameOperations DEF SAdd, SRem, Seen!SetOp
<1>2. ASSUME NEW m \in Input, SIsMember(k, m) PROVE Seen!SetOp(k, Find(k))
  <2>1. SIsMemberOn(Find(k), m).value = Find(k)
    BY DEF SIsMemberOn, Outcome
  <2>. QED  BY <1>0, <1>2, <2>1, CallPerforms, SameOperations DEF SIsMember, Seen!SetOp
<1>3. CASE SMembers(k)
  <2>1. SMembersOn(Find(k)).value = Find(k)
    BY DEF SMembersOn, Outcome
  <2>. QED  BY <1>0, <1>3, <2>1, CallPerforms, SameOperations DEF SMembers, Seen!SetOp
<1>. QED  BY <1>1, <1>2, <1>3 DEF SetOp

\* The cleanup and the passing of time: nothing is seen, or a deadline passes.
LEMMA BackgroundImplements ==
  /\ CacheInv /\ cleanupExpired => Seen!Collect
  /\ CacheInv /\ Tick => Seen!Tick
<1>. DEFINE seen == [j \in Key |-> Find(j)]
<1>0. Uncollected' = {j \in Key : data'[j] # Absent /\ Find(j)' = Absent}
  BY DEF Uncollected
<1>1. ASSUME CacheInv, cleanupExpired PROVE Seen!Collect
  <2>1. \A k \in Key : Find(k)' = Find(k)
    BY <1>1 DEF cleanupExpired, Find, isExpired, CacheInv
  <2>2. \A k \in Key : data'[k] # Absent => data[k] # Absent
    BY <1>1 DEF cleanupExpired
  <2>3. Uncollected' \in SUBSET Uncollected
    BY <1>0, <2>1, <2>2 DEF Uncollected
  <2>. QED  BY <1>1, <2>1, <2>3 DEF cleanupExpired, Seen!Collect
<1>2. ASSUME CacheInv, Tick PROVE Seen!Tick
  <2>1. data' = data /\ clock' = clock + 1 /\ clock \in Int
    BY <1>2 DEF Tick, CacheInv
  <2>2. ASSUME NEW k \in Key PROVE Find(k)' = Seen!StillAlive(Find(k), clock')
    <3>1. data[k] # Absent => data[k].exp \in Int \cup {NoExpiry}
      BY <1>2 DEF CacheInv, Value
    <3>. QED  BY <2>1, <3>1 DEF Find, isExpired, Seen!StillAlive
  <2>3. ASSUME NEW k \in Key PROVE Find(k) = Absent => Find(k)' = Absent
    BY <2>2 DEF Seen!StillAlive
  <2>4. \A k \in Key : Find(k) # Absent => data[k] # Absent
    BY DEF Find
  <2>5. Uncollected' = Uncollected \cup {k \in Key : seen[k] # Absent /\ seen'[k] = Absent}
    BY <1>0, <2>1, <2>3, <2>4 DEF Uncollected
  <2>6. seen' = [k \in Key |-> Seen!StillAlive(seen[k], clock')]
    BY <2>2
  <2>. QED  BY <1>2, <2>1, <2>5, <2>6 DEF Tick, Seen!Tick
<1>. QED  BY <1>1, <1>2

\* Callers see a store whose keys vanish at their deadline, whenever the lazy
\* expiry of the methods and the cleanup goroutine remove the entries
\* (cache.go:107-127, 226).  Del never reports a key as missing that is there, nor
\* one as deleted that was never written or deleted before; what it says of a key
\* whose value expired is left open (cache.go:216).
THEOREM CacheImplementsStore == Spec => StoreSpec
<1>1. Init => Seen!Init
  BY DEF Init, Seen!Init, Find, Uncollected
<1>2. CacheInv /\ [Next]_vars => [Seen!Next]_(Seen!vars)
  <2>. SUFFICES ASSUME CacheInv, [Next]_vars PROVE [Seen!Next]_(Seen!vars)
    OBVIOUS
  <2>1. CASE UNCHANGED vars
    BY <2>1 DEF vars, Seen!vars, Find, isExpired, Uncollected
  <2>2. ASSUME NEW k \in Key, KeyOp(k) \/ HashOp(k) \/ ListOp(k) \/ SetOp(k)
        PROVE  Seen!Next
    <3>1. [j \in Key |-> Find(j)][k] = Find(k)
      OBVIOUS
    <3>. QED  BY <2>2, <3>1, KeyOpImplements, HashOpImplements, ListOpImplements,
                 SetOpImplements DEF Seen!Next
  <2>3. CASE cleanupExpired \/ Tick
    BY <2>3, BackgroundImplements DEF Seen!Next
  <2>. QED  BY <2>1, <2>2, <2>3 DEF Next
<1>. QED  BY <1>1, <1>2, CacheInvariant, PTL DEF Spec, StoreSpec, Seen!Spec
===============================================================================
