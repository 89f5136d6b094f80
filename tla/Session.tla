-------------------------------- MODULE Session --------------------------------
(***************************************************************************)
(* One call through the layers, without failures: a method of Client       *)
(* builds a command, the protocol carries it, the server's handler runs a  *)
(* method of the cache and answers, and the client reads the answer.  The  *)
(* cache is the one of module Cache.                                       *)
(*                                                                         *)
(* Time is counted in ticks, Second ticks to the second: the wire carries  *)
(* whole seconds.                                                          *)
(***************************************************************************)
EXTENDS CacheValue, Protocol, SequencesExt

CONSTANTS Key, MaxList, MaxClock,
          Commands,  \* commands sent
          Lines,     \* text commands typed
          Pong, ErrorText

VARIABLES data, clock, last,   \* the cache
          cmd,                 \* the command sent last, as the sender built it
          resp,                \* the server's response to it
          reply                \* what the method of Client returned

cache == <<data, clock, last>>
vars == <<cache, cmd, resp, reply>>

\* The cache, called with whatever arguments its methods take.
C == INSTANCE Cache WITH Input <- Text, Delta <- Int64, Ttl <- Int, Batch <- Seq(Text)

\* A type outside CommandType is a number the server does not know.
CommandRecord == [type : CommandType \cup {"unknown"}, key : Key \cup {NoKey},
                  args : Seq(Text \cup Field), ttl : Duration]

OnHash == {"hget", "hset", "hdel", "hexists"}

\* Arguments are texts, but for the first one of a command that names a hash field.
\* An int counts them.
WellSorted(c) ==
  /\ c \in CommandRecord /\ Len(c.args) <= MaxDuration
  /\ c.type \notin {"ping", "unknown"} => c.key \in Key
  /\ c.type \notin OnHash => c.args \in Seq(Text)
  /\ c.type \in OnHash => /\ Len(c.args) > 0 => c.args[1] \in Field
                          /\ Len(c.args) > 1 => c.args[2] \in Text

ASSUME SessionAssumption ==
  /\ MaxClock \in Nat /\ MaxList \in Nat
  /\ \A c \in Commands : WellSorted(c)
  /\ \A line \in Lines : /\ Len(line) \in Nat
                         /\ Len(line) > 1 => line[2] \in Key
                         /\ Len(line) > 2 => line[3] \in Text

\* Numbers and lengths are as wide as a Duration, a number in digits fits into a frame
\* (20 of them in 1 MiB), and a response that is read is not an error of the reader.
ASSUME SizeAssumption ==
  /\ MaxInt <= MaxDuration /\ MaxList <= MaxDuration
  /\ \A x \in Key \cup Text \cup Field : Bytes(x) \in Nat \ {0}
  /\ \A n \in Int64 : Bytes(n) + 2 <= MaxFrame
  /\ Malformed \notin [type : ResponseType,
                       data : Int \cup Text \cup Seq(Text \cup Field)]

Nothing == Response("none", 0)

-------------------------------------------------------------------------------
(* The server: handlers *)

MinArgs(type) ==
  IF type = "hset" THEN 2
  ELSE IF type \in {"set", "incrby", "decrby", "lpush", "rpush", "sadd", "srem",
                    "sismember", "hget", "hdel", "hexists"} THEN 1
  ELSE 0

\* Wrong: the negation of the least integer is thought to be an int64.
DeltaOfUnwrapped(c) == CASE c.type = "incr" -> 1
                         [] c.type = "decr" -> -1
                         [] c.type = "incrby" -> IF c.args[1] \in Int64 THEN c.args[1] ELSE 1
                         [] c.type = "decrby" -> IF c.args[1] \in Int64 THEN -c.args[1] ELSE 1

\* Wrong: the amount of DECRBY is not negated.
DeltaOfAdding(c) == CASE c.type = "incr" -> 1
                      [] c.type = "decr" -> -1
                      [] c.type \in {"incrby", "decrby"} ->
                           IF c.args[1] \in Int64 THEN c.args[1] ELSE 1

\* parseIntArg, whose failure leaves delta at 1.
DeltaOf(c) == CASE c.type = "incr" -> 1
                [] c.type = "decr" -> -1
                [] c.type = "incrby" -> IF c.args[1] \in Int64 THEN c.args[1] ELSE 1
                [] c.type = "decrby" -> IF c.args[1] \in Int64 THEN Wrap(-c.args[1]) ELSE 1

\* The method of the cache a handler calls.
Run(c) ==
  LET k == c.key
  IN  \/ c.type = "get" /\ C!Get(k)
      \/ c.type = "set" /\ C!Set(k, c.args[1], c.ttl)
      \/ c.type = "del" /\ C!Del(k)
      \/ c.type = "exists" /\ C!Exists(k)
      \/ c.type \in {"incr", "decr", "incrby", "decrby"} /\ C!IncrBy(k, DeltaOf(c))
      \/ c.type = "expire" /\ C!Expire(k, c.ttl)
      \/ c.type = "ttl" /\ C!TTL(k)
      \/ c.type = "persist" /\ C!Persist(k)
      \/ c.type = "hget" /\ C!HGet(k, c.args[1])
      \/ c.type = "hset" /\ C!HSet(k, c.args[1], c.args[2])
      \/ c.type = "hdel" /\ C!HDel(k, c.args[1])
      \/ c.type = "hgetall" /\ C!HGetAll(k)
      \/ c.type = "hexists" /\ C!HExists(k, c.args[1])
      \/ c.type = "lpush" /\ C!LPush(k, c.args)
      \/ c.type = "rpush" /\ C!RPush(k, c.args)
      \/ c.type = "lpop" /\ C!LPop(k)
      \/ c.type = "rpop" /\ C!RPop(k)
      \/ c.type = "llen" /\ C!LLen(k)
      \/ c.type = "sadd" /\ C!SAdd(k, c.args)
      \/ c.type = "srem" /\ C!SRem(k, c.args)
      \/ c.type = "smembers" /\ C!SMembers(k)
      \/ c.type = "sismember" /\ C!SIsMember(k, c.args[1])

\* Wrong: the cache's special values are cut to seconds with the others.
SecondsCuttingAll(ttl) == IF ttl < 0 THEN 0 ELSE ttl \div Second

\* int64(ttl.Seconds()); -2 and -1 are seconds already.
Seconds(ttl) == IF ttl < 0 THEN ttl ELSE ttl \div Second

\* Wrong: a yes is answered by OK.
FlagAsOK(yes) == IF yes THEN Response("ok", 0) ELSE Response("int", 0)

Flag(yes) == Response("int", IF yes THEN 1 ELSE 0)

\* Wrong: the values come before their fields.
PairsSwapped(h) ==
  {[i \in 1 .. 2 * Len(fs) |-> IF i % 2 = 0 THEN fs[i \div 2] ELSE h[fs[(i + 1) \div 2]]] :
     fs \in SetToSeqs({f \in Field : h[f] # NoText})}

\* handleHGetAll ranges over a map: fields and values alternate, in any order.
Pairs(h) ==
  {[i \in 1 .. 2 * Len(fs) |-> IF i % 2 = 1 THEN fs[(i + 1) \div 2] ELSE h[fs[i \div 2]]] :
     fs \in SetToSeqs({f \in Field : h[f] # NoText})}

\* The responses a handler may make of the method's result.
Answers(type, r) ==
  IF type = "hgetall" THEN {Response("array", items) : items \in Pairs(r)}
  ELSE IF type = "smembers" THEN {Response("array", items) : items \in SetToSeqs(r)}
  ELSE {CASE type \in {"get", "hget", "lpop", "rpop"} ->
               IF r = <<>> THEN Response("nil", 0) ELSE Response("string", r[1])
          [] type \in {"incr", "decr", "incrby", "decrby"} ->
               IF r = <<>> THEN Response("error", ErrorText) ELSE Response("int", r[1])
          [] type \in {"set", "hset"} -> Response("ok", 0)
          [] type \in {"del", "exists", "expire", "persist", "hdel", "hexists",
                       "sismember"} -> Flag(r)
          [] type = "ttl" -> Response("int", Seconds(r))
          [] type \in {"lpush", "rpush", "llen", "sadd", "srem"} -> Response("int", r)}

Untouched == UNCHANGED <<data, clock>> /\ last' = <<"idle">>

executeCommand(c) ==
  IF c.type = "ping" THEN resp' = Response("string", Pong) /\ Untouched
  ELSE IF c.type = "unknown" \/ Len(c.args) < MinArgs(c.type)
       THEN resp' = Response("error", ErrorText) /\ Untouched
       ELSE Run(c) /\ resp' \in Answers(c.type, last'[4])

-------------------------------------------------------------------------------
(* The client *)

Failed(why) == <<"error", why>>

Done(value) == <<"ok", value>>

\* The response types a method of Client accepts, beside error (and nil, for
\* those that return strings).  Commands without a method are sent by others.
Expected(type) ==
  IF type \in {"del", "exists", "expire", "incr", "decr", "ttl", "lpush", "rpush", "sadd"}
  THEN {"int"}
  ELSE IF type \in {"get", "hget", "lpop"} THEN {"string"}
  ELSE IF type \in {"hgetall", "smembers"} THEN {"array"}
  ELSE ResponseType

\* HGetAll makes a map of the array.
MapOf(items) ==
  [f \in {items[2 * i - 1] : i \in 1 .. Len(items) \div 2} |->
     items[2 * CHOOSE i \in 1 .. Len(items) \div 2 : items[2 * i - 1] = f]]

Read(type, r) ==
  IF r = Nothing \/ ReadResponse(r) = Malformed THEN Failed("connection")
  ELSE IF r.type = "error" THEN Failed("server")
  ELSE IF r.type = "nil" /\ type \in {"get", "hget", "lpop"} THEN Failed("not found")
  ELSE IF r.type \notin Expected(type) THEN Failed("unexpected response type")
  ELSE IF type \in {"del", "exists", "expire"} THEN Done(r.data = 1)
  ELSE IF type = "ttl" THEN Done(r.data * Second)
  ELSE IF type = "hgetall" THEN Done(MapOf(r.data))
  ELSE Done(r.data)

\* A command that is refused, or whose response is, ends the connection; every
\* retry ends the same way.
Request(c) ==
  /\ cmd' = c
  /\ \E read \in ReadCommand(c) : IF read = Malformed THEN resp' = Nothing /\ Untouched
                                                      ELSE executeCommand(read)
  /\ reply' = Read(c.type, resp')

Typed == {ParseTextCommand(line) : line \in Lines} \ {Malformed}

Quiet == UNCHANGED <<cmd, resp, reply>>

Init == /\ C!Init
        /\ cmd = Command("none", NoKey, <<>>, 0) /\ resp = Nothing /\ reply = Done(0)

Next == \/ \E c \in Commands \cup Typed : Request(c)
        \/ C!cleanupExpired /\ Quiet
        \/ C!Tick /\ Quiet

Spec == Init /\ [][Next]_vars

-------------------------------------------------------------------------------
(* What a caller can rely on *)

\* The type of the state: what the handlers store is what the cache can hold.
TypeOK ==
  /\ C!TypeOK
  /\ resp = Nothing \/ resp.type \in ResponseType
  /\ resp.type = "int" => resp.data \in Int
  /\ reply[1] \in {"ok", "error"}

\* The methods of Client and the handlers agree on the types of the responses: a
\* caller never gets "unexpected response type" from a server of this version.
TypedReplies == reply # Failed("unexpected response type")

\* A call that failed has changed nothing, be the response an error ("or an error if
\* the value is not an integer", server.go:296, 306), a frame above the server's
\* limit, or one above the client's: the key holds what it held, with the deadline
\* it had, and LPOP loses no element to a response that cannot be read.
ErrorsChangeNothing ==
  [][\A k \in Key : reply'[1] = "error" /\ clock' = clock => C!Find(k)' = C!Find(k)]_vars

\* What was stored can be read back: a text that came in a command fits into a
\* response, though responses may be written up to 4 GiB and are read up to 1 MiB
\* (protocol.go:547, 585).  Only an array of several items may be too large.
ReadsMatchStore ==
  [][\A k \in Key :
       LET e == C!Find(k)
           h == [f \in {g \in Field : Holds(e, "hash") /\ e.hash[g] # NoText} |-> e.hash[f]]
           s == IF Holds(e, "set") THEN e.set ELSE {}
       IN  /\ last'[1] = "get" /\ last'[2] = k =>
                reply' = IF Holds(e, "string") THEN Done(e.str) ELSE Failed("not found")
           /\ last'[1] = "hgetall" /\ last'[2] = k =>
                \/ reply' = Done(h)
                \/ reply' = Failed("connection") /\ Cardinality(DOMAIN h) > 1
           /\ last'[1] = "smembers" /\ last'[2] = k =>
                \/ reply'[1] = "ok" /\ reply'[2] \in SetToSeqs(s)
                \/ reply' = Failed("connection") /\ Cardinality(s) > 1]_vars

\* What a command asks to add to a number; an amount that is no integer is nothing
\* that could be added.
Asked(c) == CASE c.type = "incr" -> {1}
              [] c.type = "decr" -> {-1}
              [] c.type = "incrby" -> {c.args[1]} \cap Int64
              [] c.type = "decrby" -> {-n : n \in {c.args[1]} \cap Int64}

\* INCR, DECR, INCRBY and DECRBY add up (cache.go:296-298): what the caller is told is
\* what the key then holds, and differs from what it held by what the caller asked
\* for, but for one turn of int64, though the amount is negated, stored as a text and
\* sent as a varint on its way.  What is added for an amount that is no integer is
\* left open: the code adds 1, for DECRBY too.
CountersAddUp ==
  [][\A k \in Key : last'[1] = "incrby" /\ last'[2] = k /\ reply'[1] = "ok" =>
       LET old == IF C!Find(k) = Absent THEN 0 ELSE C!Find(k).str
           new == reply'[2]
       IN  /\ new \in Int64 /\ data'[k].str = new
           /\ \A n \in Asked(cmd') : \E turns \in {-1, 0, 1} :
                new = old + n + turns * 2 * (MaxInt + 1)]_vars

\* Every command the text parser accepts is complete (protocol.go:434-435: "Error if
\* command is invalid or unsupported"): the server finds the arguments it wants.
TypedCommandsServed ==
  cmd \in Typed /\ resp.type = "error" => cmd.type \in {"incr", "decr"}

\* A key given a TTL through the client never outlives it, and loses less than a
\* second of it to the wire, which carries whole seconds (protocol.go:178).  A Set of
\* less than a second is left to PositiveTtlExpires.
DeadlineRoundedDown ==
  [][\A k \in Key :
       \/ last'[1] = "set" /\ last'[2] = k /\ cmd'.ttl >= Second
       \/ last'[1] = "expire" /\ last'[2] = k /\ cmd'.ttl >= 0 /\ C!Find(k) # Absent
       => /\ data'[k].exp - clock <= cmd'.ttl
          /\ data'[k].exp - clock > cmd'.ttl - Second]_vars

\* A positive TTL makes a key expire (client.go:375-376, Set: "If ttl is positive,
\* the key will automatically expire after the specified duration").
PositiveTtlExpires ==
  [][\A k \in Key : last'[1] = "set" /\ last'[2] = k /\ cmd'.ttl > 0 =>
       data'[k].exp # NoExpiry]_vars

\* Client.TTL tells its callers apart a key that is gone, a key that stays, and a
\* key that has so many whole seconds left (docs/API.md:116-119).
TtlReplies ==
  [][\A k \in Key : last'[1] = "ttl" /\ last'[2] = k =>
       LET e == C!Find(k)
       IN  /\ reply' = Done(-2 * Second) <=> (e = Absent \/ e.exp = clock)
           /\ reply' = Done(-Second) <=> (e # Absent /\ e.exp = NoExpiry)
           /\ (e # Absent /\ e.exp # NoExpiry /\ e.exp # clock) =>
                reply'[2] <= e.exp - clock /\ e.exp - clock < reply'[2] + Second]_vars
===============================================================================
