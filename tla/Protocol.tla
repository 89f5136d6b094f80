------------------------------- MODULE Protocol -------------------------------
(***************************************************************************)
(* pkg/protocol/protocol.go: the commands and responses, what the wire     *)
(* does to them, and the text parser.                                      *)
(*                                                                         *)
(* A frame keeps the type, the strings and the numbers as they are, in     *)
(* their order (Serialize writes what Deserialize reads), but for the TTL, *)
(* which loses its fraction of a second and its sign, and but for frames   *)
(* above the readers' limit.  Only frames made by Serialize are modelled.  *)
(***************************************************************************)
EXTENDS Integers, Sequences, Functions

CONSTANTS Bytes(_),     \* the bytes of a string, its length prefix included
          NoKey,        \* the empty key
          Second,       \* time.Second, in ticks
          MaxDuration,  \* math.MaxInt64: the longest Duration, in ticks
          MaxFrame,     \* the readers' limit (1 MiB)
          Malformed     \* an error of a reader or of the parser

ASSUME ProtocolAssumption ==
  /\ Second \in Nat \ {0} /\ MaxDuration \in Nat \ {0} /\ MaxFrame \in Nat
  /\ Malformed \notin Int

\* A Duration takes at most ten bytes on the wire, and a frame has room for a number.
ASSUME FrameAssumption ==
  /\ \E b \in 1 .. 10 : 2 * (MaxDuration + 1) <= 128 ^ b
  /\ MaxFrame >= 11
  /\ Malformed \notin [type : {"int"}, data : Int]

CommandType == {"get", "set", "del", "exists", "incr", "decr", "incrby", "decrby",
                "expire", "ttl", "persist", "hget", "hset", "hdel", "hgetall", "hexists",
                "lpush", "rpush", "lpop", "rpop", "llen",
                "sadd", "srem", "smembers", "sismember", "ping"}

ResponseType == {"ok", "error", "string", "int", "array", "nil"}

Command(type, key, args, ttl) == [type |-> type, key |-> key, args |-> args, ttl |-> ttl]

Response(type, value) == [type |-> type, data |-> value]

-------------------------------------------------------------------------------
(* The TTL *)

\* Wrong: seconds are rounded up.
SerializeTTLRoundedUp(ttl) == {(ttl + Second - 1) \div Second}

\* uint64(TTL.Seconds()): whole seconds, cut towards 0.  How a negative float is
\* converted is up to the processor: it is 0, or wraps around.  The division is exact
\* here; the float64 may round up a TTL above 2^24 s that is 1 ns short of a second.
SerializeTTL(ttl) ==
  IF ttl >= 0 THEN {ttl \div Second}
  ELSE LET wrapped == 2 * (MaxDuration + 1) - ((-ttl) \div Second)
       IN  IF ttl > -Second THEN {0} ELSE {0, wrapped}

Duration == -(MaxDuration + 1) .. MaxDuration

\* Multiplication of Durations wraps around.
WrapDuration(n) == ((n + MaxDuration + 1) % (2 * (MaxDuration + 1))) - (MaxDuration + 1)

\* The test against MaxInt64 comes before the multiplication.
deserializeTTL(n) == IF n > MaxDuration THEN Malformed ELSE WrapDuration(n * Second)

-------------------------------------------------------------------------------
(* The size of a frame *)

UvarintLen(n) == CHOOSE b \in 1 .. 10 : n < 128 ^ b /\ \A a \in 1 .. b - 1 : n >= 128 ^ a

\* A signed number is folded onto the natural ones.
VarintLen(n) == UvarintLen(IF n >= 0 THEN 2 * n ELSE -2 * n - 1)

SliceLen(strings) ==
  UvarintLen(Len(strings)) + SumFunction([i \in DOMAIN strings |-> Bytes(strings[i])])

\* Wrong: the arguments are not counted.
CommandLenOfKey(c, seconds) == 1 + Bytes(c.key) + UvarintLen(seconds)

CommandLen(c, seconds) == 1 + Bytes(c.key) + SliceLen(c.args) + UvarintLen(seconds)

ResponseLen(r) == CASE r.type \in {"ok", "nil"}       -> 1
                    [] r.type \in {"error", "string"} -> 1 + Bytes(r.data)
                    [] r.type = "int"                 -> 1 + VarintLen(r.data)
                    [] r.type = "array"               -> 1 + SliceLen(r.data)

-------------------------------------------------------------------------------
(* Reading what was written *)

\* n is what Serialize wrote for the TTL.
DeserializeCommand(c, n) ==
  IF deserializeTTL(n) = Malformed THEN Malformed ELSE [c EXCEPT !.ttl = deserializeTTL(n)]

\* What ReadCommand may make of WriteCommand's frame.  A refused command ends
\* the connection.
ReadCommand(c) ==
  {IF CommandLen(c, n) > MaxFrame THEN Malformed ELSE DeserializeCommand(c, n) :
     n \in SerializeTTL(c.ttl)}

\* Four of the types carry data.
DeserializeResponse(r) == IF r.type \in {"ok", "nil"} THEN Response(r.type, 0) ELSE r

\* What ReadResponse makes of WriteResponse's frame: the writer's limit is 4 GiB.
ReadResponse(r) == IF ResponseLen(r) > MaxFrame THEN Malformed ELSE DeserializeResponse(r)

-------------------------------------------------------------------------------
(* Text commands *)

\* Wrong: the value is taken from one field too far.
SetArgsOneOff(line) == SubSeq(line, 4, Len(line))

SetArgs(line) == <<line[3]>>

\* SET's fourth field is a TTL in seconds, but only when a fifth follows.
SetTTL(line) ==
  IF Len(line) > 4 /\ line[4] \in Int THEN WrapDuration(line[4] * Second) ELSE 0

parseSetCommand(line) ==
  IF Len(line) < 3 THEN Malformed ELSE Command("set", line[2], SetArgs(line), SetTTL(line))

\* parseGetCommand, parseDelCommand and so on: a key and nothing else.
parseKeyCommand(line) ==
  IF Len(line) # 2 THEN Malformed ELSE Command(line[1], line[2], <<>>, 0)

\* A line is the sequence of its fields; the case of the first one is ignored.
ParseTextCommand(line) ==
  IF line = <<>> THEN Malformed
  ELSE CASE line[1] = "ping" -> Command("ping", NoKey, <<>>, 0)
         [] line[1] = "set" -> parseSetCommand(line)
         [] line[1] \in {"get", "del", "exists", "incr", "decr"} -> parseKeyCommand(line)
         [] OTHER -> Malformed
===============================================================================
