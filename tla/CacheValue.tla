------------------------------ MODULE CacheValue ------------------------------
(***************************************************************************)
(* What each operation of pkg/cache/cache.go does to the value it finds.   *)
(* An operator XOn(e, ...) takes the live value e of the key, Absent when  *)
(* the key is missing or expired, and gives the value the key then has and *)
(* the result the caller gets.                                             *)
(*                                                                         *)
(* A text is either the decimal form of an int64, represented by that      *)
(* integer, or a word, any text ParseInt refuses.  int64 is the two's      *)
(* complement range of MaxInt.  A Go result pair (v, false) or (0, err) is *)
(* the empty sequence, (v, true) or (v, nil) is <<v>>.                     *)
(***************************************************************************)
EXTENDS Integers, Sequences, FiniteSets, Functions

CONSTANTS Word,      \* texts that are not integers
          Field,     \* hash fields
          MaxInt,    \* math.MaxInt64
          NoText,    \* no text: a missing field, or the string of a non-string
          NoExpiry,  \* the zero time.Time
          Absent     \* no entry in the map

ASSUME CacheValueAssumption ==
  /\ MaxInt \in Nat \ {0}
  /\ Word \cap Int = {}
  /\ NoText \notin Word \cup Int
  /\ NoExpiry \notin Int

Int64 == -(MaxInt + 1) .. MaxInt

\* Wrong: integers without a width.
Unbounded(n) == n

\* Wrong: addition stops at the ends of int64.
Saturated(n) == IF n > MaxInt THEN MaxInt ELSE IF n < -(MaxInt + 1) THEN -(MaxInt + 1) ELSE n

\* Addition of int64 wraps around.
Wrap(n) == ((n + MaxInt + 1) % (2 * (MaxInt + 1))) - (MaxInt + 1)

Text == Int64 \cup Word

ValueType == {"string", "hash", "list", "set"}

\* Data is one field per type; those of the other types stay empty.
Value == [type : ValueType,
          str  : Text \cup {NoText},
          hash : [Field -> Text \cup {NoText}],
          list : Seq(Text),
          set  : SUBSET Text,
          exp  : Int \cup {NoExpiry}]

New(type, exp) == [type |-> type, str  |-> NoText, hash |-> [f \in Field |-> NoText],
                   list |-> <<>>, set  |-> {},     exp  |-> exp]

ASSUME AbsentAssumption == Absent \notin Value

Outcome(e, r) == [value |-> e, result |-> r]

\* A list of arguments in the opposite order.
Reversed(s) == [i \in DOMAIN s |-> s[Len(s) + 1 - i]]

Holds(e, type) == e # Absent /\ e.type = type

\* Writers of hashes, lists and sets create what is missing, without a TTL.
Ensure(e, type) == IF e = Absent THEN New(type, NoExpiry) ELSE e

-------------------------------------------------------------------------------
(* Keys *)

SetOn(v, exp) == Outcome([New("string", exp) EXCEPT !.str = v], <<>>)

GetOn(e) == Outcome(e, IF Holds(e, "string") THEN <<e.str>> ELSE <<>>)

ExistsOn(e) == Outcome(e, e # Absent)

\* Wrong: the new number is stored as a new value, the deadline is lost.
IncrByOnAnew(e, delta) ==
  IF e = Absent \/ (Holds(e, "string") /\ e.str \in Int64)
  THEN LET newVal == Wrap((IF e = Absent THEN 0 ELSE e.str) + delta)
       IN  Outcome([New("string", NoExpiry) EXCEPT !.str = newVal], <<newVal>>)
  ELSE Outcome(e, <<>>)

\* Wrong: a text that is no integer is overwritten before the error is found.
IncrByOnResetting(e, delta) ==
  IF e = Absent
  THEN Outcome([New("string", NoExpiry) EXCEPT !.str = delta], <<delta>>)
  ELSE IF Holds(e, "string")
       THEN IF e.str \in Int64
            THEN LET newVal == Wrap(e.str + delta)
                 IN  Outcome([e EXCEPT !.str = newVal], <<newVal>>)
            ELSE Outcome([e EXCEPT !.str = 0], <<>>)
       ELSE Outcome(e, <<>>)

IncrByOn(e, delta) ==
  IF e = Absent
  THEN Outcome([New("string", NoExpiry) EXCEPT !.str = delta], <<delta>>)
  ELSE IF Holds(e, "string") /\ e.str \in Int64
       THEN LET newVal == Wrap(e.str + delta)
            IN  Outcome([e EXCEPT !.str = newVal], <<newVal>>)
       ELSE Outcome(e, <<>>)

ExpireOn(e, exp) ==
  Outcome(IF e = Absent THEN e ELSE [e EXCEPT !.exp = exp], e # Absent)

\* -2 for a missing key and at the very instant of the deadline, -1 without one.
TTLOn(e, now) ==
  Outcome(e, IF e = Absent THEN -2
             ELSE IF e.exp = NoExpiry THEN -1
             ELSE IF e.exp - now <= 0 THEN -2
             ELSE e.exp - now)

PersistOn(e) ==
  Outcome(IF e = Absent THEN e ELSE [e EXCEPT !.exp = NoExpiry], e # Absent)

-------------------------------------------------------------------------------
(* Hashes *)

\* Wrong: a value of another type is replaced.
HSetOnAnyType(e, f, v) ==
  LET h == IF Holds(e, "hash") THEN e ELSE New("hash", NoExpiry)
  IN  Outcome([h EXCEPT !.hash[f] = v], <<>>)

HSetOn(e, f, v) ==
  LET h == Ensure(e, "hash")
  IN  Outcome(IF h.type = "hash" THEN [h EXCEPT !.hash[f] = v] ELSE h, <<>>)

HGetOn(e, f) ==
  Outcome(e, IF Holds(e, "hash") /\ e.hash[f] # NoText THEN <<e.hash[f]>> ELSE <<>>)

HDelOn(e, f) ==
  IF Holds(e, "hash") /\ e.hash[f] # NoText
  THEN Outcome([e EXCEPT !.hash[f] = NoText], TRUE)
  ELSE Outcome(e, FALSE)

HExistsOn(e, f) == Outcome(e, Holds(e, "hash") /\ e.hash[f] # NoText)

HGetAllOn(e) == Outcome(e, IF Holds(e, "hash") THEN e.hash ELSE [f \in Field |-> NoText])

-------------------------------------------------------------------------------
(* Lists *)

\* The loop prepends the arguments from the last to the first, so they end up
\* at the head in the order given.
LPushOn(e, values) ==
  LET l == Ensure(e, "list")
  IN  IF l.type = "list"
      THEN Outcome([l EXCEPT !.list = values \o l.list], Len(values) + Len(l.list))
      ELSE Outcome(l, 0)

\* Wrong: the type of the value is not checked.
RPushOnAnyType(e, values) ==
  LET l == Ensure(e, "list")
  IN  Outcome([l EXCEPT !.list = l.list \o values], Len(l.list) + Len(values))

RPushOn(e, values) ==
  LET l == Ensure(e, "list")
  IN  IF l.type = "list"
      THEN Outcome([l EXCEPT !.list = l.list \o values], Len(l.list) + Len(values))
      ELSE Outcome(l, 0)

LPopOn(e) ==
  IF Holds(e, "list") /\ e.list # <<>>
  THEN Outcome([e EXCEPT !.list = Tail(e.list)], <<Head(e.list)>>)
  ELSE Outcome(e, <<>>)

RPopOn(e) ==
  IF Holds(e, "list") /\ e.list # <<>>
  THEN Outcome([e EXCEPT !.list = SubSeq(e.list, 1, Len(e.list) - 1)],
               <<e.list[Len(e.list)]>>)
  ELSE Outcome(e, <<>>)

LLenOn(e) == Outcome(e, IF Holds(e, "list") THEN Len(e.list) ELSE 0)

-------------------------------------------------------------------------------
(* Sets *)

\* Wrong: what is new is counted before anything is added.
SAddOnCountingRepeats(e, members) ==
  LET s == Ensure(e, "set")
  IN  IF s.type = "set"
      THEN Outcome([s EXCEPT !.set = s.set \cup Range(members)],
                   Cardinality({i \in DOMAIN members : members[i] \notin s.set}))
      ELSE Outcome(s, 0)

\* Repeated members count once.
SAddOn(e, members) ==
  LET s == Ensure(e, "set")
  IN  IF s.type = "set"
      THEN Outcome([s EXCEPT !.set = s.set \cup Range(members)],
                   Cardinality(Range(members) \ s.set))
      ELSE Outcome(s, 0)

SRemOn(e, members) ==
  IF Holds(e, "set")
  THEN Outcome([e EXCEPT !.set = e.set \ Range(members)],
               Cardinality(Range(members) \cap e.set))
  ELSE Outcome(e, 0)

SMembersOn(e) == Outcome(e, IF Holds(e, "set") THEN e.set ELSE {})

SIsMemberOn(e, m) == Outcome(e, Holds(e, "set") /\ m \in e.set)
===============================================================================
