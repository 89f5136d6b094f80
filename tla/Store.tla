--------------------------------- MODULE Store ---------------------------------
(***************************************************************************)
(* What the callers of the cache can rely on: keys with values that vanish *)
(* the moment their deadline has passed, whenever the cache removes the    *)
(* expired entry.  Two answers are left open, because the documentation    *)
(* and the code disagree on them: in which order LPUSH puts its arguments  *)
(* at the head, and what DEL says of a key whose value has vanished.  A    *)
(* key that was never written, or was deleted, DEL must report as missing. *)
(***************************************************************************)
EXTENDS CacheValue

CONSTANTS Key, Input, Delta, Ttl, Batch

VARIABLES store,     \* the value of every key, Absent for the keys that have none
          vanished,  \* keys that vanished and whose removal may still be to come
          clock,
          last       \* the last call: operation, key, arguments, result

vars == <<store, vanished, clock, last>>

Init == /\ store = [k \in Key |-> Absent]
        /\ vanished = {}
        /\ clock = 0
        /\ last = <<"idle">>

StillAlive(e, now) ==
  IF e # Absent /\ e.exp # NoExpiry /\ e.exp < now THEN Absent ELSE e

\* A value written with a deadline in the past vanishes at once.
Perform(op, k, args, out) ==
  /\ store' = [store EXCEPT ![k] = StillAlive(out.value, clock)]
  /\ vanished' = IF out.value = store[k] THEN vanished
                 ELSE IF out.value # Absent /\ store'[k] = Absent
                      THEN vanished \cup {k}
                      ELSE vanished \ {k}
  /\ last' = <<op, k, args, out.result>>
  /\ UNCHANGED clock

\* A key that is there is reported, one that vanished may be, no other is.
Del(k) == \E existed \in BOOLEAN :
            /\ store[k] # Absent => existed
            /\ existed => store[k] # Absent \/ k \in vanished
            /\ store' = [store EXCEPT ![k] = Absent]
            /\ vanished' = vanished \ {k}
            /\ last' = <<"del", k, <<>>, existed>>
            /\ UNCHANGED clock

KeyOp(k, e) ==
  \/ \E v \in Input, ttl \in Ttl :
       Perform("set", k, <<v, ttl>>, SetOn(v, IF ttl > 0 THEN clock + ttl ELSE NoExpiry))
  \/ Perform("get", k, <<>>, GetOn(e))
  \/ Perform("exists", k, <<>>, ExistsOn(e))
  \/ \E d \in Delta : Perform("incrby", k, <<d>>, IncrByOn(e, d))
  \/ \E ttl \in Ttl : Perform("expire", k, <<ttl>>, ExpireOn(e, clock + ttl))
  \/ Perform("ttl", k, <<>>, TTLOn(e, clock))
  \/ Perform("persist", k, <<>>, PersistOn(e))

HashOp(k, e) ==
  \/ \E f \in Field :
       \/ \E v \in Input : Perform("hset", k, <<f, v>>, HSetOn(e, f, v))
       \/ Perform("hget", k, <<f>>, HGetOn(e, f))
       \/ Perform("hdel", k, <<f>>, HDelOn(e, f))
       \/ Perform("hexists", k, <<f>>, HExistsOn(e, f))
  \/ Perform("hgetall", k, <<>>, HGetAllOn(e))

ListOp(k, e) ==
  \/ \E b \in Batch : \/ \E values \in {b, Reversed(b)} :
                           Perform("lpush", k, <<b>>, LPushOn(e, values))
                      \/ Perform("rpush", k, <<b>>, RPushOn(e, b))
  \/ Perform("lpop", k, <<>>, LPopOn(e))
  \/ Perform("rpop", k, <<>>, RPopOn(e))
  \/ Perform("llen", k, <<>>, LLenOn(e))

SetOp(k, e) ==
  \/ \E b \in Batch : \/ Perform("sadd", k, <<b>>, SAddOn(e, b))
                      \/ Perform("srem", k, <<b>>, SRemOn(e, b))
  \/ Perform("smembers", k, <<>>, SMembersOn(e))
  \/ \E m \in Input : Perform("sismember", k, <<m>>, SIsMemberOn(e, m))

\* Time passes, and with it the keys whose deadline it passes.
Tick == /\ clock' = clock + 1
        /\ store' = [k \in Key |-> StillAlive(store[k], clock')]
        /\ vanished' = vanished \cup {k \in Key : store[k] # Absent /\ store'[k] = Absent}
        /\ last' = <<"idle">>

\* Some of what vanished is removed; callers see nothing of it.
Collect == /\ vanished' \in SUBSET vanished
           /\ last' = <<"idle">>
           /\ UNCHANGED <<store, clock>>

Next == \/ \E k \in Key : \/ Del(k)
                          \/ KeyOp(k, store[k])
                          \/ HashOp(k, store[k])
                          \/ ListOp(k, store[k])
                          \/ SetOp(k, store[k])
        \/ Tick
        \/ Collect

Spec == Init /\ [][Next]_vars
===============================================================================
