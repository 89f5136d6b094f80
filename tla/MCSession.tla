------------------------------ MODULE MCSession ------------------------------
(* A small instance of Session: one key, two ticks to the second, every command, *)
(* with the arguments its sender may give it or leave out.                       *)
EXTENDS Session, TLC

CONSTANTS w, big, k1, f1, f2

MCWord == {w, big}

\* Bytes of each string; big alone exceeds the limit.
MCBytes(s) == IF s = w THEN 5 ELSE IF s = big THEN 20 ELSE IF s = NoKey THEN 1 ELSE 2

Cmd(type, args, ttl) == Command(type, k1, args, ttl)

MCCommands ==
  {Cmd(t, <<>>, 0) : t \in (CommandType \ {"ping"}) \cup {"unknown"}}
    \cup {Cmd(t, <<v>>, 0) : t \in {"lpush", "sadd", "srem"}, v \in {1, w}}
    \cup {Cmd("rpush", <<1, w>>, 0), Cmd("sismember", <<1>>, 0)}
    \cup {Cmd(t, <<v>>, 0) : t \in {"incrby", "decrby"}, v \in {-2, 1, w}}
    \cup {Cmd(t, <<f1>>, 0) : t \in {"hget", "hset", "hdel", "hexists"}}
    \cup {Cmd("hset", <<f1, w>>, 0), Cmd("hset", <<f2, 1>>, 0)}
    \cup {Cmd("set", <<v>>, ttl) : v \in {1, w}, ttl \in {-2, 0, 1, 2, 3}}
    \cup {Cmd("set", <<big>>, 0)}
    \cup {Cmd("expire", <<>>, ttl) : ttl \in {-2, -1, 1, 2, 3}}

MCLines == {<<>>, <<"ping">>, <<"get", k1>>, <<"get">>, <<"lpop", k1>>,
            <<"set", k1>>, <<"set", k1, w>>, <<"set", k1, w, 1>>,
            <<"set", k1, w, 1, w>>, <<"set", k1, w, 5, w>>, <<"set", k1, w, w, w>>}
===============================================================================
