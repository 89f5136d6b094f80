------------------------------- MODULE MCStartup -------------------------------
(* A small instance of Startup: every source of a setting, with values at the   *)
(* edges of what is accepted.                                                   *)
EXTENDS Startup, TLC

\* The record with one setting changed, for every setting and value.
Varied(base, settings, values) == {[base EXCEPT ![s] = v] : s \in settings, v \in values}

NoFlags == [s \in DOMAIN DefaultServer |-> Unset]

MCFlags == Varied(NoFlags, {"Port"}, {Unset, Malformed, 0, 1, 65535, 65536})
             \cup Varied(NoFlags, {"MaxConns", "ReadTimeout", "WriteTimeout"}, {0, 1})
             \cup Varied(NoFlags, {"LogLevel"}, {"trace", "warn"})

NoServerEnv == [Port |-> Unset, MaxConns |-> Unset, Host |-> Unset]

MCEnv == Varied(NoServerEnv, {"Port"}, {Unset, Malformed, 0, 9090})
           \cup Varied(NoServerEnv, {"MaxConns"}, {Malformed, 0})
           \cup Varied(NoServerEnv, {"Host"}, {"host"})

NoEnv == [s \in DOMAIN DefaultClient |-> Unset]

MCClientEnv == {NoEnv}
                 \cup Varied(NoEnv, DOMAIN DefaultClient \ {"Nodes"}, {Malformed, -1, 0})
                 \cup Varied(NoEnv, {"Nodes"}, {<<"a:1", "b:1">>, <<"a">>, <<"">>})

MCNodes == {<<>>, <<"a:1">>, <<"a:1", "b">>}
===============================================================================
