-------------------------------- MODULE Config --------------------------------
(***************************************************************************)
(* pkg/config/config.go: where settings come from and which are accepted.  *)
(*                                                                         *)
(* flag is a record of what the command line gives for each setting, env   *)
(* one of what the environment gives: Unset (also the empty string), a     *)
(* number, a text, or Malformed where a number is wanted and Atoi finds    *)
(* none.  CACHEMIR_NODES is given as the sequence of what stands between   *)
(* its commas, without the blanks around it.                               *)
(***************************************************************************)
EXTENDS Integers, Sequences

CONSTANTS Unset, Malformed,
          HostPort    \* the node addresses that contain a colon

ASSUME ConfigAssumption == Unset \notin Int /\ Malformed \notin Int

MaxPort == 65535

LogLevels == {"debug", "info", "warn", "error"}

DefaultServer == [Port |-> 8080, Host |-> "0.0.0.0", MaxConns |-> 1000,
                  ReadTimeout |-> 30, WriteTimeout |-> 10, LogLevel |-> "info"]

DefaultClient == [Nodes |-> <<"localhost:8080">>, MaxConnsPerNode |-> 10, ConnTimeout |-> 5,
                  ReadTimeout |-> 30, WriteTimeout |-> 10, RetryAttempts |-> 3,
                  VirtualNodes |-> 150]

\* Wrong: the error of Atoi is ignored, its result 0 is taken.
OverlayZero(given, current) ==
  IF given = Unset THEN current ELSE IF given = Malformed THEN 0 ELSE given

\* A setting that is given and well-formed replaces the current value.
Overlay(given, current) == IF given \in {Unset, Malformed} THEN current ELSE given

-------------------------------------------------------------------------------
(* The server *)

\* flag.Parse ends the process at a malformed number.
FlagsParse(flag) == \A s \in DOMAIN flag : flag[s] # Malformed

\* Flags are parsed over the defaults, the environment is read after them and so
\* has the last word, whatever config.go:3-6 and 68-71 say.
LoadServerConfig(flag, env) ==
  LET parsed == [s \in DOMAIN DefaultServer |-> Overlay(flag[s], DefaultServer[s])]
  IN  [parsed EXCEPT !.Port = Overlay(env.Port, @), !.Host = Overlay(env.Host, @),
                     !.MaxConns = Overlay(env.MaxConns, @)]

ValidServer(c) == /\ c.Port \in 1 .. MaxPort
                  /\ c.MaxConns >= 1
                  /\ c.ReadTimeout >= 1 /\ c.WriteTimeout >= 1
                  /\ c.LogLevel \in LogLevels

-------------------------------------------------------------------------------
(* The client *)

LoadClientConfig(env) ==
  [s \in DOMAIN DefaultClient |-> Overlay(env[s], DefaultClient[s])]

\* An address is not empty and contains a colon.
ValidNodes(list) == list # <<>> /\ \A i \in DOMAIN list : list[i] \in HostPort

ValidClient(c) == /\ ValidNodes(c.Nodes)
                  /\ c.MaxConnsPerNode >= 1
                  /\ c.ConnTimeout >= 1 /\ c.ReadTimeout >= 1 /\ c.WriteTimeout >= 1
                  /\ c.RetryAttempts >= 0
                  /\ c.VirtualNodes >= 1
===============================================================================
