------------------------------- MODULE Startup -------------------------------
(***************************************************************************)
(* How a server process begins and ends (cmd/server/main.go with Start and *)
(* Stop of internal/server), and how an application builds a client (New   *)
(* and NewWithConfig of pkg/client), from the settings of module Config.   *)
(*                                                                         *)
(* In the server, main and the goroutine of Start run side by side and     *)
(* share s.listener without a lock.  A signal comes at any time.           *)
(***************************************************************************)
EXTENDS Config

CONSTANTS Flags, Env,     \* command lines and environments of the server
          ClientEnv,      \* environments of the application
          Nodes,          \* node lists it may pass to New
          MaxOpen         \* bound on the connections open at a time

Number == Int \cup {Unset, Malformed}

ASSUME StartupAssumption ==
  /\ MaxOpen \in Nat
  /\ \A f \in Flags : DOMAIN f = DOMAIN DefaultServer /\ f.Port \in Number
  /\ \A e \in Env : e.Port \in Number
  /\ \A e \in ClientEnv : \A s \in DOMAIN DefaultClient \ {"Nodes"} : e[s] \in Number
  /\ \A e \in ClientEnv : e.Nodes # Malformed
  /\ "localhost:8080" \in HostPort

VARIABLES flag, env, clientEnv,  \* given at the start
          cfg,       \* the configuration main has loaded, Unset before
          main,      \* main's program counter, "exited" when the process is gone
          start,     \* program counter of Start's goroutine
          field,     \* has s.listener been assigned?
          port,      \* the port listened on, 0 when there is no open listener
          conns,     \* connections accepted and not yet ended
          signal,    \* a signal waits in sigChan
          client     \* what the application has: <<"none">>, <<"client", c>>, or
                     \* <<"panic", nodes>> when New panicked for these nodes

given == <<flag, env, clientEnv>>
server == <<cfg, main, start, field, port, conns, signal>>
vars == <<given, server, client>>

\* The end of the process closes its listener and ends its goroutines.
End == /\ main' = "exited" /\ start' = "gone" /\ port' = 0 /\ conns' = 0
       /\ UNCHANGED <<cfg, field, signal>>

-------------------------------------------------------------------------------
(* main *)

\* Wrong: what the environment adds is not validated.
LoadUnchecked ==
  /\ main = "load"
  /\ IF FlagsParse(flag) /\ ValidServer([s \in DOMAIN DefaultServer |->
                                           Overlay(flag[s], DefaultServer[s])])
     THEN /\ cfg' = LoadServerConfig(flag, env)
          /\ main' = "start"
          /\ UNCHANGED <<start, field, port, conns, signal>>
     ELSE End

\* LoadServerConfig and Validate; an error ends the process.
Load ==
  /\ main = "load"
  /\ IF FlagsParse(flag) /\ ValidServer(LoadServerConfig(flag, env))
     THEN /\ cfg' = LoadServerConfig(flag, env)
          /\ main' = "start"
          /\ UNCHANGED <<start, field, port, conns, signal>>
     ELSE End

\* go func() { srv.Start() ... }()
GoStart == /\ main = "start"
           /\ main' = "notify" /\ start' = "listen"
           /\ UNCHANGED <<cfg, field, port, conns, signal>>

\* signal.Notify
Notify == /\ main = "notify"
          /\ main' = "await"
          /\ UNCHANGED <<cfg, start, field, port, conns, signal>>

\* <-sigChan
Await == /\ main = "await" /\ signal
         /\ main' = "stop" /\ signal' = FALSE
         /\ UNCHANGED <<cfg, start, field, port, conns>>

\* srv.Stop reads s.listener without synchronisation: it may find nil also after
\* Start has assigned it.
Stop == /\ main = "stop"
        /\ main' = "return"
        /\ \/ field /\ port' = 0
           \/ UNCHANGED port
        /\ UNCHANGED <<cfg, start, field, conns, signal>>

\* Wrong: main waits for Start, which Stop "will cause to return".
ReturnAfterStart == main = "return" /\ start = "none" /\ End

Return == main = "return" /\ End

MainStep == Load \/ GoStart \/ Notify \/ Await \/ Stop \/ Return

-------------------------------------------------------------------------------
(* Start *)

\* net.Listen, which may fail.  Only the port of the configuration is used.
Listen == /\ start = "listen"
          /\ \/ start' = "assign" /\ port' = cfg.Port
             \/ start' = "failed" /\ UNCHANGED port
          /\ UNCHANGED <<cfg, main, field, conns, signal>>

\* s.listener = listener
Assign == /\ start = "assign"
          /\ start' = "accept" /\ field' = TRUE
          /\ UNCHANGED <<cfg, main, port, conns, signal>>

\* A connection is accepted, whatever cfg.MaxConns says.
Accept == /\ start = "accept" /\ port # 0 /\ conns < MaxOpen
          /\ conns' = conns + 1
          /\ UNCHANGED <<cfg, main, start, field, port, signal>>

\* Once the listener is closed Accept fails, is logged, and the loop continues:
\* Start never returns.
AcceptFails == /\ start = "accept" /\ port = 0
               /\ start' = "log"
               /\ UNCHANGED <<cfg, main, field, port, conns, signal>>

Continue == /\ start = "log"
            /\ start' = "accept"
            /\ UNCHANGED <<cfg, main, field, port, conns, signal>>

\* Wrong: the error is logged and main goes on waiting.
FatalLogging == /\ start = "failed"
                /\ start' = "none"
                /\ UNCHANGED <<cfg, main, field, port, conns, signal>>

\* log.Fatalf
Fatal == start = "failed" /\ End

StartStep == Listen \/ Assign \/ Accept \/ AcceptFails \/ Continue \/ Fatal

-------------------------------------------------------------------------------
(* The environment *)

\* SIGINT or SIGTERM.  Before Notify the system ends the process.
Signal == /\ main # "exited" /\ ~ signal
          /\ IF main \in {"load", "start", "notify"}
             THEN End
             ELSE signal' = TRUE /\ UNCHANGED <<cfg, main, start, field, port, conns>>

\* handleConnection returns.
ConnEnds == /\ conns > 0
            /\ conns' = conns - 1
            /\ UNCHANGED <<cfg, main, start, field, port, signal>>

NewWithConfig(c) ==
  /\ client = <<"none">>
  /\ client' = IF ValidClient(c) THEN <<"client", c>> ELSE <<"panic", c.Nodes>>

\* New takes everything but the nodes from the environment.
New(nodes) == NewWithConfig([LoadClientConfig(clientEnv) EXCEPT !.Nodes = nodes])

Init == /\ flag \in Flags /\ env \in Env /\ clientEnv \in ClientEnv
        /\ cfg = Unset /\ main = "load" /\ start = "none"
        /\ field = FALSE /\ port = 0 /\ conns = 0 /\ signal = FALSE
        /\ client = <<"none">>

Next == /\ UNCHANGED given
        /\ \/ (MainStep \/ StartStep \/ Signal \/ ConnEnds) /\ UNCHANGED client
           \/ NewWithConfig(LoadClientConfig(clientEnv)) /\ UNCHANGED server
           \/ \E nodes \in Nodes : New(nodes) /\ UNCHANGED server

Spec == Init /\ [][Next]_vars

\* Both goroutines of the server are scheduled.
FairSpec == Spec /\ WF_vars(MainStep /\ UNCHANGED <<given, client>>)
                 /\ WF_vars(StartStep /\ UNCHANGED <<given, client>>)

-------------------------------------------------------------------------------
(* What operators and applications can rely on *)

\* The type of the state: configurations that are in use are valid ones.
TypeOK ==
  /\ cfg = Unset \/ ValidServer(cfg)
  /\ main \in {"load", "start", "notify", "await", "stop", "return", "exited"}
  /\ start \in {"none", "listen", "assign", "accept", "log", "failed", "gone"}
  /\ field \in BOOLEAN /\ signal \in BOOLEAN
  /\ port \in 0 .. MaxPort /\ conns \in 0 .. MaxOpen
  /\ client[1] \in {"none", "panic", "client"}
  /\ client[1] = "client" => ValidClient(client[2])

\* The ports asked for on the command line or in the environment.  Where the two
\* differ the documentation and the code disagree on which one counts, and no
\* property takes a side.
PortsAskedFor == {flag.Port, env.Port} \cap Int

ListensAsTold ==
  port # 0 => /\ port \in IF PortsAskedFor = {} THEN {DefaultServer.Port} ELSE PortsAskedFor
              /\ port <= MaxPort

ClientCanWork == client[1] = "client" =>
                   /\ client[2].Nodes # <<>>
                   /\ client[2].MaxConnsPerNode > 0 /\ client[2].VirtualNodes > 0
                   /\ client[2].RetryAttempts + 1 > 0

\* The least number each setting of a client may have.
Least(s) == IF s = "RetryAttempts" THEN 0 ELSE 1

PanicHasReason ==
  client[1] = "panic" =>
    \/ \E s \in DOMAIN DefaultClient \ {"Nodes"} :
         clientEnv[s] \in Int /\ clientEnv[s] < Least(s)
    \/ client[2] = <<>>
    \/ \E i \in DOMAIN client[2] : client[2][i] \notin HostPort

\* What runs, runs on settings it can work with, and was told to use: the listener
\* is on a port asked for, which exists; a client has nodes, room
\* for a connection, an attempt and a virtual node, which ClientPool assumes.  And
\* only a number out of range or a bad address makes New panic (client.go:159-160),
\* never a malformed variable.
RunsOnSettings == ListensAsTold /\ ClientCanWork /\ PanicHasReason

\* A server that was started serves or is gone: it does not linger without a
\* listener when it cannot have its port (main.go:24-28).
ServesOrEnds == <>(port # 0 \/ main = "exited")

\* A signal ends the process (main.go:30-40), though it may come before Start has a
\* listener, Stop may not see the listener, and Start never returns.
SignalEndsProcess == signal ~> main = "exited"
===============================================================================
