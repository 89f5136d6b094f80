---------------------------- MODULE StartupProofs ----------------------------
(***************************************************************************)
(* TypeOK and RunsOnSettings, for every command line, environment and list *)
(* of nodes.                                                               *)
(***************************************************************************)
EXTENDS Startup, TLAPS

\* Where main has got past Load, its configuration is the valid one of its flags and
\* environment, and Start listens only there.
Loaded == ValidServer(cfg) /\ FlagsParse(flag) /\ cfg = LoadServerConfig(flag, env)

StartupInv ==
  /\ flag \in Flags /\ env \in Env /\ clientEnv \in ClientEnv
  /\ TypeOK
  /\ main \in {"start", "notify", "await", "stop", "return"} => Loaded
  /\ main \in {"load", "start"} => start = "none"
  /\ main = "exited" => start = "gone" /\ port = 0
  /\ start \in {"listen", "assign", "accept", "log", "failed"} => Loaded
  /\ port # 0 => Loaded /\ port = cfg.Port
  /\ ClientCanWork /\ PanicHasReason

-------------------------------------------------------------------------------
(* Settings *)

LEMMA PortBound == MaxPort \in Nat
BY DEF MaxPort

\* The port of a loaded configuration comes from the environment or the command
\* line, or else is the default.
LEMMA LoadedPort ==
  ASSUME StartupInv, Loaded
  PROVE  /\ cfg.Port \in IF PortsAskedFor = {} THEN {DefaultServer.Port} ELSE PortsAskedFor
         /\ cfg.Port \in Nat /\ cfg.Port <= MaxPort
<1>1. cfg.Port = Overlay(env.Port, Overlay(flag.Port, 8080))
  BY DEF Loaded, LoadServerConfig, DefaultServer
<1>2. env.Port \in Number /\ flag.Port \in Number
  BY StartupAssumption DEF StartupInv
<1>3. flag.Port # Malformed
  <2>1. "Port" \in DOMAIN flag
    BY StartupAssumption DEF StartupInv, DefaultServer
  <2>2. QED
    BY <2>1 DEF Loaded, FlagsParse
<1>4. QED
  <2>1. cfg.Port \in Nat /\ cfg.Port <= MaxPort
    BY PortBound DEF Loaded, ValidServer
  <2>2. cfg.Port \in IF PortsAskedFor = {} THEN {8080} ELSE PortsAskedFor
    BY <1>1, <1>2, <1>3, ConfigAssumption DEF Overlay, PortsAskedFor, Number
  <2>3. DefaultServer.Port = 8080
    BY DEF DefaultServer
  <2>4. QED
    BY <2>1, <2>2, <2>3

\* The client's configuration is valid, or a number or an address in it is not.
LEMMA ClientOutcome ==
  ASSUME NEW e \in ClientEnv, NEW c, NEW list,
         \A s \in DOMAIN DefaultClient \ {"Nodes"} : c[s] = Overlay(e[s], DefaultClient[s]),
         c.Nodes = list
  PROVE  /\ ValidClient(c) => /\ c.Nodes # <<>>
                              /\ c.MaxConnsPerNode > 0 /\ c.VirtualNodes > 0
                              /\ c.RetryAttempts + 1 > 0
         /\ ~ ValidClient(c) =>
              \/ \E s \in DOMAIN DefaultClient \ {"Nodes"} : e[s] \in Int /\ e[s] < Least(s)
              \/ list = <<>> \/ \E i \in DOMAIN list : list[i] \notin HostPort
<1> DEFINE Numbers == {"MaxConnsPerNode", "ConnTimeout", "ReadTimeout", "WriteTimeout",
                       "RetryAttempts", "VirtualNodes"}
<1>1. DOMAIN DefaultClient \ {"Nodes"} = Numbers
  BY DEF DefaultClient
<1>2. \A s \in Numbers : DefaultClient[s] \in Int /\ DefaultClient[s] >= Least(s)
  BY DEF DefaultClient, Least
<1>3. \A s \in Numbers : e[s] \in Number
  BY <1>1, StartupAssumption
<1>4. \A s \in Numbers : \/ c[s] \in Int /\ c[s] = e[s]
                         \/ c[s] \in Int /\ c[s] >= Least(s)
  BY <1>1, <1>2, <1>3 DEF Overlay, Number
<1>5. ValidClient(c) => /\ c.Nodes # <<>>
                        /\ c.MaxConnsPerNode > 0 /\ c.VirtualNodes > 0
                        /\ c.RetryAttempts + 1 > 0
  <2>1. c["MaxConnsPerNode"] \in Int /\ c["VirtualNodes"] \in Int /\ c["RetryAttempts"] \in Int
    BY <1>4
  <2>2. QED
    BY <2>1 DEF ValidClient, ValidNodes
<1>6. ASSUME \A s \in Numbers : ~ (e[s] \in Int /\ e[s] < Least(s)), ValidNodes(c.Nodes)
      PROVE  ValidClient(c)
  <2>1. \A s \in Numbers : c[s] \in Int /\ c[s] >= Least(s)
    BY <1>4, <1>6 DEF Least
  <2>2. QED
    BY <2>1, <1>6 DEF ValidClient, Least
<1>7. QED
  BY <1>1, <1>5, <1>6 DEF ValidNodes

-------------------------------------------------------------------------------
(* The steps *)

LEMMA InitStartupInv == Init => StartupInv
<1> SUFFICES ASSUME Init PROVE StartupInv
  OBVIOUS
<1>1. client[1] = "none"
  BY DEF Init
<1>2. TypeOK
  <2>1. 0 \in 0 .. MaxPort /\ 0 \in 0 .. MaxOpen
    BY StartupAssumption, PortBound
  <2>2. QED
    BY <1>1, <2>1, Zenon DEF Init, TypeOK
<1>3. ClientCanWork /\ PanicHasReason
  BY <1>1 DEF ClientCanWork, PanicHasReason
<1>4. QED
  BY <1>2, <1>3 DEF Init, StartupInv

LEMMA EndKeepsInv ==
  ASSUME StartupInv, End, UNCHANGED <<given, client>>
  PROVE  StartupInv'
<1>1. TypeOK'
  BY StartupAssumption, PortBound DEF StartupInv, End, TypeOK
<1>2. ClientCanWork' /\ PanicHasReason'
  BY DEF StartupInv, given, ClientCanWork, PanicHasReason
<1>3. QED
  BY <1>1, <1>2 DEF StartupInv, End, given

LEMMA MainStepKeepsInv ==
  ASSUME StartupInv, MainStep, UNCHANGED <<given, client>>
  PROVE  StartupInv'
<1>1. CASE End
  BY <1>1, EndKeepsInv
<1>2. CASE Load /\ ~ End
  BY <1>2 DEF Load, StartupInv, given, TypeOK, Loaded, ClientCanWork, PanicHasReason
<1>3. CASE GoStart
  BY <1>3 DEF GoStart, StartupInv, given, TypeOK, Loaded, ClientCanWork, PanicHasReason
<1>4. CASE Notify
  BY <1>4 DEF Notify, StartupInv, given, TypeOK, Loaded, ClientCanWork, PanicHasReason
<1>5. CASE Await
  BY <1>5 DEF Await, StartupInv, given, TypeOK, Loaded, ClientCanWork, PanicHasReason
<1>6. CASE Stop
  <2>1. TypeOK'
    BY <1>6, PortBound DEF Stop, StartupInv, TypeOK
  <2>2. QED
    BY <1>6, <2>1 DEF Stop, StartupInv, given, Loaded, ClientCanWork, PanicHasReason
<1>7. QED
  BY <1>1, <1>2, <1>3, <1>4, <1>5, <1>6 DEF MainStep, Return

LEMMA StartStepKeepsInv ==
  ASSUME StartupInv, StartStep, UNCHANGED <<given, client>>
  PROVE  StartupInv'
<1>1. CASE Listen
  <2>1. Loaded /\ cfg.Port \in 0 .. MaxPort
    <3>1. Loaded
      BY <1>1 DEF StartupInv, Listen
    <3>2. QED
      BY <3>1, LoadedPort, PortBound
  <2>2. QED
    BY <1>1, <2>1 DEF Listen, StartupInv, given, TypeOK, Loaded, ClientCanWork, PanicHasReason
<1>2. CASE Assign
  BY <1>2 DEF Assign, StartupInv, given, TypeOK, Loaded, ClientCanWork, PanicHasReason
<1>3. CASE Accept
  BY <1>3, StartupAssumption
    DEF Accept, StartupInv, given, TypeOK, Loaded, ClientCanWork, PanicHasReason
<1>4. CASE AcceptFails
  BY <1>4 DEF AcceptFails, StartupInv, given, TypeOK, Loaded, ClientCanWork, PanicHasReason
<1>5. CASE Continue
  BY <1>5 DEF Continue, StartupInv, given, TypeOK, Loaded, ClientCanWork, PanicHasReason
<1>6. CASE Fatal
  BY <1>6, EndKeepsInv DEF Fatal
<1>7. QED
  BY <1>1, <1>2, <1>3, <1>4, <1>5, <1>6 DEF StartStep

LEMMA EnvironmentKeepsInv ==
  ASSUME StartupInv, Signal \/ ConnEnds, UNCHANGED <<given, client>>
  PROVE  StartupInv'
<1>1. CASE End
  BY <1>1, EndKeepsInv
<1>2. CASE Signal /\ ~ End
  BY <1>2 DEF Signal, StartupInv, given, TypeOK, Loaded, ClientCanWork, PanicHasReason
<1>3. CASE ConnEnds
  BY <1>3, StartupAssumption
    DEF ConnEnds, StartupInv, given, TypeOK, Loaded, ClientCanWork, PanicHasReason
<1>4. QED
  BY <1>1, <1>2, <1>3

LEMMA ClientStepKeepsInv ==
  ASSUME StartupInv, UNCHANGED <<given, server>>, NEW c, NewWithConfig(c),
         \A s \in DOMAIN DefaultClient \ {"Nodes"} :
           c[s] = Overlay(clientEnv[s], DefaultClient[s]),
         \/ c.Nodes \in Nodes \cup ({clientEnv.Nodes} \ {Unset})
         \/ c.Nodes = <<"localhost:8080">>
  PROVE  StartupInv'
<1>1. \/ ~ ValidClient(c) /\ client' = <<"panic", c.Nodes>>
      \/ ValidClient(c) /\ client' = <<"client", c>>
  BY DEF NewWithConfig
<1>2. ClientCanWork' /\ PanicHasReason'
  <2>1. CASE ValidClient(c)
    BY <1>1, <2>1, ClientOutcome DEF ClientCanWork, PanicHasReason, StartupInv
  <2>2. CASE ~ ValidClient(c)
    <3>1. CASE c.Nodes = <<"localhost:8080">>
      <4>1. ~ (c.Nodes = <<>> \/ \E i \in DOMAIN c.Nodes : c.Nodes[i] \notin HostPort)
        <5>1. c.Nodes # <<>> /\ DOMAIN c.Nodes = {1} /\ c.Nodes[1] = "localhost:8080"
          BY <3>1
        <5>2. QED
          BY <5>1, StartupAssumption
      <4>2. \E s \in DOMAIN DefaultClient \ {"Nodes"} :
              clientEnv[s] \in Int /\ clientEnv[s] < Least(s)
        BY <2>2, <4>1, ClientOutcome DEF StartupInv
      <4>3. QED
        BY <1>1, <2>2, <4>2 DEF ClientCanWork, PanicHasReason, given
    <3>2. CASE c.Nodes \in Nodes \cup ({clientEnv.Nodes} \ {Unset})
      <4>1. \/ \E s \in DOMAIN DefaultClient \ {"Nodes"} :
                 clientEnv[s] \in Int /\ clientEnv[s] < Least(s)
            \/ c.Nodes = <<>> \/ \E i \in DOMAIN c.Nodes : c.Nodes[i] \notin HostPort
        BY <2>2, ClientOutcome DEF StartupInv
      <4>2. PanicHasReason'
        BY <1>1, <2>2, <4>1 DEF PanicHasReason, given
      <4>3. ClientCanWork'
        BY <1>1, <2>2 DEF ClientCanWork
      <4>4. QED
        BY <4>2, <4>3
    <3>3. QED
      BY <3>1, <3>2
  <2>3. QED
    BY <2>1, <2>2
<1>3. TypeOK'
  BY <1>1 DEF StartupInv, TypeOK, server
<1>4. QED
  BY <1>2, <1>3 DEF StartupInv, Loaded, given, server

LEMMA NextKeepsStartupInv == StartupInv /\ [Next]_vars => StartupInv'
<1> SUFFICES ASSUME StartupInv, [Next]_vars PROVE StartupInv'
  OBVIOUS
<1>1. CASE UNCHANGED vars
  BY <1>1 DEF vars, given, server, StartupInv, TypeOK, Loaded, ClientCanWork, PanicHasReason
<1>2. CASE (MainStep \/ StartStep \/ Signal \/ ConnEnds) /\ UNCHANGED <<given, client>>
  BY <1>2, MainStepKeepsInv, StartStepKeepsInv, EnvironmentKeepsInv
<1>3. CASE NewWithConfig(LoadClientConfig(clientEnv)) /\ UNCHANGED <<given, server>>
  <2> DEFINE c == LoadClientConfig(clientEnv)
  <2>1. \A s \in DOMAIN DefaultClient : c[s] = Overlay(clientEnv[s], DefaultClient[s])
    BY DEF LoadClientConfig
  <2>2. \/ c.Nodes = clientEnv.Nodes /\ clientEnv.Nodes # Unset
        \/ c.Nodes = <<"localhost:8080">>
    <3>1. c["Nodes"] = Overlay(clientEnv["Nodes"], <<"localhost:8080">>)
      BY <2>1 DEF DefaultClient
    <3>2. clientEnv.Nodes # Malformed
      BY StartupAssumption DEF StartupInv
    <3>3. QED
      BY <3>1, <3>2 DEF Overlay
  <2> HIDE DEF c
  <2>3. QED
    BY <1>3, <2>1, <2>2, ClientStepKeepsInv DEF c
<1>4. CASE \E nodes \in Nodes : New(nodes) /\ UNCHANGED <<given, server>>
  <2>1. PICK nodes \in Nodes : New(nodes) /\ UNCHANGED <<given, server>>
    BY <1>4
  <2> DEFINE c == [LoadClientConfig(clientEnv) EXCEPT !.Nodes = nodes]
  <2>2. \A s \in DOMAIN DefaultClient \ {"Nodes"} :
          c[s] = Overlay(clientEnv[s], DefaultClient[s])
    BY DEF LoadClientConfig
  <2>3. c.Nodes = nodes
    BY DEF LoadClientConfig, DefaultClient
  <2>4. NewWithConfig(c)
    BY <2>1 DEF New
  <2> HIDE DEF c
  <2>5. QED
    BY <2>1, <2>2, <2>3, <2>4, ClientStepKeepsInv
<1>5. QED
  BY <1>1, <1>2, <1>3, <1>4 DEF Next

-------------------------------------------------------------------------------
(* The theorems *)

\* For every command line, environment and list of nodes, in every order of main,
\* Start, signals and connections: configurations in use are valid.
THEOREM StartupInvariant == Spec => []StartupInv
BY InitStartupInv, NextKeepsStartupInv, PTL DEF Spec

\* In particular every program counter of main.go's main and of server.go's Start keeps
\* to its statements, and an open listener to a port that exists.
THEOREM StartupAlwaysTyped == Spec => []TypeOK
<1>1. StartupInv => TypeOK
  BY DEF StartupInv
<1>2. QED
  BY <1>1, StartupInvariant, PTL

\* The same for RunsOnSettings: the listener is on a port that was asked for,
\* and only a number out of range or a bad address makes New panic.
THEOREM AlwaysRunsOnSettings == Spec => []RunsOnSettings
<1>1. StartupInv => RunsOnSettings
  <2> SUFFICES ASSUME StartupInv, port # 0
               PROVE  /\ port \in IF PortsAskedFor = {} THEN {DefaultServer.Port}
                                  ELSE PortsAskedFor
                      /\ port <= MaxPort
    BY DEF RunsOnSettings, ListensAsTold, StartupInv
  <2>1. Loaded /\ port = cfg.Port
    BY DEF StartupInv
  <2>2. QED
    BY <2>1, LoadedPort
<1>2. QED
  BY <1>1, StartupInvariant, PTL
===============================================================================
