\* A server process from its command line to its end, and a client of it.
SPECIFICATION FairSpec
CONSTANTS
  Unset = Unset
  Malformed = Malformed
  HostPort = {"a:1", "b:1", "localhost:8080"}
  Flags <- MCFlags
  Env <- MCEnv
  ClientEnv <- MCClientEnv
  Nodes <- MCNodes
  MaxOpen = 2
CHECK_DEADLOCK FALSE
INVARIANTS
  TypeOK
  RunsOnSettings
PROPERTIES
  ServesOrEnds
  SignalEndsProcess
