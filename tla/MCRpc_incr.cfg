\* Two callers, one retry: timeouts, late executions, Stop and exit at any time.
SPECIFICATION FairSpec
CONSTANTS
  t1 = t1
  t2 = t2
  Caller <- MCCaller
  Conn = {1, 2}
  NoConn = NoConn
  NoTag = NoTag
  MaxConnsPerNode = 2
  RetryAttempts = 1
  MaxCalls = 3
CHECK_DEADLOCK FALSE
INVARIANTS
  TypeOK
  ReplyToOwnCommand
  RepliesGrow
PROPERTIES
  AtLeastOnceSpec
  HandlersEnd
