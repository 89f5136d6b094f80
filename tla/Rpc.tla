---------------------------------- MODULE Rpc ----------------------------------
(***************************************************************************)
(* One client and one server: the attempts of executeCommand (client.go)   *)
(* against the loop of handleConnection (server.go), with the connections  *)
(* between them.                                                           *)
(*                                                                         *)
(* Every command is INCR of one key: it tells one execution from two, and  *)
(* its replies order the executions.  The node's pool is reduced to its    *)
(* channel and its counter, ClientPool has the steps.  A deadline passes,  *)
(* or a dial fails, at any time.                                           *)
(***************************************************************************)
EXTENDS Integers, Sequences, FiniteSets

CONSTANTS Caller,           \* goroutines that call Incr
          Conn, NoConn,     \* connections ever dialled
          NoTag,            \* no command
          MaxConnsPerNode, RetryAttempts,
          MaxCalls          \* bound on the calls of all callers

ASSUME RpcAssumption ==
  /\ MaxConnsPerNode \in Nat \ {0} /\ RetryAttempts \in Nat /\ MaxCalls \in Nat
  /\ IsFiniteSet(Conn) /\ Cardinality(Conn) >= MaxConnsPerNode
  /\ NoConn \notin Conn

VARIABLES listener,  \* s.listener: "none" before Start, "open", "closed"; "exited" after main
          counter,   \* the key's number in the server's cache
          conn,      \* both ends of a connection and what is under way on it
          free,      \* the pool's channel
          created,   \* the pool's counter
          caller,    \* the locals of every caller
          calls,     \* calls so far: they are numbered in the order they begin
          results,   \* history: the numbers made by the executions of each call
          highest    \* history: the highest number a caller was given

serverVars == <<listener, counter, results>>
poolVars == <<free, created>>
callVars == <<calls, highest>>
vars == <<serverVars, conn, poolVars, caller, callVars>>

\* A command on the wire, named by the attempt that sent it.
Tag == [call : 1 .. MaxCalls, attempt : 0 .. RetryAttempts]

Unused == [client |-> "none", server |-> "none", toServer |-> <<>>, toClient |-> <<>>,
           cmd |-> NoTag, resp |-> 0]

Idle == [pc |-> "idle", call |-> 0, attempt |-> 0, conn |-> NoConn, floor |-> 0]

FreshConn == CHOOSE c \in Conn : conn[c] = Unused

-------------------------------------------------------------------------------
(* The client *)

At(t, pc) == caller[t].pc = pc

TagOf(t) == [call |-> caller[t].call, attempt |-> caller[t].attempt]

Finish(t) == caller' = [caller EXCEPT ![t] = Idle]

\* Wrong: one attempt too many.
NextAttemptTooMany(t) ==
  IF caller[t].attempt <= RetryAttempts
  THEN caller' = [caller EXCEPT ![t].pc = "get", ![t].attempt = @ + 1, ![t].conn = NoConn]
  ELSE Finish(t)

\* "continue": the next attempt, or the error after the last one.
NextAttempt(t) ==
  IF caller[t].attempt < RetryAttempts
  THEN caller' = [caller EXCEPT ![t].pc = "get", ![t].attempt = @ + 1, ![t].conn = NoConn]
  ELSE Finish(t)

Incr(t) ==
  /\ At(t, "idle") /\ calls < MaxCalls
  /\ calls' = calls + 1
  /\ caller' = [caller EXCEPT ![t] = [Idle EXCEPT !.pc = "get", !.call = calls',
                                                  !.floor = highest]]
  /\ UNCHANGED <<serverVars, conn, poolVars, highest>>

Hold(t, c) == caller' = [caller EXCEPT ![t].pc = "send", ![t].conn = c]

GetPooled(t) ==
  /\ At(t, "get") /\ free # <<>>
  /\ Hold(t, Head(free))
  /\ free' = Tail(free)
  /\ UNCHANGED <<serverVars, conn, created, callVars>>

\* The kernel completes the dial before the server accepts.
Dial(t) ==
  /\ At(t, "get") /\ free = <<>> /\ created < MaxConnsPerNode
  /\ \/ /\ listener = "open"
        /\ conn' = [conn EXCEPT ![FreshConn].client = "open", ![FreshConn].server = "backlog"]
        /\ Hold(t, FreshConn)
        /\ created' = created + 1
     \/ NextAttempt(t) /\ UNCHANGED <<conn, created>>
  /\ UNCHANGED <<serverVars, free, callVars>>

\* pool.Get at capacity waits until its timeout.
PoolTimeout(t) ==
  /\ At(t, "get") /\ free = <<>> /\ created = MaxConnsPerNode
  /\ NextAttempt(t)
  /\ UNCHANGED <<serverVars, conn, poolVars, callVars>>

\* conn.Close() after a failure; created keeps counting it.
Discard(t) == /\ conn' = [conn EXCEPT ![caller[t].conn].client = "closed",
                                      ![caller[t].conn].toClient = <<>>]
              /\ NextAttempt(t)

\* WriteCommand.  A server that closed its end receives nothing, which the client
\* need not notice; a frame written in part is never a command.
Send(t) ==
  /\ At(t, "send")
  /\ LET c == caller[t].conn
     IN  \/ /\ caller' = [caller EXCEPT ![t].pc = "receive"]
            /\ conn' = [conn EXCEPT ![c].toServer =
                          IF conn[c].server = "gone" THEN @ ELSE Append(@, TagOf(t))]
         \/ Discard(t)
  /\ UNCHANGED <<serverVars, poolVars, callVars>>

\* ReadResponse, then Put.  The channel is never full: it has room for every
\* connection created.
Receive(t) ==
  /\ At(t, "receive")
  /\ LET c == caller[t].conn
     IN  /\ conn[c].toClient # <<>>
         /\ conn' = [conn EXCEPT ![c].toClient = Tail(@)]
         /\ highest' = IF Head(conn[c].toClient).num > highest
                       THEN Head(conn[c].toClient).num ELSE highest
         /\ free' = Append(free, c)
         /\ Finish(t)
  /\ UNCHANGED <<serverVars, created, calls>>

\* Wrong: the connection is still good, only the answer was late.
ReadFailsReturning(t) ==
  /\ At(t, "receive")
  /\ free' = Append(free, caller[t].conn)
  /\ NextAttempt(t)
  /\ UNCHANGED <<serverVars, conn, created, callVars>>

\* The read deadline, or the server's end is closed.
ReadFails(t) ==
  /\ At(t, "receive")
  /\ Discard(t)
  /\ UNCHANGED <<serverVars, poolVars, callVars>>

ClientStep(t) == \/ GetPooled(t) \/ Dial(t) \/ PoolTimeout(t)
                 \/ Send(t) \/ Receive(t) \/ ReadFails(t)

-------------------------------------------------------------------------------
(* The server *)

Start == /\ listener = "none"
         /\ listener' = "open"
         /\ UNCHANGED <<counter, results, conn, poolVars, caller, callVars>>

Goto(c, pc) == conn' = [conn EXCEPT ![c].server = pc]

\* listener.Accept, and a goroutine for the connection.
Accept(c) ==
  /\ listener = "open" /\ conn[c].server = "backlog"
  /\ Goto(c, "read")
  /\ UNCHANGED <<serverVars, poolVars, caller, callVars>>

\* listener.Close resets what was not accepted.  Start's loop goes on without
\* end: Accept fails and the loop continues, which changes nothing.
Stop ==
  /\ listener = "open"
  /\ listener' = "closed"
  /\ conn' = [c \in Conn |-> IF conn[c].server = "backlog"
                             THEN [conn[c] EXCEPT !.server = "gone", !.toServer = <<>>]
                             ELSE conn[c]]
  /\ UNCHANGED <<counter, results, poolVars, caller, callVars>>

\* main returns after Stop and takes the goroutines with it.
Exit ==
  /\ listener = "closed"
  /\ listener' = "exited"
  /\ conn' = [c \in Conn |-> IF conn[c].server = "none" THEN conn[c]
                             ELSE [conn[c] EXCEPT !.server = "gone", !.toServer = <<>>,
                                                  !.cmd = NoTag, !.resp = 0]]
  /\ UNCHANGED <<counter, results, poolVars, caller, callVars>>

\* Wrong: the frame read stays in the buffer.
ReadCommandKeeping(c) ==
  /\ conn[c].server = "read" /\ conn[c].toServer # <<>>
  /\ conn' = [conn EXCEPT ![c].server = "execute", ![c].cmd = Head(conn[c].toServer)]
  /\ UNCHANGED <<serverVars, poolVars, caller, callVars>>

ReadCommand(c) ==
  /\ conn[c].server = "read" /\ conn[c].toServer # <<>>
  /\ conn' = [conn EXCEPT ![c].server = "execute", ![c].cmd = Head(conn[c].toServer),
                          ![c].toServer = Tail(@)]
  /\ UNCHANGED <<serverVars, poolVars, caller, callVars>>

\* Wrong: a failed read is tried again, like a failed Accept.
ReadEndsNever(c) ==
  /\ conn[c].server = "read"
  /\ conn[c].toServer = <<>> \/ conn[c].client = "closed"
  /\ conn' = [conn EXCEPT ![c].toServer = <<>>]
  /\ UNCHANGED <<serverVars, poolVars, caller, callVars>>

\* ReadCommand fails: 30 seconds without a command, or the client has closed its
\* end, which may also lose what it sent before.
ReadEnds(c) ==
  /\ conn[c].server = "read"
  /\ conn[c].toServer = <<>> \/ conn[c].client = "closed"
  /\ conn' = [conn EXCEPT ![c].server = "gone", ![c].toServer = <<>>]
  /\ UNCHANGED <<serverVars, poolVars, caller, callVars>>

\* Wrong: the number is computed, but not stored.
ExecuteForgetting(c) ==
  /\ conn[c].server = "execute"
  /\ results' = [results EXCEPT ![conn[c].cmd.call] = @ \cup {counter + 1}]
  /\ conn' = [conn EXCEPT ![c].server = "write", ![c].resp = counter + 1]
  /\ UNCHANGED <<listener, counter, poolVars, caller, callVars>>

\* executeCommand, handleIncr and Cache.Incr, under the cache's lock.
Execute(c) ==
  /\ conn[c].server = "execute"
  /\ counter' = counter + 1
  /\ results' = [results EXCEPT ![conn[c].cmd.call] = @ \cup {counter'}]
  /\ conn' = [conn EXCEPT ![c].server = "write", ![c].resp = counter']
  /\ UNCHANGED <<listener, poolVars, caller, callVars>>

\* WriteResponse.  Once the client has closed its end, the write may fail or not.
WriteResponse(c) ==
  /\ conn[c].server = "write"
  /\ \E pc \in IF conn[c].client = "open" THEN {"read"} ELSE {"read", "gone"} :
       conn' = [conn EXCEPT ![c].server = pc, ![c].cmd = NoTag, ![c].resp = 0,
                            ![c].toServer = IF pc = "gone" THEN <<>> ELSE @,
                            ![c].toClient =
                              IF conn[c].client = "open"
                              THEN Append(@, [tag |-> conn[c].cmd, num |-> conn[c].resp])
                              ELSE @]
  /\ UNCHANGED <<serverVars, poolVars, caller, callVars>>

ServerStep(c) == \/ Accept(c) \/ ReadCommand(c) \/ ReadEnds(c)
                 \/ Execute(c) \/ WriteResponse(c)

-------------------------------------------------------------------------------
Init == /\ listener = "none"
        /\ counter = 0
        /\ conn = [c \in Conn |-> Unused]
        /\ free = <<>>
        /\ created = 0
        /\ caller = [t \in Caller |-> Idle]
        /\ results = [n \in 1 .. MaxCalls |-> {}]
        /\ calls = 0
        /\ highest = 0

Next == \/ \E t \in Caller : Incr(t) \/ ClientStep(t)
        \/ \E c \in Conn : ServerStep(c)
        \/ Start \/ Stop \/ Exit

Spec == Init /\ [][Next]_vars

\* Goroutines are scheduled; reads have deadlines on both sides.
FairSpec == Spec /\ (\A t \in Caller : WF_vars(ClientStep(t)))
                 /\ (\A c \in Conn : WF_vars(ServerStep(c)))

-------------------------------------------------------------------------------
(* What client and server owe each other *)

\* The type of the state.
TypeOK ==
  /\ listener \in {"none", "open", "closed", "exited"}
  /\ counter \in Nat /\ highest \in Nat
  /\ created \in 0 .. MaxConnsPerNode /\ free \in Seq(Conn)
  /\ conn \in [Conn -> [client : {"none", "open", "closed"},
                        server : {"none", "backlog", "read", "execute", "write", "gone"},
                        toServer : Seq(Tag), toClient : Seq([tag : Tag, num : Nat]),
                        cmd : Tag \cup {NoTag}, resp : Nat]]
  /\ caller \in [Caller -> [pc : {"idle", "get", "send", "receive"}, call : 0 .. MaxCalls,
                            attempt : 0 .. RetryAttempts, conn : Conn \cup {NoConn},
                            floor : Nat]]
  /\ results \in [1 .. MaxCalls -> SUBSET Nat] /\ calls \in 0 .. MaxCalls

\* The response a caller is about to read answers the very command it sent: the
\* wire carries no identifiers (protocol.go), so this rests on never reusing a
\* connection whose exchange failed (client.go:321-327, 336-342).
ReplyToOwnCommand ==
  \A t \in Caller : At(t, "receive") =>
    \A i \in DOMAIN conn[caller[t].conn].toClient :
      i = 1 /\ conn[caller[t].conn].toClient[1].tag = TagOf(t)

\* INCR is an atomic counter (pkg/doc.go:105): a call returns a number above all
\* those that calls completed before it began were given, retries, late
\* executions and other callers notwithstanding.
RepliesGrow ==
  \A t \in Caller : At(t, "receive") =>
    \A i \in DOMAIN conn[caller[t].conn].toClient :
      conn[caller[t].conn].toClient[i].num > caller[t].floor

\* A connection the client has closed does not keep its goroutine on the server
\* (server.go:161-162: "to prevent hanging connections from
\* consuming resources").
HandlersEnd ==
  \A c \in Conn : conn[c].client = "closed" ~> conn[c].server = "gone"

Pending == {caller[t].call : t \in {u \in Caller : ~ At(u, "idle")}}

AtLeastOnce == INSTANCE AtLeastOnce
                 WITH number <- counter, begun <- calls, pending <- Pending,
                      Attempts <- RetryAttempts + 1

\* A command is executed at most once per attempt, never before its call began, and
\* at least once if the call returned a number, which is one of its own
\* (client.go:294-304, the retry strategy).
AtLeastOnceSpec == AtLeastOnce!Spec
===============================================================================
