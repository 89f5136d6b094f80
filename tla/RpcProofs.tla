------------------------------- MODULE RpcProofs -------------------------------
(***************************************************************************)
(* Theorems of Rpc: every response is that of the attempt that reads it,   *)
(* numbers grow, and what a caller relies on (AtLeastOnce) is implemented. *)
(***************************************************************************)
EXTENDS Rpc, TLAPS, FiniteSetTheorems

ConnType == [client : {"none", "open", "closed"},
             server : {"none", "backlog", "read", "execute", "write", "gone"},
             toServer : Seq(Tag), toClient : Seq([tag : Tag, num : Nat]),
             cmd : Tag \cup {NoTag}, resp : Nat]

CallerType == [pc : {"idle", "get", "send", "receive"}, call : 0 .. MaxCalls,
               attempt : 0 .. RetryAttempts, conn : Conn \cup {NoConn}, floor : Nat]

\* A connection carries one command at a time: on its way to the server, in its
\* goroutine, or its response on the way back.  Calls up to n have begun, and r
\* holds the results of each.
Wire(k, n, r) ==
  /\ k.client = "none" => k = Unused
  /\ k.client # "none" => k.server # "none"
  /\ k.client # "open" => k.toClient = <<>>
  /\ k.toServer # <<>> => /\ k.server \in {"backlog", "read"} /\ k.toClient = <<>>
                          /\ \E g \in Tag : g.call <= n /\ k.toServer = <<g>>
  /\ k.server \in {"execute", "write"} => /\ k.cmd \in Tag /\ k.cmd.call <= n
                                          /\ k.toClient = <<>>
  /\ k.server = "write" => k.resp \in r[k.cmd.call]
  /\ k.toClient # <<>> =>
       \E g \in Tag : \E v \in r[g.call] : k.toClient = <<[tag |-> g, num |-> v]>>

ConnsInv == \A c \in Conn : Wire(conn[c], calls, results)

\* Nothing is under way on an open connection.
Quiet(k) == /\ k.client = "open" /\ k.toServer = <<>> /\ k.toClient = <<>>
            /\ k.server \in {"backlog", "read", "gone"}

\* What is under way on a connection is the command of the attempt of a caller
\* with locals l, or a response to it made since the call began.
Answers(k, l, r) ==
  LET tag == [call |-> l.call, attempt |-> l.attempt]
  IN  /\ k.toServer # <<>> => k.toServer = <<tag>>
      /\ k.server \in {"execute", "write"} => k.cmd = tag
      /\ k.server = "write" => k.resp > l.floor
      /\ k.toClient # <<>> =>
           \E v \in r[l.call] : v > l.floor /\ k.toClient = <<[tag |-> tag, num |-> v]>>

Holding(t) == caller[t].pc \in {"send", "receive"}

\* An open connection is pooled, where it is quiet, or used by one caller.
PlacesInv ==
  /\ \A i \in DOMAIN free : Quiet(conn[free[i]])
  /\ \A i, j \in DOMAIN free : free[i] = free[j] => i = j
  /\ \A t \in Caller : Holding(t) => caller[t].conn \in Conn
                                     /\ conn[caller[t].conn].client = "open"
  /\ \A t \in Caller : At(t, "send") => Quiet(conn[caller[t].conn])
  /\ \A t \in Caller : At(t, "receive") => Answers(conn[caller[t].conn], caller[t], results)
  /\ \A t, u \in Caller : Holding(t) /\ Holding(u) /\ caller[t].conn = caller[u].conn => t = u
  /\ \A t \in Caller, i \in DOMAIN free : Holding(t) => caller[t].conn # free[i]

\* A call has one caller.
CallersInv ==
  /\ \A t \in Caller : ~ At(t, "idle") => caller[t].call \in 1 .. calls
                                          /\ caller[t].floor <= counter
  /\ \A t, u \in Caller : ~ At(t, "idle") /\ ~ At(u, "idle") /\ caller[t].call = caller[u].call
                          => t = u

NumbersInv == highest <= counter /\ \A n \in 1 .. MaxCalls : results[n] \subseteq 1 .. counter

\* Connections on which a command of call n waits to be executed.
Outstanding(n) == {c \in Conn : \/ conn[c].toServer # <<>> /\ conn[c].toServer[1].call = n
                                \/ conn[c].server = "execute" /\ conn[c].cmd.call = n}

\* Executions of call n that have been or may still be.
Load(n) == Cardinality(results[n]) + Cardinality(Outstanding(n))

Sent(t) == caller[t].attempt + (IF At(t, "receive") THEN 1 ELSE 0)

\* Each attempt sent is executed at most once.
LoadInv ==
  /\ \A n \in 1 .. MaxCalls : Load(n) <= RetryAttempts + 1 /\ (n > calls => Load(n) = 0)
  /\ \A n \in 1 .. MaxCalls : \A t \in Caller :
       ~ At(t, "idle") /\ caller[t].call = n => Load(n) <= Sent(t)

UsedConns == {c \in Conn : conn[c].client # "none"}

UsedInv == Cardinality(UsedConns) <= created

Inv == TypeOK /\ ConnsInv /\ PlacesInv /\ CallersInv /\ NumbersInv /\ LoadInv /\ UsedInv

-------------------------------------------------------------------------------
(* What a step leaves alone *)

LEMMA Constants ==
  /\ MaxConnsPerNode \in Nat /\ RetryAttempts \in Nat /\ MaxCalls \in Nat
  /\ IsFiniteSet(Conn) /\ Cardinality(Conn) >= MaxConnsPerNode /\ NoConn \notin Conn
BY RpcAssumption DEF RpcAssumption

LEMMA Types ==
  ASSUME Inv
  PROVE  /\ conn \in [Conn -> ConnType] /\ caller \in [Caller -> CallerType]
         /\ counter \in Nat /\ highest \in Nat /\ calls \in 0 .. MaxCalls /\ calls \in Nat
         /\ free \in Seq(Conn) /\ created \in 0 .. MaxConnsPerNode /\ created \in Nat
         /\ results \in [1 .. MaxCalls -> SUBSET Nat]
         /\ listener \in {"none", "open", "closed", "exited"}
<1>1. calls \in 0 .. MaxCalls /\ created \in 0 .. MaxConnsPerNode
  BY DEF Inv, TypeOK
<1>2. calls \in Nat /\ created \in Nat
  BY <1>1, Constants
<1>. QED  BY <1>2 DEF Inv, TypeOK, ConnType, CallerType

LEMMA Typed ==
  ASSUME conn' \in [Conn -> ConnType], caller' \in [Caller -> CallerType],
         counter' \in Nat, highest' \in Nat, calls' \in 0 .. MaxCalls,
         free' \in Seq(Conn), created' \in 0 .. MaxConnsPerNode,
         results' \in [1 .. MaxCalls -> SUBSET Nat],
         listener' \in {"none", "open", "closed", "exited"}
  PROVE  TypeOK'
BY DEF TypeOK, ConnType, CallerType

\* What is said of a connection stays true as calls begin and results are added.
LEMMA WireGrows ==
  ASSUME NEW k, NEW n \in Nat, NEW m \in Nat, n <= m, NEW r, NEW s,
         \A i \in 1 .. MaxCalls : r[i] \subseteq s[i], Wire(k, n, r)
  PROVE  Wire(k, m, s)
<1>1. \A g \in Tag : g.call \in 1 .. MaxCalls /\ (g.call <= n => g.call <= m)
  BY Constants DEF Tag
<1>. QED  BY <1>1 DEF Wire

LEMMA AnswersGrow ==
  ASSUME NEW k, NEW l, l.call \in 1 .. MaxCalls, NEW r, NEW s,
         \A i \in 1 .. MaxCalls : r[i] \subseteq s[i], Answers(k, l, r)
  PROVE  Answers(k, l, s)
BY DEF Answers

\* The server's steps.
LEMMA ServerKeeps ==
  ASSUME Inv, UNCHANGED <<poolVars, caller, callVars>>, conn' \in [Conn -> ConnType],
         counter' \in Nat, counter <= counter',
         \A c \in Conn : /\ conn'[c].client = conn[c].client
                         /\ Wire(conn'[c], calls, results')
                         /\ Quiet(conn[c]) => Quiet(conn'[c]),
         \A t \in Caller : At(t, "receive") =>
           Answers(conn'[caller[t].conn], caller[t], results')
  PROVE  ConnsInv' /\ PlacesInv' /\ CallersInv' /\ UsedInv'
<1>1. UNCHANGED <<free, created, caller, calls, highest>> /\ free \in Seq(Conn)
  BY Types DEF poolVars, callVars
<1>2. ConnsInv'
  BY <1>1 DEF ConnsInv
<1>3. \A i \in DOMAIN free : free[i] \in Conn
  BY <1>1
<1>4. PlacesInv'
  BY <1>1, <1>3 DEF PlacesInv, Inv, Holding, At
<1>5. CallersInv'
  <2>1. \A t \in Caller : caller[t].floor \in Nat
    BY Types DEF CallerType
  <2>. QED  BY <1>1, <2>1, Types DEF CallersInv, Inv, At
<1>6. UsedInv'
  <2>1. UsedConns' = UsedConns
    BY DEF UsedConns
  <2>. QED  BY <1>1, <2>1 DEF UsedInv, Inv
<1>. QED  BY <1>2, <1>4, <1>5, <1>6

\* A step of the goroutine of one connection.
LEMMA ServerKeepsOne ==
  ASSUME Inv, UNCHANGED <<poolVars, caller, callVars>>, NEW c \in Conn, NEW k \in ConnType,
         conn' = [conn EXCEPT ![c] = k], counter' \in Nat, counter <= counter',
         \A i \in 1 .. MaxCalls : results[i] \subseteq results'[i],
         k.client = conn[c].client, Wire(k, calls, results'), Quiet(conn[c]) => Quiet(k),
         \A t \in Caller : At(t, "receive") /\ caller[t].conn = c
                            => Answers(k, caller[t], results')
  PROVE  ConnsInv' /\ PlacesInv' /\ CallersInv' /\ UsedInv' /\ conn' \in [Conn -> ConnType]
<1>1. /\ conn' \in [Conn -> ConnType] /\ conn'[c] = k
      /\ \A d \in Conn : d # c => conn'[d] = conn[d]
  BY Types
<1>2. ASSUME NEW d \in Conn
      PROVE  /\ conn'[d].client = conn[d].client
             /\ Wire(conn'[d], calls, results')
             /\ Quiet(conn[d]) => Quiet(conn'[d])
  <2>1. CASE d = c
    BY <1>1, <2>1
  <2>2. CASE d # c
    <3>1. conn'[d] = conn[d] /\ Wire(conn[d], calls, results) /\ calls \in Nat /\ calls <= calls
      BY <1>1, <2>2, Types DEF Inv, ConnsInv
    <3>2. Wire(conn[d], calls, results')
      BY <3>1, WireGrows
    <3>. QED  BY <3>1, <3>2
  <2>. QED  BY <2>1, <2>2
<1>3. ASSUME NEW t \in Caller, At(t, "receive")
      PROVE  Answers(conn'[caller[t].conn], caller[t], results')
  <2>1. CASE caller[t].conn = c
    BY <1>1, <1>3, <2>1
  <2>2. CASE caller[t].conn # c
    <3>1. caller[t].conn \in Conn /\ Answers(conn[caller[t].conn], caller[t], results)
      BY <1>3 DEF Inv, PlacesInv, Holding, At
    <3>2. caller[t].call \in 1 .. MaxCalls
      BY <1>3, Types, Constants DEF Inv, CallersInv, At
    <3>3. Answers(conn[caller[t].conn], caller[t], results')
      BY <3>1, <3>2, AnswersGrow
    <3>. QED  BY <1>1, <2>2, <3>1, <3>3
  <2>. QED  BY <2>1, <2>2
<1>. QED  BY <1>1, <1>2, <1>3, ServerKeeps

-------------------------------------------------------------------------------
(* How often a call is executed *)

LEMMA LoadTypes ==
  ASSUME Inv, NEW n \in 1 .. MaxCalls
  PROVE  /\ IsFiniteSet(results[n]) /\ IsFiniteSet(Outstanding(n))
         /\ Cardinality(results[n]) \in Nat /\ Cardinality(Outstanding(n)) \in Nat
<1>1. results[n] \in SUBSET (1 .. counter) /\ IsFiniteSet(1 .. counter)
  <2>1. 1 \in Int /\ counter \in Int
    BY Types
  <2>. QED  BY <2>1, FS_Interval DEF Inv, NumbersInv
<1>2. Outstanding(n) \in SUBSET Conn
  BY DEF Outstanding
<1>. QED  BY <1>1, <1>2, Constants, FS_Subset, FS_CardinalityType

\* No call gains an execution, done or to come.
LEMMA LoadShrinks ==
  ASSUME Inv, calls' \in Nat, calls <= calls',
         \A n \in 1 .. MaxCalls : Load(n)' <= Load(n) /\ Load(n)' \in Nat,
         \A t \in Caller : ~ At(t, "idle")' =>
           \/ ~ At(t, "idle") /\ caller'[t].call = caller[t].call /\ Sent(t) <= Sent(t)'
           \/ /\ caller'[t].call \in 1 .. MaxCalls /\ caller'[t].call > calls
              /\ 0 <= Sent(t)',
         caller' \in [Caller -> CallerType]
  PROVE  LoadInv'
<1>1. ASSUME NEW n \in 1 .. MaxCalls
      PROVE  Load(n)' <= Load(n) /\ Load(n) \in Nat /\ Load(n)' \in Nat
  BY LoadTypes DEF Load
<1>2. ASSUME NEW n \in 1 .. MaxCalls
      PROVE  Load(n)' <= RetryAttempts + 1 /\ (n > calls' => Load(n)' = 0)
  <2>1. Load(n) <= RetryAttempts + 1 /\ (n > calls => Load(n) = 0)
    BY DEF Inv, LoadInv
  <2>. QED  BY <1>1, <2>1, Constants, Types
<1>3. ASSUME NEW n \in 1 .. MaxCalls, NEW t \in Caller, ~ At(t, "idle")', caller'[t].call = n
      PROVE  Load(n)' <= Sent(t)'
  <2>1. Sent(t) \in Int /\ Sent(t)' \in Int
    <3>1. caller[t] \in CallerType /\ caller'[t] \in CallerType
      BY Types
    <3>2. caller[t].attempt \in Int /\ caller'[t].attempt \in Int
      BY <3>1, Constants DEF CallerType
    <3>. QED  BY <3>2 DEF Sent
  <2>2. Load(n)' <= Load(n) /\ Load(n) \in Nat /\ Load(n)' \in Nat
    BY <1>1
  <2>3. CASE /\ ~ At(t, "idle") /\ n = caller[t].call
             /\ Sent(t) <= Sent(t)'
    <3>1. Load(n) <= Sent(t)
      BY <2>3 DEF Inv, LoadInv
    <3>. QED  BY <2>1, <2>2, <2>3, <3>1
  <2>4. CASE n > calls /\ 0 <= Sent(t)'
    <3>1. Load(n) = 0
      BY <2>4 DEF Inv, LoadInv
    <3>. QED  BY <2>1, <2>2, <2>4, <3>1
  <2>. QED  BY <1>3, <2>3, <2>4
<1>. QED  BY <1>2, <1>3 DEF LoadInv

\* Nothing is executed, and no command is sent.
LEMMA LoadKept ==
  ASSUME Inv, results' = results, calls' \in Nat, calls <= calls',
         \A n \in 1 .. MaxCalls : Outstanding(n)' \subseteq Outstanding(n),
         \A t \in Caller : ~ At(t, "idle")' =>
           \/ ~ At(t, "idle") /\ caller'[t].call = caller[t].call /\ Sent(t) <= Sent(t)'
           \/ /\ caller'[t].call \in 1 .. MaxCalls /\ caller'[t].call > calls
              /\ 0 <= Sent(t)',
         caller' \in [Caller -> CallerType]
  PROVE  LoadInv'
<1>1. ASSUME NEW n \in 1 .. MaxCalls
      PROVE  Load(n)' <= Load(n) /\ Load(n)' \in Nat
  <2>1. /\ IsFiniteSet(Outstanding(n)) /\ Outstanding(n)' \in SUBSET Outstanding(n)
        /\ Cardinality(results[n]) \in Nat /\ Cardinality(Outstanding(n)) \in Nat
    BY LoadTypes
  <2>2. IsFiniteSet(Outstanding(n)') /\ Cardinality(Outstanding(n)') <= Cardinality(Outstanding(n))
    BY <2>1, FS_Subset
  <2>3. Cardinality(Outstanding(n)') \in Nat
    BY <2>2, FS_CardinalityType
  <2>. QED  BY <2>1, <2>2, <2>3 DEF Load
<1>. QED  BY <1>1, LoadShrinks

LEMMA SentKept ==
  ASSUME Inv, UNCHANGED caller
  PROVE  /\ caller' \in [Caller -> CallerType]
         /\ \A t \in Caller : Sent(t)' = Sent(t) /\ Sent(t) <= Sent(t)
<1>1. \A t \in Caller : caller[t].attempt \in Int
  <2>1. \A t \in Caller : caller[t] \in CallerType
    BY Types
  <2>. QED  BY <2>1, Constants DEF CallerType
<1>. QED  BY <1>1, Types DEF Sent, At

\* The server's steps that execute nothing.
LEMMA ServerLoadKept ==
  ASSUME Inv, UNCHANGED <<results, caller, calls>>,
         \A c \in Conn : /\ conn'[c].toServer # <<>> => conn'[c].toServer = conn[c].toServer
                         /\ conn'[c].server = "execute" =>
                              \/ conn[c].server = "execute" /\ conn'[c].cmd = conn[c].cmd
                              \/ conn[c].toServer # <<>> /\ conn'[c].cmd = conn[c].toServer[1]
  PROVE  LoadInv'
<1>1. \A n \in 1 .. MaxCalls : Outstanding(n)' \subseteq Outstanding(n)
  BY DEF Outstanding
<1>2. calls \in Nat /\ calls <= calls'
  BY Types
<1>. QED  BY <1>1, <1>2, SentKept, LoadKept DEF At

-------------------------------------------------------------------------------
(* The server *)

LEMMA ConnTypes ==
  ASSUME Inv, NEW c \in Conn
  PROVE  conn[c] \in ConnType /\ Wire(conn[c], calls, results)
BY Types DEF Inv, ConnsInv

\* Counts and history stay: the numbers, too.
LEMMA NumbersKept ==
  ASSUME Inv, UNCHANGED <<counter, results, highest>>
  PROVE  NumbersInv'
BY DEF Inv, NumbersInv

LEMMA OwnAnswers ==
  ASSUME Inv, NEW t \in Caller, At(t, "receive")
  PROVE  /\ caller[t].conn \in Conn /\ Answers(conn[caller[t].conn], caller[t], results)
         /\ conn[caller[t].conn].client = "open"
         /\ caller[t].call \in 1 .. calls /\ caller[t].call \in 1 .. MaxCalls
         /\ caller[t].floor \in Nat /\ caller[t].floor <= counter
         /\ TagOf(t) \in Tag
<1>1. /\ caller[t].conn \in Conn /\ Answers(conn[caller[t].conn], caller[t], results)
      /\ conn[caller[t].conn].client = "open"
  BY DEF Inv, PlacesInv, Holding, At
<1>2. caller[t].call \in 1 .. calls /\ caller[t].floor <= counter
  BY DEF Inv, CallersInv, At
<1>3. caller[t] \in CallerType /\ calls \in 0 .. MaxCalls
  BY Types
<1>4. caller[t].call \in 1 .. MaxCalls
  BY <1>2, <1>3, Constants
<1>5. caller[t].floor \in Nat /\ caller[t].attempt \in 0 .. RetryAttempts
  BY <1>3 DEF CallerType
<1>. QED  BY <1>1, <1>2, <1>4, <1>5 DEF TagOf, Tag

\* The server's goroutine of a connection begins, or ends.
LEMMA HandlerOnOrOff ==
  ASSUME NEW j \in ConnType, NEW k \in ConnType, NEW n, NEW r, Wire(j, n, r),
         j.server # "none", k.client = j.client, k.toClient = j.toClient,
         \/ k.server = "gone" /\ k.toServer = <<>>
         \/ k.server = "read" /\ j.server = "backlog" /\ k.toServer = j.toServer
  PROVE  /\ Wire(k, n, r) /\ (Quiet(j) => Quiet(k))
         /\ \A l : Answers(j, l, r) => Answers(k, l, r)
<1>1. j.client # "none"
  BY DEF Wire, Unused
<1>2. Wire(k, n, r)
  BY <1>1 DEF Wire
<1>3. Quiet(j) => Quiet(k)
  BY DEF Quiet
<1>4. ASSUME NEW l, Answers(j, l, r) PROVE Answers(k, l, r)
  BY <1>4 DEF Answers
<1>. QED  BY <1>2, <1>3, <1>4

\* A goroutine of the server takes a step that executes nothing.
LEMMA HandlerInv ==
  ASSUME Inv, NEW c \in Conn, NEW k \in ConnType, conn' = [conn EXCEPT ![c] = k],
         UNCHANGED <<serverVars, poolVars, caller, callVars>>,
         k.client = conn[c].client, Wire(k, calls, results), Quiet(conn[c]) => Quiet(k),
         \A t \in Caller : At(t, "receive") /\ caller[t].conn = c
                            => Answers(k, caller[t], results),
         k.toServer # <<>> => k.toServer = conn[c].toServer,
         k.server = "execute" =>
           \/ conn[c].server = "execute" /\ k.cmd = conn[c].cmd
           \/ conn[c].toServer # <<>> /\ k.cmd = conn[c].toServer[1]
  PROVE  Inv'
<1>1. UNCHANGED <<listener, counter, results, free, created, calls, highest>>
  BY DEF serverVars, poolVars, callVars
<1>2. /\ \A i \in 1 .. MaxCalls : results[i] \subseteq results'[i]
      /\ counter' \in Nat /\ counter <= counter' /\ Wire(k, calls, results')
      /\ \A t \in Caller : At(t, "receive") /\ caller[t].conn = c
                             => Answers(k, caller[t], results')
  BY <1>1, Types
<1>3. ConnsInv' /\ PlacesInv' /\ CallersInv' /\ UsedInv' /\ conn' \in [Conn -> ConnType]
  BY <1>2, ServerKeepsOne
<1>4. LoadInv'
  <2>1. conn'[c] = k /\ \A d \in Conn : d # c => conn'[d] = conn[d]
    BY Types
  <2>. QED  BY <1>1, <2>1, ServerLoadKept
<1>5. TypeOK'
  BY <1>1, <1>3, Types, Typed
<1>. QED  BY <1>1, <1>3, <1>4, <1>5, NumbersKept DEF Inv

LEMMA AcceptInv ==
  ASSUME Inv, NEW c \in Conn, Accept(c)
  PROVE  Inv'
<1>. DEFINE k == [conn[c] EXCEPT !.server = "read"]
<1>1. /\ conn[c].server = "backlog" /\ conn' = [conn EXCEPT ![c] = k]
      /\ UNCHANGED <<serverVars, poolVars, caller, callVars>>
  BY DEF Accept, Goto
<1>2. conn[c] \in ConnType /\ Wire(conn[c], calls, results)
  BY ConnTypes
<1>3. /\ k \in ConnType /\ k.server = "read" /\ k.client = conn[c].client
      /\ k.toServer = conn[c].toServer /\ k.toClient = conn[c].toClient
  BY <1>2 DEF ConnType
<1>. HIDE DEF k
<1>4. /\ Wire(k, calls, results) /\ (Quiet(conn[c]) => Quiet(k))
      /\ \A l : Answers(conn[c], l, results) => Answers(k, l, results)
  BY <1>1, <1>2, <1>3, HandlerOnOrOff
<1>5. \A t \in Caller : At(t, "receive") /\ caller[t].conn = c => Answers(k, caller[t], results)
  BY <1>4, OwnAnswers
<1>. QED  BY <1>1, <1>3, <1>4, <1>5, HandlerInv

LEMMA ReadEndsInv ==
  ASSUME Inv, NEW c \in Conn, ReadEnds(c)
  PROVE  Inv'
<1>. DEFINE k == [conn[c] EXCEPT !.server = "gone", !.toServer = <<>>]
<1>1. /\ conn[c].server = "read" /\ conn' = [conn EXCEPT ![c] = k]
      /\ UNCHANGED <<serverVars, poolVars, caller, callVars>>
  BY DEF ReadEnds
<1>2. conn[c] \in ConnType /\ Wire(conn[c], calls, results)
  BY ConnTypes
<1>3. /\ k \in ConnType /\ k.server = "gone" /\ k.client = conn[c].client
      /\ k.toServer = <<>> /\ k.toClient = conn[c].toClient
  <2>1. <<>> \in Seq(Tag)
    OBVIOUS
  <2>. QED  BY <1>2, <2>1 DEF ConnType
<1>. HIDE DEF k
<1>4. /\ Wire(k, calls, results) /\ (Quiet(conn[c]) => Quiet(k))
      /\ \A l : Answers(conn[c], l, results) => Answers(k, l, results)
  BY <1>1, <1>2, <1>3, HandlerOnOrOff
<1>5. \A t \in Caller : At(t, "receive") /\ caller[t].conn = c => Answers(k, caller[t], results)
  BY <1>4, OwnAnswers
<1>. QED  BY <1>1, <1>3, <1>4, <1>5, HandlerInv

LEMMA ReadCommandInv ==
  ASSUME Inv, NEW c \in Conn, ReadCommand(c)
  PROVE  Inv'
<1>. DEFINE j == conn[c]
<1>1. /\ j.server = "read" /\ j.toServer # <<>>
      /\ conn' = [conn EXCEPT ![c].server = "execute", ![c].cmd = Head(j.toServer),
                              ![c].toServer = Tail(@)]
      /\ UNCHANGED <<serverVars, poolVars, caller, callVars>>
  BY DEF ReadCommand
<1>2. j \in ConnType /\ Wire(j, calls, results)
  BY ConnTypes
<1>3. PICK g \in Tag : g.call <= calls /\ j.toServer = <<g>>
  BY <1>1, <1>2 DEF Wire
<1>4. Head(j.toServer) = g /\ Tail(j.toServer) = <<>> /\ j.toServer[1] = g
  BY <1>3
<1>. DEFINE k == [conn[c] EXCEPT !.server = "execute", !.cmd = g, !.toServer = <<>>]
<1>5. /\ k \in ConnType /\ k.server = "execute" /\ k.client = j.client /\ k.cmd = g
      /\ k.toServer = <<>> /\ k.toClient = j.toClient
  <2>1. <<>> \in Seq(Tag)
    OBVIOUS
  <2>. QED  BY <1>2, <2>1 DEF ConnType
<1>6. conn' = [conn EXCEPT ![c] = k]
  BY <1>1, <1>2, <1>4 DEF ConnType
<1>. HIDE DEF k, j
<1>7. j.client # "none" /\ k.toClient = <<>>
  BY <1>1, <1>2, <1>5 DEF Wire, Unused
<1>8. Wire(k, calls, results) /\ ~ Quiet(j)
  BY <1>1, <1>3, <1>5, <1>7 DEF Wire, Quiet
<1>9. ASSUME NEW t \in Caller, At(t, "receive"), caller[t].conn = c
      PROVE  Answers(k, caller[t], results)
  <2>1. Answers(j, caller[t], results)
    BY <1>9, OwnAnswers DEF j
  <2>2. j.toServer = <<TagOf(t)>>
    BY <1>1, <2>1 DEF Answers, TagOf
  <2>3. g = TagOf(t)
    BY <1>3, <2>2
  <2>. QED  BY <1>5, <1>7, <2>3 DEF Answers, TagOf
<1>10. conn[c].toServer # <<>> /\ k.cmd = conn[c].toServer[1] /\ k.client = conn[c].client
       /\ ~ Quiet(conn[c])
  BY <1>1, <1>4, <1>5, <1>8 DEF j
<1>. QED  BY <1>1, <1>5, <1>6, <1>8, <1>9, <1>10, HandlerInv

LEMMA WriteResponseInv ==
  ASSUME Inv, NEW c \in Conn, WriteResponse(c)
  PROVE  Inv'
<1>. DEFINE j == conn[c]
            s == Append(j.toClient, [tag |-> j.cmd, num |-> j.resp])
<1>1. PICK pc \in {"read", "gone"} :
        conn' = [conn EXCEPT ![c].server = pc, ![c].cmd = NoTag, ![c].resp = 0,
                             ![c].toServer = IF pc = "gone" THEN <<>> ELSE @,
                             ![c].toClient = IF j.client = "open" THEN s ELSE @]
  BY DEF WriteResponse
<1>2. /\ j.server = "write" /\ UNCHANGED <<serverVars, poolVars, caller, callVars>>
  BY DEF WriteResponse
<1>. DEFINE k == [conn[c] EXCEPT !.server = pc, !.cmd = NoTag, !.resp = 0,
                                 !.toServer = IF pc = "gone" THEN <<>> ELSE j.toServer,
                                 !.toClient = IF j.client = "open" THEN s ELSE j.toClient]
<1>3. j \in ConnType /\ Wire(j, calls, results)
  BY ConnTypes
<1>4. conn' = [conn EXCEPT ![c] = k]
  BY <1>1, <1>3 DEF ConnType
<1>5. /\ j.cmd \in Tag /\ j.cmd.call <= calls /\ j.toClient = <<>> /\ j.toServer = <<>>
      /\ j.resp \in results[j.cmd.call] /\ j.client # "none"
  BY <1>2, <1>3 DEF Wire, Unused
<1>6. j.resp \in Nat
  BY <1>3 DEF ConnType
<1>7. s = <<[tag |-> j.cmd, num |-> j.resp]>> /\ s \in Seq([tag : Tag, num : Nat])
  BY <1>5, <1>6
<1>. HIDE DEF s
<1>8. /\ k \in ConnType /\ k.server = pc /\ k.client = j.client
      /\ k.toServer = <<>> /\ k.toClient = (IF j.client = "open" THEN s ELSE <<>>)
  BY <1>3, <1>5, <1>7 DEF ConnType
<1>. HIDE DEF k, j
<1>9. Wire(k, calls, results)
  BY <1>5, <1>7, <1>8 DEF Wire
<1>10. ~ Quiet(j)
  BY <1>2 DEF Quiet
<1>11. ASSUME NEW t \in Caller, At(t, "receive"), caller[t].conn = c
       PROVE  Answers(k, caller[t], results)
  <2>1. Answers(j, caller[t], results) /\ j.client = "open"
    BY <1>11, OwnAnswers DEF j
  <2>2. j.cmd = TagOf(t) /\ j.resp > caller[t].floor
    BY <1>2, <2>1 DEF Answers, TagOf
  <2>3. j.resp \in results[caller[t].call]
    BY <1>5, <2>2 DEF TagOf
  <2>. QED  BY <1>7, <1>8, <2>1, <2>2, <2>3 DEF Answers, TagOf
<1>. QED  BY <1>2, <1>4, <1>8, <1>9, <1>10, <1>11, HandlerInv DEF j

LEMMA ExecuteInv ==
  ASSUME Inv, NEW c \in Conn, Execute(c)
  PROVE  Inv'
<1>. DEFINE j == conn[c]
            v == counter + 1
            k == [conn[c] EXCEPT !.server = "write", !.resp = v]
<1>1. /\ j.server = "execute" /\ counter' = v
      /\ results' = [results EXCEPT ![j.cmd.call] = @ \cup {v}]
      /\ conn' = [conn EXCEPT ![c].server = "write", ![c].resp = v]
      /\ UNCHANGED <<listener, poolVars, caller, callVars>>
  BY DEF Execute
<1>2. j \in ConnType /\ Wire(j, calls, results) /\ counter \in Nat /\ v \in Nat
  BY ConnTypes, Types
<1>3. /\ j.cmd \in Tag /\ j.cmd.call <= calls /\ j.toClient = <<>> /\ j.toServer = <<>>
      /\ j.client # "none" /\ j.cmd.call \in 1 .. MaxCalls
  BY <1>1, <1>2 DEF Wire, Unused, Tag
<1>n. PICK n \in 1 .. MaxCalls : n = j.cmd.call
  BY <1>3
<1>4. /\ k \in ConnType /\ k.server = "write" /\ k.resp = v /\ k.client = j.client
      /\ k.cmd = j.cmd /\ k.toServer = <<>> /\ k.toClient = <<>>
  BY <1>2, <1>3 DEF ConnType
<1>5. conn' = [conn EXCEPT ![c] = k]
  BY <1>1, <1>2 DEF ConnType
<1>6. /\ results' \in [1 .. MaxCalls -> SUBSET Nat] /\ results'[n] = results[n] \cup {v}
      /\ \A i \in 1 .. MaxCalls : i # n => results'[i] = results[i]
  BY <1>1, <1>2, <1>n, Types
<1>7. Wire(k, calls, results')
  BY <1>3, <1>4, <1>6, <1>n DEF Wire
<1>. HIDE DEF k
<1>8. ~ Quiet(j)
  BY <1>1 DEF Quiet
<1>9. ASSUME NEW t \in Caller, At(t, "receive"), caller[t].conn = c
      PROVE  Answers(k, caller[t], results')
  <2>1. Answers(j, caller[t], results) /\ caller[t].floor \in Nat /\ caller[t].floor <= counter
    BY <1>9, OwnAnswers
  <2>2. j.cmd = TagOf(t) /\ v > caller[t].floor
    BY <1>1, <1>2, <2>1 DEF Answers, TagOf
  <2>. QED  BY <1>4, <2>2 DEF Answers, TagOf
<1>10. counter' \in Nat /\ counter <= counter'
  BY <1>1, <1>2
<1>11. \A i \in 1 .. MaxCalls : results[i] \subseteq results'[i]
  BY <1>6
<1>12. ConnsInv' /\ PlacesInv' /\ CallersInv' /\ UsedInv' /\ conn' \in [Conn -> ConnType]
  <2>. HIDE DEF v
  <2>. QED  BY <1>1, <1>4, <1>5, <1>7, <1>8, <1>9, <1>10, <1>11, ServerKeepsOne
<1>13. UNCHANGED <<free, created, caller, calls, highest>>
  BY <1>1 DEF poolVars, callVars
<1>14. TypeOK'
  BY <1>1, <1>6, <1>10, <1>12, <1>13, Types, Typed
<1>15. NumbersInv' /\ v \notin results[n]
  <2>1. \A i \in 1 .. MaxCalls : results[i] \subseteq 1 .. counter
    BY DEF Inv, NumbersInv
  <2>2. highest <= counter /\ highest \in Nat
    BY Types DEF Inv, NumbersInv
  <2>3. 1 .. counter \subseteq 1 .. v /\ v \in 1 .. v /\ v \notin 1 .. counter
    BY <1>2
  <2>4. highest' <= counter'
    BY <1>1, <1>2, <1>13, <2>2
  <2>5. \A i \in 1 .. MaxCalls : results'[i] \subseteq 1 .. v
    BY <1>6, <2>1, <2>3
  <2>. QED  BY <1>1, <1>3, <2>1, <2>3, <2>4, <2>5 DEF NumbersInv
<1>16. /\ c \in Outstanding(n) /\ Outstanding(n)' \subseteq Outstanding(n) \ {c}
       /\ \A i \in 1 .. MaxCalls : i # n => Outstanding(i)' \subseteq Outstanding(i)
  <2>1. conn'[c] = k /\ \A d \in Conn : d # c => conn'[d] = conn[d]
    BY <1>5, Types
  <2>. QED  BY <1>1, <1>4, <1>n, <2>1 DEF Outstanding
<1>. HIDE DEF v, j
<1>17. \A i \in 1 .. MaxCalls : Load(i)' <= Load(i) /\ Load(i)' \in Nat
  <2>. SUFFICES ASSUME NEW i \in 1 .. MaxCalls PROVE Load(i)' <= Load(i) /\ Load(i)' \in Nat
    OBVIOUS
  <2>1. /\ IsFiniteSet(results[i]) /\ IsFiniteSet(Outstanding(i))
        /\ Cardinality(results[i]) \in Nat /\ Cardinality(Outstanding(i)) \in Nat
    BY LoadTypes
  <2>2. CASE i = n
    <3>1. Cardinality(results'[i]) = Cardinality(results[i]) + 1
      BY <1>6, <1>15, <2>1, <2>2, FS_AddElement
    <3>2. /\ IsFiniteSet(Outstanding(i) \ {c})
          /\ Cardinality(Outstanding(i) \ {c}) = Cardinality(Outstanding(i)) - 1
      BY <1>16, <2>1, <2>2, FS_RemoveElement
    <3>3. Outstanding(i)' \in SUBSET (Outstanding(i) \ {c})
      BY <1>16, <2>2
    <3>4. Cardinality(Outstanding(i)') <= Cardinality(Outstanding(i) \ {c})
          /\ Cardinality(Outstanding(i)') \in Nat
      BY <3>2, <3>3, FS_Subset, FS_CardinalityType
    <3>. QED  BY <2>1, <3>1, <3>2, <3>4 DEF Load
  <2>3. CASE i # n
    <3>1. Outstanding(i)' \in SUBSET Outstanding(i) /\ results'[i] = results[i]
      BY <1>6, <1>16, <2>3
    <3>2. Cardinality(Outstanding(i)') <= Cardinality(Outstanding(i))
          /\ Cardinality(Outstanding(i)') \in Nat
      BY <2>1, <3>1, FS_Subset, FS_CardinalityType
    <3>. QED  BY <2>1, <3>1, <3>2 DEF Load
  <2>. QED  BY <2>2, <2>3
<1>18. LoadInv'
  BY <1>13, <1>17, Types, SentKept, LoadShrinks DEF At
<1>. QED  BY <1>12, <1>14, <1>15, <1>18 DEF Inv

\* Stop and Exit end the goroutines of some connections.
LEMMA HandlersEndInv ==
  ASSUME Inv, UNCHANGED <<counter, results, poolVars, caller, callVars>>,
         listener' \in {"none", "open", "closed", "exited"},
         conn' \in [Conn -> ConnType],
         \A c \in Conn :
           \/ conn'[c] = conn[c]
           \/ /\ conn[c].server # "none"
              /\ conn'[c].server = "gone" /\ conn'[c].toServer = <<>>
              /\ conn'[c].client = conn[c].client /\ conn'[c].toClient = conn[c].toClient
  PROVE  Inv'
<1>1. UNCHANGED <<free, created, calls, highest>>
  BY DEF poolVars, callVars
<1>2. ASSUME NEW c \in Conn
      PROVE  /\ conn'[c].client = conn[c].client
             /\ Wire(conn'[c], calls, results')
             /\ Quiet(conn[c]) => Quiet(conn'[c])
             /\ \A l : Answers(conn[c], l, results) => Answers(conn'[c], l, results')
  <2>1. conn[c] \in ConnType /\ conn'[c] \in ConnType /\ Wire(conn[c], calls, results)
    BY ConnTypes
  <2>2. CASE conn'[c] = conn[c]
    BY <2>1, <2>2
  <2>3. CASE /\ conn[c].server # "none"
             /\ conn'[c].server = "gone" /\ conn'[c].toServer = <<>>
             /\ conn'[c].client = conn[c].client /\ conn'[c].toClient = conn[c].toClient
    BY <2>1, <2>3, HandlerOnOrOff
  <2>. QED  BY <2>2, <2>3
<1>3. \A t \in Caller : At(t, "receive") =>
        Answers(conn'[caller[t].conn], caller[t], results')
  BY <1>2, OwnAnswers
<1>4. counter' \in Nat /\ counter <= counter'
  BY Types
<1>5. ConnsInv' /\ PlacesInv' /\ CallersInv' /\ UsedInv'
  BY <1>2, <1>3, <1>4, ServerKeeps
<1>6. LoadInv'
  <2>1. \A c \in Conn : /\ conn'[c].toServer # <<>> => conn'[c].toServer = conn[c].toServer
                        /\ conn'[c].server = "execute" =>
                             conn[c].server = "execute" /\ conn'[c].cmd = conn[c].cmd
    OBVIOUS
  <2>. QED  BY <1>1, <2>1, ServerLoadKept
<1>7. TypeOK'
  BY <1>1, Types, Typed
<1>. QED  BY <1>1, <1>5, <1>6, <1>7, NumbersKept DEF Inv

LEMMA StopInv ==
  ASSUME Inv, Stop
  PROVE  Inv'
<1>. DEFINE K(c) == [conn[c] EXCEPT !.server = "gone", !.toServer = <<>>]
<1>1. /\ listener' = "closed" /\ UNCHANGED <<counter, results, poolVars, caller, callVars>>
      /\ conn' = [c \in Conn |-> IF conn[c].server = "backlog" THEN K(c) ELSE conn[c]]
  BY DEF Stop
<1>2. ASSUME NEW c \in Conn
      PROVE  /\ K(c) \in ConnType /\ K(c).server = "gone" /\ K(c).toServer = <<>>
             /\ K(c).client = conn[c].client /\ K(c).toClient = conn[c].toClient
             /\ conn[c] \in ConnType
  <2>1. conn[c] \in ConnType /\ <<>> \in Seq(Tag)
    BY ConnTypes
  <2>. QED  BY <2>1 DEF ConnType
<1>. HIDE DEF K
<1>3. conn' \in [Conn -> ConnType]
  BY <1>1, <1>2
<1>4. \A c \in Conn : conn'[c] = IF conn[c].server = "backlog" THEN K(c) ELSE conn[c]
  BY <1>1
<1>. QED  BY <1>1, <1>2, <1>3, <1>4, HandlersEndInv

LEMMA ExitInv ==
  ASSUME Inv, Exit
  PROVE  Inv'
<1>. DEFINE K(c) == [conn[c] EXCEPT !.server = "gone", !.toServer = <<>>,
                                    !.cmd = NoTag, !.resp = 0]
<1>1. /\ listener' = "exited" /\ UNCHANGED <<counter, results, poolVars, caller, callVars>>
      /\ conn' = [c \in Conn |-> IF conn[c].server = "none" THEN conn[c] ELSE K(c)]
  BY DEF Exit
<1>2. ASSUME NEW c \in Conn
      PROVE  /\ K(c) \in ConnType /\ K(c).server = "gone" /\ K(c).toServer = <<>>
             /\ K(c).client = conn[c].client /\ K(c).toClient = conn[c].toClient
             /\ conn[c] \in ConnType
  <2>1. conn[c] \in ConnType /\ <<>> \in Seq(Tag)
    BY ConnTypes
  <2>. QED  BY <2>1 DEF ConnType
<1>. HIDE DEF K
<1>3. conn' \in [Conn -> ConnType]
  BY <1>1, <1>2
<1>4. \A c \in Conn : conn'[c] = IF conn[c].server = "none" THEN conn[c] ELSE K(c)
  BY <1>1
<1>. QED  BY <1>1, <1>2, <1>3, <1>4, HandlersEndInv

LEMMA StartInv ==
  ASSUME Inv, Start
  PROVE  Inv'
<1>1. listener' = "open" /\ UNCHANGED <<counter, results, conn, poolVars, caller, callVars>>
  BY DEF Start
<1>. QED  BY <1>1, Types, HandlersEndInv

-------------------------------------------------------------------------------
(* The callers *)

LEMMA CallerTypes ==
  ASSUME Inv, NEW t \in Caller
  PROVE  /\ caller[t] \in CallerType /\ caller[t].attempt \in 0 .. RetryAttempts
         /\ caller[t].attempt \in Int /\ caller[t].floor \in Nat
<1>1. caller[t] \in CallerType
  BY Types
<1>2. caller[t].attempt \in 0 .. RetryAttempts /\ caller[t].floor \in Nat
  BY <1>1 DEF CallerType
<1>. QED  BY <1>1, <1>2, Constants

LEMMA IdleType ==
  Idle \in CallerType /\ Idle.pc = "idle"
<1>1. 0 \in 0 .. MaxCalls /\ 0 \in 0 .. RetryAttempts /\ 0 \in Nat
  BY Constants
<1>. QED  BY <1>1 DEF Idle, CallerType

\* A new attempt of the same call, or the end of the command.
LEMMA StartsAgain ==
  ASSUME Inv, NEW t \in Caller, ~ At(t, "idle"), NextAttempt(t) \/ Finish(t)
  PROVE  \E l \in CallerType :
           /\ caller' = [caller EXCEPT ![t] = l] /\ l.pc \in {"idle", "get"}
           /\ l.pc = "get" => /\ l.call = caller[t].call /\ l.floor = caller[t].floor
                              /\ l.attempt = caller[t].attempt + 1
<1>1. CASE Finish(t)
  BY <1>1, IdleType DEF Finish
<1>2. CASE NextAttempt(t) /\ ~ Finish(t)
  <2>. DEFINE a == caller[t].attempt + 1
              l == [caller[t] EXCEPT !.pc = "get", !.attempt = a, !.conn = NoConn]
  <2>1. caller[t].attempt < RetryAttempts
        /\ caller' = [caller EXCEPT ![t].pc = "get", ![t].attempt = @ + 1, ![t].conn = NoConn]
    BY <1>2 DEF NextAttempt
  <2>2. a \in 0 .. RetryAttempts /\ caller[t] \in CallerType
    BY <2>1, CallerTypes, Constants
  <2>3. caller' = [caller EXCEPT ![t] = l]
    BY <2>1, <2>2, Types DEF CallerType
  <2>. HIDE DEF a
  <2>4. /\ l \in CallerType /\ l.pc = "get" /\ l.call = caller[t].call
        /\ l.floor = caller[t].floor /\ l.attempt = a
    BY <2>2 DEF CallerType
  <2>. QED  BY <2>3, <2>4 DEF a
<1>. QED  BY <1>1, <1>2

\* A caller goes on with its call, or ends it.
LEMMA CallerMoves ==
  ASSUME Inv, NEW t \in Caller, ~ At(t, "idle"), NEW l \in CallerType,
         caller' = [caller EXCEPT ![t] = l], UNCHANGED <<counter, calls>>,
         l.pc # "idle" => l.call = caller[t].call /\ l.floor = caller[t].floor
  PROVE  /\ caller' \in [Caller -> CallerType] /\ caller'[t] = l
         /\ \A u \in Caller \ {t} : caller'[u] = caller[u]
         /\ CallersInv'
<1>1. /\ caller' \in [Caller -> CallerType] /\ caller'[t] = l
      /\ \A u \in Caller \ {t} : caller'[u] = caller[u]
  BY Types
<1>2. CallersInv
  BY DEF Inv
<1>. QED  BY <1>1, <1>2 DEF CallersInv, At

\* Sends that are not new leave the load alone.
LEMMA CallerLoadKept ==
  ASSUME Inv, NEW t \in Caller, ~ At(t, "idle"), caller' \in [Caller -> CallerType],
         \A u \in Caller \ {t} : caller'[u] = caller[u],
         UNCHANGED <<results, calls>>,
         \A n \in 1 .. MaxCalls : Outstanding(n)' \subseteq Outstanding(n),
         ~ At(t, "idle")' => caller'[t].call = caller[t].call /\ Sent(t) <= Sent(t)'
  PROVE  LoadInv'
<1>1. ASSUME NEW u \in Caller, ~ At(u, "idle")'
      PROVE  ~ At(u, "idle") /\ caller'[u].call = caller[u].call /\ Sent(u) <= Sent(u)'
  <2>1. CASE u = t
    BY <1>1, <2>1
  <2>2. CASE u # t
    <3>1. caller'[u] = caller[u] /\ caller[u].attempt \in Int
      BY <2>2, CallerTypes
    <3>. QED  BY <1>1, <3>1 DEF At, Sent
  <2>. QED  BY <2>1, <2>2
<1>2. calls \in Nat /\ calls <= calls'
  BY Types
<1>. QED  BY <1>1, <1>2, LoadKept

\* A caller that holds no connection any more.
LEMMA ReleasePlaces ==
  ASSUME Inv, NEW t \in Caller, \A u \in Caller \ {t} : caller'[u] = caller[u],
         caller'[t].pc \in {"idle", "get"}, UNCHANGED <<free, results>>,
         \A c \in Conn : conn'[c] = conn[c] \/ (Holding(t) /\ c = caller[t].conn)
  PROVE  PlacesInv'
<1>1. PlacesInv /\ free \in Seq(Conn)
  BY Types DEF Inv
<1>2. \A i \in DOMAIN free : conn'[free[i]] = conn[free[i]]
  BY <1>1 DEF PlacesInv
<1>3. \A u \in Caller : Holding(u)' => u # t /\ Holding(u) /\ caller'[u] = caller[u]
                                       /\ conn'[caller[u].conn] = conn[caller[u].conn]
  BY <1>1 DEF PlacesInv, Holding
<1>4. \A i \in DOMAIN free' : Quiet(conn'[free'[i]])
  BY <1>1, <1>2 DEF PlacesInv
<1>5. \A u \in Caller : (Holding(u)' => caller'[u].conn \in Conn
                                        /\ conn'[caller'[u].conn].client = "open")
  BY <1>1, <1>3 DEF PlacesInv
<1>6. \A u \in Caller : (At(u, "send")' => Quiet(conn'[caller'[u].conn]))
  BY <1>1, <1>3 DEF PlacesInv, Holding, At
<1>7. \A u \in Caller :
        (At(u, "receive")' => Answers(conn'[caller'[u].conn], caller'[u], results'))
  BY <1>1, <1>3 DEF PlacesInv, Holding, At
<1>8. \A u, w \in Caller :
        (Holding(u)' /\ Holding(w)' /\ caller'[u].conn = caller'[w].conn => u = w)
  BY <1>1, <1>3 DEF PlacesInv
<1>9. \A u \in Caller, i \in DOMAIN free' : (Holding(u)' => caller'[u].conn # free'[i])
  BY <1>1, <1>3 DEF PlacesInv
<1>10. \A i, j \in DOMAIN free' : free'[i] = free'[j] => i = j
  BY <1>1 DEF PlacesInv
<1>. QED  BY <1>4, <1>5, <1>6, <1>7, <1>8, <1>9, <1>10 DEF PlacesInv

LEMMA ConnsGrow ==
  ASSUME Inv, UNCHANGED <<conn, results>>, calls' \in Nat, calls <= calls'
  PROVE  ConnsInv' /\ UsedConns' = UsedConns /\ \A n : Outstanding(n)' = Outstanding(n)
<1>1. \A c \in Conn : Wire(conn[c], calls', results)
  <2>1. calls \in Nat
    BY Types
  <2>. QED  BY <2>1, WireGrows DEF Inv, ConnsInv
<1>. QED  BY <1>1 DEF ConnsInv, UsedConns, Outstanding

\* An attempt that ends before it has a connection.
LEMMA NextAttemptInv ==
  ASSUME Inv, NEW t \in Caller, ~ At(t, "idle"), NextAttempt(t),
         UNCHANGED <<serverVars, conn, poolVars, callVars>>
  PROVE  Inv'
<1>1. UNCHANGED <<listener, counter, results, free, created, calls, highest>>
  BY DEF serverVars, poolVars, callVars
<1>2. PICK l \in CallerType :
        /\ caller' = [caller EXCEPT ![t] = l] /\ l.pc \in {"idle", "get"}
        /\ l.pc = "get" => /\ l.call = caller[t].call /\ l.floor = caller[t].floor
                           /\ l.attempt = caller[t].attempt + 1
  BY StartsAgain
<1>3. /\ caller' \in [Caller -> CallerType] /\ caller'[t] = l
      /\ CallersInv' /\ \A u \in Caller \ {t} : caller'[u] = caller[u]
  BY <1>1, <1>2, CallerMoves
<1>4. ConnsInv' /\ UsedConns' = UsedConns /\ \A n : Outstanding(n)' = Outstanding(n)
  BY <1>1, Types, ConnsGrow
<1>5. PlacesInv'
  BY <1>1, <1>2, <1>3, ReleasePlaces
<1>6. ~ At(t, "idle")' => caller'[t].call = caller[t].call /\ Sent(t) <= Sent(t)'
  BY <1>2, <1>3, CallerTypes DEF At, Sent
<1>7. LoadInv'
  BY <1>1, <1>3, <1>4, <1>6, CallerLoadKept
<1>8. TypeOK'
  BY <1>1, <1>3, Types, Typed
<1>. QED  BY <1>1, <1>3, <1>4, <1>5, <1>7, <1>8, NumbersKept DEF Inv, UsedInv

LEMMA IncrInv ==
  ASSUME Inv, NEW t \in Caller, Incr(t)
  PROVE  Inv'
<1>. DEFINE n == calls + 1
            l == [Idle EXCEPT !.pc = "get", !.call = n, !.floor = highest]
<1>1. /\ At(t, "idle") /\ calls < MaxCalls /\ calls' = n
      /\ caller' = [caller EXCEPT ![t] = l]
      /\ UNCHANGED <<listener, counter, results, conn, free, created, highest>>
  BY DEF Incr, serverVars, poolVars
<1>2. n \in 1 .. MaxCalls /\ n \in 0 .. MaxCalls /\ n \in Nat /\ calls < n /\ calls \in Nat
      /\ highest \in Nat
  BY <1>1, Types, Constants
<1>. HIDE DEF n
<1>3. l \in CallerType /\ l.pc = "get" /\ l.call = n /\ l.floor = highest /\ l.attempt = 0
  BY <1>2, IdleType DEF CallerType, Idle
<1>. HIDE DEF l
<1>4. /\ caller' \in [Caller -> CallerType] /\ caller'[t] = l
      /\ \A u \in Caller \ {t} : caller'[u] = caller[u]
  BY <1>1, <1>3, Types
<1>5. ConnsInv' /\ UsedConns' = UsedConns /\ \A i : Outstanding(i)' = Outstanding(i)
  BY <1>1, <1>2, ConnsGrow
<1>6. PlacesInv'
  BY <1>1, <1>3, <1>4, ReleasePlaces
<1>7. CallersInv'
  <2>1. ASSUME NEW u \in Caller \ {t}, ~ At(u, "idle")'
        PROVE  /\ caller'[u].call \in 1 .. calls /\ caller'[u].call \in 1 .. n
               /\ caller'[u].call # n /\ caller'[u].floor <= counter' /\ ~ At(u, "idle")
    <3>1. ~ At(u, "idle") /\ caller'[u] = caller[u]
      BY <1>4, <2>1 DEF At
    <3>2. caller[u].call \in 1 .. calls /\ caller[u].floor <= counter
      BY <3>1 DEF Inv, CallersInv
    <3>. QED  BY <1>1, <1>2, <3>1, <3>2
  <2>2. n \in 1 .. n /\ l.floor <= counter'
    BY <1>1, <1>2, <1>3 DEF Inv, NumbersInv
  <2>3. \A u, w \in Caller : ~ At(u, "idle") /\ ~ At(w, "idle")
                              /\ caller[u].call = caller[w].call => u = w
    BY DEF Inv, CallersInv
  <2>4. \A u \in Caller : (~ At(u, "idle")' => caller'[u].call \in 1 .. n
                                               /\ caller'[u].floor <= counter')
    BY <1>3, <1>4, <2>1, <2>2
  <2>5. \A u, w \in Caller : (~ At(u, "idle")' /\ ~ At(w, "idle")'
                              /\ caller'[u].call = caller'[w].call => u = w)
    BY <1>3, <1>4, <2>1, <2>3
  <2>. QED  BY <1>1, <2>4, <2>5 DEF CallersInv
<1>8. LoadInv'
  <2>1. \A u \in Caller : (~ At(u, "idle")' =>
          \/ ~ At(u, "idle") /\ caller'[u].call = caller[u].call /\ Sent(u) <= Sent(u)'
          \/ /\ caller'[u].call \in 1 .. MaxCalls /\ caller'[u].call > calls
             /\ 0 <= Sent(u)')
    <3>. SUFFICES ASSUME NEW u \in Caller, ~ At(u, "idle")'
                  PROVE  \/ /\ ~ At(u, "idle") /\ caller'[u].call = caller[u].call
                            /\ Sent(u) <= Sent(u)'
                         \/ /\ caller'[u].call \in 1 .. MaxCalls /\ caller'[u].call > calls
                            /\ 0 <= Sent(u)'
      OBVIOUS
    <3>1. CASE u = t
      BY <1>2, <1>3, <1>4, <3>1 DEF Sent, At
    <3>2. CASE u # t
      BY <1>4, <3>2, CallerTypes DEF Sent, At
    <3>. QED  BY <3>1, <3>2
  <2>. QED  BY <1>1, <1>2, <1>4, <1>5, <2>1, LoadKept
<1>9. TypeOK'
  BY <1>1, <1>2, <1>4, Types, Typed
<1>. QED  BY <1>1, <1>5, <1>6, <1>7, <1>8, <1>9, NumbersKept DEF Inv, UsedInv

\* A caller gets a connection c: the first of the pool, or a new one.
LEMMA HoldInv ==
  ASSUME Inv, NEW t \in Caller, At(t, "get"), NEW c \in Conn, Hold(t, c),
         UNCHANGED <<counter, results, calls>>
  PROVE  /\ caller' \in [Caller -> CallerType]
         /\ caller'[t].pc = "send" /\ caller'[t].conn = c
         /\ \A u \in Caller \ {t} : caller'[u] = caller[u]
         /\ CallersInv'
         /\ (\A n \in 1 .. MaxCalls : Outstanding(n)' \subseteq Outstanding(n)) => LoadInv'
<1>. DEFINE l == [caller[t] EXCEPT !.pc = "send", !.conn = c]
<1>1. caller[t] \in CallerType /\ caller[t].pc = "get" /\ ~ At(t, "idle")
  BY CallerTypes DEF At
<1>2. /\ l \in CallerType /\ l.pc = "send" /\ l.conn = c /\ l.call = caller[t].call
      /\ l.floor = caller[t].floor /\ l.attempt = caller[t].attempt
  BY <1>1 DEF CallerType
<1>3. caller' = [caller EXCEPT ![t] = l]
  BY <1>1, Types DEF Hold, CallerType
<1>. HIDE DEF l
<1>4. /\ caller' \in [Caller -> CallerType] /\ caller'[t] = l
      /\ \A u \in Caller \ {t} : caller'[u] = caller[u]
      /\ CallersInv'
  BY <1>1, <1>2, <1>3, CallerMoves
<1>5. caller'[t].call = caller[t].call /\ Sent(t) <= Sent(t)'
  BY <1>1, <1>2, <1>4, CallerTypes DEF Sent, At
<1>. QED  BY <1>1, <1>2, <1>4, <1>5, CallerLoadKept

\* Caller t is the only one that uses connection c, pooled no more.
LEMMA UsesPlaces ==
  ASSUME Inv, NEW t \in Caller, NEW c \in Conn, UNCHANGED results,
         \A u \in Caller \ {t} : caller'[u] = caller[u],
         caller'[t].pc \in {"send", "receive"}, caller'[t].conn = c,
         \A u \in Caller \ {t} : Holding(u) => caller[u].conn # c,
         \A i \in DOMAIN free' : free'[i] # c /\ \E j \in DOMAIN free : free'[i] = free[j],
         \A i, j \in DOMAIN free' : free'[i] = free'[j] => i = j,
         \A d \in Conn : d # c => conn'[d] = conn[d],
         conn'[c].client = "open",
         caller'[t].pc = "send" => Quiet(conn'[c]),
         caller'[t].pc = "receive" => Answers(conn'[c], caller'[t], results)
  PROVE  PlacesInv'
<1>1. PlacesInv /\ \A i \in DOMAIN free : free[i] \in Conn
  BY Types DEF Inv
<1>2. \A i \in DOMAIN free' : Quiet(conn'[free'[i]])
  BY <1>1 DEF PlacesInv
<1>3. ASSUME NEW u \in Caller, u # t, Holding(u)'
      PROVE  /\ Holding(u) /\ caller'[u] = caller[u] /\ caller[u].conn \in Conn
             /\ caller[u].conn # c /\ conn'[caller[u].conn] = conn[caller[u].conn]
  BY <1>1, <1>3 DEF PlacesInv, Holding
<1>4. \A u \in Caller : (Holding(u)' => caller'[u].conn \in Conn
                                        /\ conn'[caller'[u].conn].client = "open")
  BY <1>1, <1>3 DEF PlacesInv
<1>5. \A u \in Caller : (At(u, "send")' => Quiet(conn'[caller'[u].conn]))
  BY <1>1, <1>3 DEF PlacesInv, Holding, At
<1>6. ASSUME NEW u \in Caller, At(u, "receive")'
      PROVE  Answers(conn'[caller'[u].conn], caller'[u], results')
  <2>1. CASE u = t
    BY <1>6, <2>1 DEF At
  <2>2. CASE u # t
    BY <1>1, <1>3, <1>6, <2>2 DEF PlacesInv, Holding, At
  <2>. QED  BY <2>1, <2>2
<1>7. \A u, w \in Caller :
        (Holding(u)' /\ Holding(w)' /\ caller'[u].conn = caller'[w].conn => u = w)
  BY <1>1, <1>3 DEF PlacesInv
<1>8. \A u \in Caller, i \in DOMAIN free' : (Holding(u)' => caller'[u].conn # free'[i])
  <2>. SUFFICES ASSUME NEW u \in Caller, Holding(u)', NEW i \in DOMAIN free'
                PROVE  caller'[u].conn # free'[i]
    OBVIOUS
  <2>1. CASE u = t
    BY <2>1
  <2>2. CASE u # t
    BY <1>1, <1>3, <2>2 DEF PlacesInv
  <2>. QED  BY <2>1, <2>2
<1>. QED  BY <1>2, <1>4, <1>5, <1>6, <1>7, <1>8 DEF PlacesInv

LEMMA TailOfFree ==
  ASSUME Inv, free # <<>>
  PROVE  /\ Head(free) \in Conn /\ Quiet(conn[Head(free)]) /\ Tail(free) \in Seq(Conn)
         /\ \A i \in DOMAIN Tail(free) :
              Tail(free)[i] # Head(free) /\ \E j \in DOMAIN free : Tail(free)[i] = free[j]
         /\ \A i, j \in DOMAIN Tail(free) : Tail(free)[i] = Tail(free)[j] => i = j
         /\ \A t \in Caller : Holding(t) => caller[t].conn # Head(free)
<1>1. free \in Seq(Conn) /\ PlacesInv
  BY Types DEF Inv
<1>2. /\ 1 \in DOMAIN free /\ Head(free) = free[1] /\ Head(free) \in Conn
      /\ Tail(free) \in Seq(Conn)
      /\ \A i \in DOMAIN Tail(free) : /\ i \in Nat /\ i + 1 # 1
                                      /\ i + 1 \in DOMAIN free /\ Tail(free)[i] = free[i + 1]
  BY <1>1
<1>3. Quiet(conn[Head(free)]) /\ \A t \in Caller : Holding(t) => caller[t].conn # Head(free)
  BY <1>1, <1>2 DEF PlacesInv
<1>4. \A i, j \in DOMAIN free : free[i] = free[j] => i = j
  BY <1>1 DEF PlacesInv
<1>5. \A i \in DOMAIN Tail(free) :
        Tail(free)[i] # Head(free) /\ \E j \in DOMAIN free : Tail(free)[i] = free[j]
  BY <1>2, <1>4
<1>6. \A i, j \in DOMAIN Tail(free) : Tail(free)[i] = Tail(free)[j] => i = j
  <2>. SUFFICES ASSUME NEW i \in DOMAIN Tail(free), NEW j \in DOMAIN Tail(free),
                       Tail(free)[i] = Tail(free)[j]
                PROVE  i = j
    OBVIOUS
  <2>1. i + 1 = j + 1
    BY <1>2, <1>4
  <2>. QED  BY <1>2, <2>1
<1>. QED  BY <1>2, <1>3, <1>5, <1>6

LEMMA GetPooledInv ==
  ASSUME Inv, NEW t \in Caller, GetPooled(t)
  PROVE  Inv'
<1>1. /\ At(t, "get") /\ free # <<>> /\ Hold(t, Head(free)) /\ free' = Tail(free)
      /\ UNCHANGED <<listener, counter, results, conn, created, calls, highest>>
  BY DEF GetPooled, serverVars, callVars
<1>. DEFINE c == Head(free)
<1>2. /\ c \in Conn /\ Quiet(conn[c]) /\ Tail(free) \in Seq(Conn)
      /\ \A i \in DOMAIN Tail(free) :
           Tail(free)[i] # c /\ \E j \in DOMAIN free : Tail(free)[i] = free[j]
      /\ \A i, j \in DOMAIN Tail(free) : Tail(free)[i] = Tail(free)[j] => i = j
      /\ \A u \in Caller : Holding(u) => caller[u].conn # c
  BY <1>1, TailOfFree
<1>3. Hold(t, c)
  BY <1>1
<1>. HIDE DEF c
<1>4. ConnsInv' /\ UsedConns' = UsedConns /\ \A n : Outstanding(n)' = Outstanding(n)
  BY <1>1, Types, ConnsGrow
<1>5. /\ caller' \in [Caller -> CallerType]
      /\ caller'[t].pc = "send" /\ caller'[t].conn = c
      /\ \A u \in Caller \ {t} : caller'[u] = caller[u]
      /\ CallersInv' /\ LoadInv'
  BY <1>1, <1>2, <1>3, <1>4, HoldInv
<1>6. conn'[c].client = "open" /\ Quiet(conn'[c])
  BY <1>1, <1>2 DEF Quiet
<1>7. PlacesInv'
  BY <1>1, <1>2, <1>5, <1>6, UsesPlaces
<1>8. TypeOK'
  BY <1>1, <1>2, <1>5, Types, Typed
<1>. QED  BY <1>1, <1>4, <1>5, <1>7, <1>8, NumbersKept DEF Inv, UsedInv

\* Below its limit, the pool can open a connection never used before.
LEMMA FreshConnExists ==
  ASSUME Inv, created < MaxConnsPerNode
  PROVE  FreshConn \in Conn /\ conn[FreshConn] = Unused
<1>1. PICK c \in Conn : conn[c].client = "none"
  <2>. SUFFICES ASSUME \A c \in Conn : conn[c].client # "none" PROVE FALSE
    OBVIOUS
  <2>1. UsedConns = Conn
    BY DEF UsedConns
  <2>2. Cardinality(Conn) \in Nat
    BY Constants, FS_CardinalityType
  <2>. QED  BY <2>1, <2>2, Constants, Types DEF Inv, UsedInv
<1>2. conn[c] = Unused
  BY <1>1 DEF Inv, ConnsInv, Wire
<1>. QED  BY <1>2 DEF FreshConn

LEMMA ConnOpensInv ==
  ASSUME Inv, NEW t \in Caller, At(t, "get"), created < MaxConnsPerNode,
         conn' = [conn EXCEPT ![FreshConn].client = "open", ![FreshConn].server = "backlog"],
         Hold(t, FreshConn), created' = created + 1,
         UNCHANGED <<serverVars, free, callVars>>
  PROVE  Inv'
<1>. DEFINE c == FreshConn
            k == [conn[c] EXCEPT !.client = "open", !.server = "backlog"]
<1>1. UNCHANGED <<listener, counter, results, free, calls, highest>>
  BY DEF serverVars, callVars
<1>2. c \in Conn /\ conn[c] = Unused /\ conn[c] \in ConnType
  BY FreshConnExists, ConnTypes
<1>3. /\ k \in ConnType /\ k.client = "open" /\ k.server = "backlog"
      /\ k.toServer = <<>> /\ k.toClient = <<>>
  <2>1. conn[c].toServer = <<>> /\ conn[c].toClient = <<>>
    BY <1>2 DEF Unused
  <2>2. conn[c] \in ConnType
    BY <1>2
  <2>. HIDE DEF c
  <2>. QED  BY <2>1, <2>2 DEF ConnType
<1>4. conn' = [conn EXCEPT ![c] = k]
  BY <1>2 DEF ConnType
<1>5. Hold(t, c)
  OBVIOUS
<1>. HIDE DEF c, k
<1>6. /\ conn' \in [Conn -> ConnType] /\ conn'[c] = k
      /\ \A d \in Conn : d # c => conn'[d] = conn[d]
  BY <1>2, <1>3, <1>4, Types
<1>7. \A n \in 1 .. MaxCalls : Outstanding(n)' \subseteq Outstanding(n)
  BY <1>3, <1>6 DEF Outstanding
<1>8. /\ caller' \in [Caller -> CallerType]
      /\ caller'[t].pc = "send" /\ caller'[t].conn = c
      /\ \A u \in Caller \ {t} : caller'[u] = caller[u]
      /\ CallersInv' /\ LoadInv'
  BY <1>1, <1>2, <1>5, <1>7, HoldInv
<1>9. conn[c].client = "none"
  BY <1>2 DEF Unused
<1>10. ConnsInv'
  <2>1. Wire(k, calls, results)
    BY <1>3 DEF Wire
  <2>. QED  BY <1>1, <1>6, <2>1 DEF Inv, ConnsInv
<1>11. UsedInv'
  <2>1. UsedConns' = UsedConns \cup {c} /\ c \notin UsedConns
    BY <1>2, <1>3, <1>6, <1>9 DEF UsedConns
  <2>2. IsFiniteSet(UsedConns) /\ Cardinality(UsedConns) \in Nat
    <3>1. UsedConns \in SUBSET Conn
      BY DEF UsedConns
    <3>. QED  BY <3>1, Constants, FS_Subset, FS_CardinalityType
  <2>3. Cardinality(UsedConns') = Cardinality(UsedConns) + 1
    BY <2>1, <2>2, FS_AddElement
  <2>. QED  BY <2>2, <2>3, Types DEF Inv, UsedInv
<1>12. PlacesInv'
  <2>1. Quiet(conn'[c]) /\ conn'[c].client = "open"
    BY <1>3, <1>6 DEF Quiet
  <2>2. \A u \in Caller \ {t} : Holding(u) => caller[u].conn # c
    BY <1>9 DEF Inv, PlacesInv
  <2>3. \A i \in DOMAIN free' : free'[i] # c /\ \E j \in DOMAIN free : free'[i] = free[j]
    BY <1>1, <1>9 DEF Inv, PlacesInv, Quiet
  <2>4. \A i, j \in DOMAIN free' : free'[i] = free'[j] => i = j
    BY <1>1 DEF Inv, PlacesInv
  <2>. QED  BY <1>1, <1>2, <1>6, <1>8, <2>1, <2>2, <2>3, <2>4, UsesPlaces
<1>13. TypeOK'
  <2>1. created' \in 0 .. MaxConnsPerNode
    BY Types, Constants
  <2>. QED  BY <1>1, <1>6, <1>8, <2>1, Types, Typed
<1>. QED  BY <1>1, <1>8, <1>10, <1>11, <1>12, <1>13, NumbersKept DEF Inv

LEMMA DialInv ==
  ASSUME Inv, NEW t \in Caller, Dial(t)
  PROVE  Inv'
<1>1. At(t, "get") /\ ~ At(t, "idle") /\ created < MaxConnsPerNode
      /\ UNCHANGED <<serverVars, free, callVars>>
  BY DEF Dial, At
<1>2. CASE NextAttempt(t) /\ UNCHANGED <<conn, created>>
  BY <1>1, <1>2, NextAttemptInv DEF poolVars
<1>. QED  BY <1>1, <1>2, ConnOpensInv DEF Dial

LEMMA PoolTimeoutInv ==
  ASSUME Inv, NEW t \in Caller, PoolTimeout(t)
  PROVE  Inv'
BY NextAttemptInv DEF PoolTimeout, At

\* The exchange fails: the client closes the connection.
LEMMA DiscardInv ==
  ASSUME Inv, NEW t \in Caller, Holding(t), Discard(t),
         UNCHANGED <<serverVars, poolVars, callVars>>
  PROVE  Inv'
<1>. DEFINE c == caller[t].conn
            k == [conn[c] EXCEPT !.client = "closed", !.toClient = <<>>]
<1>1. UNCHANGED <<listener, counter, results, free, created, calls, highest>>
  BY DEF serverVars, poolVars, callVars
<1>2. ~ At(t, "idle") /\ c \in Conn /\ conn[c].client = "open"
  BY DEF Holding, At, Inv, PlacesInv
<1>3. conn[c] \in ConnType /\ Wire(conn[c], calls, results)
  BY <1>2, ConnTypes
<1>4. /\ k \in ConnType /\ k.client = "closed" /\ k.toClient = <<>>
      /\ k.server = conn[c].server /\ k.toServer = conn[c].toServer
      /\ k.cmd = conn[c].cmd /\ k.resp = conn[c].resp
  <2>1. <<>> \in Seq([tag : Tag, num : Nat])
    OBVIOUS
  <2>. QED  BY <1>3, <2>1 DEF ConnType
<1>5. conn' = [conn EXCEPT ![c] = k] /\ NextAttempt(t)
  BY <1>2, <1>3 DEF Discard, ConnType
<1>6. PICK l \in CallerType :
        /\ caller' = [caller EXCEPT ![t] = l] /\ l.pc \in {"idle", "get"}
        /\ l.pc = "get" => /\ l.call = caller[t].call /\ l.floor = caller[t].floor
                           /\ l.attempt = caller[t].attempt + 1
  BY <1>2, <1>5, StartsAgain
<1>7. /\ caller' \in [Caller -> CallerType] /\ caller'[t] = l
      /\ CallersInv' /\ \A u \in Caller \ {t} : caller'[u] = caller[u]
  BY <1>1, <1>2, <1>6, CallerMoves
<1>. HIDE DEF k
<1>8. /\ conn' \in [Conn -> ConnType] /\ conn'[c] = k
      /\ \A d \in Conn : d # c => conn'[d] = conn[d]
  BY <1>2, <1>4, <1>5, Types
<1>9. ConnsInv'
  <2>1. Wire(k, calls, results)
    BY <1>2, <1>3, <1>4 DEF Wire
  <2>2. \A d \in Conn : Wire(conn'[d], calls, results)
    BY <1>8, <2>1 DEF Inv, ConnsInv
  <2>. QED  BY <1>1, <2>2 DEF ConnsInv
<1>10. PlacesInv'
  BY <1>1, <1>6, <1>7, <1>8, ReleasePlaces
<1>11. \A n \in 1 .. MaxCalls : Outstanding(n)' \subseteq Outstanding(n)
  <2>1. \A d \in Conn : /\ conn'[d].toServer = conn[d].toServer
                        /\ conn'[d].server = conn[d].server /\ conn'[d].cmd = conn[d].cmd
    BY <1>4, <1>8
  <2>. QED  BY <2>1 DEF Outstanding
<1>12. ~ At(t, "idle")' => caller'[t].call = caller[t].call /\ Sent(t) <= Sent(t)'
  BY <1>6, <1>7, CallerTypes DEF At, Sent
<1>13. LoadInv'
  BY <1>1, <1>2, <1>7, <1>11, <1>12, CallerLoadKept
<1>14. UsedInv'
  <2>1. UsedConns' = UsedConns
    BY <1>2, <1>4, <1>8 DEF UsedConns
  <2>. QED  BY <1>1, <2>1 DEF Inv, UsedInv
<1>15. TypeOK'
  BY <1>1, <1>7, <1>8, Types, Typed
<1>. QED  BY <1>1, <1>7, <1>9, <1>10, <1>13, <1>14, <1>15, NumbersKept DEF Inv

LEMMA ReadFailsInv ==
  ASSUME Inv, NEW t \in Caller, ReadFails(t)
  PROVE  Inv'
BY DiscardInv DEF ReadFails, Holding, At

\* The load of a call grows by the attempt that is sent.
LEMMA SendLoad ==
  ASSUME Inv, NEW t \in Caller, At(t, "send"), NEW c \in Conn,
         caller' \in [Caller -> CallerType], UNCHANGED <<results, calls>>,
         caller'[t].pc = "receive", caller'[t].call = caller[t].call,
         caller'[t].attempt = caller[t].attempt,
         \A u \in Caller \ {t} : caller'[u] = caller[u],
         \A n \in 1 .. MaxCalls :
           Outstanding(n)' \subseteq IF n = caller[t].call THEN Outstanding(n) \cup {c}
                                    ELSE Outstanding(n)
  PROVE  LoadInv'
<1>1. PICK m \in 1 .. MaxCalls : m = caller[t].call /\ m <= calls
  BY Types, Constants DEF Inv, CallersInv, At
<1>2. /\ caller[t].attempt \in 0 .. RetryAttempts /\ Sent(t) = caller[t].attempt
      /\ Sent(t)' = caller[t].attempt + 1
      /\ caller[t].attempt \in Int /\ RetryAttempts \in Int
  BY CallerTypes, Constants DEF Sent, At
<1>3. ASSUME NEW n \in 1 .. MaxCalls
      PROVE  /\ Load(n)' <= Load(n) + (IF n = m THEN 1 ELSE 0)
             /\ Load(n) \in Nat /\ Load(n)' \in Nat
  <2>1. /\ IsFiniteSet(Outstanding(n)) /\ Cardinality(Outstanding(n)) \in Nat
        /\ Cardinality(results[n]) \in Nat
    BY LoadTypes
  <2>2. CASE n = m
    <3>1. Outstanding(n)' \in SUBSET (Outstanding(n) \cup {c})
      BY <1>1, <2>2
    <3>2. IsFiniteSet(Outstanding(n) \cup {c})
          /\ Cardinality(Outstanding(n) \cup {c}) <= Cardinality(Outstanding(n)) + 1
      <4>1. IsFiniteSet(Outstanding(n) \cup {c})
            /\ \/ Cardinality(Outstanding(n) \cup {c}) = Cardinality(Outstanding(n))
               \/ Cardinality(Outstanding(n) \cup {c}) = Cardinality(Outstanding(n)) + 1
        BY <2>1, FS_AddElement
      <4>. QED  BY <2>1, <4>1
    <3>3. /\ Cardinality(Outstanding(n)') <= Cardinality(Outstanding(n) \cup {c})
          /\ Cardinality(Outstanding(n)') \in Nat
          /\ Cardinality(Outstanding(n) \cup {c}) \in Nat
      BY <3>1, <3>2, FS_Subset, FS_CardinalityType
    <3>. QED  BY <2>1, <2>2, <3>2, <3>3 DEF Load
  <2>3. CASE n # m
    <3>1. Outstanding(n)' \in SUBSET Outstanding(n)
      BY <1>1, <2>3
    <3>2. /\ Cardinality(Outstanding(n)') <= Cardinality(Outstanding(n))
          /\ Cardinality(Outstanding(n)') \in Nat
      BY <2>1, <3>1, FS_Subset, FS_CardinalityType
    <3>. QED  BY <2>1, <2>3, <3>2 DEF Load
  <2>. QED  BY <2>2, <2>3
<1>4. Load(m) <= caller[t].attempt
  BY <1>1, <1>2 DEF Inv, LoadInv, At
<1>5. ASSUME NEW n \in 1 .. MaxCalls
      PROVE  Load(n)' <= RetryAttempts + 1 /\ (n > calls' => Load(n)' = 0)
  <2>1. Load(n) <= RetryAttempts + 1 /\ (n > calls => Load(n) = 0)
    BY DEF Inv, LoadInv
  <2>2. CASE n = m
    <3>1. caller[t].attempt <= RetryAttempts
      BY <1>2
    <3>2. Load(n)' <= RetryAttempts + 1
      BY <1>2, <1>3, <1>4, <2>2, <3>1
    <3>. QED  BY <1>1, <2>2, <3>2, Types
  <2>3. CASE n # m
    <3>1. Load(n)' <= Load(n) /\ Load(n) \in Nat /\ Load(n)' \in Nat
      BY <1>3, <2>3
    <3>. QED  BY <1>2, <2>1, <3>1
  <2>. QED  BY <2>2, <2>3
<1>6. ASSUME NEW n \in 1 .. MaxCalls, NEW u \in Caller, ~ At(u, "idle")', caller'[u].call = n
      PROVE  Load(n)' <= Sent(u)'
  <2>1. CASE u = t
    <3>1. n = m
      BY <1>1, <1>6, <2>1
    <3>. QED  BY <1>2, <1>3, <1>4, <2>1, <3>1
  <2>2. CASE u # t
    <3>1. caller'[u] = caller[u] /\ ~ At(u, "idle") /\ caller[u].call = n
      BY <1>6, <2>2 DEF At
    <3>2. n # m
      BY <1>1, <2>2, <3>1 DEF Inv, CallersInv, At
    <3>3. Load(n) <= Sent(u) /\ Sent(u)' = Sent(u) /\ Sent(u) \in Int
      BY <3>1, CallerTypes DEF Inv, LoadInv, Sent, At
    <3>4. Load(n)' <= Load(n) /\ Load(n) \in Nat /\ Load(n)' \in Nat
      BY <1>3, <3>2
    <3>. QED  BY <3>3, <3>4
  <2>. QED  BY <2>1, <2>2
<1>. QED  BY <1>5, <1>6 DEF LoadInv

LEMMA SendsInv ==
  ASSUME Inv, NEW t \in Caller, At(t, "send"),
         caller' = [caller EXCEPT ![t].pc = "receive"],
         conn' = [conn EXCEPT ![caller[t].conn].toServer =
                    IF conn[caller[t].conn].server = "gone" THEN @ ELSE Append(@, TagOf(t))],
         UNCHANGED <<serverVars, poolVars, callVars>>
  PROVE  Inv'
<1>. DEFINE l == [caller[t] EXCEPT !.pc = "receive"]
<1>1. UNCHANGED <<listener, counter, results, free, created, calls, highest>>
  BY DEF serverVars, poolVars, callVars
<1>2. PICK c \in Conn : c = caller[t].conn /\ Quiet(conn[c])
  BY DEF Inv, PlacesInv, Holding, At
<1>3. /\ caller[t] \in CallerType /\ ~ At(t, "idle") /\ caller[t].pc = "send"
      /\ caller[t].call \in 1 .. calls /\ caller[t].call \in 1 .. MaxCalls
      /\ TagOf(t) \in Tag /\ TagOf(t).call = caller[t].call /\ TagOf(t).call <= calls
  <2>1. caller[t].pc = "send" /\ caller[t].call \in 1 .. calls
    BY DEF At, Inv, CallersInv
  <2>2. caller[t].call \in 1 .. MaxCalls
    BY <2>1, Types, Constants
  <2>. QED  BY <2>1, <2>2, CallerTypes, Types DEF TagOf, Tag, At
<1>4. /\ l \in CallerType /\ l.pc = "receive" /\ l.call = caller[t].call /\ l.conn = c
      /\ l.floor = caller[t].floor /\ l.attempt = caller[t].attempt
  BY <1>2, <1>3 DEF CallerType
<1>5. caller' = [caller EXCEPT ![t] = l]
  BY <1>3, Types DEF CallerType
<1>. HIDE DEF l
<1>6. /\ caller' \in [Caller -> CallerType] /\ caller'[t] = l
      /\ CallersInv' /\ \A u \in Caller \ {t} : caller'[u] = caller[u]
  BY <1>1, <1>3, <1>4, <1>5, CallerMoves
<1>. DEFINE g == TagOf(t)
            s == IF conn[c].server = "gone" THEN <<>> ELSE <<g>>
            k == [conn[c] EXCEPT !.toServer = s]
<1>7. conn[c] \in ConnType /\ Wire(conn[c], calls, results)
  BY ConnTypes
<1>8. conn' = [conn EXCEPT ![c] = k]
  <2>1. conn[c].toServer = <<>>
    BY <1>2 DEF Quiet
  <2>2. Append(<<>>, g) = <<g>>
    OBVIOUS
  <2>. HIDE DEF g
  <2>. QED  BY <1>2, <1>7, <2>1, <2>2 DEF ConnType, g
<1>. HIDE DEF g
<1>9. /\ k \in ConnType /\ k.toServer = s /\ k.toClient = <<>> /\ k.client = "open"
      /\ k.server = conn[c].server /\ k.server \in {"backlog", "read", "gone"}
  <2>1. s \in Seq(Tag)
    BY <1>3 DEF g
  <2>2. conn[c].toClient = <<>> /\ conn[c].client = "open"
        /\ conn[c].server \in {"backlog", "read", "gone"}
    BY <1>2 DEF Quiet
  <2>. HIDE DEF s
  <2>. QED  BY <1>7, <2>1, <2>2 DEF ConnType
<1>. HIDE DEF k
<1>10. /\ conn' \in [Conn -> ConnType] /\ conn'[c] = k
       /\ \A d \in Conn : d # c => conn'[d] = conn[d]
  BY <1>8, <1>9, Types
<1>11. ConnsInv'
  <2>1. Wire(k, calls, results)
    BY <1>3, <1>9 DEF Wire, g
  <2>2. \A d \in Conn : Wire(conn'[d], calls, results)
    BY <1>10, <2>1 DEF Inv, ConnsInv
  <2>. QED  BY <1>1, <2>2 DEF ConnsInv
<1>12. PlacesInv'
  <2>1. Answers(k, l, results)
    BY <1>4, <1>9 DEF Answers, g, TagOf
  <2>2. \A u \in Caller \ {t} : Holding(u) => caller[u].conn # c
    BY <1>2, <1>3 DEF Inv, PlacesInv, Holding
  <2>3. \A i \in DOMAIN free' : free'[i] # c /\ \E j \in DOMAIN free : free'[i] = free[j]
    BY <1>1, <1>2, <1>3 DEF Inv, PlacesInv, Holding
  <2>4. \A i, j \in DOMAIN free' : free'[i] = free'[j] => i = j
    BY <1>1 DEF Inv, PlacesInv
  <2>5. /\ caller'[t].pc = "receive" /\ caller'[t].conn = c
        /\ conn'[c].client = "open" /\ Answers(conn'[c], caller'[t], results)
    BY <1>4, <1>6, <1>9, <1>10, <2>1
  <2>6. /\ UNCHANGED results /\ caller'[t].pc \in {"send", "receive"}
        /\ caller'[t].pc = "send" => Quiet(conn'[c])
        /\ caller'[t].pc = "receive" => Answers(conn'[c], caller'[t], results)
    BY <1>1, <2>5
  <2>. HIDE DEF g, s
  <2>7. /\ \A u \in Caller \ {t} : caller'[u] = caller[u]
        /\ \A d \in Conn : d # c => conn'[d] = conn[d]
    BY <1>6, <1>10
  <2>. QED  BY <2>2, <2>3, <2>4, <2>5, <2>6, <2>7, UsesPlaces
<1>13. LoadInv'
  <2>1. ASSUME NEW n \in 1 .. MaxCalls
        PROVE  Outstanding(n)' \subseteq IF n = caller[t].call THEN Outstanding(n) \cup {c}
                                        ELSE Outstanding(n)
    <3>1. k.toServer # <<>> => k.toServer[1].call = caller[t].call
      BY <1>3, <1>9 DEF g
    <3>. QED  BY <1>9, <1>10, <3>1 DEF Outstanding
  <2>. QED  BY <1>1, <1>4, <1>6, <2>1, SendLoad
<1>14. UsedInv'
  <2>1. UsedConns' = UsedConns
    BY <1>2, <1>9, <1>10 DEF UsedConns, Quiet
  <2>. QED  BY <1>1, <2>1 DEF Inv, UsedInv
<1>15. TypeOK'
  BY <1>1, <1>6, <1>10, Types, Typed
<1>. QED  BY <1>1, <1>6, <1>11, <1>12, <1>13, <1>14, <1>15, NumbersKept DEF Inv

LEMMA SendInv ==
  ASSUME Inv, NEW t \in Caller, Send(t)
  PROVE  Inv'
<1>1. At(t, "send") /\ UNCHANGED <<serverVars, poolVars, callVars>>
  BY DEF Send
<1>2. CASE Discard(t)
  BY <1>1, <1>2, DiscardInv DEF Holding, At
<1>. QED  BY <1>1, <1>2, SendsInv DEF Send

\* A response that is there is the answer to the caller that waits on the connection.
LEMMA AnswerThere ==
  ASSUME Inv, NEW t \in Caller, At(t, "receive"), conn[caller[t].conn].toClient # <<>>
  PROVE  /\ conn[caller[t].conn].toServer = <<>>
         /\ conn[caller[t].conn].server \in {"backlog", "read", "gone"}
         /\ \E v \in results[caller[t].call] :
              /\ v \in Nat /\ v <= counter /\ v > caller[t].floor
              /\ conn[caller[t].conn].toClient = <<[tag |-> TagOf(t), num |-> v]>>
<1>. DEFINE k == conn[caller[t].conn]
<1>1. /\ k \in ConnType /\ Wire(k, calls, results) /\ k.client = "open" /\ k.toClient # <<>>
      /\ Answers(k, caller[t], results) /\ caller[t].call \in 1 .. MaxCalls
  BY OwnAnswers, ConnTypes
<1>. HIDE DEF k
<1>2. k.toServer = <<>> /\ k.server \in {"backlog", "read", "gone"}
  BY <1>1 DEF Wire, ConnType
<1>3. PICK v \in results[caller[t].call] :
        v > caller[t].floor /\ k.toClient = <<[tag |-> TagOf(t), num |-> v]>>
  BY <1>1 DEF Answers, TagOf
<1>4. v \in 1 .. counter
  BY <1>1 DEF Inv, NumbersInv
<1>5. v \in Nat /\ v <= counter
  BY <1>4, Types
<1>. QED  BY <1>2, <1>3, <1>5 DEF k

\* A connection that a caller used, quiet again, goes to the end of the pool.
LEMMA PutPlaces ==
  ASSUME Inv, NEW t \in Caller, Holding(t), NEW c \in Conn, c = caller[t].conn,
         UNCHANGED results,
         \A u \in Caller \ {t} : caller'[u] = caller[u], caller'[t].pc = "idle",
         free' = Append(free, c), Quiet(conn'[c]),
         \A d \in Conn : d # c => conn'[d] = conn[d]
  PROVE  PlacesInv'
<1>1. PlacesInv /\ free \in Seq(Conn)
  BY Types DEF Inv
<1>2. \A i \in DOMAIN free : free[i] \in Conn /\ free[i] # c
  BY <1>1 DEF PlacesInv
<1>3. /\ Len(free) \in Nat /\ DOMAIN free = 1 .. Len(free)
      /\ DOMAIN free' = 1 .. Len(free) + 1 /\ free'[Len(free) + 1] = c
      /\ \A i \in 1 .. Len(free) : free'[i] = free[i]
  BY <1>1
<1>4. \A i \in DOMAIN free' : \/ i = Len(free) + 1 /\ free'[i] = c
                              \/ i \in DOMAIN free /\ free'[i] = free[i]
  BY <1>3
<1>5. \A i \in DOMAIN free' : Quiet(conn'[free'[i]])
  BY <1>1, <1>2, <1>4 DEF PlacesInv
<1>6. \A i, j \in DOMAIN free' : free'[i] = free'[j] => i = j
  BY <1>1, <1>2, <1>4 DEF PlacesInv
<1>7. \A u \in Caller : Holding(u)' =>
        /\ u # t /\ Holding(u) /\ caller'[u] = caller[u] /\ caller[u].conn \in Conn
        /\ caller[u].conn # c /\ conn'[caller[u].conn] = conn[caller[u].conn]
  BY <1>1 DEF PlacesInv, Holding
<1>8. \A u \in Caller : (Holding(u)' => caller'[u].conn \in Conn
                                        /\ conn'[caller'[u].conn].client = "open")
  BY <1>1, <1>7 DEF PlacesInv
<1>9. \A u \in Caller : (At(u, "send")' => Quiet(conn'[caller'[u].conn]))
  BY <1>1, <1>7 DEF PlacesInv, Holding, At
<1>10. \A u \in Caller :
         (At(u, "receive")' => Answers(conn'[caller'[u].conn], caller'[u], results'))
  BY <1>1, <1>7 DEF PlacesInv, Holding, At
<1>11. \A u, w \in Caller :
         (Holding(u)' /\ Holding(w)' /\ caller'[u].conn = caller'[w].conn => u = w)
  BY <1>1, <1>7 DEF PlacesInv
<1>12. \A u \in Caller, i \in DOMAIN free' : (Holding(u)' => caller'[u].conn # free'[i])
  BY <1>1, <1>4, <1>7 DEF PlacesInv
<1>. QED  BY <1>5, <1>6, <1>8, <1>9, <1>10, <1>11, <1>12 DEF PlacesInv

LEMMA ReceiveInv ==
  ASSUME Inv, NEW t \in Caller, Receive(t)
  PROVE  Inv'
<1>1. /\ At(t, "receive") /\ conn[caller[t].conn].toClient # <<>>
      /\ conn' = [conn EXCEPT ![caller[t].conn].toClient = Tail(@)]
      /\ highest' = IF Head(conn[caller[t].conn].toClient).num > highest
                    THEN Head(conn[caller[t].conn].toClient).num ELSE highest
      /\ free' = Append(free, caller[t].conn) /\ Finish(t)
      /\ UNCHANGED <<listener, counter, results, created, calls>>
  BY DEF Receive, serverVars
<1>2. PICK c \in Conn : c = caller[t].conn
  BY <1>1, OwnAnswers
<1>3. conn[c].client = "open" /\ Holding(t) /\ ~ At(t, "idle")
  BY <1>1, <1>2, OwnAnswers DEF Holding, At
<1>4. conn[c].toServer = <<>> /\ conn[c].server \in {"backlog", "read", "gone"}
  BY <1>1, <1>2, AnswerThere
<1>5. PICK v \in Nat : /\ v <= counter /\ v \in results[caller[t].call]
                       /\ conn[c].toClient = <<[tag |-> TagOf(t), num |-> v]>>
  BY <1>1, <1>2, AnswerThere
<1>6. Tail(conn[c].toClient) = <<>> /\ Head(conn[c].toClient).num = v
  BY <1>5
<1>. DEFINE k == [conn[c] EXCEPT !.toClient = <<>>]
<1>7. conn[c] \in ConnType /\ Wire(conn[c], calls, results)
  BY ConnTypes
<1>8. conn' = [conn EXCEPT ![c] = k]
  BY <1>1, <1>2, <1>6, <1>7 DEF ConnType
<1>9. /\ k \in ConnType /\ k.toClient = <<>> /\ k.client = conn[c].client
      /\ k.server = conn[c].server /\ k.toServer = conn[c].toServer
      /\ k.cmd = conn[c].cmd /\ k.resp = conn[c].resp
  <2>1. <<>> \in Seq([tag : Tag, num : Nat])
    OBVIOUS
  <2>. QED  BY <1>7, <2>1 DEF ConnType
<1>. HIDE DEF k
<1>10. /\ conn' \in [Conn -> ConnType] /\ conn'[c] = k
       /\ \A d \in Conn : d # c => conn'[d] = conn[d]
  BY <1>8, <1>9, Types
<1>11. /\ caller' \in [Caller -> CallerType] /\ caller'[t] = Idle
       /\ CallersInv' /\ \A u \in Caller \ {t} : caller'[u] = caller[u]
  BY <1>1, <1>3, IdleType, CallerMoves DEF Finish
<1>12. caller'[t].pc = "idle" /\ Quiet(conn'[c])
  BY <1>3, <1>4, <1>9, <1>10, <1>11, IdleType DEF Quiet
<1>13. PlacesInv'
  BY <1>1, <1>2, <1>3, <1>10, <1>11, <1>12, PutPlaces
<1>14. ConnsInv'
  <2>1. Wire(k, calls, results)
    BY <1>3, <1>4, <1>9 DEF Wire
  <2>2. \A d \in Conn : Wire(conn'[d], calls, results)
    BY <1>10, <2>1 DEF Inv, ConnsInv
  <2>. QED  BY <1>1, <2>2 DEF ConnsInv
<1>15. LoadInv'
  <2>1. \A d \in Conn : /\ conn'[d].toServer = conn[d].toServer
                        /\ conn'[d].server = conn[d].server /\ conn'[d].cmd = conn[d].cmd
    BY <1>9, <1>10
  <2>2. \A n \in 1 .. MaxCalls : Outstanding(n)' \subseteq Outstanding(n)
    BY <2>1 DEF Outstanding
  <2>. QED  BY <1>1, <1>3, <1>11, <1>12, <2>2, CallerLoadKept DEF At
<1>16. UsedInv'
  <2>1. UsedConns' = UsedConns
    BY <1>9, <1>10 DEF UsedConns
  <2>. QED  BY <1>1, <2>1 DEF Inv, UsedInv
<1>17. highest' \in Nat /\ highest' <= counter
  BY <1>1, <1>2, <1>5, <1>6, Types DEF Inv, NumbersInv
<1>18. NumbersInv'
  BY <1>1, <1>17 DEF Inv, NumbersInv
<1>19. TypeOK'
  <2>1. free' \in Seq(Conn)
    BY <1>1, <1>2, Types
  <2>. QED  BY <1>1, <1>10, <1>11, <1>17, <2>1, Types, Typed
<1>. QED  BY <1>11, <1>13, <1>14, <1>15, <1>16, <1>18, <1>19 DEF Inv

-------------------------------------------------------------------------------
(* The invariant *)

LEMMA InitInv == Init => Inv
<1>. SUFFICES ASSUME Init PROVE Inv
  OBVIOUS
<1>1. /\ listener = "none" /\ counter = 0 /\ conn = [c \in Conn |-> Unused] /\ free = <<>>
      /\ created = 0 /\ caller = [t \in Caller |-> Idle] /\ calls = 0 /\ highest = 0
      /\ results = [n \in 1 .. MaxCalls |-> {}]
  BY DEF Init
<1>2. /\ Unused \in ConnType /\ Unused.client = "none" /\ Unused.server = "none"
      /\ Unused.toServer = <<>> /\ Unused.toClient = <<>>
  BY DEF Unused, ConnType
<1>3. \A c \in Conn : conn[c] = Unused
  BY <1>1
<1>4. \A t \in Caller : caller[t].pc = "idle" /\ caller[t] \in CallerType
  BY <1>1, IdleType
<1>5. TypeOK
  BY <1>1, <1>2, <1>4, Constants DEF TypeOK, ConnType, CallerType
<1>6. ConnsInv
  BY <1>2, <1>3 DEF ConnsInv, Wire
<1>7. PlacesInv /\ CallersInv
  BY <1>1, <1>4 DEF PlacesInv, CallersInv, Holding, At
<1>8. NumbersInv
  BY <1>1 DEF NumbersInv
<1>9. LoadInv
  <2>1. ASSUME NEW n \in 1 .. MaxCalls PROVE Load(n) = 0
    <3>1. Outstanding(n) = {} /\ results[n] = {}
      BY <1>1, <1>2, <1>3 DEF Outstanding
    <3>. QED  BY <3>1, FS_EmptySet DEF Load
  <2>. QED  BY <1>4, <2>1, Constants DEF LoadInv, At
<1>10. UsedInv
  <2>1. UsedConns = {}
    BY <1>2, <1>3 DEF UsedConns
  <2>. QED  BY <1>1, <2>1, FS_EmptySet DEF UsedInv
<1>. QED  BY <1>5, <1>6, <1>7, <1>8, <1>9, <1>10 DEF Inv

LEMMA StutterInv ==
  ASSUME Inv, UNCHANGED vars
  PROVE  Inv'
<1>1. UNCHANGED <<listener, counter, results, conn, free, created, caller, calls, highest>>
  BY DEF vars, serverVars, poolVars, callVars
<1>2. TypeOK' /\ ConnsInv' /\ CallersInv' /\ NumbersInv'
  BY <1>1 DEF Inv, TypeOK, ConnsInv, CallersInv, NumbersInv, At
<1>3. UsedConns' = UsedConns /\ \A n : Outstanding(n)' = Outstanding(n)
  BY <1>1 DEF UsedConns, Outstanding
<1>4. UsedInv' /\ LoadInv'
  BY <1>1, <1>3 DEF Inv, UsedInv, LoadInv, Load, Sent, At
<1>5. /\ \A t \in Caller : Holding(t)' = Holding(t)
      /\ \A t \in Caller : /\ At(t, "send")' = At(t, "send")
                           /\ At(t, "receive")' = At(t, "receive")
  BY <1>1 DEF Holding, At
<1>6. PlacesInv'
  BY <1>1, <1>5 DEF Inv, PlacesInv
<1>. QED  BY <1>2, <1>4, <1>6 DEF Inv

LEMMA StepInv == Inv /\ [Next]_vars => Inv'
<1>. SUFFICES ASSUME Inv, [Next]_vars PROVE Inv'
  OBVIOUS
<1>1. ASSUME NEW t \in Caller, Incr(t) \/ ClientStep(t) PROVE Inv'
  <2>1. CASE Incr(t)
    BY <2>1, IncrInv
  <2>2. CASE GetPooled(t)
    BY <2>2, GetPooledInv
  <2>3. CASE Dial(t)
    BY <2>3, DialInv
  <2>4. CASE PoolTimeout(t)
    BY <2>4, PoolTimeoutInv
  <2>5. CASE Send(t)
    BY <2>5, SendInv
  <2>6. CASE Receive(t)
    BY <2>6, ReceiveInv
  <2>7. CASE ReadFails(t)
    BY <2>7, ReadFailsInv
  <2>. QED  BY <1>1, <2>1, <2>2, <2>3, <2>4, <2>5, <2>6, <2>7 DEF ClientStep
<1>2. ASSUME NEW c \in Conn, ServerStep(c) PROVE Inv'
  <2>1. CASE Accept(c)
    BY <2>1, AcceptInv
  <2>2. CASE ReadCommand(c)
    BY <2>2, ReadCommandInv
  <2>3. CASE ReadEnds(c)
    BY <2>3, ReadEndsInv
  <2>4. CASE Execute(c)
    BY <2>4, ExecuteInv
  <2>5. CASE WriteResponse(c)
    BY <2>5, WriteResponseInv
  <2>. QED  BY <1>2, <2>1, <2>2, <2>3, <2>4, <2>5 DEF ServerStep
<1>3. CASE Start \/ Stop \/ Exit
  BY <1>3, StartInv, StopInv, ExitInv
<1>4. CASE UNCHANGED vars
  BY <1>4, StutterInv
<1>. QED  BY <1>1, <1>2, <1>3, <1>4 DEF Next

\* The exchanges of clients and server stay in order, whatever fails: what is under
\* way on a connection belongs to the one caller that uses it (client.go:294-349,
\* server.go:163-193).
THEOREM RpcInvariant == Spec => []Inv
<1>. QED  BY InitInv, StepInv, PTL DEF Spec

\* The state keeps its types: the counter of the pool stays within its limit
\* (client.go:1078-1095).
THEOREM RpcAlwaysTyped == Spec => []TypeOK
<1>1. Inv => TypeOK
  BY DEF Inv
<1>. QED  BY <1>1, RpcInvariant, PTL

\* The response a caller reads is the only one on its connection, and answers the
\* command of this very attempt, though the wire carries no identifiers
\* (client.go:321-341: a connection whose exchange failed is closed, not pooled).
THEOREM RepliesMatchCommands == Spec => []ReplyToOwnCommand
<1>1. Inv => ReplyToOwnCommand
  <2>. SUFFICES ASSUME Inv, NEW t \in Caller, At(t, "receive"),
                       NEW i \in DOMAIN conn[caller[t].conn].toClient
                PROVE  i = 1 /\ conn[caller[t].conn].toClient[1].tag = TagOf(t)
    BY DEF ReplyToOwnCommand
  <2>1. conn[caller[t].conn].toClient # <<>>
    OBVIOUS
  <2>2. PICK v \in Nat : conn[caller[t].conn].toClient = <<[tag |-> TagOf(t), num |-> v]>>
    BY <2>1, AnswerThere
  <2>. QED  BY <2>2
<1>. QED  BY <1>1, RpcInvariant, PTL

\* INCR counts upwards for its callers: a call is answered with a number above those
\* that all calls completed before it began were answered with (pkg/doc.go:105).
THEOREM NumbersGrowForCallers == Spec => []RepliesGrow
<1>1. Inv => RepliesGrow
  <2>. SUFFICES ASSUME Inv, NEW t \in Caller, At(t, "receive"),
                       NEW i \in DOMAIN conn[caller[t].conn].toClient
                PROVE  conn[caller[t].conn].toClient[i].num > caller[t].floor
    BY DEF RepliesGrow
  <2>1. conn[caller[t].conn].toClient # <<>>
    OBVIOUS
  <2>2. PICK v \in Nat : /\ v > caller[t].floor
                         /\ conn[caller[t].conn].toClient = <<[tag |-> TagOf(t), num |-> v]>>
    BY <2>1, AnswerThere
  <2>. QED  BY <2>2
<1>. QED  BY <1>1, RpcInvariant, PTL

-------------------------------------------------------------------------------
(* What callers rely on *)

AbstractStep == [AtLeastOnce!Next]_(AtLeastOnce!vars)

LEMMA AbstractStutters ==
  ASSUME UNCHANGED <<counter, calls, results, highest>>, Pending' = Pending
  PROVE  AbstractStep
BY DEF AbstractStep, AtLeastOnce!vars

\* As long as the caller goes on, its call is pending; then it is not any more.
LEMMA PendingMoves ==
  ASSUME Inv, NEW t \in Caller, ~ At(t, "idle"),
         \A u \in Caller \ {t} : caller'[u] = caller[u]
  PROVE  /\ caller[t].call \in Pending /\ caller[t].call \in 1 .. MaxCalls
         /\ ~ At(t, "idle")' /\ caller'[t].call = caller[t].call => Pending' = Pending
         /\ At(t, "idle")' => Pending' = Pending \ {caller[t].call}
<1>1. caller[t].call \in 1 .. MaxCalls
  BY Types, Constants DEF Inv, CallersInv
<1>2. caller[t].call \in Pending
  BY DEF Pending
<1>3. \A u \in Caller \ {t} : /\ At(u, "idle")' = At(u, "idle")
                              /\ caller'[u] = caller[u]
                              /\ ~ At(u, "idle") => caller[u].call # caller[t].call
  BY DEF At, Inv, CallersInv
<1>4. ASSUME ~ At(t, "idle")', caller'[t].call = caller[t].call
      PROVE  Pending' = Pending
  BY <1>3, <1>4 DEF Pending
<1>5. ASSUME At(t, "idle")'
      PROVE  Pending' = Pending \ {caller[t].call}
  BY <1>3, <1>5 DEF Pending
<1>. QED  BY <1>1, <1>2, <1>4, <1>5

\* An attempt ends without a response: a stutter, or the call fails.
LEMMA NextAttemptFails ==
  ASSUME Inv, NEW t \in Caller, ~ At(t, "idle"), NextAttempt(t),
         UNCHANGED <<counter, calls, results, highest>>
  PROVE  AbstractStep
<1>1. PICK l \in CallerType :
        /\ caller' = [caller EXCEPT ![t] = l] /\ l.pc \in {"idle", "get"}
        /\ l.pc = "get" => l.call = caller[t].call
  BY StartsAgain
<1>2. caller'[t] = l /\ \A u \in Caller \ {t} : caller'[u] = caller[u]
  BY <1>1, Types
<1>3. PICK n \in 1 .. MaxCalls : n = caller[t].call /\ n \in Pending
  BY <1>2, PendingMoves
<1>4. CASE l.pc = "get"
  <2>1. Pending' = Pending
    BY <1>1, <1>2, <1>4, PendingMoves DEF At
  <2>. QED  BY <2>1, AbstractStutters
<1>5. CASE l.pc = "idle"
  <2>1. Pending' = Pending \ {n}
    BY <1>2, <1>3, <1>5, PendingMoves DEF At
  <2>2. AtLeastOnce!Fail(n)
    BY <1>3, <2>1 DEF AtLeastOnce!Fail
  <2>. QED  BY <2>2 DEF AbstractStep, AtLeastOnce!Next
<1>. QED  BY <1>1, <1>4, <1>5

LEMMA IncrBegins ==
  ASSUME Inv, NEW t \in Caller, Incr(t)
  PROVE  AbstractStep
<1>1. /\ At(t, "idle") /\ calls < MaxCalls /\ calls' = calls + 1
      /\ caller' = [caller EXCEPT ![t] = [Idle EXCEPT !.pc = "get", !.call = calls',
                                                     !.floor = highest]]
      /\ UNCHANGED <<counter, results, highest>>
  BY DEF Incr, serverVars
<1>2. /\ caller'[t].pc = "get" /\ caller'[t].call = calls'
      /\ \A u \in Caller \ {t} : caller'[u] = caller[u]
  BY <1>1, Types DEF Idle
<1>3. Pending' = Pending \cup {calls'}
  BY <1>1, <1>2 DEF Pending, At
<1>4. AtLeastOnce!Begin
  BY <1>1, <1>3 DEF AtLeastOnce!Begin
<1>. QED  BY <1>4 DEF AbstractStep, AtLeastOnce!Next

\* A command waits to be executed: its call had fewer executions than attempts.
LEMMA ExecuteExecutes ==
  ASSUME Inv, NEW c \in Conn, Execute(c)
  PROVE  AbstractStep
<1>1. /\ conn[c].server = "execute" /\ counter' = counter + 1
      /\ results' = [results EXCEPT ![conn[c].cmd.call] = @ \cup {counter'}]
      /\ UNCHANGED <<caller, calls, highest>>
  BY DEF Execute, callVars
<1>2. PICK n \in 1 .. MaxCalls : n = conn[c].cmd.call /\ n <= calls
  BY <1>1, ConnTypes DEF Wire, Tag
<1>3. c \in Outstanding(n)
  BY <1>1, <1>2 DEF Outstanding
<1>4. /\ IsFiniteSet(Outstanding(n)) /\ Cardinality(Outstanding(n)) \in Nat
      /\ Cardinality(results[n]) \in Nat
  BY LoadTypes
<1>5. Cardinality(Outstanding(n)) > 0
  <2>1. Outstanding(n) # {}
    BY <1>3
  <2>2. Cardinality(Outstanding(n)) # 0
    BY <1>4, <2>1, FS_EmptySet
  <2>. QED  BY <1>4, <2>2
<1>6. Cardinality(results[n]) + Cardinality(Outstanding(n)) <= RetryAttempts + 1
  BY DEF Inv, LoadInv, Load
<1>7. Cardinality(results[n]) < RetryAttempts + 1
  BY <1>4, <1>5, <1>6, Constants
<1>8. Pending' = Pending
  BY <1>1 DEF Pending, At
<1>9. AtLeastOnce!Execute(n)
  <2>1. results' = [results EXCEPT ![n] = @ \cup {counter'}]
    BY <1>1, <1>2
  <2>2. UNCHANGED <<calls, Pending, highest>>
    BY <1>1, <1>8
  <2>3. AtLeastOnce!Cardinality(results[n]) = Cardinality(results[n])
    BY DEF AtLeastOnce!Cardinality, Cardinality
  <2>. QED  BY <1>1, <1>2, <1>7, <2>1, <2>2, <2>3 DEF AtLeastOnce!Execute
<1>. QED  BY <1>9 DEF AbstractStep, AtLeastOnce!Next

\* The number a call returns is that of one of its executions.
LEMMA ReceiveReturns ==
  ASSUME Inv, NEW t \in Caller, Receive(t)
  PROVE  AbstractStep
<1>1. /\ At(t, "receive") /\ conn[caller[t].conn].toClient # <<>>
      /\ highest' = IF Head(conn[caller[t].conn].toClient).num > highest
                    THEN Head(conn[caller[t].conn].toClient).num ELSE highest
      /\ caller' = [caller EXCEPT ![t] = Idle]
      /\ UNCHANGED <<counter, results, calls>>
  BY DEF Receive, serverVars, Finish
<1>2. caller'[t].pc = "idle" /\ \A u \in Caller \ {t} : caller'[u] = caller[u]
  BY <1>1, IdleType, Types
<1>3. PICK n \in 1 .. MaxCalls : /\ n = caller[t].call /\ n \in Pending
                                 /\ Pending' = Pending \ {n}
  BY <1>1, <1>2, PendingMoves DEF At
<1>4. PICK v \in results[n] : conn[caller[t].conn].toClient = <<[tag |-> TagOf(t), num |-> v]>>
  BY <1>1, <1>3, AnswerThere
<1>5. highest' = IF v > highest THEN v ELSE highest
  BY <1>1, <1>4
<1>6. AtLeastOnce!Return(n)
  BY <1>1, <1>3, <1>5 DEF AtLeastOnce!Return
<1>. QED  BY <1>6 DEF AbstractStep, AtLeastOnce!Next

LEMMA HoldStutters ==
  ASSUME Inv, NEW t \in Caller, ~ At(t, "idle"),
         \/ \E c \in Conn : Hold(t, c)
         \/ caller' = [caller EXCEPT ![t].pc = "receive"],
         UNCHANGED <<counter, calls, results, highest>>
  PROVE  AbstractStep
<1>1. /\ ~ At(t, "idle")' /\ caller'[t].call = caller[t].call
      /\ \A u \in Caller \ {t} : caller'[u] = caller[u]
  <2>1. caller[t] \in CallerType /\ caller \in [Caller -> CallerType]
    BY Types
  <2>. QED  BY <2>1 DEF Hold, At, CallerType
<1>. QED  BY <1>1, PendingMoves, AbstractStutters

LEMMA StepsRefine ==
  ASSUME Inv, [Next]_vars
  PROVE  AbstractStep
<1>1. ASSUME NEW t \in Caller, ClientStep(t) PROVE AbstractStep
  <2>1. CASE GetPooled(t)
    <3>1. Head(free) \in Conn
      BY <2>1, TailOfFree DEF GetPooled
    <3>. QED  BY <2>1, <3>1, HoldStutters DEF GetPooled, At, serverVars, callVars
  <2>2. CASE Dial(t)
    <3>1. FreshConn \in Conn
      BY <2>2, FreshConnExists DEF Dial
    <3>2. ~ At(t, "idle") /\ UNCHANGED <<counter, calls, results, highest>>
          /\ (Hold(t, FreshConn) \/ NextAttempt(t))
      BY <2>2 DEF Dial, At, serverVars, callVars
    <3>. QED  BY <3>1, <3>2, HoldStutters, NextAttemptFails
  <2>3. CASE PoolTimeout(t)
    BY <2>3, NextAttemptFails DEF PoolTimeout, At, serverVars, callVars
  <2>4. CASE Send(t)
    <3>1. ~ At(t, "idle") /\ UNCHANGED <<counter, calls, results, highest>>
          /\ (caller' = [caller EXCEPT ![t].pc = "receive"] \/ NextAttempt(t))
      BY <2>4 DEF Send, Discard, At, serverVars, callVars
    <3>. QED  BY <3>1, HoldStutters, NextAttemptFails
  <2>5. CASE Receive(t)
    BY <2>5, ReceiveReturns
  <2>6. CASE ReadFails(t)
    BY <2>6, NextAttemptFails DEF ReadFails, Discard, At, serverVars, callVars
  <2>. QED  BY <1>1, <2>1, <2>2, <2>3, <2>4, <2>5, <2>6 DEF ClientStep
<1>2. ASSUME NEW t \in Caller, Incr(t) PROVE AbstractStep
  BY <1>2, IncrBegins
<1>3. ASSUME NEW c \in Conn, Execute(c) PROVE AbstractStep
  BY <1>3, ExecuteExecutes
<1>4. ASSUME UNCHANGED <<counter, results, caller, calls, highest>> PROVE AbstractStep
  <2>1. Pending' = Pending
    BY <1>4 DEF Pending, At
  <2>. QED  BY <1>4, <2>1, AbstractStutters
<1>5. ASSUME NEW c \in Conn, ServerStep(c) PROVE AbstractStep
  BY <1>3, <1>4, <1>5
     DEF ServerStep, Accept, ReadCommand, ReadEnds, WriteResponse, serverVars, callVars
<1>6. CASE Start \/ Stop \/ Exit \/ UNCHANGED vars
  BY <1>4, <1>6 DEF Start, Stop, Exit, vars, serverVars, callVars
<1>. QED  BY <1>1, <1>2, <1>5, <1>6 DEF Next

LEMMA InitRefines == Init => AtLeastOnce!Init
<1>1. Init => Pending = {}
  BY DEF Init, Pending, At, Idle
<1>. QED  BY <1>1 DEF Init, AtLeastOnce!Init

\* The client's retries, the pool and the server together keep the promise of
\* AtLeastOnce to callers of Incr: at most one execution per attempt, none before the
\* call began, and a number returned is that of an execution of the very call
\* (client.go:294-349, server.go:163-193).
THEOREM RpcImplementsAtLeastOnce == Spec => AtLeastOnceSpec
<1>1. Inv /\ [Next]_vars => [AtLeastOnce!Next]_(AtLeastOnce!vars)
  BY StepsRefine DEF AbstractStep
<1>. QED  BY <1>1, InitRefines, RpcInvariant, PTL DEF Spec, AtLeastOnceSpec, AtLeastOnce!Spec
===============================================================================
