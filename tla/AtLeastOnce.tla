----------------------------- MODULE AtLeastOnce -----------------------------
(***************************************************************************)
(* What a caller of Incr may rely on, whatever happens to connections,     *)
(* deadlines, retries and the server: a call takes effect at most once per *)
(* attempt, and not before it began; one that returned a number took       *)
(* effect, and got the number of one of its own executions; one that       *)
(* failed may have taken effect, and may do so later.  Nothing is said of  *)
(* connections, pools or messages: Rpc implements this module.             *)
(***************************************************************************)
EXTENDS Integers, FiniteSets

CONSTANTS MaxCalls,  \* calls are 1 .. MaxCalls, in the order they begin
          Attempts   \* attempts of a call

VARIABLES number,    \* the key's number
          begun,     \* calls that have begun
          pending,   \* calls that have not returned
          results,   \* the numbers the executions of a call have made
          highest    \* the highest number a call returned

vars == <<number, begun, pending, results, highest>>

Init == /\ number = 0 /\ begun = 0 /\ highest = 0
        /\ pending = {}
        /\ results = [n \in 1 .. MaxCalls |-> {}]

Begin == /\ begun < MaxCalls
         /\ begun' = begun + 1
         /\ pending' = pending \cup {begun'}
         /\ UNCHANGED <<number, results, highest>>

\* The call need not be pending any more.
Execute(n) == /\ n <= begun /\ Cardinality(results[n]) < Attempts
              /\ number' = number + 1
              /\ results' = [results EXCEPT ![n] = @ \cup {number'}]
              /\ UNCHANGED <<begun, pending, highest>>

Return(n) == /\ n \in pending
             /\ pending' = pending \ {n}
             /\ \E v \in results[n] : highest' = IF v > highest THEN v ELSE highest
             /\ UNCHANGED <<number, begun, results>>

Fail(n) == /\ n \in pending
           /\ pending' = pending \ {n}
           /\ UNCHANGED <<number, begun, results, highest>>

Next == Begin \/ \E n \in 1 .. MaxCalls : Execute(n) \/ Return(n) \/ Fail(n)

Spec == Init /\ [][Next]_vars
===============================================================================
