----------------------------- MODULE MCClientPool -----------------------------
(* Small instances of ClientPool: two nodes, one virtual node each, and one key *)
(* for each of them.                                                            *)
EXTENDS ClientPool, TLC

CONSTANTS n1, n2, k1, k2, t1, t2

MCNode == {n1, n2}
MCPosition == 0 .. 3
MCKey == {k1, k2}
MCKeyHash == (k1 :> 0) @@ (k2 :> 2)
MCPlacements == {(n1 :> (0 :> 1)) @@ (n2 :> (0 :> 3))}
MCThread == {t1, t2}
===============================================================================
