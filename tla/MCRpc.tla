--------------------------------- MODULE MCRpc ---------------------------------
(* A small instance of Rpc: two callers share the connections to one server. *)
EXTENDS Rpc, TLC

CONSTANTS t1, t2

MCCaller == {t1, t2}
===============================================================================
