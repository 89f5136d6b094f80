-------------------------------- MODULE MCCache --------------------------------
(* Small instances of Cache.  int64 is -(MaxInt+1) .. MaxInt, w is a text that *)
(* is not an integer.                                                          *)
EXTENDS Cache, TLC

CONSTANT w

MCWord == {w}
MCInput == {1, w}
MCDelta == {-1, 1}
MCTtl == {-1, 0, 1}
MCBatch == {<<>>, <<w>>, <<1, w>>, <<w, w>>}
===============================================================================
