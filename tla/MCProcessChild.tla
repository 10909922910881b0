--------------------------- MODULE MCProcessChild ---------------------------
(* ProcessChild for TLC: one tick is 200 ms.                                  *)
EXTENDS ProcessChild
=============================================================================
