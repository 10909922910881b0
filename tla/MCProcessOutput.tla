--------------------------- MODULE MCProcessOutput ---------------------------
(* ProcessOutput on a small instance: two generations, three lines each.    *)
EXTENDS ProcessOutput
=============================================================================
