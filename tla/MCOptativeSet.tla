---------------------------- MODULE MCOptativeSet ----------------------------
(* OptativeSet on small instances. *)
EXTENDS OptativeSet
=============================================================================
