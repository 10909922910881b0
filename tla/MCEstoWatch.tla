----------------------------- MODULE MCEstoWatch -----------------------------
(* EstoWatch for TLC.                                                         *)
EXTENDS EstoWatch
=============================================================================
