---------------------------- MODULE MCPromptTask ----------------------------
(* PromptTask on a small instance: a kind that observes, one with a file, and *)
(* keys a/b and a_b, which ask for one task file.                             *)
EXTENDS PromptTask

CONSTANTS o, f, a_slash_b, a_b, a_b_md, c1, c2, v1, v2

OneName == [x \in Key |-> a_b_md]

Nested == [u \in Unit |-> IF u[1] = o THEN <<c1, c2>> ELSE <<c2>>]

Some ==
  {[x \in Key |-> v1],
   [x \in Key |-> IF x = a_b THEN v2 ELSE None]}
=============================================================================
