------------------------------ MODULE MCJsonSet ------------------------------
(* JsonSet on a small instance: the file is used by one process or by two.    *)
(* Two goals, from each other and from no file, need every hook.              *)
EXTENDS JsonSet

CONSTANTS k1, k2, v1, v2

BothOne ==
  {[k \in Key |-> v1], [k \in Key |-> IF k = k1 THEN v2 ELSE None]}

\* By the number of users: alone, a process meets more trouble.
Two_One == <<2, 1>>
=============================================================================
