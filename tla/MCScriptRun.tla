----------------------------- MODULE MCScriptRun -----------------------------
(* ScriptRun for TLC.  Keys and values are only compared with each other, so  *)
(* three goals stand for the others: nothing; both keys alike; one key, with  *)
(* another value.                                                             *)
EXTENDS ScriptRun

CONSTANTS a, b, v, w

NothingBothOne ==
  {Empty, [x \in Key |-> v], [x \in Key |-> IF x = a THEN w ELSE None]}

Anything == Store
=============================================================================
