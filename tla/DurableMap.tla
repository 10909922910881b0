----------------------------- MODULE DurableMap -----------------------------
(***************************************************************************)
(* What `OptativeJsonSet` (optative/src/json_set.rs) promises whoever uses *)
(* it: the map it keeps in memory outlives it.  Opening finds the last map *)
(* saved; a call brings the map towards what was asked, key by key, and    *)
(* then saves all of it in one step, or tells the caller that it did not.  *)
(* Nothing here has siblings, torn files or a directory to clean.  Several *)
(* processes may share the file: the last to save wins, the loser is not   *)
(* told.                                                                   *)
(***************************************************************************)
EXTENDS KeyedStore

CONSTANTS Process, NoFile

VARIABLES
  stored, \* the map saved last, or NoFile
  at,     \* where each process is: down, idle, or in a call: applying, saving
  held,   \* the map a process holds
  asked,  \* what its last call was asked for
  told    \* was it told that the last save failed?

vars == <<stored, at, held, asked, told>>

Init ==
  /\ stored \in Store \cup {NoFile}
  /\ at = [p \in Process |-> "down"]
  /\ held = [p \in Process |-> Empty] /\ asked = [p \in Process |-> Empty]
  /\ told = [p \in Process |-> FALSE]

Move(p, from, to) == at[p] = from /\ at' = [at EXCEPT ![p] = to]

Open(p) ==
  /\ Move(p, "down", "idle")
  /\ held' = [held EXCEPT ![p] = IF stored = NoFile THEN Empty ELSE stored]
  /\ UNCHANGED <<stored, asked, told>>

Call(p) ==
  /\ Move(p, "idle", "applying")
  /\ \E m \in Store : asked' = [asked EXCEPT ![p] = m]
  /\ UNCHANGED <<stored, held, told>>

\* One entry becomes what was asked, or is left with something else by an
\* update that failed: what is not asked never stays or appears.
Apply(p, k) ==
  /\ at[p] = "applying"
  /\ \E v \in Value \cup {None} :
       /\ \/ v = asked[p][k]
          \/ None \notin {v, held[p][k], asked[p][k]}
       /\ held' = [held EXCEPT ![p][k] = v]
  /\ UNCHANGED <<stored, at, asked, told>>

\* The map is only saved when nothing is in it that was not asked for.
Settle(p) ==
  /\ Move(p, "applying", "saving")
  /\ Held(held[p]) \subseteq Held(asked[p])
  /\ UNCHANGED <<stored, held, asked, told>>

Save(p) ==
  /\ Move(p, "saving", "idle")
  /\ stored' = held[p]
  /\ told' = [told EXCEPT ![p] = FALSE]
  /\ UNCHANGED <<held, asked>>

Fail(p) ==
  /\ Move(p, "applying", "idle") \/ Move(p, "saving", "idle")
  /\ told' = [told EXCEPT ![p] = TRUE]
  /\ UNCHANGED <<stored, held, asked>>

Die(p) ==
  /\ at[p] # "down" /\ at' = [at EXCEPT ![p] = "down"]
  /\ held' = [held EXCEPT ![p] = Empty] /\ asked' = [asked EXCEPT ![p] = Empty]
  /\ told' = [told EXCEPT ![p] = FALSE]
  /\ UNCHANGED stored

Next ==
  \E p \in Process :
    \/ Open(p) \/ Call(p) \/ (\E k \in Key : Apply(p, k))
    \/ Settle(p) \/ Save(p) \/ Fail(p) \/ Die(p)

Spec == Init /\ [][Next]_vars
=============================================================================
