------------------------------- MODULE JsonSet -------------------------------
(***************************************************************************)
(* `OptativeJsonSet` (optative/src/json_set.rs): an OptativeSet whose map  *)
(* is kept in a jsonl file between runs.  Several processes may use the    *)
(* same file; nothing locks it.  A process opens the set (discards         *)
(* leftovers of interrupted writes, loads the file), reconciles (hooks,    *)
(* then a write to `<file>.new.<pid>` and a rename), and may die anywhere. *)
(*                                                                         *)
(* A process's own steps are as small as the calls other processes and a   *)
(* crash can come between: one removal, one hook, the two ends of a write, *)
(* one rename.  Of the world only the set of existing items is kept.       *)
(***************************************************************************)
EXTENDS KeyedStore, FiniteSets

CONSTANTS
  Proc,      \* process ids
  Goals,     \* the desired sets a script may ask for
  NoFile,    \* no file of this name
  Torn,      \* a file whose write has begun and not ended
  MaxFaults, \* bound: failed hooks and failed writes, by the number of users
  MaxStops,  \* bound: crashes and exits of processes, by the number of users
  MaxEdits   \* bound: changes of the desired set, by the number of users

ASSUME FilesAreNoStores ==
  NoFile \notin Store \cup {Torn} /\ Torn \notin Store

ASSUME ProcessesAreFinitelyMany == IsFiniteSet(Proc)
ASSUME GoalsAreStores == Goals \subseteq Store
ASSUME BoundsAreNumbers ==
  {MaxFaults, MaxStops, MaxEdits} \subseteq [1..Cardinality(Proc) -> Nat]

VARIABLES
  users,   \* the processes that ever use the file
  file,    \* the jsonl file
  fresh,   \* the siblings `<file>.new.<pid>`, by pid
  pc,      \* where each process is
  listed,  \* the siblings a process that opens has found and not removed yet
  inner,   \* OptativeJsonSet::inner, by process
  want,    \* the desired map of the call in progress
  todo,    \* keys of the call in progress no hook has visited
  persist_error, \* OptativeJsonSet::persist_error (is there one?)
  live,    \* items that exist in the world
  goal,    \* the desired set of the next call
  touched, \* history: keys entered or exited since the last rename, by process
  astray,  \* history: keys in `touched` of a process that has stopped
  orphans, \* history: keys whose exit failed, until they are entered again
  faults, stops, edits  \* what is left of the bounds

disk   == <<file, fresh>>
memory == <<listed, inner, want, todo, persist_error>>
world  == <<live, touched, astray, orphans>>
budget == <<faults, stops, edits>>
vars   == <<users, disk, pc, memory, world, goal, budget>>

Init ==
  /\ users \in (SUBSET Proc) \ {{}}
  /\ file \in Goals \cup {NoFile}
  /\ live = IF file = NoFile THEN {} ELSE Held(file)
  /\ goal \in Goals
  /\ fresh = [p \in Proc |-> NoFile]
  /\ pc = [p \in Proc |-> "down"]
  /\ listed = [p \in Proc |-> {}] /\ todo = [p \in Proc |-> {}]
  /\ inner = [p \in Proc |-> Empty] /\ want = [p \in Proc |-> Empty]
  /\ persist_error = [p \in Proc |-> FALSE]
  /\ touched = [p \in Proc |-> {}] /\ astray = {} /\ orphans = {}
  /\ faults = MaxFaults[Cardinality(users)]
  /\ stops = MaxStops[Cardinality(users)]
  /\ edits = MaxEdits[Cardinality(users)]

Goto(p, from, to) == pc[p] = from /\ pc' = [pc EXCEPT ![p] = to]
Fault == faults > 0 /\ faults' = faults - 1 /\ UNCHANGED <<stops, edits>>

-----------------------------------------------------------------------------
(* open                                                                    *)

\* clear_stale_new_files reads the directory ...
list_new_files(p) ==
  /\ Goto(p, "down", "clearing")
  /\ listed' = [listed EXCEPT ![p] = {q \in Proc : fresh[q] # NoFile}]
  /\ UNCHANGED <<disk, inner, want, todo, persist_error, world, goal, budget>>

\* ... and removes what it found, one file at a time.  A file that somebody
\* else renamed or removed meanwhile makes remove_file, hence open, fail.
remove_new_file(p, q) ==
  /\ pc[p] = "clearing" /\ q \in listed[p]
  /\ IF fresh[q] # NoFile
     THEN /\ fresh' = [fresh EXCEPT ![q] = NoFile]
          /\ listed' = [listed EXCEPT ![p] = @ \ {q}]
          /\ UNCHANGED pc
     ELSE /\ pc' = [pc EXCEPT ![p] = "down"]
          /\ listed' = [listed EXCEPT ![p] = {}]
          /\ UNCHANGED fresh
  /\ UNCHANGED <<file, inner, want, todo, persist_error, world, goal, budget>>

\* An absent file is an empty set; one that is torn does not parse, and one
\* that cannot be read fails open as well.
load(p) ==
  /\ listed[p] = {}
  /\ \/ /\ file # Torn
        /\ Goto(p, "clearing", "idle")
        /\ inner' = [inner EXCEPT ![p] = IF file = NoFile THEN Empty ELSE file]
        /\ UNCHANGED budget
     \/ /\ Goto(p, "clearing", "down")
        /\ IF file = Torn THEN UNCHANGED budget ELSE Fault
        /\ UNCHANGED inner
  /\ persist_error' = [persist_error EXCEPT ![p] = FALSE]
  /\ UNCHANGED <<disk, listed, want, todo, world, goal>>

-----------------------------------------------------------------------------
(* reconcile                                                               *)

reconcile(p) ==
  /\ Goto(p, "idle", "hooks")
  /\ want' = [want EXCEPT ![p] = goal]
  /\ todo' = [todo EXCEPT ![p] = Held(inner[p]) \cup Held(goal)]
  /\ UNCHANGED <<disk, listed, inner, persist_error, world, goal, budget>>

\* The keys the loop that is running has left: exits, then updates, then enters.
NextUp(p) ==
  LET exits   == todo[p] \cap exit_keys(inner[p], want[p])
      updates == todo[p] \cap update_keys(inner[p], want[p])
  IN  CASE exits # {} -> exits
        [] exits = {} /\ updates # {} -> updates
        [] OTHER -> todo[p]

Hook(p, k) ==
  /\ pc[p] = "hooks" /\ k \in NextUp(p)
  /\ todo' = [todo EXCEPT ![p] = @ \ {k}]
  /\ UNCHANGED <<disk, pc, listed, want, persist_error, astray, goal>>

exit(p, k) ==
  /\ k \in exit_keys(inner[p], want[p])
  /\ Hook(p, k)
  /\ inner' = [inner EXCEPT ![p][k] = None]
  /\ \/ /\ live' = live \ {k}
        /\ touched' = [touched EXCEPT ![p] = @ \cup {k}]
        /\ UNCHANGED <<orphans, budget>>
     \/ /\ Fault
        /\ orphans' = orphans \cup {k}
        /\ UNCHANGED <<live, touched>>

\* Mutant: a successful update does not write the stored value.
update_stale(p, k) ==
  /\ k \in update_keys(inner[p], want[p])
  /\ Hook(p, k)
  /\ UNCHANGED <<inner, live, touched, orphans, budget>>

update(p, k) ==
  /\ k \in update_keys(inner[p], want[p])
  /\ Hook(p, k)
  /\ \/ inner' = [inner EXCEPT ![p][k] = want[p][k]] /\ UNCHANGED budget
     \/ Fault /\ \E v \in Value : inner' = [inner EXCEPT ![p][k] = v]
  /\ UNCHANGED <<live, touched, orphans>>

\* Mutant: the entry is made whether or not the hook succeeds.
enter_eager(p, k) ==
  /\ k \in enter_keys(inner[p], want[p])
  /\ Hook(p, k)
  /\ inner' = [inner EXCEPT ![p][k] = want[p][k]]
  /\ \/ /\ live' = live \cup {k}
        /\ touched' = [touched EXCEPT ![p] = @ \cup {k}]
        /\ orphans' = orphans \ {k}
        /\ UNCHANGED budget
     \/ Fault /\ UNCHANGED <<live, touched, orphans>>

enter(p, k) ==
  /\ k \in enter_keys(inner[p], want[p])
  /\ Hook(p, k)
  /\ \/ /\ inner' = [inner EXCEPT ![p][k] = want[p][k]]
        /\ live' = live \cup {k}
        /\ touched' = [touched EXCEPT ![p] = @ \cup {k}]
        /\ orphans' = orphans \ {k}
        /\ UNCHANGED budget
     \/ Fault /\ UNCHANGED <<inner, live, touched, orphans>>

-----------------------------------------------------------------------------
(* persist                                                                 *)

\* Mutant: the sibling is shared by all processes.
new_file_path_shared(p) == CHOOSE q \in Proc : TRUE

\* Whose sibling a process writes: its own.
new_file_path(p) == p

\* Mutant: the error of persist is dropped.
PersistFails_silent(p) ==
  /\ pc' = [pc EXCEPT ![p] = "idle"]
  /\ UNCHANGED persist_error

\* persist returns early with an error; reconcile keeps it and returns.
PersistFails(p) ==
  /\ pc' = [pc EXCEPT ![p] = "idle"]
  /\ persist_error' = [persist_error EXCEPT ![p] = TRUE]

\* fs::write has created or truncated the sibling; or the directory or the
\* sibling could not be made.
write_begin(p) ==
  /\ pc[p] = "hooks" /\ todo[p] = {}
  /\ \/ /\ Goto(p, "hooks", "writing")
        /\ fresh' = [fresh EXCEPT ![new_file_path(p)] = Torn]
        /\ UNCHANGED <<persist_error, budget>>
     \/ Fault /\ PersistFails(p) /\ UNCHANGED fresh
  /\ UNCHANGED <<file, listed, inner, want, todo, world, goal>>

\* The content is written, into the sibling or, when that has been removed
\* under the writer, into nothing; or the write fails and leaves it torn.
write_end(p) ==
  /\ pc[p] = "writing"
  /\ \/ /\ Goto(p, "writing", "rename")
        /\ LET f == new_file_path(p)
           IN  fresh' = [fresh EXCEPT ![f] = IF @ = NoFile THEN NoFile ELSE inner[p]]
        /\ UNCHANGED <<persist_error, budget>>
     \/ Fault /\ PersistFails(p) /\ UNCHANGED fresh
  /\ UNCHANGED <<file, listed, inner, want, todo, world, goal>>

\* fs::rename fails when the sibling is gone, or for a reason of its own.
rename(p) ==
  /\ pc[p] = "rename"
  /\ LET f == new_file_path(p)
     IN  \/ /\ fresh[f] # NoFile
           /\ file' = fresh[f]
           /\ fresh' = [fresh EXCEPT ![f] = NoFile]
           /\ pc' = [pc EXCEPT ![p] = "idle"]
           /\ persist_error' = [persist_error EXCEPT ![p] = FALSE]
           /\ astray' = astray \ touched[p]
           /\ touched' = [touched EXCEPT ![p] = {}]
           /\ UNCHANGED budget
        \/ /\ IF fresh[f] = NoFile THEN UNCHANGED budget ELSE Fault
           /\ PersistFails(p)
           /\ UNCHANGED <<disk, astray, touched>>
  /\ UNCHANGED <<listed, inner, want, todo, live, orphans, goal>>

-----------------------------------------------------------------------------
(* Everything else.                                                        *)

\* A process ends, between two calls or in the middle of anything.
stop(p) ==
  /\ stops > 0 /\ stops' = stops - 1
  /\ pc[p] # "down" /\ pc' = [pc EXCEPT ![p] = "down"]
  /\ listed' = [listed EXCEPT ![p] = {}] /\ todo' = [todo EXCEPT ![p] = {}]
  /\ inner' = [inner EXCEPT ![p] = Empty] /\ want' = [want EXCEPT ![p] = Empty]
  /\ persist_error' = [persist_error EXCEPT ![p] = FALSE]
  /\ astray' = astray \cup touched[p]
  /\ touched' = [touched EXCEPT ![p] = {}]
  /\ UNCHANGED <<disk, live, orphans, goal, faults, edits>>

\* Somebody edits the desired set.
edit(g) ==
  /\ edits > 0 /\ edits' = edits - 1
  /\ goal' = g
  /\ UNCHANGED <<disk, pc, memory, world, faults, stops>>

Step(p) ==
  \/ list_new_files(p)
  \/ \E q \in Proc : remove_new_file(p, q)
  \/ load(p)
  \/ reconcile(p)
  \/ \E k \in Key : exit(p, k) \/ update(p, k) \/ enter(p, k)
  \/ write_begin(p) \/ write_end(p) \/ rename(p)

Next ==
  /\ \/ \E p \in users : Step(p) \/ stop(p)
     \/ \E g \in Goals : edit(g)
  /\ UNCHANGED users

Spec == Init /\ [][Next]_vars

\* A process that runs goes on, and its owner keeps restarting it and keeps
\* reconciling (an assumption on the owner, as in OptativeSet).
FairSpec == Spec /\ \A p \in Proc : WF_vars(p \in users /\ Step(p) /\ UNCHANGED users)

-----------------------------------------------------------------------------
(* Properties.                                                             *)

Places == {"down", "clearing", "idle", "hooks", "writing", "rename"}

\* Type invariant.  It says in particular that the file is never torn: what a
\* process loads always parses (json_set.rs:12, "Writes are atomic").
TypeOK ==
  /\ users \in (SUBSET Proc) \ {{}}
  /\ file \in Store \cup {NoFile}
  /\ fresh \in [Proc -> Store \cup {NoFile, Torn}]
  /\ pc \in [Proc -> Places]
  /\ listed \in [Proc -> SUBSET Proc] /\ todo \in [Proc -> SUBSET Key]
  /\ inner \in [Proc -> Store] /\ want \in [Proc -> Store] /\ goal \in Goals
  /\ persist_error \in [Proc -> BOOLEAN]
  /\ live \in SUBSET Key /\ astray \in SUBSET Key /\ orphans \in SUBSET Key
  /\ touched \in [Proc -> SUBSET Key]
  /\ {faults, stops, edits} \subseteq Nat

\* The whole of it against its contract: with siblings, torn writes, leftovers and
\* several writers, a set kept in a file is a map that outlives its process; what
\* is saved is what the process held, all of it, and nothing it was not asked for.
Abroad == [down |-> "down", clearing |-> "down", idle |-> "idle",
           hooks |-> "applying", writing |-> "saving", rename |-> "saving"]

Promise == INSTANCE DurableMap WITH
  Process <- Proc, stored <- file, held <- inner, asked <- want, told <- persist_error,
  at <- [p \in Proc |-> Abroad[pc[p]]]

ImplementsDurableMap == Promise!Spec

\* A process alone with its file: a call that reports no persist error has
\* left on disk exactly what it holds in memory (json_set.rs:162-164).
AloneItsFileIsCurrent ==
  \A p \in Proc :
    users = {p} /\ pc[p] = "idle" /\ ~ persist_error[p] /\ file # NoFile
    => inner[p] = file

\* The file of a process tells the truth about every item, except those entered or exited
\* in a call whose map has not reached the disk (it runs, it crashed, or its
\* write failed) and those whose exit failed.  This is the whole damage of a
\* crash between the hooks and the rename: such a hook is run again.
OnlyUnsavedItemsAreMisjudged ==
  Cardinality(users) = 1 =>
  \A k \in Key \ (astray \cup orphans \cup UNION {touched[p] : p \in Proc}) :
    k \in live <=> file # NoFile /\ file[k] # None

\* Once crashes, failures and edits have ended, the file comes to say exactly
\* what is desired and stays so, also with several writers.
FileConverges == <>[](file = goal)
=============================================================================
