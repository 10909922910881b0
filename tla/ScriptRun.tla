------------------------------ MODULE ScriptRun ------------------------------
(***************************************************************************)
(* `esto run` (optative-script/src/engine.rs): a script declares items of  *)
(* several kinds; a run reconciles the kinds one after the other.  A kind  *)
(* tracks its items either by observing the world at each run              *)
(* (optativeSet) or in a file kept between runs (optativeJsonSet).  Runs   *)
(* may be dry, and --limit caps how many hooks a kind dispatches.          *)
(*                                                                         *)
(* The three loops of the set are those of module OptativeSet, and how the *)
(* file is written is module JsonSet; here a hook is one step and the      *)
(* write is one step.  New is what the engine's hooks do around the user's *)
(* functions: skip, count, dispatch, and report.  A user's hook that fails *)
(* may have done its work first.  Between two hooks the world may change   *)
(* under the run.                                                          *)
(***************************************************************************)
EXTENDS KeyedStore, FiniteSets

CONSTANTS
  Observed,   \* kinds with reconciler: optativeSet({ observe })
  Filed,      \* kinds with reconciler: optativeJsonSet({ file })
  Goals,      \* what a script may declare of a kind
  Limits,     \* the values --limit takes
  NoLimit,    \* no --limit
  DryRuns,    \* may a run be dry?
  NoKind,     \* no kind is being reconciled
  MaxFaults,  \* bound: hooks, observations and writes that fail
  MaxChanges  \* bound: edits of the script and changes made to the world

\* A kind names one of two back ends; one that names none cannot be set up.
Kind == Observed \cup Filed

ASSUME KindsDisjoint == Observed \cap Filed = {} /\ NoKind \notin Kind
ASSUME KeysAreFinitelyMany == IsFiniteSet(Key)
ASSUME GoalsAreStores == Goals \subseteq Store
ASSUME BoundsAreNumbers == {MaxFaults, MaxChanges} \subseteq Nat
ASSUME DryRunsAreBooleans == DryRuns \subseteq BOOLEAN
ASSUME LimitsAreNumbers == NoLimit \notin Nat /\ Limits \subseteq Nat \cup {NoLimit}

VARIABLES
  world,      \* what exists, by kind
  saved,      \* the state file of each filed kind
  goal,       \* what the script declares
  options,    \* dry_run and limit of the run
  left,       \* by_kind: kinds the run has not begun
  kind,       \* the kind being reconciled
  store,      \* its set
  todo,       \* keys no loop of the set has visited
  rc,         \* ReconcileCtx: dispatched and the counters of the kind
  stats,      \* RunStats of the run, or of the last one that returned Ok
  phase,      \* "idle", "kinds", "hooks" or "aborted" (idle after an Err)
  total,      \* history: items the run has diffed
  moved,      \* history: has the world changed under the run?
  astray,     \* history: by filed kind, keys the file is wrong about
  faults, changes

run  == <<options, left, kind, store, todo, rc, stats, phase, total, moved>>
vars == <<world, saved, goal, run, astray, faults, changes>>

Counters == {"enter", "update", "exit", "unchanged", "errors", "limited"}
Zero     == [c \in Counters |-> 0]

\* The world is as an earlier script wanted it.
Init ==
  /\ world \in [Kind -> Goals]
  /\ saved = [k \in Kind |-> IF k \in Filed THEN world[k] ELSE Empty]
  /\ goal \in [Kind -> Goals]
  /\ options = [dry_run |-> FALSE, limit |-> NoLimit]
  /\ left = {} /\ kind = NoKind /\ store = Empty /\ todo = {}
  /\ rc = [dispatched |-> 0, counts |-> Zero] /\ stats = Zero
  /\ phase = "idle" /\ total = 0 /\ moved = FALSE /\ astray = [k \in Kind |-> {}]
  /\ faults = MaxFaults /\ changes = MaxChanges

Fault == faults > 0 /\ faults' = faults - 1

-----------------------------------------------------------------------------
(* Outside a run.                                                          *)

\* Somebody edits the script, between two runs.
edit(k, g) ==
  /\ phase \in {"idle", "aborted"} /\ changes > 0 /\ changes' = changes - 1
  /\ goal' = [goal EXCEPT ![k] = g]
  /\ UNCHANGED <<world, saved, run, astray, faults>>

\* Somebody makes, changes or removes an item of an observed kind, at any time.
drift(k, x, v) ==
  /\ changes > 0 /\ changes' = changes - 1
  /\ k \in Observed /\ world' = [world EXCEPT ![k][x] = v]
  /\ moved' = TRUE
  /\ UNCHANGED <<saved, goal, options, left, kind, store, todo, rc, stats, phase, total,
                 astray, faults>>

\* collect_leaves: a kind is known to a run by its leaves only.
kinds_of(g) == {k \in Kind : Held(g[k]) # {}}

start(dry_run, limit) ==
  /\ phase \in {"idle", "aborted"} /\ phase' = "kinds"
  /\ options' = [dry_run |-> dry_run, limit |-> limit]
  /\ left' = kinds_of(goal)
  /\ stats' = Zero /\ total' = 0 /\ moved' = FALSE
  /\ UNCHANGED <<world, saved, goal, kind, store, todo, rc, astray, faults, changes>>

-----------------------------------------------------------------------------
(* One kind.                                                               *)

\* observe(), or the entries loaded from the file.
Tracked(k) == IF k \in Observed THEN world[k] ELSE saved[k]

\* Kinds come in the order of a HashMap.  What fails before the first hook
\* (observe, opening the file, key or value functions) ends the whole run.
reconcile_kind(k) ==
  /\ phase = "kinds" /\ kind = NoKind /\ k \in left
  /\ \/ /\ kind' = k /\ left' = left \ {k} /\ phase' = "hooks"
        /\ store' = Tracked(k)
        /\ todo' = Held(store') \cup Held(goal[k])
        /\ total' = total + Cardinality(todo')
        /\ rc' = [dispatched |-> 0, counts |-> Zero]
        /\ UNCHANGED <<stats, faults>>
     \/ /\ Fault /\ phase' = "aborted" /\ left' = {} /\ stats' = Zero
        /\ UNCHANGED <<kind, store, todo, total, rc>>
  /\ UNCHANGED <<world, saved, goal, options, astray, moved, changes>>

Want == goal[kind]

\* The loop the key is visited in; each loop waits for the one before it.
Exits   == todo \cap exit_keys(store, Want)
Updates == todo \cap update_keys(store, Want)
NextUp  == IF Exits # {} THEN Exits ELSE IF Updates # {} THEN Updates ELSE todo

Visit(x) ==
  /\ phase = "hooks" /\ x \in NextUp
  /\ todo' = todo \ {x}
  /\ UNCHANGED <<saved, goal, options, left, kind, stats, phase, total, moved,
                 changes>>

Counted(cs) == [c \in Counters |-> rc.counts[c] + IF c \in cs THEN 1 ELSE 0]

\* over_limit: counts what it skips and what it lets pass.
over_limit == options.limit # NoLimit /\ rc.dispatched >= options.limit

\* Mutant: only hooks that succeed are counted as dispatched.
Count_successes(cs) ==
  rc' = [dispatched |-> IF "limited" \in cs \/ "errors" \in cs
                        THEN rc.dispatched ELSE rc.dispatched + 1,
         counts |-> Counted(cs)]

Count(cs) ==
  rc' = [dispatched |-> IF "limited" \in cs THEN rc.dispatched ELSE rc.dispatched + 1,
         counts |-> Counted(cs)]

\* The key's entry and the item it stands for drift apart, or meet again.  A
\* dry run writes no entry.
Astray(x, yes) ==
  astray' = IF kind \in Filed /\ ~options.dry_run
            THEN [astray EXCEPT ![kind] = IF yes THEN @ \cup {x} ELSE @ \ {x}]
            ELSE astray

\* The entry of a filed kind is JSON text: the item may not convert to it.
NoEntry(x) ==
  /\ kind \in Filed /\ Fault /\ Astray(x, TRUE)
  /\ UNCHANGED <<store, world>>

\* dispatch_hook: the user's function makes the item v.  Not in a dry run.
Works(x, v) ==
  IF options.dry_run
  THEN UNCHANGED <<world, astray, faults>>
  ELSE world' = [world EXCEPT ![kind][x] = v] /\ Astray(x, FALSE) /\ UNCHANGED faults

\* The function throws, before or after it has done its work.
Throws(x, v) ==
  /\ ~options.dry_run /\ Fault
  /\ \/ world' = [world EXCEPT ![kind][x] = v]
     \/ UNCHANGED world
  /\ Astray(x, TRUE)

\* Mutant: a limited exit is not counted.
exit_uncounted(x) ==
  /\ Visit(x) /\ x \in Exits
  /\ store' = [store EXCEPT ![x] = None]
  /\ \/ over_limit /\ UNCHANGED <<rc, world, faults>> /\ Astray(x, TRUE)
     \/ ~over_limit /\ Count({"exit"}) /\ Works(x, None)
     \/ ~over_limit /\ Count({"exit", "errors"}) /\ Throws(x, None)

\* The set removes the entry in any case; a limited hook says Ok.
exit(x) ==
  /\ Visit(x) /\ x \in Exits
  /\ store' = [store EXCEPT ![x] = None]
  /\ \/ over_limit /\ Count({"limited"}) /\ UNCHANGED <<world, faults>> /\ Astray(x, TRUE)
     \/ ~over_limit /\ Count({"exit"}) /\ Works(x, None)
     \/ ~over_limit /\ Count({"exit", "errors"}) /\ Throws(x, None)

\* Mutant: a value that did not change counts as a dispatch.
update_dispatches(x) ==
  /\ Visit(x) /\ x \in Updates
  /\ IF store[x] = Want[x]
     THEN /\ Count({"unchanged"})
          /\ UNCHANGED <<store, world, astray, faults>>
     ELSE \/ over_limit /\ Count({"limited"}) /\ UNCHANGED <<store, world, astray, faults>>
          \/ /\ ~over_limit /\ Count({"update"})
             /\ store' = [store EXCEPT ![x] = Want[x]]
             /\ Works(x, Want[x])
          \/ ~over_limit /\ Count({"update", "errors"}) /\ Throws(x, Want[x]) /\ UNCHANGED store

\* Mutant: an item that is there is taken for unchanged.
update_presence(x) ==
  /\ Visit(x) /\ x \in Updates
  /\ rc' = [rc EXCEPT !.counts = Counted({"unchanged"})]
  /\ UNCHANGED <<store, world, astray, faults>>

\* Mutant: a limited update is taken into the set.
update_taken(x) ==
  /\ Visit(x) /\ x \in Updates
  /\ IF store[x] = Want[x]
     THEN /\ rc' = [rc EXCEPT !.counts = Counted({"unchanged"})]
          /\ UNCHANGED <<store, world, astray, faults>>
     ELSE \/ /\ over_limit /\ Count({"limited"})
             /\ store' = [store EXCEPT ![x] = Want[x]]
             /\ UNCHANGED <<world, astray, faults>>
          \/ /\ ~over_limit /\ Count({"update"})
             /\ store' = [store EXCEPT ![x] = Want[x]]
             /\ Works(x, Want[x])
          \/ ~over_limit /\ Count({"update", "errors"}) /\ Throws(x, Want[x]) /\ UNCHANGED store

\* reconcile_self: nothing changed, over the limit, or the user's update.
update(x) ==
  /\ Visit(x) /\ x \in Updates
  /\ IF store[x] = Want[x]
     THEN /\ rc' = [rc EXCEPT !.counts = Counted({"unchanged"})]
          /\ UNCHANGED <<store, world, astray, faults>>
     ELSE \/ over_limit /\ Count({"limited"}) /\ UNCHANGED <<store, world, astray, faults>>
          \/ /\ ~over_limit /\ Count({"update"})
             /\ store' = [store EXCEPT ![x] = Want[x]]
             /\ Works(x, Want[x])
          \/ ~over_limit /\ Count({"update", "errors"}) /\ Throws(x, Want[x]) /\ UNCHANGED store
          \/ ~over_limit /\ options.dry_run /\ Count({"update", "errors"}) /\ NoEntry(x)

\* A limited enter says Ok with the item's state, which the set keeps.
enter(x) ==
  /\ Visit(x) /\ x \in enter_keys(store, Want)
  /\ \/ /\ over_limit /\ Count({"limited"})
        /\ store' = [store EXCEPT ![x] = Want[x]]
        /\ UNCHANGED <<world, faults>> /\ Astray(x, TRUE)
     \/ /\ ~over_limit /\ Count({"enter"})
        /\ store' = [store EXCEPT ![x] = Want[x]]
        /\ Works(x, Want[x])
     \/ ~over_limit /\ Count({"enter", "errors"}) /\ Throws(x, Want[x]) /\ UNCHANGED store
     \/ over_limit /\ Count({"limited", "errors"}) /\ NoEntry(x)
     \/ ~over_limit /\ options.dry_run /\ Count({"enter", "errors"}) /\ NoEntry(x)

-----------------------------------------------------------------------------
(* The end of a kind and of the run.                                       *)

Added(more) == [c \in Counters |-> stats[c] + more[c]]

\* A filed kind is written back (not in a dry run, which used a throwaway set);
\* a write that fails is one more error.
persist ==
  /\ phase = "hooks" /\ todo = {}
  /\ \/ /\ saved' = IF kind \in Filed /\ ~options.dry_run
                    THEN [saved EXCEPT ![kind] = store] ELSE saved
        /\ stats' = Added(rc.counts)
        /\ UNCHANGED <<astray, faults>>
     \/ /\ kind \in Filed /\ ~options.dry_run /\ Fault
        /\ stats' = Added(Counted({"errors"}))
        /\ astray' = [astray EXCEPT ![kind] = @ \cup {x \in Key : saved[kind][x] # store[x]}]
        /\ UNCHANGED saved
  /\ phase' = "kinds" /\ kind' = NoKind /\ store' = Empty
  /\ UNCHANGED <<world, goal, options, left, todo, rc, total, moved, changes>>

finish ==
  /\ phase = "kinds" /\ kind = NoKind /\ left = {}
  /\ phase' = "idle"
  /\ UNCHANGED <<world, saved, goal, options, left, kind, store, todo, rc, stats, total,
                 moved, astray, faults, changes>>

-----------------------------------------------------------------------------
Run ==
  \/ \E k \in Kind : reconcile_kind(k)
  \/ \E x \in Key : exit(x) \/ update(x) \/ enter(x)
  \/ persist \/ finish

starts == \E dry_run \in DryRuns, limit \in Limits : start(dry_run, limit)

Next ==
  \/ \E k \in Kind, g \in Goals : edit(k, g)
  \/ \E k \in Observed, x \in Key, v \in Value \cup {None} : drift(k, x, v)
  \/ starts
  \/ Run

Spec == Init /\ [][Next]_vars

\* A run goes on, and there is always another one (a schedule, or esto watch).
FairSpec == Spec /\ WF_vars(Run) /\ WF_vars(starts)

-----------------------------------------------------------------------------
(* Properties.                                                             *)

\* The values the variables take.
TypeOK ==
  /\ world \in [Kind -> Store] /\ saved \in [Kind -> Store] /\ goal \in [Kind -> Goals]
  /\ options \in [dry_run : BOOLEAN, limit : Nat \cup {NoLimit}]
  /\ left \subseteq Kind /\ kind \in Kind \cup {NoKind} /\ store \in Store
  /\ todo \subseteq Key
  /\ rc \in [dispatched : Nat, counts : [Counters -> Nat]]
  /\ stats \in [Counters -> Nat] /\ total \in Nat
  /\ phase \in {"idle", "kinds", "hooks", "aborted"}
  /\ astray \in [Kind -> SUBSET Key]
  /\ phase = "hooks" <=> kind # NoKind
  /\ {faults, changes} \subseteq Nat

\* Every item a run diffs is counted once and only once, as entered, updated,
\* exited, unchanged or limited, whichever hooks fail and whatever the limit
\* skips, so that a summary can be trusted.
EveryItemIsCountedOnce ==
  phase \in {"kinds", "idle"} =>
    stats["enter"] + stats["update"] + stats["exit"] + stats["unchanged"] + stats["limited"]
      = total

\* --limit N lets at most N hooks of a kind run, failed ones included, and it
\* skips only what the limit has no room for.
LimitIsSpentBeforeItSkips ==
  (phase = "hooks" /\ options.limit # NoLimit) =>
    /\ rc.counts["enter"] + rc.counts["update"] + rc.counts["exit"] <= options.limit
    /\ rc.counts["limited"] > 0 =>
         rc.counts["enter"] + rc.counts["update"] + rc.counts["exit"] = options.limit

\* The state file of a kind is right about every item, except those a hook or
\* a write failed on, or a limit skipped: whatever the order of the runs.
FileIsRightElsewhere ==
  phase \in {"idle", "aborted"} =>
    \A k \in Filed : \A x \in Key \ astray[k] : saved[k][x] = world[k][x]

\* A run that was asked for everything, met no error and was not disturbed.
Clean ==
  /\ phase = "kinds" /\ phase' = "idle"
  /\ ~options.dry_run /\ options.limit = NoLimit
  /\ stats["errors"] = 0 /\ ~moved

Declared == kinds_of(goal)

\* A clean run leaves every kind the script declares items of as it wants it:
\* observed kinds in full, filed ones but for items that have gone astray.
CleanRunConverges ==
  [][ Clean => \A k \in Declared : \A x \in Key :
        (k \in Observed \/ x \notin astray[k]) => world[k][x] = goal[k][x] ]_vars

\* Observed kinds that the script declares come to be what it wants, run after
\* run, also when each run may dispatch one hook only; unless dry runs, or runs
\* that may dispatch none, never come to an end.
ObservedConverge ==
  <>[](~options.dry_run /\ options.limit # 0) =>
  <>[](\A k \in Observed \cap Declared : world[k] = goal[k])

\* engine.rs:348-351 and main.rs:31-32: what --limit skips is "not processed",
\* and "a limited run is never mistaken for a converged one"; so when no hook
\* has failed, a clean run later does what the limited ones skipped.
LimitedItemsAreDoneLater ==
  [][ Clean /\ faults = MaxFaults => \A k \in Declared : world[k] = goal[k] ]_vars
=============================================================================
