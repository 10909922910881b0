----------------------------- MODULE OptativeSet -----------------------------
(***************************************************************************)
(* The diff-and-dispatch loop of `OptativeSet` (optative/src/lib.rs), one  *)
(* lifecycle hook per step.                                                *)
(*                                                                         *)
(* A call of reconcile collects the desired list into new_map, then runs   *)
(* three loops: exit_removed, update_existing, enter_new.  Each loop first *)
(* collects its keys (variable `pending`) and then visits them in the      *)
(* order a HashMap happens to yield, which is any order.  A hook returns   *)
(* Ok or Err; the loop records the error and goes on.                      *)
(*                                                                         *)
(* Hooks are the user's code.  The contract taken for them is the one the  *)
(* repository's own lifecycles follow: a successful enter or update leaves *)
(* a state that stands for the item, a failed update may have written any  *)
(* part of the state it was lent (`state: &mut Self::State`), and a failed *)
(* enter or exit has left the outside world as it was.                     *)
(***************************************************************************)
EXTENDS KeyedStore

CONSTANTS
  MaxItems,  \* bound: the longest desired list
  MaxFaults, \* bound: how many hooks fail in a behaviour
  MaxEdits   \* bound: how often the owner changes its mind

ASSUME BoundsAreNat == MaxItems \in Nat /\ MaxFaults \in Nat /\ MaxEdits \in Nat

VARIABLES
  store,    \* OptativeSet::store
  phase,    \* which loop of reconcile runs; "idle" outside a call
  new_map,  \* the local new_map: desired items no hook has consumed yet
  pending,  \* keys the current loop has collected and not visited yet
  errors,   \* the local errors: a sequence of [key, hook]
  result,   \* the errors the last call returned to the owner
  live,     \* history: items entered (or seeded) and not successfully exited
  hooks,    \* history: the hooks dispatched in this call, in order
  before,   \* history: the store as the owner last saw it
  desired,  \* history: the map last desired
  faults,   \* how many hooks may still fail
  edits     \* how often the owner may still change the desired list or a state

loopVars  == <<phase, new_map, pending, errors, hooks>>
ownerVars == <<result, before, desired, edits>>
vars      == <<store, live, faults, loopVars, ownerVars>>

Hooks      == {"exit", "update", "enter"}
HookRecord == [key : Key, hook : Hooks]
Lists      == UNION {[1..n -> Item] : n \in 0..MaxItems}
KeysOf(s)  == {s[i].key : i \in DOMAIN s}

Init ==
  /\ store \in Store                 \* new() or with_initial_state(items)
  /\ live = Held(store)
  /\ phase = "idle" /\ pending = {} /\ new_map = Empty
  /\ errors = <<>> /\ hooks = <<>> /\ result = <<>>
  /\ before = store
  /\ desired = Empty
  /\ faults = MaxFaults /\ edits = MaxEdits

-----------------------------------------------------------------------------
(* The owner, between two calls.                                           *)

\* The owner calls reconcile with a list of its choice, or the same again.
reconcile(items) ==
  /\ phase = "idle"
  /\ new_map' = dedup_by_key(items)
  /\ desired' = new_map'
  /\ \/ edits > 0 /\ edits' = edits - 1
     \/ desired' = desired /\ UNCHANGED edits
  /\ pending' = exit_keys(store, new_map')
  /\ phase' = "exit"
  /\ UNCHANGED <<store, live, faults, errors, hooks, result, before>>

\* get_mut and iter_mut lend the owner a stored state.
get_mut(k, v) ==
  /\ phase = "idle" /\ edits > 0
  /\ k \in Held(store)
  /\ store' = [store EXCEPT ![k] = v]
  /\ before' = store'
  /\ edits' = edits - 1
  /\ UNCHANGED <<live, faults, loopVars, result, desired>>

-----------------------------------------------------------------------------
(* The three loops.                                                        *)

\* Visit k: it leaves `pending` and the hook is dispatched.
Dispatch(k, hook) ==
  /\ phase = hook
  /\ k \in pending
  /\ pending' = pending \ {k}
  /\ hooks' = Append(hooks, [key |-> k, hook |-> hook])
  /\ UNCHANGED <<phase, ownerVars>>

Succeeds == UNCHANGED <<errors, faults>>

\* errors.push((key, e))
Fails(k, hook) ==
  /\ faults > 0 /\ faults' = faults - 1
  /\ errors' = Append(errors, [key |-> k, hook |-> hook])

\* Mutant: the error of a failed exit is dropped.
exit_removed_silent(k) ==
  /\ Dispatch(k, "exit")
  /\ UNCHANGED <<new_map, errors>>
  /\ store' = [store EXCEPT ![k] = None]
  /\ \/ live' = live \ {k} /\ UNCHANGED faults
     \/ faults > 0 /\ faults' = faults - 1 /\ UNCHANGED live

\* Mutant: the entry is removed only once its hook has succeeded.
exit_removed_late(k) ==
  /\ Dispatch(k, "exit")
  /\ UNCHANGED new_map
  /\ \/ Succeeds /\ live' = live \ {k} /\ store' = [store EXCEPT ![k] = None]
     \/ Fails(k, "exit") /\ UNCHANGED <<live, store>>

\* The entry is removed before the hook runs, so it is gone either way.
exit_removed(k) ==
  /\ Dispatch(k, "exit")
  /\ UNCHANGED new_map
  /\ store' = [store EXCEPT ![k] = None]
  /\ \/ Succeeds /\ live' = live \ {k}
     \/ Fails(k, "exit") /\ UNCHANGED live

\* Mutant: a failed update removes the item, as if to force a new enter.
update_existing_drops(k) ==
  /\ Dispatch(k, "update")
  /\ new_map' = [new_map EXCEPT ![k] = None]
  /\ \/ Succeeds /\ store' = [store EXCEPT ![k] = new_map[k]]
     \/ Fails(k, "update") /\ store' = [store EXCEPT ![k] = None]
  /\ UNCHANGED live

\* Mutant: a successful update does not write the stored state.
update_existing_stale(k) ==
  /\ Dispatch(k, "update")
  /\ new_map' = [new_map EXCEPT ![k] = None]
  /\ \/ Succeeds
     \/ Fails(k, "update")
  /\ UNCHANGED <<store, live>>

update_existing(k) ==
  /\ Dispatch(k, "update")
  /\ new_map' = [new_map EXCEPT ![k] = None]
  /\ \/ Succeeds /\ store' = [store EXCEPT ![k] = new_map[k]]
     \/ Fails(k, "update") /\ \E v \in Value : store' = [store EXCEPT ![k] = v]
  /\ UNCHANGED live

enter_new(k) ==
  /\ Dispatch(k, "enter")
  /\ new_map' = [new_map EXCEPT ![k] = None]
  /\ \/ /\ Succeeds
        /\ store' = [store EXCEPT ![k] = new_map[k]]
        /\ live' = live \cup {k}
     \/ Fails(k, "enter") /\ UNCHANGED <<store, live>>

\* Mutant: the keys to update are collected without looking at the store.
start_updates_unfiltered ==
  /\ phase = "exit" /\ pending = {}
  /\ phase' = "update"
  /\ pending' = Held(new_map)
  /\ UNCHANGED <<store, live, faults, new_map, errors, hooks, ownerVars>>

\* update_existing collects its keys from new_map and the store.
start_updates ==
  /\ phase = "exit" /\ pending = {}
  /\ phase' = "update"
  /\ pending' = update_keys(store, new_map)
  /\ UNCHANGED <<store, live, faults, new_map, errors, hooks, ownerVars>>

start_enters ==
  /\ phase = "update" /\ pending = {}
  /\ phase' = "enter"
  /\ pending' = enter_keys(store, new_map)
  /\ UNCHANGED <<store, live, faults, new_map, errors, hooks, ownerVars>>

\* The call returns; its locals are gone.
return_errors ==
  /\ phase = "enter" /\ pending = {}
  /\ phase' = "idle"
  /\ result' = errors
  /\ before' = store
  /\ errors' = <<>> /\ hooks' = <<>> /\ new_map' = Empty
  /\ UNCHANGED <<store, live, faults, pending, desired, edits>>

Loop ==
  \/ \E k \in Key : exit_removed(k) \/ update_existing(k) \/ enter_new(k)
  \/ start_updates
  \/ start_enters
  \/ return_errors

Owner ==
  \/ \E items \in Lists : reconcile(items)
  \/ \E k \in Key, v \in Value : get_mut(k, v)

Next == Loop \/ Owner

Spec == Init /\ [][Next]_vars

(***************************************************************************)
(* The loops are sequential code and hooks return, so a call goes on.  The *)
(* second conjunct is an assumption on the owner, who decides when to      *)
(* reconcile: it keeps calling, as the polling owners of the repository do.*)
(***************************************************************************)
FairSpec ==
  /\ Spec
  /\ WF_vars(Loop)
  /\ WF_vars(\E items \in Lists : reconcile(items))

-----------------------------------------------------------------------------
(* Properties.                                                             *)

\* Type invariant: every variable has its type, and between two calls nothing
\* of a call is left over (the locals of reconcile, lib.rs:245-250).
TypeOK ==
  /\ store \in Store /\ before \in Store /\ desired \in Store /\ new_map \in Store
  /\ live \in SUBSET Key /\ pending \in SUBSET Key
  /\ phase \in Hooks \cup {"idle"}
  /\ hooks \in Seq(HookRecord) /\ errors \in Seq(HookRecord)
  /\ result \in Seq(HookRecord)
  /\ faults \in Nat /\ edits \in Nat
  /\ phase = "idle" => pending = {} /\ errors = <<>> /\ hooks = <<>>

\* In one call no key sees two hooks, whatever fails: an item whose update
\* failed is not also entered or exited in the same call.
OneHookPerKey ==
  \A i, j \in DOMAIN hooks : hooks[i].key = hooks[j].key => i = j

\* The hook the difference between two maps calls for.
ThingToDo(s, want, k) ==
  CASE k \in exit_keys(s, want)   -> "exit"
    [] k \in update_keys(s, want) -> "update"
    [] k \in enter_keys(s, want)  -> "enter"

\* Every hook dispatched is the one the diff of the maps at the start of the
\* call asks for, although the loops look at a store that earlier hooks have
\* changed; and when the call returns, no such hook is missing.
HooksFollowTheDiff ==
  /\ \A i \in DOMAIN hooks : hooks[i].hook = ThingToDo(before, desired, hooks[i].key)
  /\ phase = "enter" /\ pending = {} =>
       KeysOf(hooks) = Held(before) \cup Held(desired)

\* Old items are gone before new ones arrive: at no moment does the set hold
\* more than what it held before, or more than what is desired.  (A pool of
\* processes or ports never needs room for both.)
NeverOldAndNew ==
  \/ Held(store) \subseteq Held(before)
  \/ Held(store) \subseteq Held(desired)

\* What the set tracks exists: it never keeps an entry whose enter failed or
\* whose exit succeeded.
TrackedIsLive == Held(store) \subseteq live

\* Things that exist and that the set no longer tracks.
Orphans == live \ Held(store)

\* An item becomes an orphan only in a step that reports its failed exit: the
\* error is the owner's only chance to learn of it.
NoSilentOrphan ==
  [][\A k \in Orphans' \ Orphans :
        errors' = Append(errors, [key |-> k, hook |-> "exit"])]_vars

(***************************************************************************)
(* The inductive invariant.  Its first part says which hooks have run: the *)
(* three loops visit the three sets of the diff between the map the owner  *)
(* saw and the map desired, in this order, and `pending` is what the       *)
(* current one has left.  Its second part says what each key looks like:   *)
(* untouched, settled, or failed.                                          *)
(***************************************************************************)
Visited == KeysOf(hooks)
Failed  == KeysOf(errors)

Progress ==
  LET exits   == exit_keys(before, desired)
      updates == update_keys(before, desired)
      enters  == enter_keys(before, desired)
  IN  /\ phase = "exit"   => /\ Visited \subseteq exits
                             /\ pending = exits \ Visited
      /\ phase = "update" => /\ exits \subseteq Visited
                             /\ Visited \subseteq exits \cup updates
                             /\ pending = updates \ Visited
      /\ phase = "enter"  => /\ exits \cup updates \subseteq Visited
                             /\ Visited \subseteq exits \cup updates \cup enters
                             /\ pending = enters \ Visited

Settlement ==
  /\ phase = "idle" => store = before
  /\ Failed \subseteq Visited
  /\ phase # "idle" =>
       \A k \in Key :
         /\ k \notin Visited => store[k] = before[k] /\ new_map[k] = desired[k]
         /\ k \in Visited => new_map[k] = None
         /\ k \in Visited \ Failed => store[k] = desired[k]
         /\ k \in Failed => (k \in Held(store) <=> k \in update_keys(before, desired))

IInv == TypeOK /\ Progress /\ Settlement /\ OneHookPerKey /\ HooksFollowTheDiff /\ TrackedIsLive

\* Seen by its owner, the set implements the contract of Reconcile.
Contract == INSTANCE Reconcile WITH wanted <- desired, tracked <- before, reported <- KeysOf(result)
ImplementsReconcile == Contract!Spec

\* Calls return, and once hooks have stopped failing and the owner has settled
\* on a list, the set holds exactly what is desired between two calls, and
\* keeps to it: a failure is made up for by a later call, never by the owner.
Converges == []<>(phase = "idle") /\ <>[](phase = "idle" => store = desired)
=============================================================================
