------------------------------ MODULE Reconcile ------------------------------
(***************************************************************************)
(* What the trait `Reconcile` (optative/src/reconcile.rs) promises the     *)
(* owner of a set.  The set is borrowed mutably for the whole of a call,   *)
(* so to its owner a call is one step: from the map that was tracked       *)
(* before it to the map tracked after it, together with the keys the       *)
(* returned list of errors names.  How the call gets there, one lifecycle  *)
(* hook at a time, is the business of the modules that implement this one. *)
(***************************************************************************)
EXTENDS KeyedStore

VARIABLES
  wanted,   \* the map the owner desires, by the list it passes to a call
  tracked,  \* the map the owner sees through get and iter
  reported  \* the keys named by the errors the last call returned

vars == <<wanted, tracked, reported>>

TypeOK ==
  /\ wanted \in Store
  /\ tracked \in Store
  /\ reported \in SUBSET Key

(***************************************************************************)
(* The maps a call may leave when it starts from s, want is desired and    *)
(* the hooks of the keys in failed return an error.  A key that is not     *)
(* reported ends up as desired.  A reported one had a hook to run, and it  *)
(* stays tracked exactly when it was tracked and is still desired: a       *)
(* failed enter never adds an entry, a failed exit never keeps one.        *)
(***************************************************************************)
Settles(s, want, failed, t) ==
  /\ failed \subseteq Held(s) \cup Held(want)
  /\ \A k \in Key \ failed : t[k] = want[k]
  /\ \A k \in failed : k \in Held(t) <=> k \in Held(s) \cap Held(want)

Init ==
  /\ wanted = Empty
  /\ tracked \in Store
  /\ reported = {}

\* The owner calls with another list.
Desire ==
  /\ wanted' \in Store
  /\ UNCHANGED <<tracked, reported>>

\* The call: some hooks fail.
Pass ==
  \E failed \in SUBSET Key :
    /\ tracked' \in Store
    /\ Settles(tracked, wanted, failed, tracked')
    /\ reported' = failed
    /\ UNCHANGED wanted

\* The owner changes the state of an entry it holds (get_mut, iter_mut).
Mutate ==
  \E k \in Held(tracked), v \in Value :
    /\ tracked' = [tracked EXCEPT ![k] = v]
    /\ UNCHANGED <<wanted, reported>>

Next == Desire \/ Pass \/ Mutate

Spec == Init /\ [][Next]_vars
=============================================================================
