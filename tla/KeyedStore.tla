----------------------------- MODULE KeyedStore -----------------------------
(***************************************************************************)
(* The data every reconciler of this repository works on: a map from keys  *)
(* to states (`HashMap<T::Key, T::State>` in optative/src/lib.rs), and the *)
(* three sets of keys the diff of two such maps yields.                    *)
(*                                                                         *)
(* A map is a total function on Key whose value is None where the map has  *)
(* no entry.  An item of a desired list is a key with the value its        *)
(* lifecycle hooks turn into a state.                                      *)
(***************************************************************************)
EXTENDS Naturals, Sequences

CONSTANTS
  Key,    \* the keys of items
  Value,  \* what an item asks for, and the state a successful hook leaves
  None    \* no entry in the map

ASSUME NoneIsNoValue == None \notin Value

Store == [Key -> Value \cup {None}]
Item  == [key : Key, value : Value]
Empty == [k \in Key |-> None]

\* The keys a map has an entry for.
Held(s) == {k \in Key : s[k] # None}

(***************************************************************************)
(* Collecting a list into a map: of several items with one key, the last   *)
(* one wins, because each insert overwrites the entry before it.           *)
(***************************************************************************)
dedup_by_key(items) ==
  [k \in Key |->
     LET at == {i \in DOMAIN items : items[i].key = k}
     IN  IF at = {} THEN None
         ELSE items[CHOOSE i \in at : \A j \in at : j <= i].value]

\* The keys whose item leaves, stays or arrives when `want` is desired of `s`.
exit_keys(s, want)   == Held(s) \ Held(want)
update_keys(s, want) == Held(s) \cap Held(want)
enter_keys(s, want)  == Held(want) \ Held(s)
=============================================================================
