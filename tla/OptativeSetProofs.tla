-------------------------- MODULE OptativeSetProofs --------------------------
(***************************************************************************)
(* Proofs about OptativeSet, for every set of keys and values, every       *)
(* length of the desired list and every number of failures.                *)
(***************************************************************************)
EXTENDS OptativeSet, TLAPS, WellFoundedInduction

-----------------------------------------------------------------------------
(* Collecting a list into a map, for lists of every length.                *)

\* A set of positions of a list that is not empty has a greatest element.
LEMMA LastPosition ==
  ASSUME NEW n \in Nat, NEW at \in SUBSET (1..n), at # {}
  PROVE  \E i \in at : \A j \in at : j <= i
<1> DEFINE FromEnd == {n - i : i \in at}
           Less    == OpToRel(<, Nat)
<1>1. FromEnd \subseteq Nat /\ FromEnd # {}
  <2>1. \A i \in at : n - i \in Nat
    OBVIOUS
  <2>2. PICK i \in at : TRUE
    OBVIOUS
  <2>3. n - i \in FromEnd
    OBVIOUS
  <2> QED  BY <2>1, <2>3
<1>2. IsWellFoundedOn(Less, Nat) /\ \A a, b \in Nat : a < b => <<a, b>> \in Less
  BY NatLessThanWellFounded DEF OpToRel
<1>3. PICK x \in FromEnd : \A y \in FromEnd : x <= y
  <2> HIDE DEF FromEnd, Less
  <2>0. IsWellFoundedOn(Less, Nat) /\ FromEnd \subseteq Nat /\ FromEnd # {}
    BY <1>1, <1>2
  <2>1. PICK x \in FromEnd : \A y \in FromEnd : ~ (<<y, x>> \in Less)
    BY <2>0, WFMin, Zenon
  <2>2. \A y \in FromEnd : ~ (y < x)
    BY <1>1, <1>2, <2>1
  <2> QED  BY <1>1, <2>2
<1>4. PICK i \in at : x = n - i
  BY <1>3
<1>5. ASSUME NEW j \in at  PROVE j <= i
  <2>1. n - i <= n - j
    BY <1>3, <1>4
  <2>2. i \in Nat /\ j \in Nat
    OBVIOUS
  <2> QED  BY <2>1, <2>2
<1> QED  BY <1>5

\* The map holds exactly the keys of the list (dedup_by_key, lib.rs:133-139).
LEMMA DedupKeys ==
  ASSUME NEW items \in Seq(Item)
  PROVE  /\ dedup_by_key(items) \in Store
         /\ \A k \in Key : dedup_by_key(items)[k] # None <=>
                            \E i \in DOMAIN items : items[i].key = k
<1> SUFFICES ASSUME NEW k \in Key
             PROVE  /\ dedup_by_key(items)[k] \in Value \cup {None}
                    /\ dedup_by_key(items)[k] # None <=>
                         \E i \in DOMAIN items : items[i].key = k
  BY DEF dedup_by_key, Store
<1> DEFINE at   == {i \in DOMAIN items : items[i].key = k}
           last == CHOOSE i \in at : \A j \in at : j <= i
<1>1. dedup_by_key(items)[k] = IF at = {} THEN None ELSE items[last].value
  BY DEF dedup_by_key
<1>2. CASE at = {}
  BY <1>1, <1>2
<1>3. CASE at # {}
  <2>1. at \in SUBSET (1..Len(items)) /\ Len(items) \in Nat
    OBVIOUS
  <2>2. last \in at
    BY <1>3, <2>1, LastPosition
  <2>3. items[last] \in Item
    BY <2>2
  <2> QED  BY <1>1, <1>3, <2>2, <2>3, NoneIsNoValue DEF Item
<1> QED  BY <1>2, <1>3

\* Collecting a list is inserting its items one after another, each over what the
\* items before it left under its key (the loop of dedup_by_key, lib.rs:134-138).
THEOREM CollectsByInserting ==
  /\ dedup_by_key(<<>>) = Empty
  /\ \A items \in Seq(Item), item \in Item :
       dedup_by_key(Append(items, item)) =
         [dedup_by_key(items) EXCEPT ![item.key] = item.value]
<1>1. dedup_by_key(<<>>) = Empty
  BY DEF dedup_by_key, Empty
<1>2. ASSUME NEW items \in Seq(Item), NEW item \in Item
      PROVE  dedup_by_key(Append(items, item)) =
               [dedup_by_key(items) EXCEPT ![item.key] = item.value]
  <2> DEFINE longer    == Append(items, item)
             at(l, k)  == {i \in DOMAIN l : l[i].key = k}
             last(s)   == CHOOSE i \in s : \A j \in s : j <= i
  <2>1. /\ DOMAIN longer = 1..(Len(items) + 1) /\ DOMAIN items = 1..Len(items)
        /\ longer[Len(items) + 1] = item /\ Len(items) \in Nat
        /\ \A i \in DOMAIN items : longer[i] = items[i]
    OBVIOUS
  <2>2. ASSUME NEW k \in Key, k # item.key
        PROVE  dedup_by_key(longer)[k] = dedup_by_key(items)[k]
    <3> HIDE DEF longer
    <3>1. at(longer, k) = at(items, k)
      BY <2>1, <2>2
    <3>2. /\ dedup_by_key(longer)[k] = IF at(longer, k) = {} THEN None
                                       ELSE longer[last(at(longer, k))].value
          /\ dedup_by_key(items)[k] = IF at(items, k) = {} THEN None
                                      ELSE items[last(at(items, k))].value
      BY DEF dedup_by_key
    <3>3. ASSUME at(items, k) # {} PROVE last(at(items, k)) \in DOMAIN items
      <4>1. at(items, k) \in SUBSET (1..Len(items))
        BY <2>1
      <4> HIDE DEF at
      <4>2. last(at(items, k)) \in at(items, k)
        BY <2>1, <3>3, <4>1, LastPosition
      <4> QED  BY <4>2 DEF at
    <3> HIDE DEF at, last
    <3> QED  BY <2>1, <3>1, <3>2, <3>3
  <2>3. item.key \in Key
    BY DEF Item
  <2>4. dedup_by_key(longer)[item.key] = item.value
    <3> HIDE DEF longer
    <3>1. /\ Len(items) + 1 \in at(longer, item.key)
          /\ \A j \in at(longer, item.key) : j \in Nat /\ j <= Len(items) + 1
      BY <2>1
    <3>2. dedup_by_key(longer)[item.key] = IF at(longer, item.key) = {} THEN None
                                           ELSE longer[last(at(longer, item.key))].value
      BY <2>3 DEF dedup_by_key
    <3> HIDE DEF at
    <3>3. last(at(longer, item.key)) = Len(items) + 1
      BY <2>1, <3>1
    <3> HIDE DEF last
    <3> QED  BY <2>1, <3>1, <3>2, <3>3
  <2>5. \A l : DOMAIN dedup_by_key(l) = Key /\ dedup_by_key(l) = [k \in Key |-> dedup_by_key(l)[k]]
    BY DEF dedup_by_key
  <2> HIDE DEF longer
  <2>6. dedup_by_key(longer) = [dedup_by_key(items) EXCEPT ![item.key] = item.value]
    BY <2>2, <2>3, <2>4, <2>5
  <2> QED  BY <2>6 DEF longer
<1> QED  BY <1>1, <1>2

-----------------------------------------------------------------------------
(* The logs of hooks and errors.                                           *)

LEMMA KeysOfAppend ==
  ASSUME NEW s \in Seq(HookRecord), NEW k \in Key, NEW h \in Hooks
  PROVE  /\ Append(s, [key |-> k, hook |-> h]) \in Seq(HookRecord)
         /\ KeysOf(Append(s, [key |-> k, hook |-> h])) = KeysOf(s) \cup {k}
<1> DEFINE e == [key |-> k, hook |-> h]
           t == Append(s, e)
<1>1. e \in HookRecord
  BY DEF HookRecord
<1>2. t \in Seq(HookRecord) /\ Len(t) = Len(s) + 1
  BY <1>1
<1>3. \A i \in DOMAIN s : t[i] = s[i]
  BY <1>1
<1>4. t[Len(t)] = e /\ Len(t) \in DOMAIN t
  BY <1>1, <1>2
<1>5. DOMAIN t = DOMAIN s \cup {Len(t)}
  BY <1>1, <1>2
<1>6. KeysOf(t) = KeysOf(s) \cup {k}
  <2> HIDE DEF t
  <2>1. KeysOf(t) = {t[i].key : i \in DOMAIN s} \cup {t[Len(t)].key}
    BY Zenon, <1>5 DEF KeysOf
  <2>2. {t[i].key : i \in DOMAIN s} = KeysOf(s)
    BY <1>3 DEF KeysOf
  <2> QED  BY <1>4, <2>1, <2>2
<1> QED  BY <1>2, <1>6

LEMMA KeysOfLog ==
  ASSUME NEW s \in Seq(HookRecord)
  PROVE  KeysOf(s) \in SUBSET Key
<1>1. \A i \in DOMAIN s : s[i] \in HookRecord
  OBVIOUS
<1> QED  BY <1>1 DEF KeysOf, HookRecord

LEMMA KeysOfEmpty == KeysOf(<<>>) = {}
BY DEF KeysOf

LEMMA ListsAreSequences == Lists \subseteq Seq(Item)
BY BoundsAreNat DEF Lists

-----------------------------------------------------------------------------
(* The type invariant.                                                     *)

LEMMA InitType == Init => TypeOK
BY BoundsAreNat DEF Init, TypeOK, Held, Store, Empty

\* A dispatched hook keeps the types of everything the owner and the log see.
LEMMA DispatchType ==
  ASSUME TypeOK, NEW k \in Key, NEW h \in Hooks, Dispatch(k, h),
         Succeeds \/ Fails(k, h)
  PROVE  /\ pending' \in SUBSET Key
         /\ hooks' \in Seq(HookRecord) /\ errors' \in Seq(HookRecord)
         /\ faults' \in Nat /\ edits' \in Nat
         /\ phase' = h /\ h # "idle"
         /\ result' \in Seq(HookRecord) /\ before' \in Store /\ desired' \in Store
<1>1. hooks' \in Seq(HookRecord)
  BY KeysOfAppend DEF Dispatch, TypeOK
<1>2. errors' \in Seq(HookRecord) /\ faults' \in Nat
  <2>1. CASE Succeeds
    BY <2>1 DEF Succeeds, TypeOK
  <2>2. CASE Fails(k, h)
    BY <2>2, KeysOfAppend DEF Fails, TypeOK
  <2> QED  BY <2>1, <2>2
<1> QED  BY <1>1, <1>2 DEF Dispatch, TypeOK, ownerVars, Hooks

LEMMA NextType == TypeOK /\ [Next]_vars => TypeOK'
<1> SUFFICES ASSUME TypeOK, [Next]_vars  PROVE TypeOK'
  OBVIOUS
<1> USE DEF Hooks
<1>1. ASSUME NEW items \in Lists, reconcile(items)  PROVE TypeOK'
  <2>1. dedup_by_key(items) \in Store
    BY ListsAreSequences, DedupKeys
  <2> QED  BY <1>1, <2>1 DEF reconcile, TypeOK, exit_keys, Held
<1>2. ASSUME NEW k \in Key, NEW v \in Value, get_mut(k, v)  PROVE TypeOK'
  BY <1>2 DEF get_mut, TypeOK, loopVars, Store
<1>3. ASSUME NEW k \in Key, exit_removed(k)  PROVE TypeOK'
  <2>1. Dispatch(k, "exit") /\ (Succeeds \/ Fails(k, "exit"))
    BY <1>3 DEF exit_removed
  <2>2. store' \in Store /\ live' \in SUBSET Key /\ new_map' \in Store
    BY <1>3 DEF exit_removed, TypeOK, Store
  <2> QED  BY <2>1, <2>2, DispatchType DEF TypeOK
<1>4. ASSUME NEW k \in Key, update_existing(k)  PROVE TypeOK'
  <2>1. Dispatch(k, "update") /\ (Succeeds \/ Fails(k, "update"))
    BY <1>4 DEF update_existing
  <2>2. store' \in Store /\ live' \in SUBSET Key /\ new_map' \in Store
    BY <1>4 DEF update_existing, TypeOK, Store
  <2> QED  BY <2>1, <2>2, DispatchType DEF TypeOK
<1>5. ASSUME NEW k \in Key, enter_new(k)  PROVE TypeOK'
  <2>1. Dispatch(k, "enter") /\ (Succeeds \/ Fails(k, "enter"))
    BY <1>5 DEF enter_new
  <2>2. store' \in Store /\ live' \in SUBSET Key /\ new_map' \in Store
    BY <1>5 DEF enter_new, TypeOK, Store
  <2> QED  BY <2>1, <2>2, DispatchType DEF TypeOK
<1>6. CASE start_updates
  BY <1>6 DEF start_updates, TypeOK, ownerVars, update_keys, Held
<1>7. CASE start_enters
  BY <1>7 DEF start_enters, TypeOK, ownerVars, enter_keys, Held
<1>8. CASE return_errors
  BY <1>8 DEF return_errors, TypeOK, Store, Empty
<1>9. CASE UNCHANGED vars
  BY <1>9 DEF vars, loopVars, ownerVars, TypeOK
<1> QED
  BY <1>1, <1>2, <1>3, <1>4, <1>5, <1>6, <1>7, <1>8, <1>9 DEF Next, Loop, Owner

\* Every variable keeps its type, and between two calls nothing of a call is
\* left over.
THEOREM TypeCorrect == Spec => []TypeOK
<1> QED  BY InitType, NextType, PTL DEF Spec

-----------------------------------------------------------------------------
(* The inductive invariant.                                                *)

LEMMA InitInvariant == Init => IInv
<1> SUFFICES ASSUME Init  PROVE IInv
  OBVIOUS
<1>1. TypeOK
  BY InitType
<1>2. Visited = {} /\ Failed = {}
  BY KeysOfEmpty DEF Init, Visited, Failed
<1> QED
  BY <1>1, <1>2 DEF Init, IInv, Progress, Settlement, OneHookPerKey, HooksFollowTheDiff,
                    TrackedIsLive, Held

\* What a dispatched hook does to the two logs.
LEMMA DispatchLogs ==
  ASSUME IInv, NEW k \in Key, NEW h \in Hooks, Dispatch(k, h),
         Succeeds \/ Fails(k, h)
  PROVE  /\ Visited' = Visited \cup {k} /\ k \notin Visited
         /\ Succeeds => Failed' = Failed
         /\ Fails(k, h) => Failed' = Failed \cup {k}
         /\ Failed' \subseteq Visited'
         /\ OneHookPerKey'
<1>1. Visited' = Visited \cup {k}
  BY KeysOfAppend DEF Dispatch, Visited, IInv, TypeOK
<1>2. Succeeds => Failed' = Failed
  BY DEF Succeeds, Failed
<1>3. Fails(k, h) => Failed' = Failed \cup {k}
  BY KeysOfAppend DEF Fails, Failed, IInv, TypeOK
<1>4. k \notin Visited
  BY DEF Dispatch, IInv, Progress, Hooks
<1>5. OneHookPerKey'
  <2> SUFFICES ASSUME NEW i \in DOMAIN hooks', NEW j \in DOMAIN hooks',
                      hooks'[i].key = hooks'[j].key
               PROVE  i = j
    BY DEF OneHookPerKey
  <2>1. hooks \in Seq(HookRecord) /\ [key |-> k, hook |-> h] \in HookRecord
    BY DEF IInv, TypeOK, HookRecord
  <2>2. hooks' = Append(hooks, [key |-> k, hook |-> h])
    BY DEF Dispatch
  <2>3. \A l \in DOMAIN hooks : hooks'[l] = hooks[l] /\ hooks[l].key # k
    BY <1>4, <2>1, <2>2 DEF Visited, KeysOf
  <2>4. \A l \in DOMAIN hooks' : l \in DOMAIN hooks \/ (l = Len(hooks) + 1 /\ hooks'[l].key = k)
    BY <2>1, <2>2
  <2> QED  BY <2>3, <2>4 DEF IInv, OneHookPerKey
<1> QED
  BY <1>1, <1>2, <1>3, <1>4, <1>5 DEF IInv, Settlement

\* The log stays the diff if the hook just dispatched is the one asked for.
LEMMA DispatchFollowsTheDiff ==
  ASSUME IInv, NEW k \in Key, NEW h \in Hooks, Dispatch(k, h),
         h = ThingToDo(before, desired, k)
  PROVE  \A i \in DOMAIN hooks' :
            hooks'[i].hook = ThingToDo(before', desired', hooks'[i].key)
<1>1. hooks \in Seq(HookRecord) /\ [key |-> k, hook |-> h] \in HookRecord
  BY DEF IInv, TypeOK, HookRecord
<1>2. hooks' = Append(hooks, [key |-> k, hook |-> h])
  BY DEF Dispatch
<1>3. before' = before /\ desired' = desired
  BY DEF Dispatch, ownerVars
<1>4. ASSUME NEW i \in DOMAIN hooks'
      PROVE  hooks'[i].hook = ThingToDo(before, desired, hooks'[i].key)
  <2>1. CASE i \in DOMAIN hooks
    <3>1. hooks'[i] = hooks[i]
      BY <1>1, <1>2, <2>1
    <3> QED  BY <2>1, <3>1 DEF IInv, HooksFollowTheDiff
  <2>2. CASE i \notin DOMAIN hooks
    <3>1. hooks'[i] = [key |-> k, hook |-> h]
      BY <1>1, <1>2, <2>2
    <3> QED  BY <3>1
  <2> QED  BY <2>1, <2>2
<1> QED
  BY <1>3, <1>4

\* When the enter loop has nothing left, every key of the diff was visited.
LEMMA NothingMissing ==
  ASSUME IInv, phase = "enter", pending = {}
  PROVE  Visited = Held(before) \cup Held(desired)
BY DEF IInv, Progress, exit_keys, update_keys, enter_keys

LEMMA ExitKeepsInvariant ==
  ASSUME IInv, TypeOK', NEW k \in Key, exit_removed(k)
  PROVE  IInv'
<1>1. /\ Dispatch(k, "exit") /\ (Succeeds \/ Fails(k, "exit")) /\ "exit" \in Hooks
      /\ phase = "exit" /\ phase' = "exit" /\ before' = before /\ desired' = desired
      /\ new_map' = new_map
  BY DEF exit_removed, Dispatch, ownerVars, Hooks
<1>2. k \in exit_keys(before, desired)
  BY <1>1 DEF IInv, Progress, Dispatch
<1>3. Progress'
  BY <1>1, <1>2, DispatchLogs DEF Progress, IInv, Dispatch
<1>4. Settlement'
  <2>1. store' = [store EXCEPT ![k] = None] /\ store \in Store /\ store' \in Store
    BY DEF exit_removed, IInv, TypeOK
  <2>2. desired[k] = None /\ new_map[k] = None /\ k \notin update_keys(before, desired)
    BY <1>1, <1>2, DispatchLogs DEF exit_keys, update_keys, Held, IInv, Settlement, TypeOK, Store
  <2>3. \A l \in Key : l # k => store'[l] = store[l]
    BY <2>1 DEF Store
  <2>4. store'[k] = None
    BY <2>1 DEF Store
  <2> QED
    BY <1>1, <2>2, <2>3, <2>4, DispatchLogs DEF Settlement, IInv, Held
<1>5. HooksFollowTheDiff'
  <2>1. ThingToDo(before, desired, k) = "exit"
    BY <1>2 DEF ThingToDo, exit_keys, update_keys, enter_keys
  <2> QED  BY <1>1, <2>1, DispatchFollowsTheDiff DEF HooksFollowTheDiff
<1>6. TrackedIsLive'
  BY DEF exit_removed, IInv, TrackedIsLive, Held, TypeOK, Store
<1> QED  BY <1>1, <1>3, <1>4, <1>5, <1>6, DispatchLogs DEF IInv

LEMMA UpdateKeepsInvariant ==
  ASSUME IInv, TypeOK', NEW k \in Key, update_existing(k)
  PROVE  IInv'
<1>1. /\ Dispatch(k, "update") /\ (Succeeds \/ Fails(k, "update")) /\ "update" \in Hooks
      /\ phase = "update" /\ phase' = "update" /\ before' = before /\ desired' = desired
      /\ new_map' = [new_map EXCEPT ![k] = None] /\ live' = live
  BY DEF update_existing, Dispatch, ownerVars, Hooks
<1>2. k \in update_keys(before, desired) /\ k \notin exit_keys(before, desired)
  BY <1>1 DEF IInv, Progress, Dispatch, update_keys, exit_keys
<1>3. Progress'
  BY <1>1, <1>2, DispatchLogs DEF Progress, IInv, Dispatch
<1>4. /\ \A l \in Key : l # k => store'[l] = store[l] /\ new_map'[l] = new_map[l]
      /\ new_map'[k] = None /\ store'[k] # None
      /\ Succeeds => store'[k] = desired[k]
      /\ store[k] # None
  <2>1. store \in Store /\ new_map \in Store
    BY DEF IInv, TypeOK
  <2>2. new_map[k] = desired[k] /\ desired[k] # None /\ store[k] # None
    BY <1>1, <1>2, DispatchLogs DEF IInv, Settlement, update_keys, Held
  <2>3. faults \in Nat
    BY DEF IInv, TypeOK
  <2>4. ~ (Succeeds /\ Fails(k, "update"))
    BY <2>3 DEF Succeeds, Fails
  <2> QED  BY <1>1, <2>1, <2>2, <2>4, NoneIsNoValue DEF update_existing, Store
<1>5. Settlement'
  BY <1>1, <1>2, <1>4, DispatchLogs DEF Settlement, IInv, Held
<1>6. HooksFollowTheDiff'
  <2>1. ThingToDo(before, desired, k) = "update"
    BY <1>2 DEF ThingToDo, exit_keys, update_keys, enter_keys
  <2> QED  BY <1>1, <2>1, DispatchFollowsTheDiff DEF HooksFollowTheDiff
<1>7. TrackedIsLive'
  BY <1>1, <1>4 DEF IInv, TrackedIsLive, Held
<1> QED  BY <1>1, <1>3, <1>5, <1>6, <1>7, DispatchLogs DEF IInv

LEMMA EnterKeepsInvariant ==
  ASSUME IInv, TypeOK', NEW k \in Key, enter_new(k)
  PROVE  IInv'
<1>1. /\ Dispatch(k, "enter") /\ (Succeeds \/ Fails(k, "enter")) /\ "enter" \in Hooks
      /\ phase = "enter" /\ phase' = "enter" /\ before' = before /\ desired' = desired
      /\ new_map' = [new_map EXCEPT ![k] = None]
  BY DEF enter_new, Dispatch, ownerVars, Hooks
<1>2. /\ k \in enter_keys(before, desired)
      /\ k \notin exit_keys(before, desired) /\ k \notin update_keys(before, desired)
  BY <1>1 DEF IInv, Progress, Dispatch, update_keys, exit_keys, enter_keys
<1>3. Progress'
  BY <1>1, <1>2, DispatchLogs DEF Progress, IInv, Dispatch
<1>4. /\ \A l \in Key : l # k => store'[l] = store[l] /\ new_map'[l] = new_map[l]
      /\ new_map'[k] = None
      /\ Succeeds => store'[k] = desired[k]
      /\ Fails(k, "enter") => store'[k] = None
  <2>1. store \in Store /\ new_map \in Store /\ faults \in Nat
    BY DEF IInv, TypeOK
  <2>2. new_map[k] = desired[k] /\ store[k] = None
    BY <1>1, <1>2, DispatchLogs DEF IInv, Settlement, enter_keys, Held
  <2>3. ~ (Succeeds /\ Fails(k, "enter"))
    BY <2>1 DEF Succeeds, Fails
  <2> QED  BY <1>1, <2>1, <2>2, <2>3 DEF enter_new, Store
<1>5. Settlement'
  BY <1>1, <1>2, <1>4, DispatchLogs DEF Settlement, IInv, Held
<1>6. HooksFollowTheDiff'
  <2>1. TypeOK' /\ Progress' /\ Settlement' /\ OneHookPerKey'
    BY <1>1, <1>3, <1>5, DispatchLogs
  <2>2. phase' = "enter" /\ pending' = {} => KeysOf(hooks') = Held(before') \cup Held(desired')
    BY <2>1 DEF Progress, Visited, exit_keys, update_keys, enter_keys
  <2>3. ThingToDo(before, desired, k) = "enter"
    BY <1>2 DEF ThingToDo, exit_keys, update_keys, enter_keys
  <2> QED  BY <1>1, <2>2, <2>3, DispatchFollowsTheDiff DEF HooksFollowTheDiff
<1>7. TrackedIsLive'
  BY <1>1 DEF enter_new, IInv, TrackedIsLive, Held, TypeOK, Store
<1> QED  BY <1>1, <1>3, <1>5, <1>6, <1>7, DispatchLogs DEF IInv

\* Where the loops begin and end, and what the owner does in between.
LEMMA PhasesKeepInvariant ==
  ASSUME IInv, TypeOK', start_updates \/ start_enters \/ return_errors
  PROVE  IInv'
<1>1. CASE start_updates
  <2>1. /\ Visited' = Visited /\ Failed' = Failed /\ live' = live /\ store' = store
        /\ before' = before /\ desired' = desired /\ new_map' = new_map /\ hooks' = hooks
        /\ phase = "exit" /\ pending = {} /\ phase' = "update"
        /\ pending' = update_keys(store, new_map)
    BY <1>1 DEF start_updates, ownerVars, Visited, Failed
  <2>2. Visited = exit_keys(before, desired)
    BY <2>1 DEF IInv, Progress
  <2>3. update_keys(store, new_map) = update_keys(before, desired)
    <3>1. ASSUME NEW k \in Key
          PROVE  k \in update_keys(store, new_map) <=> k \in update_keys(before, desired)
      <4>1. CASE k \in Visited
        BY <2>1, <2>2, <4>1 DEF IInv, Settlement, update_keys, exit_keys, Held
      <4>2. CASE k \notin Visited
        BY <2>1, <4>2 DEF IInv, Settlement, update_keys, Held
      <4> QED  BY <4>1, <4>2
    <3> QED  BY <3>1 DEF update_keys, Held
  <2>4. Progress'
    BY <2>1, <2>2, <2>3 DEF Progress, exit_keys, update_keys
  <2> QED
    BY <2>1, <2>4 DEF IInv, Settlement, OneHookPerKey, HooksFollowTheDiff, TrackedIsLive, Held
<1>2. CASE start_enters
  <2>1. /\ Visited' = Visited /\ Failed' = Failed /\ live' = live /\ store' = store
        /\ before' = before /\ desired' = desired /\ new_map' = new_map /\ hooks' = hooks
        /\ phase = "update" /\ pending = {} /\ phase' = "enter"
        /\ pending' = enter_keys(store, new_map)
    BY <1>2 DEF start_enters, ownerVars, Visited, Failed
  <2>2. Visited = exit_keys(before, desired) \cup update_keys(before, desired)
    BY <2>1 DEF IInv, Progress
  <2>3. enter_keys(store, new_map) = enter_keys(before, desired)
    <3>1. ASSUME NEW k \in Key
          PROVE  k \in enter_keys(store, new_map) <=> k \in enter_keys(before, desired)
      <4>1. CASE k \in Visited
        BY <2>1, <2>2, <4>1 DEF IInv, Settlement, enter_keys, update_keys, exit_keys, Held
      <4>2. CASE k \notin Visited
        BY <2>1, <4>2 DEF IInv, Settlement, enter_keys, Held
      <4> QED  BY <4>1, <4>2
    <3> QED  BY <3>1 DEF enter_keys, Held
  <2>4. Progress'
    BY <2>1, <2>2, <2>3 DEF Progress, exit_keys, update_keys, enter_keys
  <2>5. HooksFollowTheDiff'
    <3>1. pending' = {} => Visited' = Held(before') \cup Held(desired')
      BY <2>1, <2>2, <2>3 DEF exit_keys, update_keys, enter_keys
    <3> QED  BY <2>1, <3>1 DEF IInv, HooksFollowTheDiff, Visited
  <2> QED
    BY <2>1, <2>4, <2>5 DEF IInv, Settlement, OneHookPerKey, TrackedIsLive, Held
<1>3. CASE return_errors
  <2>1. /\ Visited' = {} /\ Failed' = {} /\ live' = live /\ store' = store
        /\ before' = store /\ hooks' = <<>> /\ phase' = "idle"
    BY <1>3, KeysOfEmpty DEF return_errors, Visited, Failed
  <2> QED
    BY <2>1 DEF IInv, Progress, Settlement, OneHookPerKey, HooksFollowTheDiff, TrackedIsLive,
                Held
<1> QED  BY <1>1, <1>2, <1>3

LEMMA OwnerKeepsInvariant ==
  ASSUME IInv, TypeOK', Owner
  PROVE  IInv'
<1>1. ASSUME NEW items \in Lists, reconcile(items)  PROVE IInv'
  <2>1. /\ hooks = <<>> /\ errors = <<>> /\ hooks' = <<>> /\ errors' = <<>>
        /\ phase' = "exit" /\ new_map' = desired' /\ live' = live
        /\ store' = store /\ before' = before /\ store = before
        /\ pending' = exit_keys(before', desired')
    BY <1>1 DEF reconcile, IInv, TypeOK, Settlement
  <2>2. Visited' = {} /\ Failed' = {}
    BY <2>1, KeysOfEmpty DEF Visited, Failed
  <2> QED
    BY <2>1, <2>2 DEF IInv, Progress, Settlement, OneHookPerKey, HooksFollowTheDiff,
                      TrackedIsLive, Held
<1>2. ASSUME NEW k \in Key, NEW v \in Value, get_mut(k, v)  PROVE IInv'
  <2>1. /\ hooks = <<>> /\ hooks' = <<>> /\ errors' = errors /\ phase' = "idle"
        /\ before' = store' /\ live' = live
    BY <1>2 DEF get_mut, loopVars, IInv, TypeOK
  <2>2. Visited' = Visited /\ Failed' = Failed
    BY <2>1 DEF Visited, Failed
  <2>3. TrackedIsLive'
    BY <1>2, <2>1, NoneIsNoValue DEF get_mut, IInv, TypeOK, TrackedIsLive, Held, Store
  <2> QED
    BY <2>1, <2>2, <2>3 DEF IInv, Progress, Settlement, OneHookPerKey, HooksFollowTheDiff
<1> QED  BY <1>1, <1>2 DEF Owner

\* The invariant is inductive.
LEMMA NextInvariant == IInv /\ [Next]_vars => IInv'
<1> SUFFICES ASSUME IInv, [Next]_vars  PROVE IInv'
  OBVIOUS
<1>1. TypeOK'
  BY NextType DEF IInv
<1>2. CASE UNCHANGED vars
  BY <1>1, <1>2 DEF vars, loopVars, ownerVars, IInv, Progress, Settlement, Visited, Failed,
                    OneHookPerKey, HooksFollowTheDiff, TrackedIsLive
<1> QED
  BY <1>1, <1>2, ExitKeepsInvariant, UpdateKeepsInvariant, EnterKeepsInvariant,
     PhasesKeepInvariant, OwnerKeepsInvariant DEF Next, Loop

\* In every reachable state the call is where Progress says and every key is
\* untouched, settled or failed.
THEOREM Invariance == Spec => []IInv
<1> QED  BY InitInvariant, NextInvariant, PTL DEF Spec

-----------------------------------------------------------------------------
(* The properties.                                                         *)

\* No key sees two hooks in one call.
THEOREM OneHook == Spec => []OneHookPerKey
<1>1. IInv => OneHookPerKey
  BY DEF IInv
<1> QED  BY <1>1, Invariance, PTL

\* Every hook is the one the diff asks for, and none is missing.
THEOREM DiffDispatched == Spec => []HooksFollowTheDiff
<1>1. IInv => HooksFollowTheDiff
  BY DEF IInv
<1> QED  BY <1>1, Invariance, PTL

\* What is tracked exists.
THEOREM EntriesAreLive == Spec => []TrackedIsLive
<1>1. IInv => TrackedIsLive
  BY DEF IInv
<1> QED  BY <1>1, Invariance, PTL

LEMMA RoomForOne == IInv => NeverOldAndNew
<1> SUFFICES ASSUME IInv  PROVE NeverOldAndNew
  OBVIOUS
<1>1. phase \in {"idle", "exit", "update", "enter"}
  BY DEF IInv, TypeOK, Hooks
<1>2. CASE phase = "idle"
  BY <1>2 DEF IInv, Settlement, NeverOldAndNew
<1>3. CASE phase \in {"exit", "update"}
  <2>1. ASSUME NEW k \in Held(store), k \notin Held(before)  PROVE FALSE
    <3>1. k \in Visited \ Failed => k \in Held(desired)
      BY <1>3, <2>1 DEF IInv, Settlement, Held
    <3>2. k \in Visited => k \in exit_keys(before, desired) \cup update_keys(before, desired)
      BY <1>3 DEF IInv, Progress
    <3> QED
      BY <1>3, <2>1, <3>1, <3>2
      DEF IInv, Settlement, Held, exit_keys, update_keys
  <2> QED  BY <2>1 DEF NeverOldAndNew
<1>4. CASE phase = "enter"
  <2>1. ASSUME NEW k \in Held(store), k \notin Held(desired)  PROVE FALSE
    <3>1. CASE k \in Visited
      BY <1>4, <2>1, <3>1 DEF IInv, Settlement, Held, update_keys
    <3>2. CASE k \notin Visited
      <4>1. k \in Held(before)
        BY <1>4, <2>1, <3>2 DEF IInv, Settlement, Held
      <4> QED  BY <1>4, <2>1, <3>2, <4>1 DEF IInv, Progress, exit_keys
    <3> QED  BY <3>1, <3>2
  <2> QED  BY <2>1 DEF NeverOldAndNew
<1> QED  BY <1>1, <1>2, <1>3, <1>4

\* A call never makes the set hold more than the old map or the desired one.
THEOREM OldBeforeNew == Spec => []NeverOldAndNew
<1> QED  BY RoomForOne, Invariance, PTL

LEMMA StepNoSilentOrphan ==
  ASSUME IInv, [Next]_vars, NEW k \in Orphans' \ Orphans
  PROVE  errors' = Append(errors, [key |-> k, hook |-> "exit"])
<1>1. CASE \E l \in Key : exit_removed(l)
  <2>1. PICK l \in Key : exit_removed(l)
    BY <1>1
  <2>2. k = l /\ live' = live
    BY <2>1 DEF exit_removed, Orphans, Held, IInv, TypeOK, Store
  <2>3. live' # live \ {l}
    BY <2>2 DEF Orphans
  <2> QED  BY <2>1, <2>2, <2>3 DEF exit_removed, Fails
<1>2. CASE \E l \in Key : update_existing(l)
  BY <1>2, NoneIsNoValue
  DEF update_existing, Orphans, Held, IInv, TypeOK, Store, Dispatch, Settlement, Progress,
      update_keys, Hooks
<1>3. CASE \E l \in Key : enter_new(l)
  <2>1. PICK l \in Key : enter_new(l)
    BY <1>3
  <2>2. new_map[l] = desired[l] /\ desired[l] # None
    BY <2>1, DispatchLogs DEF enter_new, Dispatch, IInv, Progress, Settlement, enter_keys,
                              Held, Hooks
  <2> QED  BY <2>1, <2>2 DEF enter_new, Orphans, Held, IInv, TypeOK, Store
<1>4. CASE UNCHANGED <<store, live>>
  BY <1>4 DEF Orphans, Held
<1>5. CASE \E l \in Key, v \in Value : get_mut(l, v)
  BY <1>5, NoneIsNoValue DEF get_mut, Orphans, Held, IInv, TypeOK, Store
<1> QED
  BY <1>1, <1>2, <1>3, <1>4, <1>5
  DEF Next, Loop, Owner, reconcile, start_updates, start_enters, return_errors, vars

\* Nothing becomes an orphan without the step reporting its failed exit.
THEOREM OrphansAreReported == Spec => NoSilentOrphan
<1>1. IInv /\ [Next]_vars =>
        [\A k \in Orphans' \ Orphans :
            errors' = Append(errors, [key |-> k, hook |-> "exit"])]_vars
  BY StepNoSilentOrphan
<1> QED  BY <1>1, Invariance, PTL DEF Spec, NoSilentOrphan

-----------------------------------------------------------------------------
(* The refinement: a call, seen by its owner, is one step of Reconcile.    *)

\* What a call leaves when it returns is what the contract allows.
LEMMA CallSettles ==
  ASSUME IInv, return_errors
  PROVE  Contract!Settles(before, desired, Failed, store)
<1>1. phase = "enter" /\ pending = {} /\ phase # "idle"
  BY DEF return_errors
<1>2. Visited = Held(before) \cup Held(desired)
  BY <1>1, NothingMissing
<1>3. Failed \subseteq Held(before) \cup Held(desired)
  BY <1>2 DEF IInv, Settlement
<1>4. ASSUME NEW k \in Key \ Failed  PROVE store[k] = desired[k]
  <2>1. CASE k \in Visited
    BY <1>1, <2>1 DEF IInv, Settlement
  <2>2. CASE k \notin Visited
    BY <1>1, <1>2, <2>2 DEF IInv, Settlement, Held
  <2> QED  BY <2>1, <2>2
<1>5. ASSUME NEW k \in Failed
      PROVE  k \in Held(store) <=> k \in Held(before) \cap Held(desired)
  <2>1. k \in Key
    BY KeysOfLog DEF IInv, TypeOK, Failed
  <2> QED  BY <1>1, <2>1 DEF IInv, Settlement, update_keys
<1> QED  BY <1>3, <1>4, <1>5 DEF Contract!Settles, Contract!Held, Held

LEMMA StepRefines ==
  ASSUME IInv, [Next]_vars
  PROVE  [Contract!Next]_(Contract!vars)
<1>1. CASE return_errors
  <2>1. before' = store /\ KeysOf(result') = Failed
    BY <1>1 DEF return_errors, Failed
  <2>2. desired \in Contract!Store /\ Failed \in SUBSET Key /\ store \in Contract!Store
    BY KeysOfLog DEF IInv, TypeOK, Contract!Store, Store, Failed
  <2>3. Contract!Settles(before, desired, Failed, before')
    BY <1>1, <2>1, CallSettles
  <2>4. Contract!Pass
    BY <1>1, <2>1, <2>2, <2>3 DEF return_errors, Contract!Pass
  <2> QED  BY <2>4 DEF Contract!Next
<1>2. CASE \E k \in Key, v \in Value : get_mut(k, v)
  <2>1. PICK k \in Key, v \in Value : get_mut(k, v)
    BY <1>2
  <2>2. /\ k \in Held(before) /\ before' = [before EXCEPT ![k] = v]
        /\ KeysOf(result') = KeysOf(result) /\ desired' = desired
    BY <2>1 DEF get_mut, IInv, Settlement
  <2>3. Contract!Mutate
    BY <2>2 DEF Contract!Mutate, Contract!Held, Held
  <2> QED  BY <2>3 DEF Contract!Next
<1>3. CASE \E items \in Lists : reconcile(items)
  <2>1. PICK items \in Lists : reconcile(items)
    BY <1>3
  <2>2. UNCHANGED <<before, KeysOf(result)>>
    BY <2>1 DEF reconcile
  <2>3. desired' \in Contract!Store
    BY NextType DEF IInv, TypeOK, Contract!Store, Store
  <2> QED  BY <2>2, <2>3 DEF Contract!Desire, Contract!Next
<1>4. CASE UNCHANGED <<before, result, desired>>
  BY <1>4 DEF Contract!vars
<1> QED
  BY <1>1, <1>2, <1>3, <1>4
  DEF Next, Loop, Owner, reconcile, exit_removed, update_existing, enter_new, Dispatch,
      ownerVars, start_updates, start_enters, vars

\* OptativeSet keeps the promise of the Reconcile trait.
THEOREM Refinement == Spec => ImplementsReconcile
<1>1. Init => Contract!Init
  BY KeysOfEmpty DEF Init, Contract!Init, Contract!Store, Store, Contract!Empty, Empty
<1>2. IInv /\ [Next]_vars => [Contract!Next]_(Contract!vars)
  BY StepRefines
<1> QED
  BY <1>1, <1>2, Invariance, PTL DEF Spec, ImplementsReconcile, Contract!Spec
=============================================================================
