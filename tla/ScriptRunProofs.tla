--------------------------- MODULE ScriptRunProofs ---------------------------
(***************************************************************************)
(* Proofs about ScriptRun, for any kinds, any finite set of keys, any      *)
(* limits and any number of failures, edits and disturbances: the summary  *)
(* of a run adds up, the limit is kept, state files are right about every  *)
(* item no failure and no limit touched, clean runs converge, and dry runs *)
(* count what differs.                                                     *)
(***************************************************************************)
EXTENDS ScriptRun, FiniteSetTheorems, TLAPS

-----------------------------------------------------------------------------
(* The inductive invariant.                                                *)

\* What a set of counters says: hooks dispatched, and items visited.
Dispatched(c) == c["enter"] + c["update"] + c["exit"]
Seen(c)       == Dispatched(c) + c["unchanged"] + c["limited"]

\* EveryItemIsCountedOnce, and within a kind: visited and unvisited items.
ItemsAddUp ==
  /\ phase \in {"kinds", "idle"} => Seen(stats) = total
  /\ phase = "hooks" => Seen(stats) + Seen(rc.counts) + Cardinality(todo) = total

\* LimitIsSpentBeforeItSkips, and what over_limit compares is what ran.
LimitIsKept ==
  phase = "hooks" =>
    /\ rc.dispatched = Dispatched(rc.counts)
    /\ options.limit # NoLimit => Dispatched(rc.counts) <= options.limit
    /\ rc.counts["limited"] > 0 /\ options.limit # NoLimit =>
         Dispatched(rc.counts) = options.limit

\* Where its items have not gone astray, the file of a kind is right, except
\* while a run that is not dry is at that kind: then the set in memory is.
SavedIsRight ==
  \A k \in Filed :
    (k # kind \/ options.dry_run) => \A x \in Key \ astray[k] : saved[k][x] = world[k][x]
StoreIsRight ==
  (kind \in Filed /\ ~options.dry_run) =>
    \A x \in Key \ astray[kind] : store[x] = world[kind][x]

\* A run that may turn out to be clean.
Undisturbed ==
  /\ phase \in {"kinds", "hooks"} /\ ~options.dry_run /\ options.limit = NoLimit
  /\ ~moved /\ stats["errors"] = 0

Fits(k, x) == k \in Observed \/ x \notin astray[k]

\* The kinds such a run has done are as declared, and so are the items it has
\* visited of the kind it is at.
DoneKindsConverge ==
  Undisturbed =>
    \A k \in Declared \ (left \cup {kind}) :
      \A x \in Key : Fits(k, x) => world[k][x] = goal[k][x]
KindConverges ==
  (Undisturbed /\ phase = "hooks" /\ rc.counts["errors"] = 0) =>
    \A x \in Key : Fits(kind, x) =>
      /\ world[kind][x] = store[x]
      /\ x \notin todo => store[x] = Want[x]

IInv ==
  /\ TypeOK
  /\ ItemsAddUp /\ LimitIsKept
  /\ SavedIsRight /\ StoreIsRight
  /\ DoneKindsConverge /\ KindConverges

-----------------------------------------------------------------------------
(* What a visit of a hook does, whichever hook it is.                      *)

Hook(x) == exit(x) \/ update(x) \/ enter(x)

LEMMA CountedAddsOne ==
  ASSUME TypeOK, NEW cs
  PROVE  /\ Counted(cs) \in [Counters -> Nat]
         /\ \A c \in Counters : Counted(cs)[c] = IF c \in cs THEN rc.counts[c] + 1
                                                             ELSE rc.counts[c]
BY DEF Counted, TypeOK

\* One of the five counters of items goes up by one; a hook is counted as
\* dispatched when it was not over the limit and had something to do.
LEMMA VisitIsCounted ==
  ASSUME TypeOK, NEW x \in Key, Hook(x)
  PROVE  /\ rc' \in [dispatched : Nat, counts : [Counters -> Nat]]
         /\ Seen(rc'.counts) = Seen(rc.counts) + 1
         /\ \/ /\ ~over_limit
               /\ rc'.dispatched = rc.dispatched + 1
               /\ Dispatched(rc'.counts) = Dispatched(rc.counts) + 1
               /\ rc'.counts["limited"] = rc.counts["limited"]
            \/ /\ over_limit
               /\ rc'.dispatched = rc.dispatched
               /\ Dispatched(rc'.counts) = Dispatched(rc.counts)
            \/ /\ rc'.dispatched = rc.dispatched
               /\ Dispatched(rc'.counts) = Dispatched(rc.counts)
               /\ rc'.counts["limited"] = rc.counts["limited"]
<1>1. \/ /\ ~over_limit
         /\ \E cs \in { {"exit"}, {"exit", "errors"}, {"update"}, {"update", "errors"},
                        {"enter"}, {"enter", "errors"} } : Count(cs)
      \/ over_limit /\ (Count({"limited"}) \/ Count({"limited", "errors"}))
      \/ rc' = [rc EXCEPT !.counts = Counted({"unchanged"})]
  BY DEF Hook, exit, update, enter
<1>2. ASSUME NEW cs \in { {"exit"}, {"exit", "errors"}, {"update"}, {"update", "errors"},
                          {"enter"}, {"enter", "errors"} },
             Count(cs)
      PROVE  /\ rc' \in [dispatched : Nat, counts : [Counters -> Nat]]
             /\ rc'.dispatched = rc.dispatched + 1
             /\ Dispatched(rc'.counts) = Dispatched(rc.counts) + 1
             /\ rc'.counts["limited"] = rc.counts["limited"]
             /\ Seen(rc'.counts) = Seen(rc.counts) + 1
  <2>1. rc' = [dispatched |-> rc.dispatched + 1, counts |-> Counted(cs)]
    BY <1>2 DEF Count
  <2>. QED  BY <1>2, <2>1, CountedAddsOne DEF Counters, Dispatched, Seen, TypeOK
<1>3. ASSUME NEW cs \in { {"limited"}, {"limited", "errors"} }, Count(cs)
      PROVE  /\ rc' \in [dispatched : Nat, counts : [Counters -> Nat]]
             /\ rc'.dispatched = rc.dispatched
             /\ Dispatched(rc'.counts) = Dispatched(rc.counts)
             /\ Seen(rc'.counts) = Seen(rc.counts) + 1
  <2>1. rc' = [dispatched |-> rc.dispatched, counts |-> Counted(cs)]
    BY <1>3 DEF Count
  <2>. QED  BY <1>3, <2>1, CountedAddsOne DEF Counters, Dispatched, Seen, TypeOK
<1>4. ASSUME rc' = [rc EXCEPT !.counts = Counted({"unchanged"})]
      PROVE  /\ rc' \in [dispatched : Nat, counts : [Counters -> Nat]]
             /\ rc'.dispatched = rc.dispatched
             /\ Dispatched(rc'.counts) = Dispatched(rc.counts)
             /\ rc'.counts["limited"] = rc.counts["limited"]
             /\ Seen(rc'.counts) = Seen(rc.counts) + 1
  <2>1. /\ rc' \in [dispatched : Nat, counts : [Counters -> Nat]]
        /\ rc'.dispatched = rc.dispatched /\ rc'.counts = Counted({"unchanged"})
    BY <1>4, CountedAddsOne DEF TypeOK
  <2>. QED  BY <2>1, CountedAddsOne DEF Counters, Dispatched, Seen, TypeOK
<1>. QED  BY <1>1, <1>2, <1>3, <1>4

\* Errors are not taken back.
LEMMA ErrorsStay ==
  ASSUME TypeOK, NEW x \in Key, Hook(x)
  PROVE  rc'.counts["errors"] >= rc.counts["errors"] /\ rc.counts["errors"] \in Nat
<1>1. \E cs : rc'.counts = Counted(cs)
  <2>1. \/ \E cs : Count(cs)
        \/ rc' = [rc EXCEPT !.counts = Counted({"unchanged"})]
    BY DEF Hook, exit, update, enter
  <2>. QED  BY <2>1 DEF Count, TypeOK
<1>. QED  BY <1>1, CountedAddsOne DEF Counters, TypeOK

\* The item and its entry change for the key visited only.  Unless that key has
\* gone astray, the two agree afterwards, or are as they were.
LEMMA VisitMovesOneItem ==
  ASSUME TypeOK, NEW x \in Key, Hook(x)
  PROVE  /\ world' \in [Kind -> Store] /\ store' \in Store /\ astray' \in [Kind -> SUBSET Key]
         /\ {faults', changes'} \subseteq Nat
         /\ \A k \in Kind \ {kind} : world'[k] = world[k] /\ astray'[k] = astray[k]
         /\ \A y \in Key \ {x} :
              /\ world'[kind][y] = world[kind][y] /\ store'[y] = store[y]
              /\ y \in astray'[kind] <=> y \in astray[kind]
         /\ options.dry_run => world' = world /\ astray' = astray
         /\ (kind \in Filed /\ ~options.dry_run) =>
              \/ x \in astray'[kind]
              \/ world'[kind][x] = store'[x]
              \/ /\ world' = world /\ store' = store
                 /\ x \in astray'[kind] <=> x \in astray[kind]
         /\ (options.limit = NoLimit /\ ~options.dry_run /\ rc'.counts["errors"] = 0) =>
              /\ store'[x] = Want[x]
              /\ \/ world'[kind][x] = store'[x]
                 \/ world' = world /\ astray' = astray /\ store' = store
<1>. DEFINE Make(v) == [world EXCEPT ![kind][x] = v]
            Keep(v) == [store EXCEPT ![x] = v]
            Lost    == [astray EXCEPT ![kind] = @ \cup {x}]
            Found   == [astray EXCEPT ![kind] = @ \ {x}]
<1>1. /\ kind \in Kind /\ x \in todo /\ changes' = changes
      /\ Want \in Store /\ Want[x] \in Value \cup {None}
  BY GoalsAreStores DEF Hook, exit, update, enter, Visit, NextUp, Exits, Updates, TypeOK,
     Want, Store
<1>2. faults' \in Nat
  <2>1. UNCHANGED faults \/ Fault
    BY DEF Hook, exit, update, enter, Works, Throws, NoEntry
  <2>. QED  BY <2>1 DEF Fault, TypeOK
<1>3. \E v \in {Want[x], None} :
        /\ world' \in {world, Make(v)} /\ store' \in {store, Keep(v)}
        /\ astray' \in {astray, Lost, Found}
  BY DEF Hook, exit, update, enter, Works, Throws, NoEntry, Astray
<1>4. PICK v \in Value \cup {None} :
        /\ world' \in {world, Make(v)} /\ store' \in {store, Keep(v)}
        /\ astray' \in {astray, Lost, Found}
  BY <1>1, <1>3
<1>5. /\ Make(v) \in [Kind -> Store] /\ Make(v)[kind][x] = v
      /\ \A k \in Kind \ {kind} : Make(v)[k] = world[k]
      /\ \A y \in Key \ {x} : Make(v)[kind][y] = world[kind][y]
  BY <1>1 DEF TypeOK, Store
<1>6. Keep(v) \in Store /\ Keep(v)[x] = v /\ \A y \in Key \ {x} : Keep(v)[y] = store[y]
  BY <1>1 DEF TypeOK, Store
<1>7. /\ Lost \in [Kind -> SUBSET Key] /\ Found \in [Kind -> SUBSET Key]
      /\ \A k \in Kind \ {kind} : Lost[k] = astray[k] /\ Found[k] = astray[k]
      /\ Lost[kind] = astray[kind] \cup {x} /\ Found[kind] = astray[kind] \ {x}
  BY <1>1 DEF TypeOK
<1>8. options.dry_run => world' = world /\ astray' = astray
  BY DEF Hook, exit, update, enter, Works, Throws, NoEntry, Astray
<1>9. ASSUME kind \in Filed, ~options.dry_run
      PROVE  \/ x \in astray'[kind]
             \/ world'[kind][x] = store'[x]
             \/ world' = world /\ store' = store /\ (x \in astray'[kind] <=> x \in astray[kind])
  <2>1. \/ astray' = Lost
        \/ \E u \in {Want[x], None} : world' = Make(u) /\ store' = Keep(u)
        \/ UNCHANGED <<world, store, astray>>
    BY <1>9 DEF Hook, exit, update, enter, Works, Throws, NoEntry, Astray
  <2>2. ASSUME NEW u \in {Want[x], None}  PROVE Make(u)[kind][x] = u /\ Keep(u)[x] = u
    BY <1>1 DEF TypeOK, Store
  <2>. QED  BY <1>7, <2>1, <2>2
<1>10. ASSUME options.limit = NoLimit, ~options.dry_run, rc'.counts["errors"] = 0
       PROVE  /\ store'[x] = Want[x]
              /\ \/ world'[kind][x] = store'[x]
                 \/ world' = world /\ astray' = astray /\ store' = store
  <2>1. \A cs : Count(cs) /\ rc'.counts["errors"] = 0 => "errors" \notin cs
    BY CountedAddsOne DEF Count, Counters, TypeOK
  <2>2. ~over_limit
    BY <1>10 DEF over_limit
  <2>3. CASE exit(x)
    <3>1. Works(x, None) /\ store' = Keep(None)
      BY <1>10, <2>1, <2>2, <2>3 DEF exit
    <3>2. Want[x] = None
      BY <1>1, <2>3 DEF exit, Exits, exit_keys, Held
    <3>. QED  BY <1>1, <1>10, <3>1, <3>2 DEF Works, TypeOK, Store
  <2>4. CASE update(x) /\ store[x] = Want[x]
    BY <2>4 DEF update
  <2>5. CASE update(x) /\ store[x] # Want[x]
    <3>1. Works(x, Want[x]) /\ store' = Keep(Want[x])
      BY <1>10, <2>1, <2>2, <2>5 DEF update
    <3>. QED  BY <1>1, <1>10, <3>1 DEF Works, TypeOK, Store
  <2>6. CASE enter(x)
    <3>1. Works(x, Want[x]) /\ store' = Keep(Want[x])
      BY <1>10, <2>1, <2>2, <2>6 DEF enter
    <3>. QED  BY <1>1, <1>10, <3>1 DEF Works, TypeOK, Store
  <2>. QED  BY <2>3, <2>4, <2>5, <2>6 DEF Hook
<1>. QED  BY <1>1, <1>2, <1>4, <1>5, <1>6, <1>7, <1>8, <1>9, <1>10 DEF TypeOK

\* What a visit leaves alone, and the key it takes off the list.
LEMMA VisitTakesOneKey ==
  ASSUME NEW x \in Key, Hook(x)
  PROVE  /\ phase = "hooks" /\ x \in todo /\ todo' = todo \ {x}
         /\ UNCHANGED <<saved, goal, options, left, kind, stats, phase, total, moved>>
BY DEF Hook, exit, update, enter, Visit, NextUp, Exits, Updates

-----------------------------------------------------------------------------
(* The invariant holds at first and is kept.                               *)

LEMMA EmptyIsAStore == Empty \in Store /\ Zero \in [Counters -> Nat]
BY DEF Empty, Store, Zero

LEMMA InitIInv == Init => IInv
<1>. SUFFICES ASSUME Init  PROVE IInv
  OBVIOUS
<1>. USE EmptyIsAStore DEF Init
<1>1. TypeOK
  BY GoalsAreStores, KindsDisjoint, BoundsAreNumbers DEF TypeOK, Kind
<1>2. ItemsAddUp /\ LimitIsKept
  BY DEF ItemsAddUp, LimitIsKept, Seen, Dispatched, Zero, Counters
<1>3. SavedIsRight /\ StoreIsRight
  BY KindsDisjoint DEF SavedIsRight, StoreIsRight, Kind
<1>4. DoneKindsConverge /\ KindConverges
  BY DEF DoneKindsConverge, KindConverges, Undisturbed
<1>. QED  BY <1>1, <1>2, <1>3, <1>4 DEF IInv

LEMMA TypesAreKept ==
  ASSUME TypeOK, [Next]_vars
  PROVE  TypeOK'
<1>. USE DEF TypeOK, run
<1>1. ASSUME NEW k \in Kind, NEW g \in Goals, edit(k, g)  PROVE TypeOK'
  BY <1>1 DEF edit
<1>2. ASSUME NEW k \in Observed, NEW x \in Key, NEW v \in Value \cup {None}, drift(k, x, v)
      PROVE  TypeOK'
  <2>1. k \in Kind /\ world' \in [Kind -> Store]
    BY <1>2 DEF drift, Store, Kind
  <2>. QED  BY <1>2, <2>1 DEF drift
<1>3. ASSUME NEW dry_run \in DryRuns, NEW limit \in Limits, start(dry_run, limit)  PROVE TypeOK'
  BY <1>3, EmptyIsAStore, LimitsAreNumbers, DryRunsAreBooleans DEF start, kinds_of
<1>4. ASSUME NEW k \in Kind, reconcile_kind(k)  PROVE TypeOK'
  <2>1. CASE phase' = "hooks"
    <3>1. store' \in Store /\ todo' \subseteq Key
      BY <1>4, <2>1 DEF reconcile_kind, Tracked, Held
    <3>2. Cardinality(todo') \in Nat
      BY <3>1, KeysAreFinitelyMany, FS_Subset, FS_CardinalityType
    <3>. QED  BY <1>4, <2>1, <3>1, <3>2, EmptyIsAStore, KindsDisjoint DEF reconcile_kind
  <2>2. CASE phase' = "aborted"
    BY <1>4, <2>2, EmptyIsAStore DEF reconcile_kind, Fault
  <2>. QED  BY <1>4, <2>1, <2>2 DEF reconcile_kind
<1>5. ASSUME NEW x \in Key, Hook(x)  PROVE TypeOK'
  BY <1>5, VisitMovesOneItem, VisitIsCounted, VisitTakesOneKey
<1>6. CASE persist
  <2>1. stats' \in [Counters -> Nat]
    BY <1>6, CountedAddsOne DEF persist, Added
  <2>2. saved' \in [Kind -> Store] /\ astray' \in [Kind -> SUBSET Key]
    BY <1>6 DEF persist
  <2>3. {faults', changes'} \subseteq Nat
    BY <1>6 DEF persist, Fault
  <2>. QED  BY <1>6, <2>1, <2>2, <2>3, EmptyIsAStore DEF persist
<1>7. CASE finish
  BY <1>7 DEF finish
<1>8. CASE UNCHANGED vars
  BY <1>8 DEF vars
<1>. QED  BY <1>1, <1>2, <1>3, <1>4, <1>5, <1>6, <1>7, <1>8 DEF Next, Run, starts, Hook

LEMMA SumsAreKept ==
  ASSUME TypeOK, ItemsAddUp, [Next]_vars
  PROVE  ItemsAddUp'
<1>. USE DEF TypeOK, ItemsAddUp, run
<1>1. ASSUME NEW k \in Kind, NEW g \in Goals, edit(k, g)  PROVE ItemsAddUp'
  BY <1>1 DEF edit, Seen, Dispatched
<1>2. ASSUME NEW k \in Observed, NEW x \in Key, NEW v \in Value \cup {None}, drift(k, x, v)
      PROVE  ItemsAddUp'
  BY <1>2 DEF drift, Seen, Dispatched
<1>3. ASSUME NEW dry_run \in DryRuns, NEW limit \in Limits, start(dry_run, limit)
      PROVE  ItemsAddUp'
  BY <1>3 DEF start, Seen, Dispatched, Zero, Counters
<1>4. ASSUME NEW k \in Kind, reconcile_kind(k)  PROVE ItemsAddUp'
  <2>1. CASE phase' = "hooks"
    <3>1. Seen(Zero) = 0
      BY DEF Seen, Dispatched, Zero, Counters
    <3>2. todo' \subseteq Key
      BY <1>4, <2>1 DEF reconcile_kind, Held
    <3>3. Cardinality(todo') \in Nat
      BY <3>2, KeysAreFinitelyMany, FS_Subset, FS_CardinalityType
    <3>4. rc'.counts = Zero /\ total' = total + Cardinality(todo') /\ stats' = stats
      BY <1>4, <2>1 DEF reconcile_kind
    <3>5. Seen(stats') = total /\ Seen(rc'.counts) = 0
      BY <1>4, <3>1, <3>4 DEF reconcile_kind
    <3>. QED  BY <2>1, <3>3, <3>4, <3>5
  <2>2. CASE phase' = "aborted"
    BY <2>2
  <2>. QED  BY <1>4, <2>1, <2>2 DEF reconcile_kind
<1>5. ASSUME NEW x \in Key, Hook(x)  PROVE ItemsAddUp'
  <2>1. phase = "hooks" /\ phase' = "hooks" /\ stats' = stats /\ total' = total
    BY <1>5, VisitTakesOneKey
  <2>2. /\ IsFiniteSet(todo) /\ Cardinality(todo) \in Nat
        /\ Cardinality(todo') = Cardinality(todo) - 1
    BY <1>5, VisitTakesOneKey, KeysAreFinitelyMany, FS_Subset, FS_RemoveElement,
       FS_CardinalityType
  <2>3. Seen(rc'.counts) = Seen(rc.counts) + 1 /\ Seen(stats') = Seen(stats)
    BY <1>5, <2>1, VisitIsCounted
  <2>4. Seen(rc.counts) \in Nat /\ Seen(stats) \in Nat
    BY DEF Seen, Dispatched, Counters
  <2>. QED  BY <2>1, <2>2, <2>3, <2>4
<1>6. CASE persist
  <2>1. phase = "hooks" /\ phase' = "kinds" /\ total' = total /\ Cardinality(todo) = 0
    BY <1>6, FS_EmptySet DEF persist
  <2>2. Seen(Added(rc.counts)) = Seen(stats) + Seen(rc.counts)
    BY DEF Seen, Dispatched, Added, Counters
  <2>3. Seen(Added(Counted({"errors"}))) = Seen(stats) + Seen(rc.counts)
    BY CountedAddsOne DEF Seen, Dispatched, Added, Counters
  <2>4. Seen(rc.counts) \in Nat /\ Seen(stats) \in Nat
    BY DEF Seen, Dispatched, Counters
  <2>5. stats' \in {Added(rc.counts), Added(Counted({"errors"}))}
    BY <1>6 DEF persist
  <2>. QED  BY <2>1, <2>2, <2>3, <2>4, <2>5
<1>7. CASE finish
  BY <1>7 DEF finish, Seen, Dispatched
<1>8. CASE UNCHANGED vars
  BY <1>8 DEF vars, Seen, Dispatched
<1>. QED  BY <1>1, <1>2, <1>3, <1>4, <1>5, <1>6, <1>7, <1>8 DEF Next, Run, starts, Hook

LEMMA LimitStaysKept ==
  ASSUME TypeOK, LimitIsKept, [Next]_vars
  PROVE  LimitIsKept'
<1>. USE DEF TypeOK, LimitIsKept, run
<1>1. ASSUME NEW k \in Kind, NEW g \in Goals, edit(k, g)  PROVE LimitIsKept'
  BY <1>1 DEF edit
<1>2. ASSUME NEW k \in Observed, NEW x \in Key, NEW v \in Value \cup {None}, drift(k, x, v)
      PROVE  LimitIsKept'
  BY <1>2 DEF drift, Dispatched
<1>3. ASSUME NEW dry_run \in DryRuns, NEW limit \in Limits, start(dry_run, limit)
      PROVE  LimitIsKept'
  BY <1>3 DEF start
<1>4. ASSUME NEW k \in Kind, reconcile_kind(k)  PROVE LimitIsKept'
  <2>1. Dispatched(Zero) = 0 /\ Zero["limited"] = 0
    BY DEF Dispatched, Zero, Counters
  <2>2. phase' = "hooks" => rc'.dispatched = 0 /\ rc'.counts = Zero /\ options' = options
    BY <1>4 DEF reconcile_kind
  <2>. QED  BY <2>1, <2>2
<1>5. ASSUME NEW x \in Key, Hook(x)  PROVE LimitIsKept'
  <2>1. phase = "hooks" /\ options' = options
    BY <1>5, VisitTakesOneKey
  <2>2. Dispatched(rc.counts) \in Nat /\ rc.counts["limited"] \in Nat
    BY DEF Dispatched, Counters
  <2>3. over_limit <=> options.limit # NoLimit /\ Dispatched(rc.counts) >= options.limit
    BY <2>1 DEF over_limit
  <2>4. options.limit # NoLimit => options.limit \in Nat
    OBVIOUS
  <2>. QED  BY <1>5, <2>1, <2>2, <2>3, <2>4, VisitIsCounted
<1>6. CASE persist
  BY <1>6 DEF persist
<1>7. CASE finish
  BY <1>7 DEF finish
<1>8. CASE UNCHANGED vars
  BY <1>8 DEF vars, Dispatched
<1>. QED  BY <1>1, <1>2, <1>3, <1>4, <1>5, <1>6, <1>7, <1>8 DEF Next, Run, starts, Hook

LEMMA FilesStayRight ==
  ASSUME TypeOK, SavedIsRight, StoreIsRight, [Next]_vars
  PROVE  SavedIsRight' /\ StoreIsRight'
<1>. DEFINE Right == SavedIsRight /\ StoreIsRight
<1>. USE DEF TypeOK, SavedIsRight, StoreIsRight, run
<1>0. Filed \subseteq Kind /\ Filed \cap Observed = {} /\ NoKind \notin Filed
  BY KindsDisjoint DEF Kind
<1>1. ASSUME NEW k \in Kind, NEW g \in Goals, edit(k, g)  PROVE Right'
  BY <1>1 DEF edit
<1>2. ASSUME NEW k \in Observed, NEW x \in Key, NEW v \in Value \cup {None}, drift(k, x, v)
      PROVE  Right'
  <2>1. k \in Kind /\ \A f \in Filed : world'[f] = world[f]
    BY <1>0, <1>2 DEF drift, Kind
  <2>. QED  BY <1>2, <2>1 DEF drift
<1>3. ASSUME NEW dry_run \in DryRuns, NEW limit \in Limits, start(dry_run, limit)  PROVE Right'
  BY <1>0, <1>3 DEF start
<1>4. ASSUME NEW k \in Kind, reconcile_kind(k)  PROVE Right'
  BY <1>0, <1>4 DEF reconcile_kind, Tracked
<1>5. ASSUME NEW x \in Key, Hook(x)  PROVE Right'
  <2>1. /\ kind \in Kind /\ kind' = kind /\ saved' = saved /\ options' = options
    BY <1>5, VisitTakesOneKey
  <2>2. SavedIsRight'
    BY <1>0, <1>5, <2>1, VisitMovesOneItem
  <2>3. StoreIsRight'
    BY <1>0, <1>5, <2>1, VisitMovesOneItem
  <2>. QED  BY <2>2, <2>3
<1>6. CASE persist
  BY <1>0, <1>6 DEF persist
<1>7. CASE finish
  BY <1>7 DEF finish
<1>8. CASE UNCHANGED vars
  BY <1>8 DEF vars
<1>. QED  BY <1>1, <1>2, <1>3, <1>4, <1>5, <1>6, <1>7, <1>8 DEF Next, Run, starts, Hook

LEMMA ConvergenceIsKept ==
  ASSUME TypeOK, SavedIsRight, DoneKindsConverge, KindConverges, [Next]_vars
  PROVE  DoneKindsConverge' /\ KindConverges'
<1>. DEFINE Converges == DoneKindsConverge /\ KindConverges
<1>. USE DEF TypeOK, DoneKindsConverge, KindConverges, Undisturbed, Fits, run
<1>1. ASSUME NEW k \in Kind, NEW g \in Goals, edit(k, g)  PROVE Converges'
  BY <1>1 DEF edit
<1>2. ASSUME NEW k \in Observed, NEW x \in Key, NEW v \in Value \cup {None}, drift(k, x, v)
      PROVE  Converges'
  BY <1>2 DEF drift
<1>3. ASSUME NEW dry_run \in DryRuns, NEW limit \in Limits, start(dry_run, limit)
      PROVE  Converges'
  BY <1>3 DEF start, Declared
<1>4. ASSUME NEW k \in Kind, reconcile_kind(k)  PROVE Converges'
  <2>1. DoneKindsConverge'
    BY <1>4, KindsDisjoint DEF reconcile_kind, Declared, kinds_of
  <2>2. KindConverges'
    <3>. SUFFICES ASSUME Undisturbed', phase' = "hooks", NEW x \in Key, Fits(k, x)
                  PROVE  /\ world[k][x] = store'[x]
                         /\ x \notin todo' => store'[x] = goal[k][x]
      BY <1>4, KindsDisjoint DEF reconcile_kind, Want
    <3>1. store' = Tracked(k) /\ todo' = Held(store') \cup Held(goal[k]) /\ ~options.dry_run
          /\ kind = NoKind
      BY <1>4 DEF reconcile_kind
    <3>2. world[k][x] = store'[x]
      BY <3>1, KindsDisjoint DEF Tracked, SavedIsRight, Kind
    <3>. QED  BY <3>1, <3>2 DEF Held
  <2>. QED  BY <2>1, <2>2
<1>5. ASSUME NEW x \in Key, Hook(x)  PROVE Converges'
  <2>1. /\ kind \in Kind /\ phase = "hooks" /\ todo' = todo \ {x}
        /\ UNCHANGED <<goal, options, left, kind, stats, phase, moved>>
    BY <1>5, VisitTakesOneKey
  <2>2. DoneKindsConverge'
    BY <1>5, <2>1, VisitMovesOneItem DEF Declared, kinds_of
  <2>3. KindConverges'
    <3>. SUFFICES ASSUME Undisturbed, rc'.counts["errors"] = 0, NEW y \in Key,
                         kind \in Observed \/ y \notin astray'[kind]
                  PROVE  /\ world'[kind][y] = store'[y]
                         /\ y \notin todo' => store'[y] = Want[y]
      BY <2>1 DEF Want
    <3>1. rc.counts["errors"] = 0
      BY <1>5, ErrorsStay
    <3>2. CASE y = x
      BY <1>5, <2>1, <3>1, <3>2, VisitMovesOneItem
    <3>3. CASE y # x
      BY <1>5, <2>1, <3>1, <3>3, VisitMovesOneItem
    <3>. QED  BY <3>2, <3>3
  <2>. QED  BY <2>2, <2>3
<1>6. CASE persist
  <2>. SUFFICES ASSUME Undisturbed', NEW k \in Declared \ left, NEW x \in Key,
                       k \in Observed \/ x \notin astray'[k]
                PROVE  world[k][x] = goal[k][x]
    BY <1>6 DEF persist, Declared, kinds_of
  <2>1. stats["errors"] = 0 /\ rc.counts["errors"] = 0
    <3>1. stats'["errors"] = 0 /\ stats' \in {Added(rc.counts), Added(Counted({"errors"}))}
      BY <1>6 DEF persist
    <3>2. /\ Added(rc.counts)["errors"] = stats["errors"] + rc.counts["errors"]
          /\ Added(Counted({"errors"}))["errors"] = stats["errors"] + rc.counts["errors"] + 1
      BY CountedAddsOne DEF Added, Counters
    <3>3. stats["errors"] \in Nat /\ rc.counts["errors"] \in Nat
      BY DEF Counters
    <3>. QED  BY <3>1, <3>2, <3>3
  <2>2. Undisturbed /\ todo = {}
    BY <1>6, <2>1 DEF persist
  <2>3. Fits(k, x)
    <3>1. k \in Kind /\ kind \in Kind /\ astray[k] \subseteq astray'[k]
      BY <1>6 DEF persist, Declared, kinds_of
    <3>. QED  BY <3>1
  <2>. QED  BY <1>6, <2>1, <2>2, <2>3 DEF persist, Want
<1>7. CASE finish
  BY <1>7 DEF finish
<1>8. CASE UNCHANGED vars
  BY <1>8 DEF vars, Declared, kinds_of, Want
<1>. QED  BY <1>1, <1>2, <1>3, <1>4, <1>5, <1>6, <1>7, <1>8 DEF Next, Run, starts, Hook

LEMMA NextIInv == IInv /\ [Next]_vars => IInv'
BY TypesAreKept, SumsAreKept, LimitStaysKept, FilesStayRight, ConvergenceIsKept DEF IInv

-----------------------------------------------------------------------------
(* The theorems.                                                           *)

THEOREM Invariance == Spec => []IInv
BY InitIInv, NextIInv, PTL DEF Spec

\* Every variable keeps its type.
THEOREM TypeCorrect == Spec => []TypeOK
<1>1. IInv => TypeOK
  BY DEF IInv
<1>. QED  BY <1>1, Invariance, PTL

\* The summary of a run counts every item it diffed once and only once
\* (log_count_and_dispatch, over_limit, eval_and_reconcile).
THEOREM SummaryAddsUp == Spec => []EveryItemIsCountedOnce
<1>1. IInv => EveryItemIsCountedOnce
  BY DEF IInv, ItemsAddUp, EveryItemIsCountedOnce, Seen, Dispatched
<1>. QED  BY <1>1, Invariance, PTL

\* At most `limit` hooks of a kind run, and none is skipped before they have
\* (over_limit).
THEOREM LimitHolds == Spec => []LimitIsSpentBeforeItSkips
<1>1. IInv => LimitIsSpentBeforeItSkips
  BY DEF IInv, LimitIsKept, LimitIsSpentBeforeItSkips, Dispatched
<1>. QED  BY <1>1, Invariance, PTL

\* Between runs a state file is right about every item that no failure and no
\* limit has touched (the hooks of JsLeafJson, OptativeJsonSet).
THEOREM FilesAreRight == Spec => []FileIsRightElsewhere
<1>1. IInv => FileIsRightElsewhere
  BY KindsDisjoint DEF IInv, TypeOK, SavedIsRight, FileIsRightElsewhere, Kind
<1>. QED  BY <1>1, Invariance, PTL

\* A run without limit, errors and disturbance leaves what the script declares
\* (eval_and_reconcile).
THEOREM CleanRunsConverge == Spec => CleanRunConverges
<1>1. ASSUME IInv, [Next]_vars
      PROVE  [ Clean => \A k \in Declared : \A x \in Key :
                 (k \in Observed \/ x \notin astray[k]) => world[k][x] = goal[k][x] ]_vars
  <2>. SUFFICES ASSUME Clean, Next
                PROVE  \A k \in Declared : \A x \in Key : Fits(k, x) => world[k][x] = goal[k][x]
    BY <1>1 DEF Fits
  <2>1. finish
    BY DEF Clean, Next, Run, starts, edit, drift, start, reconcile_kind, exit, update, enter,
           Visit, persist
  <2>2. Undisturbed /\ left = {} /\ kind \notin Declared
    BY <2>1, KindsDisjoint DEF Clean, Undisturbed, finish, Declared, kinds_of
  <2>. QED  BY <1>1, <2>2 DEF IInv, DoneKindsConverge
<1>. QED  BY <1>1, Invariance, PTL DEF Spec, CleanRunConverges
-----------------------------------------------------------------------------
(* What a dry run counts.                                                  *)

\* What of the kinds K is not as the script declares it.
Differs(k) == {x \in Key : Tracked(k)[x] # goal[k][x]}
Undone(K)  == {p \in K \X Key : p[2] \in Differs(p[1])}

\* Hooks that ran, or would have but for the limit.
Changed(c) == Dispatched(c) + c["limited"]

\* optative-esto/src/lib.rs:26-33: the exit status of a dry run is what it counted
\* as entered, updated and exited.  In a world that keeps still, that and what the
\* limit skipped is how many items are not as the script declares them, whatever
\* cannot be converted to an entry; and without limit nothing is skipped.
DryRunCountsTheDifference ==
  [][ /\ phase = "kinds" /\ phase' = "idle" /\ options.dry_run /\ ~moved
      => /\ IsFiniteSet(Undone(Declared)) /\ Changed(stats) = Cardinality(Undone(Declared))
         /\ options.limit = NoLimit => Dispatched(stats) = Changed(stats) ]_vars

\* A dry run in a world that keeps still.
Still == phase \in {"kinds", "hooks"} /\ options.dry_run /\ ~moved

\* What such a run has counted of the kinds it has done, and of the kind it is
\* at; of that kind it has not altered what it has still to visit.
DoneAreCounted ==
  Still =>
    /\ left \subseteq Declared /\ kind \in Declared \cup {NoKind} /\ kind \notin left
    /\ IsFiniteSet(Undone(Declared \ (left \cup {kind})))
    /\ Changed(stats) = Cardinality(Undone(Declared \ (left \cup {kind})))
    /\ options.limit = NoLimit => stats["limited"] = 0
KindIsCounted ==
  (Still /\ phase = "hooks") =>
    /\ \A x \in todo : store[x] = Tracked(kind)[x]
    /\ Changed(rc.counts) = Cardinality(Differs(kind) \ todo)
    /\ options.limit = NoLimit => rc.counts["limited"] = 0

CInv == DoneAreCounted /\ KindIsCounted

LEMMA DiffersIsFinite ==
  ASSUME NEW k
  PROVE  IsFiniteSet(Differs(k)) /\ Differs(k) \subseteq Key
BY KeysAreFinitelyMany, FS_Subset DEF Differs

\* One more kind is as many more items as differ of that kind.
LEMMA OneMoreKind ==
  ASSUME NEW K, NEW k, k \notin K, IsFiniteSet(Undone(K))
  PROVE  /\ IsFiniteSet(Undone(K \cup {k}))
         /\ Cardinality(Undone(K \cup {k})) = Cardinality(Undone(K)) + Cardinality(Differs(k))
<1>. DEFINE New == {k} \X Differs(k)
<1>1. Undone(K \cup {k}) = Undone(K) \cup New /\ Undone(K) \cap New = {}
  BY DiffersIsFinite DEF Undone
<1>2. IsFiniteSet({k}) /\ Cardinality({k}) = 1
  BY FS_Singleton
<1>3. /\ IsFiniteSet(Differs(k)) /\ Cardinality(Differs(k)) \in Nat
      /\ IsFiniteSet(New) /\ Cardinality(New) = Cardinality(Differs(k))
  <2>1. IsFiniteSet(New) /\ Cardinality(New) = 1 * Cardinality(Differs(k))
    BY <1>2, DiffersIsFinite, FS_Product
  <2>2. IsFiniteSet(Differs(k)) /\ Cardinality(Differs(k)) \in Nat
    BY DiffersIsFinite, FS_CardinalityType
  <2>. HIDE DEF New
  <2>. QED  BY <2>1, <2>2
<1>. HIDE DEF New
<1>4. /\ IsFiniteSet(Undone(K) \cup New)
      /\ Cardinality(Undone(K) \cup New)
           = Cardinality(Undone(K)) + Cardinality(New) - Cardinality(Undone(K) \cap New)
  BY <1>3, FS_Union
<1>5. Cardinality(Undone(K)) \in Nat /\ Cardinality({}) = 0
  BY FS_CardinalityType, FS_EmptySet
<1>6. Cardinality(Undone(K) \cap New) = 0
  <2>1. Undone(K) \cap New = {}
    BY <1>1
  <2>. QED  BY <1>5, <2>1, Zenon
<1>7. Cardinality(Undone(K) \cup New) = Cardinality(Undone(K)) + Cardinality(Differs(k))
  BY <1>3, <1>4, <1>5, <1>6
<1>. QED  BY <1>1, <1>4, <1>7

\* In a dry run a hook is counted as a change exactly when its item differs.
LEMMA ChangesAreCounted ==
  ASSUME TypeOK, options.dry_run, NEW x \in Key, Hook(x)
  PROVE  /\ Changed(rc'.counts) = Changed(rc.counts) + IF store[x] # Want[x] THEN 1 ELSE 0
         /\ (options.limit = NoLimit) => rc'.counts["limited"] = rc.counts["limited"]
         /\ \A y \in Key \ {x} : store'[y] = store[y]
<1>1. \/ /\ store[x] # Want[x]
         /\ \E c \in {"exit", "update", "enter", "limited"} :
              /\ Count({c}) \/ Count({c, "errors"})
              /\ c = "limited" => options.limit # NoLimit
      \/ /\ store[x] = Want[x]
         /\ rc' = [rc EXCEPT !.counts = Counted({"unchanged"})]
  BY DEF Hook, exit, update, enter, Exits, exit_keys, enter_keys, Held, over_limit, Works, Throws
<1>2. \E cs :
        /\ rc'.counts = Counted(cs)
        /\ \/ /\ store[x] # Want[x]
              /\ \E c \in {"exit", "update", "enter", "limited"} :
                   /\ cs \in {{c}, {c, "errors"}}
                   /\ c = "limited" => options.limit # NoLimit
           \/ store[x] = Want[x] /\ cs = {"unchanged"}
  <2>1. ASSUME NEW cs, Count(cs)  PROVE rc'.counts = Counted(cs)
    BY <2>1 DEF Count
  <2>2. rc' = [rc EXCEPT !.counts = Counted({"unchanged"})] => rc'.counts = Counted({"unchanged"})
    BY DEF TypeOK
  <2>. QED  BY <1>1, <2>1, <2>2
<1>3. \A c \in Counters : rc.counts[c] \in Nat
  BY DEF TypeOK
<1>. QED  BY <1>2, <1>3, CountedAddsOne, VisitMovesOneItem DEF Changed, Dispatched, Counters

LEMMA InitCInv == Init => CInv
BY DEF Init, CInv, DoneAreCounted, KindIsCounted, Still

LEMMA CountsAreKept ==
  ASSUME TypeOK, CInv, [Next]_vars
  PROVE  CInv'
<1>. USE DEF CInv, DoneAreCounted, KindIsCounted, Still
<1>0. NoKind \notin Declared /\ Declared \subseteq Kind
  BY KindsDisjoint DEF Declared, kinds_of
<1>1. ASSUME NEW k \in Kind, NEW g \in Goals, edit(k, g)  PROVE CInv'
  BY <1>1 DEF edit, run
<1>2. ASSUME NEW k \in Observed, NEW x \in Key, NEW v \in Value \cup {None}, drift(k, x, v)
      PROVE  CInv'
  BY <1>2 DEF drift
<1>3. ASSUME NEW dry_run \in DryRuns, NEW limit \in Limits, start(dry_run, limit)
      PROVE  CInv'
  <2>1. phase # "hooks" /\ kind = NoKind
    BY <1>3 DEF start, TypeOK
  <2>2. /\ Declared' = Declared /\ left' = Declared /\ kind' = NoKind /\ phase' = "kinds"
        /\ stats' = Zero
    BY <1>3, <2>1 DEF start, Declared
  <2>3. \A K : K = {} => Undone(K)' = {}
    BY DEF Undone
  <2>4. Changed(Zero) = 0 /\ Zero["limited"] = 0
    BY DEF Changed, Dispatched, Zero, Counters
  <2>5. (Declared \ (left \cup {kind}))' = {}
    BY <2>2
  <2>6. Undone(Declared \ (left \cup {kind}))' = {}
    BY <2>3, <2>5
  <2>7. IsFiniteSet({}) /\ Cardinality({}) = 0
    BY FS_EmptySet
  <2>8. DoneAreCounted'
    BY <1>0, <2>2, <2>4, <2>6, <2>7
  <2>. QED  BY <2>2, <2>8
<1>4. ASSUME NEW k \in Kind, reconcile_kind(k)  PROVE CInv'
  <2>. SUFFICES ASSUME Still'  PROVE CInv'
    OBVIOUS
  <2>1. /\ phase' = "hooks" /\ kind = NoKind /\ kind' = k /\ k \in left /\ left' = left \ {k}
        /\ store' = Tracked(k) /\ todo' = Held(store') \cup Held(goal[k])
        /\ rc' = [dispatched |-> 0, counts |-> Zero]
        /\ UNCHANGED <<stats, world, saved, goal, options>> /\ Still
    BY <1>4 DEF reconcile_kind
  <2>2. Declared' = Declared /\ Tracked(k)' = Tracked(k) /\ Differs(k)' = Differs(k)
    BY <2>1 DEF Declared, Tracked, Differs
  <2>3. \A K : Undone(K)' = Undone(K)
    BY <2>1 DEF Undone, Differs, Tracked
  <2>4. (Declared \ (left \cup {kind}))' = Declared \ (left \cup {kind})
    BY <1>0, <2>1, <2>2
  <2>5. DoneAreCounted'
    BY <2>1, <2>2, <2>3, <2>4
  <2>6. Changed(Zero) = 0 /\ Zero["limited"] = 0
    BY DEF Changed, Dispatched, Zero, Counters
  <2>7. Differs(k) \ todo' = {}
    BY <2>1 DEF Differs, Held
  <2>8. KindIsCounted'
    BY <2>1, <2>2, <2>6, <2>7, FS_EmptySet
  <2>. QED  BY <2>5, <2>8
<1>5. ASSUME NEW x \in Key, Hook(x)  PROVE CInv'
  <2>. SUFFICES ASSUME Still'  PROVE CInv'
    OBVIOUS
  <2>1. /\ phase = "hooks" /\ x \in todo /\ todo' = todo \ {x}
        /\ UNCHANGED <<saved, goal, options, left, kind, stats, phase, total, moved>>
    BY <1>5, VisitTakesOneKey
  <2>2. Still /\ kind \in Kind
    BY <2>1 DEF TypeOK
  <2>3. world' = world
    BY <1>5, <2>2, VisitMovesOneItem
  <2>4. /\ Declared' = Declared /\ \A k : Tracked(k)' = Tracked(k)
        /\ \A k : Differs(k)' = Differs(k)
    BY <2>1, <2>3 DEF Declared, Tracked, Differs
  <2>5. \A K : Undone(K)' = Undone(K)
    BY <2>4 DEF Undone
  <2>6. (Declared \ (left \cup {kind}))' = Declared \ (left \cup {kind})
    BY <2>1, <2>4
  <2>7. DoneAreCounted'
    BY <2>1, <2>2, <2>4, <2>5, <2>6
  <2>8. /\ Changed(rc'.counts) = Changed(rc.counts) + IF store[x] # Want[x] THEN 1 ELSE 0
        /\ options.limit = NoLimit => rc'.counts["limited"] = rc.counts["limited"]
        /\ \A y \in Key \ {x} : store'[y] = store[y]
    BY <1>5, <2>2, ChangesAreCounted
  <2>9. (store[x] # Want[x]) <=> (x \in Differs(kind))
    BY <2>1, <2>2 DEF Differs, Want
  <2>10. /\ IsFiniteSet(Differs(kind) \ todo) /\ x \notin Differs(kind) \ todo
         /\ Cardinality(Differs(kind) \ todo) \in Nat
    BY <2>1, DiffersIsFinite, FS_Difference, FS_CardinalityType
  <2>11. Differs(kind) \ todo' = IF x \in Differs(kind) THEN (Differs(kind) \ todo) \cup {x}
                                                         ELSE Differs(kind) \ todo
    BY <2>1
  <2>12. Cardinality(Differs(kind) \ todo')
           = Cardinality(Differs(kind) \ todo) + IF x \in Differs(kind) THEN 1 ELSE 0
    <3>1. CASE x \in Differs(kind)
      <4>. DEFINE D == Differs(kind) \ todo
      <4>1. Cardinality(D \cup {x}) = Cardinality(D) + 1
        BY <2>10, FS_AddElement
      <4>. QED  BY <2>11, <3>1, <4>1
    <3>2. CASE x \notin Differs(kind)
      BY <2>10, <2>11, <3>2
    <3>. QED  BY <3>1, <3>2
  <2>13. (Differs(kind) \ todo)' = Differs(kind) \ todo'
    BY <2>1, <2>4
  <2>14. KindIsCounted'
    <3>1. Changed(rc'.counts) = Cardinality((Differs(kind) \ todo)')
      BY <2>1, <2>2, <2>8, <2>9, <2>12, <2>13
    <3>2. \A y \in todo' : store'[y] = Tracked(kind)[y]
      BY <2>1, <2>2, <2>8 DEF TypeOK
    <3>. QED  BY <2>1, <2>2, <2>4, <2>8, <3>1, <3>2
  <2>. QED  BY <2>7, <2>14
<1>6. CASE persist
  <2>. SUFFICES ASSUME Still'  PROVE CInv'
    OBVIOUS
  <2>1. /\ phase = "hooks" /\ todo = {} /\ phase' = "kinds" /\ kind' = NoKind
        /\ stats' = Added(rc.counts)
        /\ UNCHANGED <<world, saved, goal, options, left, moved>> /\ Still
    BY <1>6 DEF persist
  <2>2. \A K : Undone(K)' = Undone(K)
    BY <2>1 DEF Undone, Differs, Tracked
  <2>3. kind \in Declared /\ Declared' = Declared
    BY <2>1 DEF Declared, TypeOK
  <2>. DEFINE Done == Declared \ (left \cup {kind})
  <2>4. (Declared \ (left \cup {kind}))' = Done \cup {kind}
    BY <1>0, <2>1, <2>3
  <2>5. /\ IsFiniteSet(Undone(Done \cup {kind}))
        /\ Cardinality(Undone(Done \cup {kind}))
             = Cardinality(Undone(Done)) + Cardinality(Differs(kind))
    BY <2>1, OneMoreKind
  <2>6. /\ Changed(stats') = Changed(stats) + Changed(rc.counts)
        /\ stats'["limited"] = stats["limited"] + rc.counts["limited"]
    BY <2>1 DEF Changed, Dispatched, Added, Counters, TypeOK
  <2>7. Changed(rc.counts) = Cardinality(Differs(kind))
    <3>1. Differs(kind) \ todo = Differs(kind)
      BY <2>1
    <3>. QED  BY <2>1, <3>1
  <2>. QED  BY <2>1, <2>2, <2>3, <2>4, <2>5, <2>6, <2>7, <1>0
<1>7. CASE finish
  BY <1>7 DEF finish
<1>8. CASE UNCHANGED vars
  <2>1. \A K : Undone(K)' = Undone(K) /\ \A k : Differs(k)' = Differs(k) /\ Tracked(k)' = Tracked(k)
    BY <1>8 DEF vars, Undone, Differs, Tracked
  <2>2. Declared' = Declared
    BY <1>8 DEF vars, Declared
  <2>. QED  BY <1>8, <2>1, <2>2 DEF vars, run
<1>. QED  BY <1>1, <1>2, <1>3, <1>4, <1>5, <1>6, <1>7, <1>8 DEF Next, Run, starts, Hook

\* What a dry run counts, and so the exit status it ends with, is how many items
\* of the declared kinds are not as declared (log_count_and_dispatch, over_limit,
\* run_file_with_options).
THEOREM DryRunsCountRight == Spec => DryRunCountsTheDifference
<1>1. ASSUME TypeOK, CInv, [Next]_vars
      PROVE  [ /\ phase = "kinds" /\ phase' = "idle" /\ options.dry_run /\ ~moved
               => /\ IsFiniteSet(Undone(Declared))
                  /\ Changed(stats) = Cardinality(Undone(Declared))
                  /\ options.limit = NoLimit => Dispatched(stats) = Changed(stats) ]_vars
  <2>. SUFFICES ASSUME Next, phase = "kinds", phase' = "idle", options.dry_run, ~moved
                PROVE  /\ IsFiniteSet(Undone(Declared))
                       /\ Changed(stats) = Cardinality(Undone(Declared))
                       /\ options.limit = NoLimit => Dispatched(stats) = Changed(stats)
    BY <1>1
  <2>1. finish
    BY DEF Next, Run, starts, edit, drift, start, reconcile_kind, exit, update, enter,
           Visit, persist
  <2>2. left = {} /\ kind = NoKind /\ NoKind \notin Declared
    BY <2>1, KindsDisjoint DEF finish, Declared, kinds_of
  <2>3. Declared \ (left \cup {kind}) = Declared
    BY <2>2
  <2>4. Dispatched(stats) \in Nat
    BY <1>1 DEF TypeOK, Dispatched, Counters
  <2>. QED  BY <1>1, <2>3, <2>4 DEF CInv, DoneAreCounted, Still, Changed
<1>2. Spec => []CInv
  <2>1. TypeOK /\ CInv /\ [Next]_vars => CInv'
    BY CountsAreKept
  <2>. QED  BY InitCInv, TypeCorrect, <2>1, PTL DEF Spec
<1>. QED  BY <1>1, <1>2, TypeCorrect, PTL DEF Spec, DryRunCountsTheDifference
=============================================================================
