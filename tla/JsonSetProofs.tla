---------------------------- MODULE JsonSetProofs ----------------------------
(***************************************************************************)
(* Proofs about JsonSet, for any finite set of processes, any keys and     *)
(* values, and any number of crashes, failures and edits: the file is only *)
(* ever replaced by a whole map, a process alone with its file knows what  *)
(* is in it and is wrong about unsaved items only, and the whole of it     *)
(* implements DurableMap.                                                  *)
(***************************************************************************)
EXTENDS JsonSet, FiniteSetTheorems, TLAPS

-----------------------------------------------------------------------------
(* The inductive invariant.                                                *)

Running == {"idle", "hooks", "writing", "rename"}

\* What waits to be renamed is the map of its writer, unless it was removed.
WrittenIsWhole ==
  \A p \in Proc : pc[p] = "rename" => fresh[p] \in {NoFile, inner[p]}

\* A process that has no map yet has dispatched no hook.
OnlyRunningTouch ==
  \A p \in Proc : pc[p] \notin Running => touched[p] = {}

\* The map in memory tells the truth about every item, except those earlier
\* processes lost and those whose exit failed; hooks repair it key by key.
MemoryIsRight ==
  \A p \in Proc : users = {p} /\ pc[p] \in Running =>
    \A k \in Key \ ((astray \ touched[p]) \cup orphans) :
      k \in live <=> inner[p][k] # None

\* OnlyUnsavedItemsAreMisjudged, with the one process named.
FileIsRight ==
  \A p \in Proc : users = {p} =>
    \A k \in Key \ (astray \cup touched[p] \cup orphans) :
      k \in live <=> file # NoFile /\ file[k] # None

IInv ==
  /\ TypeOK
  /\ WrittenIsWhole
  /\ OnlyRunningTouch
  /\ MemoryIsRight
  /\ FileIsRight
  /\ AloneItsFileIsCurrent

-----------------------------------------------------------------------------
(* Types.                                                                  *)

LEMMA NoMapIsEmpty == Empty \in Store /\ NoFile \notin Store /\ Torn \notin Store
BY FilesAreNoStores DEF Empty, Store

LEMMA BudgetsAreNumbers ==
  ASSUME NEW U \in (SUBSET Proc) \ {{}}
  PROVE  /\ MaxFaults[Cardinality(U)] \in Nat
         /\ MaxStops[Cardinality(U)] \in Nat
         /\ MaxEdits[Cardinality(U)] \in Nat
<1>1. /\ IsFiniteSet(U) /\ Cardinality(U) \in Nat /\ Cardinality(Proc) \in Nat
      /\ Cardinality(U) <= Cardinality(Proc)
  BY ProcessesAreFinitelyMany, FS_Subset, FS_CardinalityType
<1>2. Cardinality(U) # 0
  BY <1>1, FS_EmptySet
<1>3. Cardinality(U) \in 1..Cardinality(Proc)
  BY <1>1, <1>2
<1>. QED  BY <1>3, BoundsAreNumbers

LEMMA InitTypes == Init => TypeOK
<1>. SUFFICES ASSUME Init  PROVE TypeOK
  OBVIOUS
<1>1. /\ MaxFaults[Cardinality(users)] \in Nat
      /\ MaxStops[Cardinality(users)] \in Nat
      /\ MaxEdits[Cardinality(users)] \in Nat
  BY BudgetsAreNumbers DEF Init
<1>2. {faults, stops, edits} \subseteq Nat
  BY <1>1 DEF Init
<1>3. live \in SUBSET Key
  BY DEF Init, Held
<1>. QED  BY <1>2, <1>3, NoMapIsEmpty, GoalsAreStores DEF Init, TypeOK, Places

LEMMA OneEntryChanged ==
  ASSUME NEW p \in Proc, NEW k \in Key, NEW v \in Value \cup {None},
         inner \in [Proc -> Store], inner' = [inner EXCEPT ![p][k] = v]
  PROVE  /\ inner' \in [Proc -> Store]
         /\ inner'[p][k] = v
         /\ \A j \in Key \ {k} : inner'[p][j] = inner[p][j]
         /\ \A q \in Proc \ {p} : inner'[q] = inner[q]
BY DEF Store

LEMMA OneSiblingChanged ==
  ASSUME NEW p \in Proc, NEW f \in Store \cup {NoFile, Torn},
         fresh \in [Proc -> Store \cup {NoFile, Torn}], fresh' = [fresh EXCEPT ![p] = f]
  PROVE  /\ fresh' \in [Proc -> Store \cup {NoFile, Torn}]
         /\ fresh'[p] = f
         /\ \A q \in Proc \ {p} : fresh'[q] = fresh[q]
OBVIOUS

LEMMA TypesAreKept ==
  ASSUME TypeOK, WrittenIsWhole, [Next]_vars
  PROVE  TypeOK'
<1>. USE NoMapIsEmpty DEF TypeOK, Places, Goto, Fault, budget, world, memory, disk
<1>1. ASSUME NEW p \in users, list_new_files(p), UNCHANGED users  PROVE TypeOK'
  BY <1>1 DEF list_new_files
<1>2. ASSUME NEW p \in users, NEW q \in Proc, remove_new_file(p, q), UNCHANGED users
      PROVE  TypeOK'
  BY <1>2 DEF remove_new_file
<1>3. ASSUME NEW p \in users, load(p), UNCHANGED users  PROVE TypeOK'
  BY <1>3 DEF load
<1>4. ASSUME NEW p \in users, reconcile(p), UNCHANGED users  PROVE TypeOK'
  BY <1>4, GoalsAreStores DEF reconcile, Held
<1>5. ASSUME NEW p \in users, NEW k \in Key, exit(p, k), UNCHANGED users  PROVE TypeOK'
  <2>1. p \in Proc /\ inner' \in [Proc -> Store]
    BY <1>5, OneEntryChanged DEF exit
  <2>2. touched' \in [Proc -> SUBSET Key] /\ todo' \in [Proc -> SUBSET Key]
    BY <1>5 DEF exit, Hook
  <2>3. live' \in SUBSET Key /\ orphans' \in SUBSET Key /\ {faults', stops', edits'} \subseteq Nat
    BY <1>5 DEF exit
  <2>. QED  BY <1>5, <2>1, <2>2, <2>3 DEF exit, Hook
<1>6. ASSUME NEW p \in users, NEW k \in Key, update(p, k), UNCHANGED users  PROVE TypeOK'
  <2>1. want[p][k] \in Value \cup {None}
    BY <1>6 DEF Store
  <2>2. inner' \in [Proc -> Store]
    BY <1>6, <2>1, OneEntryChanged DEF update
  <2>3. {faults', stops', edits'} \subseteq Nat
    BY <1>6 DEF update
  <2>. QED  BY <1>6, <2>2, <2>3 DEF update, Hook
<1>7. ASSUME NEW p \in users, NEW k \in Key, enter(p, k), UNCHANGED users  PROVE TypeOK'
  <2>1. want[p][k] \in Value \cup {None}
    BY <1>7 DEF Store
  <2>2. inner' \in [Proc -> Store]
    BY <1>7, <2>1, OneEntryChanged DEF enter
  <2>3. touched' \in [Proc -> SUBSET Key] /\ todo' \in [Proc -> SUBSET Key]
    BY <1>7 DEF enter, Hook
  <2>4. live' \in SUBSET Key /\ orphans' \in SUBSET Key /\ {faults', stops', edits'} \subseteq Nat
    BY <1>7 DEF enter
  <2>. QED  BY <1>7, <2>2, <2>3, <2>4 DEF enter, Hook
<1>8. ASSUME NEW p \in users, write_begin(p), UNCHANGED users  PROVE TypeOK'
  <2>1. p \in Proc /\ fresh' \in [Proc -> Store \cup {NoFile, Torn}]
    BY <1>8 DEF write_begin, new_file_path
  <2>2. pc' \in [Proc -> Places] /\ persist_error' \in [Proc -> BOOLEAN]
    BY <1>8 DEF write_begin, PersistFails
  <2>. QED  BY <1>8, <2>1, <2>2 DEF write_begin
<1>9. ASSUME NEW p \in users, write_end(p), UNCHANGED users  PROVE TypeOK'
  <2>1. p \in Proc /\ fresh' \in [Proc -> Store \cup {NoFile, Torn}]
    BY <1>9 DEF write_end, new_file_path
  <2>2. pc' \in [Proc -> Places] /\ persist_error' \in [Proc -> BOOLEAN]
    BY <1>9 DEF write_end, PersistFails
  <2>. QED  BY <1>9, <2>1, <2>2 DEF write_end
<1>10. ASSUME NEW p \in users, rename(p), UNCHANGED users  PROVE TypeOK'
  <2>1. file' \in Store \cup {NoFile}
    BY <1>10 DEF rename, new_file_path, WrittenIsWhole
  <2>2. fresh' \in [Proc -> Store \cup {NoFile, Torn}]
    BY <1>10 DEF rename, new_file_path
  <2>3. pc' \in [Proc -> Places] /\ persist_error' \in [Proc -> BOOLEAN]
    BY <1>10 DEF rename, PersistFails
  <2>4. /\ touched' \in [Proc -> SUBSET Key] /\ astray' \in SUBSET Key
        /\ {faults', stops', edits'} \subseteq Nat
    BY <1>10 DEF rename, PersistFails
  <2>. QED  BY <1>10, <2>1, <2>2, <2>3, <2>4 DEF rename
<1>11. ASSUME NEW p \in users, stop(p), UNCHANGED users  PROVE TypeOK'
  BY <1>11 DEF stop
<1>12. ASSUME NEW g \in Goals, edit(g), UNCHANGED users  PROVE TypeOK'
  BY <1>12 DEF edit
<1>13. CASE UNCHANGED vars
  BY <1>13 DEF vars
<1>. QED
  BY <1>1, <1>2, <1>3, <1>4, <1>5, <1>6, <1>7, <1>8, <1>9, <1>10, <1>11, <1>12, <1>13
  DEF Next, Step

-----------------------------------------------------------------------------
(* The other conjuncts, one lemma each.                                    *)

LEMMA WholeIsKept ==
  ASSUME TypeOK, WrittenIsWhole, [Next]_vars
  PROVE  WrittenIsWhole'
<1>. USE DEF TypeOK, Goto, memory, disk, world, WrittenIsWhole
<1>1. ASSUME NEW p \in users, list_new_files(p), UNCHANGED users  PROVE WrittenIsWhole'
  BY <1>1 DEF list_new_files
<1>2. ASSUME NEW p \in users, NEW q \in Proc, remove_new_file(p, q), UNCHANGED users  PROVE WrittenIsWhole'
  BY <1>2 DEF remove_new_file
<1>3. ASSUME NEW p \in users, load(p), UNCHANGED users  PROVE WrittenIsWhole'
  BY <1>3 DEF load
<1>4. ASSUME NEW p \in users, reconcile(p), UNCHANGED users  PROVE WrittenIsWhole'
  BY <1>4 DEF reconcile
<1>5. ASSUME NEW p \in users, NEW k \in Key, exit(p, k), UNCHANGED users  PROVE WrittenIsWhole'
  BY <1>5, OneEntryChanged DEF exit, Hook
<1>6. ASSUME NEW p \in users, NEW k \in Key, update(p, k), UNCHANGED users  PROVE WrittenIsWhole'
  BY <1>6, OneEntryChanged DEF update, Hook
<1>7. ASSUME NEW p \in users, NEW k \in Key, enter(p, k), UNCHANGED users  PROVE WrittenIsWhole'
  BY <1>7, OneEntryChanged DEF enter, Hook
<1>8. ASSUME NEW p \in users, write_begin(p), UNCHANGED users  PROVE WrittenIsWhole'
  BY <1>8 DEF write_begin, PersistFails, new_file_path
<1>9. ASSUME NEW p \in users, write_end(p), UNCHANGED users  PROVE WrittenIsWhole'
  BY <1>9 DEF write_end, PersistFails, new_file_path
<1>10. ASSUME NEW p \in users, rename(p), UNCHANGED users  PROVE WrittenIsWhole'
  BY <1>10 DEF rename, PersistFails, new_file_path
<1>11. ASSUME NEW p \in users, stop(p), UNCHANGED users  PROVE WrittenIsWhole'
  BY <1>11 DEF stop
<1>12. ASSUME NEW g \in Goals, edit(g), UNCHANGED users  PROVE WrittenIsWhole'
  BY <1>12 DEF edit
<1>13. CASE UNCHANGED vars
  BY <1>13 DEF vars
<1>. QED
  BY <1>1, <1>2, <1>3, <1>4, <1>5, <1>6, <1>7, <1>8, <1>9, <1>10, <1>11, <1>12, <1>13
  DEF Next, Step

LEMMA TouchIsKept ==
  ASSUME TypeOK, OnlyRunningTouch, [Next]_vars
  PROVE  OnlyRunningTouch'
<1>. USE DEF TypeOK, Goto, memory, disk, world, OnlyRunningTouch, Running
<1>1. ASSUME NEW p \in users, list_new_files(p), UNCHANGED users  PROVE OnlyRunningTouch'
  BY <1>1 DEF list_new_files
<1>2. ASSUME NEW p \in users, NEW q \in Proc, remove_new_file(p, q), UNCHANGED users  PROVE OnlyRunningTouch'
  BY <1>2 DEF remove_new_file
<1>3. ASSUME NEW p \in users, load(p), UNCHANGED users  PROVE OnlyRunningTouch'
  BY <1>3 DEF load
<1>4. ASSUME NEW p \in users, reconcile(p), UNCHANGED users  PROVE OnlyRunningTouch'
  BY <1>4 DEF reconcile
<1>5. ASSUME NEW p \in users, NEW k \in Key, exit(p, k), UNCHANGED users  PROVE OnlyRunningTouch'
  BY <1>5 DEF exit, Hook
<1>6. ASSUME NEW p \in users, NEW k \in Key, update(p, k), UNCHANGED users  PROVE OnlyRunningTouch'
  BY <1>6 DEF update, Hook
<1>7. ASSUME NEW p \in users, NEW k \in Key, enter(p, k), UNCHANGED users  PROVE OnlyRunningTouch'
  BY <1>7 DEF enter, Hook
<1>8. ASSUME NEW p \in users, write_begin(p), UNCHANGED users  PROVE OnlyRunningTouch'
  BY <1>8 DEF write_begin, PersistFails, new_file_path
<1>9. ASSUME NEW p \in users, write_end(p), UNCHANGED users  PROVE OnlyRunningTouch'
  BY <1>9 DEF write_end, PersistFails, new_file_path
<1>10. ASSUME NEW p \in users, rename(p), UNCHANGED users  PROVE OnlyRunningTouch'
  BY <1>10 DEF rename, PersistFails, new_file_path
<1>11. ASSUME NEW p \in users, stop(p), UNCHANGED users  PROVE OnlyRunningTouch'
  BY <1>11 DEF stop
<1>12. ASSUME NEW g \in Goals, edit(g), UNCHANGED users  PROVE OnlyRunningTouch'
  BY <1>12 DEF edit
<1>13. CASE UNCHANGED vars
  BY <1>13 DEF vars
<1>. QED
  BY <1>1, <1>2, <1>3, <1>4, <1>5, <1>6, <1>7, <1>8, <1>9, <1>10, <1>11, <1>12, <1>13
  DEF Next, Step

LEMMA AloneIsKept ==
  ASSUME TypeOK, WrittenIsWhole, AloneItsFileIsCurrent, [Next]_vars
  PROVE  AloneItsFileIsCurrent'
<1>. USE DEF TypeOK, Goto, memory, disk, world, WrittenIsWhole, AloneItsFileIsCurrent
<1>1. ASSUME NEW p \in users, list_new_files(p), UNCHANGED users  PROVE AloneItsFileIsCurrent'
  BY <1>1 DEF list_new_files
<1>2. ASSUME NEW p \in users, NEW q \in Proc, remove_new_file(p, q), UNCHANGED users  PROVE AloneItsFileIsCurrent'
  BY <1>2 DEF remove_new_file
<1>3. ASSUME NEW p \in users, load(p), UNCHANGED users  PROVE AloneItsFileIsCurrent'
  BY <1>3 DEF load
<1>4. ASSUME NEW p \in users, reconcile(p), UNCHANGED users  PROVE AloneItsFileIsCurrent'
  BY <1>4 DEF reconcile
<1>5. ASSUME NEW p \in users, NEW k \in Key, exit(p, k), UNCHANGED users  PROVE AloneItsFileIsCurrent'
  BY <1>5 DEF exit, Hook
<1>6. ASSUME NEW p \in users, NEW k \in Key, update(p, k), UNCHANGED users  PROVE AloneItsFileIsCurrent'
  BY <1>6 DEF update, Hook
<1>7. ASSUME NEW p \in users, NEW k \in Key, enter(p, k), UNCHANGED users  PROVE AloneItsFileIsCurrent'
  BY <1>7 DEF enter, Hook
<1>8. ASSUME NEW p \in users, write_begin(p), UNCHANGED users  PROVE AloneItsFileIsCurrent'
  BY <1>8 DEF write_begin, PersistFails, new_file_path
<1>9. ASSUME NEW p \in users, write_end(p), UNCHANGED users  PROVE AloneItsFileIsCurrent'
  BY <1>9 DEF write_end, PersistFails, new_file_path
<1>10. ASSUME NEW p \in users, rename(p), UNCHANGED users  PROVE AloneItsFileIsCurrent'
  BY <1>10 DEF rename, PersistFails, new_file_path
<1>11. ASSUME NEW p \in users, stop(p), UNCHANGED users  PROVE AloneItsFileIsCurrent'
  BY <1>11 DEF stop
<1>12. ASSUME NEW g \in Goals, edit(g), UNCHANGED users  PROVE AloneItsFileIsCurrent'
  BY <1>12 DEF edit
<1>13. CASE UNCHANGED vars
  BY <1>13 DEF vars
<1>. QED
  BY <1>1, <1>2, <1>3, <1>4, <1>5, <1>6, <1>7, <1>8, <1>9, <1>10, <1>11, <1>12, <1>13
  DEF Next, Step

LEMMA MemoryIsKept ==
  ASSUME TypeOK, MemoryIsRight, FileIsRight, OnlyRunningTouch, [Next]_vars
  PROVE  MemoryIsRight'
<1>. USE DEF TypeOK, Goto, memory, disk, world, MemoryIsRight, FileIsRight, OnlyRunningTouch, Running
<1>1. ASSUME NEW p \in users, list_new_files(p), UNCHANGED users  PROVE MemoryIsRight'
  BY <1>1 DEF list_new_files
<1>2. ASSUME NEW p \in users, NEW q \in Proc, remove_new_file(p, q), UNCHANGED users  PROVE MemoryIsRight'
  BY <1>2 DEF remove_new_file
<1>3. ASSUME NEW p \in users, load(p), UNCHANGED users  PROVE MemoryIsRight'
  \* The map is the file, and nothing is touched yet.
  <2>. SUFFICES ASSUME users = {p}, pc'[p] \in Running,
                       NEW k \in Key \ (astray \cup orphans)
                PROVE  k \in live <=> inner'[p][k] # None
    BY <1>3 DEF load
  <2>1. touched[p] = {}
    BY <1>3 DEF load
  <2>2. inner'[p] = IF file = NoFile THEN Empty ELSE file
    BY <1>3 DEF load
  <2>3. k \in live <=> file # NoFile /\ file[k] # None
    BY <2>1
  <2>. QED  BY <2>2, <2>3 DEF Empty
<1>4. ASSUME NEW p \in users, reconcile(p), UNCHANGED users  PROVE MemoryIsRight'
  BY <1>4 DEF reconcile
<1>5. ASSUME NEW p \in users, NEW k \in Key, exit(p, k), UNCHANGED users  PROVE MemoryIsRight'
  <2>1. p \in Proc /\ pc[p] \in Running
    BY <1>5 DEF exit, Hook
  <2>2. inner'[p][k] = None /\ \A j \in Key \ {k} : inner'[p][j] = inner[p][j]
    <3>1. inner' = [inner EXCEPT ![p][k] = None]
      BY <1>5 DEF exit
    <3>. QED  BY <2>1, <3>1 DEF Store
  <2>3. /\ \A j \in Key \ {k} : j \in live' <=> j \in live
        /\ k \notin live' \/ k \in orphans'
        /\ orphans \subseteq orphans' /\ astray' = astray
        /\ touched'[p] \subseteq touched[p] \cup {k}
    BY <1>5, <2>1 DEF exit, Hook
  <2>. QED  BY <1>5, <2>1, <2>2, <2>3
<1>6. ASSUME NEW p \in users, NEW k \in Key, update(p, k), UNCHANGED users  PROVE MemoryIsRight'
  <2>1. p \in Proc /\ pc[p] \in Running
    BY <1>6 DEF update, Hook
  <2>2. inner[p][k] # None /\ want[p][k] \in Value
    BY <1>6, <2>1 DEF update, update_keys, Held, Store
  <2>3. inner'[p][k] \in Value /\ \A j \in Key \ {k} : inner'[p][j] = inner[p][j]
    BY <1>6, <2>1, <2>2, OneEntryChanged DEF update
  <2>. QED  BY <1>6, <2>1, <2>2, <2>3, NoneIsNoValue DEF update, Hook
<1>7. ASSUME NEW p \in users, NEW k \in Key, enter(p, k), UNCHANGED users  PROVE MemoryIsRight'
  <2>1. p \in Proc /\ pc[p] \in Running
    BY <1>7 DEF enter, Hook
  <2>2. want[p][k] \in Value
    BY <1>7, <2>1 DEF enter, enter_keys, Held, Store
  <2>3. CASE inner' = [inner EXCEPT ![p][k] = want[p][k]] /\ live' = live \cup {k}
    <3>1. inner'[p][k] # None /\ \A j \in Key \ {k} : inner'[p][j] = inner[p][j]
      BY <2>1, <2>2, <2>3, NoneIsNoValue DEF Store
    <3>2. /\ orphans \subseteq orphans' \cup {k} /\ astray' = astray
          /\ touched'[p] \subseteq touched[p] \cup {k}
      BY <1>7, <2>1 DEF enter, Hook
    <3>. QED  BY <1>7, <2>1, <2>3, <3>1, <3>2
  <2>4. CASE UNCHANGED <<inner, live, touched, orphans>>
    BY <1>7, <2>1, <2>4 DEF enter, Hook
  <2>. QED  BY <1>7, <2>3, <2>4 DEF enter
<1>8. ASSUME NEW p \in users, write_begin(p), UNCHANGED users  PROVE MemoryIsRight'
  BY <1>8 DEF write_begin, PersistFails, new_file_path
<1>9. ASSUME NEW p \in users, write_end(p), UNCHANGED users  PROVE MemoryIsRight'
  BY <1>9 DEF write_end, PersistFails, new_file_path
<1>10. ASSUME NEW p \in users, rename(p), UNCHANGED users  PROVE MemoryIsRight'
  BY <1>10 DEF rename, PersistFails, new_file_path
<1>11. ASSUME NEW p \in users, stop(p), UNCHANGED users  PROVE MemoryIsRight'
  BY <1>11 DEF stop
<1>12. ASSUME NEW g \in Goals, edit(g), UNCHANGED users  PROVE MemoryIsRight'
  BY <1>12 DEF edit
<1>13. CASE UNCHANGED vars
  BY <1>13 DEF vars
<1>. QED
  BY <1>1, <1>2, <1>3, <1>4, <1>5, <1>6, <1>7, <1>8, <1>9, <1>10, <1>11, <1>12, <1>13
  DEF Next, Step

LEMMA FileIsKept ==
  ASSUME TypeOK, MemoryIsRight, FileIsRight, WrittenIsWhole, [Next]_vars
  PROVE  FileIsRight'
<1>. USE DEF TypeOK, Goto, memory, disk, world, MemoryIsRight, FileIsRight, WrittenIsWhole, Running
<1>1. ASSUME NEW p \in users, list_new_files(p), UNCHANGED users  PROVE FileIsRight'
  BY <1>1 DEF list_new_files
<1>2. ASSUME NEW p \in users, NEW q \in Proc, remove_new_file(p, q), UNCHANGED users  PROVE FileIsRight'
  BY <1>2 DEF remove_new_file
<1>3. ASSUME NEW p \in users, load(p), UNCHANGED users  PROVE FileIsRight'
  BY <1>3 DEF load
<1>4. ASSUME NEW p \in users, reconcile(p), UNCHANGED users  PROVE FileIsRight'
  BY <1>4 DEF reconcile
<1>5. ASSUME NEW p \in users, NEW k \in Key, exit(p, k), UNCHANGED users  PROVE FileIsRight'
  BY <1>5 DEF exit, Hook
<1>6. ASSUME NEW p \in users, NEW k \in Key, update(p, k), UNCHANGED users  PROVE FileIsRight'
  BY <1>6 DEF update, Hook
<1>7. ASSUME NEW p \in users, NEW k \in Key, enter(p, k), UNCHANGED users  PROVE FileIsRight'
  BY <1>7 DEF enter, Hook
<1>8. ASSUME NEW p \in users, write_begin(p), UNCHANGED users  PROVE FileIsRight'
  BY <1>8 DEF write_begin, PersistFails, new_file_path
<1>9. ASSUME NEW p \in users, write_end(p), UNCHANGED users  PROVE FileIsRight'
  BY <1>9 DEF write_end, PersistFails, new_file_path
<1>10. ASSUME NEW p \in users, rename(p), UNCHANGED users  PROVE FileIsRight'
  BY <1>10 DEF rename, PersistFails, new_file_path
<1>11. ASSUME NEW p \in users, stop(p), UNCHANGED users  PROVE FileIsRight'
  BY <1>11 DEF stop
<1>12. ASSUME NEW g \in Goals, edit(g), UNCHANGED users  PROVE FileIsRight'
  BY <1>12 DEF edit
<1>13. CASE UNCHANGED vars
  BY <1>13 DEF vars
<1>. QED
  BY <1>1, <1>2, <1>3, <1>4, <1>5, <1>6, <1>7, <1>8, <1>9, <1>10, <1>11, <1>12, <1>13
  DEF Next, Step

LEMMA InitIInv == Init => IInv
<1>. SUFFICES ASSUME Init  PROVE IInv
  OBVIOUS
<1>1. TypeOK
  BY InitTypes
<1>2. FileIsRight
  BY <1>1, NoMapIsEmpty DEF Init, FileIsRight, Held, TypeOK
<1>. QED
  BY <1>1, <1>2 DEF Init, IInv, WrittenIsWhole, OnlyRunningTouch, MemoryIsRight, Running,
                    AloneItsFileIsCurrent

LEMMA NextIInv == IInv /\ [Next]_vars => IInv'
BY TypesAreKept, WholeIsKept, TouchIsKept, MemoryIsKept, FileIsKept, AloneIsKept DEF IInv

-----------------------------------------------------------------------------
(* The theorems.                                                           *)

THEOREM Invariance == Spec => []IInv
BY InitIInv, NextIInv, PTL DEF Spec

\* Every variable keeps its type: in particular no process ever finds the file
\* torn, so that what open loads parses.
THEOREM TypeCorrect == Spec => []TypeOK
<1>1. IInv => TypeOK
  BY DEF IInv
<1>. QED  BY <1>1, Invariance, PTL

\* The file only ever changes to the complete map of one process at the end of
\* one of its calls, even with several writers, openers that remove siblings
\* and crashes anywhere (write-then-rename, json_set.rs:123-132).
FileIsReplacedWhole ==
  [][file' # file => \E p \in Proc : pc[p] = "rename" /\ file' = inner[p]]_vars

\* The file only ever changes to the complete map of a process at the end of a
\* call, whatever writers, openers and crashes come between (persist).
THEOREM FileIsWhole == Spec => FileIsReplacedWhole
<1>1. ASSUME IInv, [Next]_vars
      PROVE  [file' # file => \E p \in Proc : pc[p] = "rename" /\ file' = inner[p]]_vars
  <2>. SUFFICES ASSUME Next, file' # file
                PROVE  \E p \in Proc : pc[p] = "rename" /\ file' = inner[p]
    BY <1>1
  <2>1. PICK p \in users : rename(p)
    BY <1>1 DEF Next, Step, list_new_files, remove_new_file, load, reconcile, exit, update,
                enter, Hook, write_begin, write_end, stop, edit, disk
  <2>2. p \in Proc /\ fresh[p] # NoFile /\ file' = fresh[p] /\ pc[p] = "rename"
    BY <1>1, <2>1 DEF rename, disk, new_file_path, IInv, TypeOK
  <2>. QED  BY <1>1, <2>2 DEF IInv, WrittenIsWhole
<1>. QED  BY <1>1, Invariance, PTL DEF Spec, FileIsReplacedWhole

\* A process that uses the file alone and was told of no persist error holds in
\* memory what is on disk.
THEOREM AloneIsCurrent == Spec => []AloneItsFileIsCurrent
<1>1. IInv => AloneItsFileIsCurrent
  BY DEF IInv
<1>. QED  BY <1>1, Invariance, PTL

\* The file of a process is wrong about unsaved items and failed exits only: all
\* a crash between the hooks and the rename costs is to run such hooks again.
THEOREM OnlyUnsavedAreWrong == Spec => []OnlyUnsavedItemsAreMisjudged
<1>1. IInv => OnlyUnsavedItemsAreMisjudged
  <2>. SUFFICES ASSUME IInv, Cardinality(users) = 1,
                       NEW k \in Key \ (astray \cup orphans \cup UNION {touched[p] : p \in Proc})
                PROVE  k \in live <=> file # NoFile /\ file[k] # None
    BY DEF OnlyUnsavedItemsAreMisjudged
  <2>1. IsFiniteSet(users)
    BY ProcessesAreFinitelyMany, FS_Subset DEF IInv, TypeOK
  <2>2. PICK p \in Proc : users = {p}
    BY <2>1, FS_Singleton DEF IInv, TypeOK
  <2>3. k \notin touched[p]
    OBVIOUS
  <2>. QED  BY <2>2, <2>3 DEF IInv, FileIsRight
<1>. QED  BY <1>1, Invariance, PTL

-----------------------------------------------------------------------------
(* A set kept in a file is a map that outlives its process: every step of  *)
(* JsonSet is a step of DurableMap or stutters.                            *)

\* What is not there yet shows nothing to the outside: a process that has not
\* loaded its map has no map, no call and no error to report.
BlankUntilOpen ==
  \A p \in Proc : pc[p] \in {"down", "clearing"} =>
    inner[p] = Empty /\ want[p] = Empty /\ ~ persist_error[p]

\* What a call was not asked for and is still there has its exit ahead.
UnaskedIsAhead ==
  \A p \in Proc : pc[p] = "hooks" => Held(inner[p]) \ Held(want[p]) \subseteq todo[p]

RInv == IInv /\ BlankUntilOpen /\ UnaskedIsAhead

LEMMA PlacesAbroad ==
  /\ Abroad["down"] = "down" /\ Abroad["clearing"] = "down" /\ Abroad["idle"] = "idle"
  /\ Abroad["hooks"] = "applying" /\ Abroad["writing"] = "saving"
  /\ Abroad["rename"] = "saving"
BY DEF Abroad

LEMMA PlaceChanged ==
  ASSUME TypeOK, NEW p \in Proc, NEW x \in Places, pc' = [pc EXCEPT ![p] = x]
  PROVE  /\ pc' \in [Proc -> Places]
         /\ [q \in Proc |-> Abroad[pc[q]]]'
              = [[q \in Proc |-> Abroad[pc[q]]] EXCEPT ![p] = Abroad[x]]
         /\ [q \in Proc |-> Abroad[pc[q]]][p] = Abroad[pc[p]]
BY DEF TypeOK, Places, Abroad

LEMMA InitRefined == Init => Promise!Init
<1>. SUFFICES ASSUME Init  PROVE Promise!Init
  OBVIOUS
<1>. QED
  BY GoalsAreStores DEF Init, Abroad, Promise!Init, Promise!Store, Store, Promise!Empty, Empty

LEMMA BlankIsKept ==
  ASSUME IInv, BlankUntilOpen, [Next]_vars
  PROVE  BlankUntilOpen'
<1>. USE DEF IInv, TypeOK, BlankUntilOpen, Places
<1>1. ASSUME NEW p \in users, list_new_files(p)  PROVE BlankUntilOpen'
  BY <1>1 DEF list_new_files, Goto
<1>2. ASSUME NEW p \in users, NEW q \in Proc, remove_new_file(p, q)  PROVE BlankUntilOpen'
  BY <1>2 DEF remove_new_file
<1>3. ASSUME NEW p \in users, load(p)  PROVE BlankUntilOpen'
  BY <1>3 DEF load, Goto
<1>4. ASSUME NEW p \in users, reconcile(p)  PROVE BlankUntilOpen'
  BY <1>4 DEF reconcile, Goto
<1>5. ASSUME NEW p \in users, NEW k \in Key, exit(p, k) \/ update(p, k) \/ enter(p, k)
      PROVE  BlankUntilOpen'
  <2>1. pc[p] = "hooks" /\ UNCHANGED <<pc, want, persist_error>>
    BY <1>5 DEF exit, update, enter, Hook
  <2>2. \A q \in Proc \ {p} : inner'[q] = inner[q]
    BY <1>5 DEF exit, update, enter, Fault
  <2>. QED  BY <2>1, <2>2
<1>6. ASSUME NEW p \in users, write_begin(p) \/ write_end(p) \/ rename(p)
      PROVE  BlankUntilOpen'
  <2>1. /\ pc[p] \notin {"down", "clearing"} /\ pc'[p] \notin {"down", "clearing"}
        /\ \A q \in Proc \ {p} : pc'[q] = pc[q] /\ persist_error'[q] = persist_error[q]
        /\ UNCHANGED <<inner, want>>
    BY <1>6 DEF write_begin, write_end, rename, PersistFails, Goto
  <2>. QED  BY <2>1
<1>7. ASSUME NEW p \in users, stop(p)  PROVE BlankUntilOpen'
  BY <1>7 DEF stop
<1>8. ASSUME NEW g \in Goals, edit(g)  PROVE BlankUntilOpen'
  BY <1>8 DEF edit, memory
<1>9. CASE UNCHANGED vars
  BY <1>9 DEF vars, memory
<1>. QED  BY <1>1, <1>2, <1>3, <1>4, <1>5, <1>6, <1>7, <1>8, <1>9 DEF Next, Step

LEMMA UnaskedIsKept ==
  ASSUME IInv, UnaskedIsAhead, [Next]_vars
  PROVE  UnaskedIsAhead'
<1>. USE DEF IInv, TypeOK, UnaskedIsAhead, Places
<1>1. ASSUME NEW p \in users, list_new_files(p)  PROVE UnaskedIsAhead'
  BY <1>1 DEF list_new_files, Goto, Held
<1>2. ASSUME NEW p \in users, NEW q \in Proc, remove_new_file(p, q)  PROVE UnaskedIsAhead'
  BY <1>2 DEF remove_new_file, Held
<1>3. ASSUME NEW p \in users, load(p)  PROVE UnaskedIsAhead'
  BY <1>3 DEF load, Goto, Held
<1>4. ASSUME NEW p \in users, reconcile(p)  PROVE UnaskedIsAhead'
  BY <1>4 DEF reconcile, Goto, Held
<1>5. ASSUME NEW p \in users, NEW k \in Key, exit(p, k) \/ update(p, k) \/ enter(p, k)
      PROVE  UnaskedIsAhead'
  <2>1. UNCHANGED <<pc, want>> /\ todo' = [todo EXCEPT ![p] = @ \ {k}]
    BY <1>5 DEF exit, update, enter, Hook
  <2>2. /\ \A q \in Proc \ {p} : inner'[q] = inner[q]
        /\ \A j \in Key \ {k} : inner'[p][j] = inner[p][j]
        /\ inner'[p][k] # None => want[p][k] # None
    <3>1. CASE exit(p, k)
      BY <3>1 DEF exit, Store
    <3>2. CASE update(p, k)
      <4>1. want[p][k] # None /\ inner[p][k] # None
        BY <3>2 DEF update, update_keys, Held
      <4>. QED  BY <3>2, <4>1 DEF update, Store
    <3>3. CASE enter(p, k)
      <4>1. want[p][k] # None
        BY <3>3 DEF enter, enter_keys, Held
      <4>. QED  BY <3>3, <4>1 DEF enter, Store
    <3>. QED  BY <1>5, <3>1, <3>2, <3>3
  <2>3. ASSUME NEW q \in Proc, pc[q] = "hooks", NEW j \in Key, inner'[q][j] # None, want[q][j] = None
        PROVE  j \in todo'[q]
    <3>1. inner[q][j] # None /\ (q = p => j # k)
      BY <2>2, <2>3
    <3>2. j \in todo[q]
      BY <2>3, <3>1 DEF Held
    <3>. QED  BY <2>1, <3>1, <3>2
  <2>. QED  BY <2>1, <2>3 DEF Held
<1>6. ASSUME NEW p \in users, write_begin(p) \/ write_end(p) \/ rename(p)
      PROVE  UnaskedIsAhead'
  <2>1. /\ pc'[p] # "hooks" /\ \A q \in Proc \ {p} : pc'[q] = pc[q]
        /\ UNCHANGED <<inner, want, todo>>
    BY <1>6 DEF write_begin, write_end, rename, PersistFails, Goto
  <2>. QED  BY <2>1 DEF Held
<1>7. ASSUME NEW p \in users, stop(p)  PROVE UnaskedIsAhead'
  BY <1>7 DEF stop, Held
<1>8. ASSUME NEW g \in Goals, edit(g)  PROVE UnaskedIsAhead'
  BY <1>8 DEF edit, memory, Held
<1>9. CASE UNCHANGED vars
  BY <1>9 DEF vars, memory, Held
<1>. QED  BY <1>1, <1>2, <1>3, <1>4, <1>5, <1>6, <1>7, <1>8, <1>9 DEF Next, Step

LEMMA StepRefined ==
  ASSUME RInv, [Next]_vars
  PROVE  [Promise!Next]_(Promise!vars)
<1>. DEFINE at == [q \in Proc |-> Abroad[pc[q]]]
<1>. USE DEF RInv, IInv, TypeOK, Promise!vars, Promise!Move, disk
<1>1. ASSUME NEW p \in users, list_new_files(p)  PROVE UNCHANGED Promise!vars
  <2>1. pc' = [pc EXCEPT ![p] = "clearing"] /\ pc[p] = "down" /\ p \in Proc
    BY <1>1 DEF list_new_files, Goto
  <2>2. at' = at
    BY <2>1, PlaceChanged, PlacesAbroad DEF Places
  <2>. QED  BY <1>1, <2>2 DEF list_new_files
<1>2. ASSUME NEW p \in users, NEW q \in Proc, remove_new_file(p, q)
      PROVE  UNCHANGED Promise!vars
  <2>1. pc[p] = "clearing" /\ (pc' = pc \/ pc' = [pc EXCEPT ![p] = "down"]) /\ p \in Proc
    BY <1>2 DEF remove_new_file
  <2>2. at' = at
    <3>1. CASE pc' = pc
      BY <3>1
    <3>2. CASE pc' = [pc EXCEPT ![p] = "down"]
      BY <2>1, <3>2, PlaceChanged, PlacesAbroad DEF Places
    <3>. QED  BY <2>1, <3>1, <3>2
  <2>. QED  BY <1>2, <2>2 DEF remove_new_file
<1>3. ASSUME NEW p \in users, load(p)  PROVE Promise!Open(p) \/ UNCHANGED Promise!vars
  <2>1. /\ pc[p] = "clearing" /\ p \in Proc /\ ~ persist_error[p] /\ persist_error' = persist_error
        /\ UNCHANGED <<file, want>>
    BY <1>3 DEF load, Goto, BlankUntilOpen
  <2>2. CASE /\ pc' = [pc EXCEPT ![p] = "idle"]
             /\ inner' = [inner EXCEPT ![p] = IF file = NoFile THEN Empty ELSE file]
    <3>1. at[p] = "down" /\ at' = [at EXCEPT ![p] = "idle"]
      BY <2>1, <2>2, PlaceChanged, PlacesAbroad DEF Places
    <3>. QED  BY <2>1, <2>2, <3>1 DEF Promise!Open, Promise!Empty, Empty
  <2>3. CASE pc' = [pc EXCEPT ![p] = "down"] /\ UNCHANGED inner
    <3>1. at' = at
      BY <2>1, <2>3, PlaceChanged, PlacesAbroad DEF Places
    <3>. QED  BY <2>1, <2>3, <3>1
  <2>. QED  BY <1>3, <2>2, <2>3 DEF load, Goto
<1>4. ASSUME NEW p \in users, reconcile(p)  PROVE Promise!Call(p)
  <2>1. pc[p] = "idle" /\ pc' = [pc EXCEPT ![p] = "hooks"] /\ p \in Proc
    BY <1>4 DEF reconcile, Goto
  <2>2. at[p] = "idle" /\ at' = [at EXCEPT ![p] = "applying"]
    BY <2>1, PlaceChanged, PlacesAbroad DEF Places
  <2>3. goal \in Promise!Store
    BY GoalsAreStores DEF Promise!Store, Store
  <2>. QED  BY <1>4, <2>2, <2>3 DEF reconcile, Promise!Call
<1>5. ASSUME NEW p \in users, NEW k \in Key, exit(p, k) \/ update(p, k) \/ enter(p, k)
      PROVE  Promise!Apply(p, k) \/ UNCHANGED Promise!vars
  <2>1. pc[p] = "hooks" /\ p \in Proc /\ UNCHANGED <<pc, file, want, persist_error>>
    BY <1>5 DEF exit, update, enter, Hook
  <2>2. at[p] = "applying" /\ at' = at
    BY <2>1, PlacesAbroad
  <2>3. \/ inner' = inner
        \/ \E v \in Value \cup {None} :
             /\ v = want[p][k] \/ None \notin {v, inner[p][k], want[p][k]}
             /\ inner' = [inner EXCEPT ![p][k] = v]
    <3>1. CASE exit(p, k)
      BY <3>1 DEF exit, exit_keys, Held
    <3>2. CASE update(p, k)
      <4>1. want[p][k] # None /\ inner[p][k] # None /\ want[p][k] \in Value
        BY <2>1, <3>2 DEF update, update_keys, Held, Store
      <4>. QED  BY <3>2, <4>1, NoneIsNoValue DEF update
    <3>3. CASE enter(p, k)
      <4>1. want[p][k] \in Value \cup {None}
        BY <2>1 DEF Store
      <4>. QED  BY <3>3, <4>1 DEF enter
    <3>. QED  BY <1>5, <3>1, <3>2, <3>3
  <2>4. CASE inner' = inner
    BY <2>1, <2>2, <2>4
  <2>5. CASE \E v \in Value \cup {None} :
               /\ v = want[p][k] \/ None \notin {v, inner[p][k], want[p][k]}
               /\ inner' = [inner EXCEPT ![p][k] = v]
    BY <2>1, <2>2, <2>5 DEF Promise!Apply
  <2>. QED  BY <2>3, <2>4, <2>5
<1>6. ASSUME NEW p \in users, write_begin(p)  PROVE Promise!Settle(p) \/ Promise!Fail(p)
  <2>1. pc[p] = "hooks" /\ p \in Proc /\ todo[p] = {} /\ UNCHANGED <<file, inner, want>>
    BY <1>6 DEF write_begin
  <2>2. CASE pc' = [pc EXCEPT ![p] = "writing"] /\ UNCHANGED persist_error
    <3>1. at[p] = "applying" /\ at' = [at EXCEPT ![p] = "saving"]
      BY <2>1, <2>2, PlaceChanged, PlacesAbroad DEF Places
    <3>2. Held(inner[p]) \subseteq Held(want[p])
      BY <2>1 DEF UnaskedIsAhead
    <3>. QED  BY <2>1, <2>2, <3>1, <3>2 DEF Promise!Settle, Promise!Held, Held
  <2>3. CASE PersistFails(p)
    <3>1. at[p] = "applying" /\ at' = [at EXCEPT ![p] = "idle"]
      BY <2>1, <2>3, PlaceChanged, PlacesAbroad DEF PersistFails, Places
    <3>. QED  BY <2>1, <2>3, <3>1 DEF PersistFails, Promise!Fail
  <2>. QED  BY <1>6, <2>2, <2>3 DEF write_begin, Goto
<1>7. ASSUME NEW p \in users, write_end(p)  PROVE Promise!Fail(p) \/ UNCHANGED Promise!vars
  <2>1. pc[p] = "writing" /\ p \in Proc /\ UNCHANGED <<file, inner, want>>
    BY <1>7 DEF write_end
  <2>2. CASE pc' = [pc EXCEPT ![p] = "rename"] /\ UNCHANGED persist_error
    <3>1. at' = at
      BY <2>1, <2>2, PlaceChanged, PlacesAbroad DEF Places
    <3>. QED  BY <2>1, <2>2, <3>1
  <2>3. CASE PersistFails(p)
    <3>1. at[p] = "saving" /\ at' = [at EXCEPT ![p] = "idle"]
      BY <2>1, <2>3, PlaceChanged, PlacesAbroad DEF PersistFails, Places
    <3>. QED  BY <2>1, <2>3, <3>1 DEF PersistFails, Promise!Fail
  <2>. QED  BY <1>7, <2>2, <2>3 DEF write_end, Goto
<1>8. ASSUME NEW p \in users, rename(p)  PROVE Promise!Save(p) \/ Promise!Fail(p)
  <2>1. pc[p] = "rename" /\ p \in Proc /\ UNCHANGED <<inner, want>>
    BY <1>8 DEF rename
  <2>2. CASE /\ fresh[p] # NoFile /\ file' = fresh[p] /\ pc' = [pc EXCEPT ![p] = "idle"]
             /\ persist_error' = [persist_error EXCEPT ![p] = FALSE]
    <3>1. at[p] = "saving" /\ at' = [at EXCEPT ![p] = "idle"]
      BY <2>1, <2>2, PlaceChanged, PlacesAbroad DEF Places
    <3>2. file' = inner[p]
      BY <2>1, <2>2 DEF WrittenIsWhole
    <3>. QED  BY <2>1, <2>2, <3>1, <3>2 DEF Promise!Save
  <2>3. CASE PersistFails(p) /\ UNCHANGED file
    <3>1. at[p] = "saving" /\ at' = [at EXCEPT ![p] = "idle"]
      BY <2>1, <2>3, PlaceChanged, PlacesAbroad DEF PersistFails, Places
    <3>. QED  BY <2>1, <2>3, <3>1 DEF PersistFails, Promise!Fail
  <2>. QED  BY <1>8, <2>2, <2>3 DEF rename, new_file_path
<1>9. ASSUME NEW p \in users, stop(p)  PROVE Promise!Die(p) \/ UNCHANGED Promise!vars
  <2>1. /\ pc[p] # "down" /\ pc' = [pc EXCEPT ![p] = "down"] /\ p \in Proc /\ UNCHANGED file
        /\ inner' = [inner EXCEPT ![p] = Empty] /\ want' = [want EXCEPT ![p] = Empty]
        /\ persist_error' = [persist_error EXCEPT ![p] = FALSE]
    BY <1>9 DEF stop
  <2>2. CASE pc[p] = "clearing"
    <3>1. at' = at
      BY <2>1, <2>2, PlaceChanged, PlacesAbroad DEF Places
    <3>2. UNCHANGED <<inner, want, persist_error>>
      BY <2>1, <2>2 DEF BlankUntilOpen
    <3>. QED  BY <2>1, <3>1, <3>2
  <2>3. CASE pc[p] # "clearing"
    <3>1. at[p] # "down" /\ at' = [at EXCEPT ![p] = "down"]
      BY <2>1, <2>3, PlaceChanged, PlacesAbroad DEF Places
    <3>. QED  BY <2>1, <3>1 DEF Promise!Die, Promise!Empty, Empty
  <2>. QED  BY <2>2, <2>3
<1>10. ASSUME NEW g \in Goals, edit(g)  PROVE UNCHANGED Promise!vars
  BY <1>10 DEF edit, memory
<1>11. CASE UNCHANGED vars
  BY <1>11 DEF vars, memory
<1>. QED
  <2>1. users \subseteq Proc
    OBVIOUS
  <2>. QED
    BY <2>1, <1>1, <1>2, <1>3, <1>4, <1>5, <1>6, <1>7, <1>8, <1>9, <1>10, <1>11
    DEF Next, Step, Promise!Next

\* A set kept in a file is a map that outlives its process: whatever processes,
\* crashes, openers and IO errors, every step is one of a durable map or unseen.
THEOREM Refinement == Spec => ImplementsDurableMap
<1>1. Init => RInv
  BY InitIInv DEF Init, RInv, BlankUntilOpen, UnaskedIsAhead
<1>2. RInv /\ [Next]_vars => RInv'
  BY NextIInv, BlankIsKept, UnaskedIsKept DEF RInv
<1>3. RInv /\ [Next]_vars => [Promise!Next]_(Promise!vars)
  BY StepRefined
<1>. QED  BY <1>1, <1>2, <1>3, InitRefined, PTL DEF Spec, ImplementsDurableMap, Promise!Spec
=============================================================================
