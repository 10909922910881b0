--------------------------- MODULE PromptTaskProofs ---------------------------
(***************************************************************************)
(* Proofs about PromptTask, for any kinds, keys, texts and names of files, *)
(* however many keys share a name, any faults and any edits of the script. *)
(*                                                                         *)
(* Both properties are about what is on disk when a run is over, or has    *)
(* been cut short; what makes them inductive is what holds in the middle   *)
(* of it: which Contexts of the item at hand have been seen to, and how    *)
(* the set in memory differs from the state file.                          *)
(***************************************************************************)
EXTENDS PromptTask, TLAPS

Emitting == phase \in {"refs", "ref", "task"}

-----------------------------------------------------------------------------
(* References.                                                             *)

\* The files of Contexts hold their text or nothing, and who left one torn has
\* noted it, or is about to finish it.
ContextsAreWhole ==
  \A c \in Context :
    /\ context[c] \in {c, Nothing, Torn}
    /\ context[c] = Torn => c \in spoiled \/ (phase = "ref" /\ c = Head(refs))

Pending == {refs[i] : i \in DOMAIN refs}

\* The Contexts of the item at hand are seen to, or still to come.
ContextsAreSeenTo ==
  /\ phase = "task" => refs = <<>>
  /\ Emitting /\ Want[key] # None =>
       \A c \in Texts(This) : c \in Pending \/ context[c] = c \/ c \in spoiled

RefInv == TypeOK /\ ContextsAreWhole /\ ContextsAreSeenTo /\ ReferencesHold

-----------------------------------------------------------------------------
(* Records.                                                                *)

\* A task is in the file named for its key, also when it is in hand.
TasksAreInPlace == \A n \in Name : Whole(n) => Safe[task[n].unit[2]] = n

\* The file of the item at hand is torn from its creation to its end.
TaskIsTorn ==
  phase = "task" =>
    /\ task[Safe[key]] = Torn
    /\ \A u \in sent : Safe[u[2]] # Safe[key]

\* No hook has said Ok for what is still to come.
SentIsPast ==
  /\ phase = "idle" => sent = {}
  /\ phase \in {"idle", "kinds"} => kind = Nothing
  /\ kind \notin left
  /\ \A u \in sent : u[1] \notin left
  /\ phase \in {"hooks", "refs", "ref", "task"} =>
       \A x \in Key : <<kind, x>> \in sent => x \notin todo
  /\ Emitting => key \notin todo

\* What the set holds of an item whose hook said Ok is what its task says.
SentIsWritten ==
  phase \in {"hooks", "refs", "ref", "task"} =>
    \A x \in Key : <<kind, x>> \in sent =>
      task[Safe[x]] = [unit |-> <<kind, x>>, value |-> store[x]]

\* Elsewhere the set is as its file.
RestIsSaved ==
  phase \in {"hooks", "refs", "ref", "task"} /\ kind \in Filed =>
    /\ \A x \in Key : <<kind, x>> \notin astray => store[x] = saved[kind][x]
    /\ Emitting => This \in astray

RecordInv ==
  /\ TypeOK /\ TasksAreInPlace /\ TaskIsTorn /\ SentIsPast /\ SentIsWritten
  /\ RestIsSaved /\ RecordedWorkIsAskedFor

-----------------------------------------------------------------------------
(* Types.                                                                  *)

LEMMA InitTypes == Init => TypeOK
<1>. USE KindsDisjoint, GoalsAreStores, BoundsAreNumbers, NoneIsNoValue
<1>1. Empty \in Store
  BY DEF Empty, Store
<1>. QED  BY <1>1 DEF Init, Idle, TypeOK

LEMMA TypesAreKept == TypeOK /\ [Next]_vars => TypeOK'
<1>. SUFFICES ASSUME TypeOK, [Next]_vars
              PROVE  TypeOK'
  OBVIOUS
<1>. USE GoalsAreStores, BoundsAreNumbers DEF TypeOK, agent, disk, run, bounds, Fault
<1>0. Empty \in Store
  BY DEF Empty, Store
<1>1. CASE \E n \in Name : take(n)
  BY <1>1 DEF take, Whole
<1>2. CASE work
  BY <1>2 DEF work, Task
<1>3. CASE \E k \in Kind, g \in Goals : edit(k, g)
  BY <1>3 DEF edit
<1>4. CASE start
  BY <1>4 DEF start, kinds_of
<1>5. CASE \E k \in Kind : reconcile_kind(k)
  <2>. PICK k \in Kind : reconcile_kind(k)
    BY <1>5
  <2>1. Tracked(k) \in Store
    BY DEF Tracked, Kind, Unit, Store
  <2>. QED  BY <2>1 DEF reconcile_kind, Held
<1>6. CASE \E x \in Key : hook(x)
  <2>. PICK x \in Key : hook(x)
    BY <1>6
  <2>1. kind \in Kind /\ <<kind, x>> \in Unit
    BY DEF hook, Unit
  <2>2. ContextOf[<<kind, x>>] \in Seq(Context)
    BY <2>1, ItemsHaveContexts
  <2>3. store' \in Store
    BY DEF hook, Store
  <2>4. refs' \in Seq(Context)
    <3>1. <<>> \in Seq(Context)
      OBVIOUS
    <3>. QED  BY <2>2, <3>1 DEF hook
  <2>5. astray' \subseteq Filed \X Key
    BY DEF hook
  <2>. QED  BY <2>1, <2>3, <2>4, <2>5 DEF hook
<1>7. CASE ref
  <2>1. refs # <<>> /\ Head(refs) \in Context /\ Tail(refs) \in Seq(Context)
    BY <1>7 DEF ref
  <2>2. refs' \in Seq(Context) /\ (phase' = "ref" => refs' # <<>>)
    BY <1>7, <2>1 DEF ref
  <2>3. context' \in [Context -> Context \cup {Nothing, Torn}] /\ spoiled' \subseteq Context
    BY <1>7, <2>1 DEF ref
  <2>. QED  BY <1>7, <2>2, <2>3 DEF ref
<1>8. CASE write_ref
  BY SMTT(30), <1>8 DEF write_ref
<1>9. CASE create_task
  <2>1. kind \in Kind /\ key \in Key /\ This \in Unit
    BY <1>9 DEF create_task, This, Unit
  <2>2. store' = store /\ sent' \subseteq sent
    BY <1>9 DEF create_task, Err
  <2>3. astray' \subseteq Filed \X Key /\ task' \in [Name -> Task \cup {Nothing, Torn}]
    BY <1>9 DEF create_task, Displaced
  <2>. QED  BY <1>9, <2>1, <2>2, <2>3 DEF create_task
<1>10. CASE write_task
  <2>1. kind \in Kind /\ key \in Key /\ This \in Unit
    BY <1>10 DEF write_task, This, Unit
  <2>2. Want \in Store /\ Want[key] \in Value \cup {None}
    BY <2>1 DEF Want, Store
  <2>3. [unit |-> This, value |-> Want[key]] \in Task
    BY <2>1, <2>2 DEF Task
  <2>4. store' \in Store /\ sent' \subseteq Unit
    BY <1>10, <2>1, <2>2 DEF write_task, Ok, Err, Store
  <2>5. task' \in [Name -> Task \cup {Nothing, Torn}]
    BY <1>10, <2>3 DEF write_task
  <2>. QED  BY <1>10, <2>4, <2>5 DEF write_task
<1>11. CASE persist
  BY <1>11, <1>0 DEF persist, Leave
<1>12. CASE finish
  BY <1>12 DEF finish
<1>13. CASE killed
  BY <1>13, <1>0 DEF killed, Leave
<1>14. CASE UNCHANGED vars
  BY <1>14 DEF vars
<1>. QED  BY <1>1, <1>2, <1>3, <1>4, <1>5, <1>6, <1>7, <1>8, <1>9, <1>10, <1>11, <1>12,
             <1>13, <1>14 DEF Next, Run

-----------------------------------------------------------------------------
(* Contexts.                                                               *)

Kept(c)  == context[c] = c \/ c \in spoiled

\* Once a Context is seen to it stays so, and no file holds another's text.
LEMMA ContextsStay ==
  TypeOK /\ ContextsAreWhole /\ [Next]_vars =>
    ContextsAreWhole' /\ \A c \in Context : Kept(c) => Kept(c)'
<1>. SUFFICES ASSUME TypeOK, ContextsAreWhole, [Next]_vars
              PROVE  ContextsAreWhole' /\ \A c \in Context : Kept(c) => Kept(c)'
  OBVIOUS
<1>. USE NothingIsNothing DEF ContextsAreWhole, Kept
<1>1. CASE ref
  <2>1. refs # <<>> /\ Head(refs) \in Context
    BY <1>1 DEF ref, TypeOK
  <2>. QED  BY <1>1, <2>1 DEF ref, TypeOK
<1>2. CASE write_ref
  <2>1. refs # <<>> /\ Head(refs) \in Context
    BY <1>2 DEF write_ref, TypeOK
  <2>. QED  BY <1>2, <2>1 DEF write_ref, TypeOK
<1>3. CASE killed
  BY <1>3 DEF killed, Leave, disk
<1>4. CASE /\ UNCHANGED <<context, spoiled, refs>>
           /\ phase = "ref" <=> phase' = "ref"
  BY <1>4
<1>5. CASE \E x \in Key : hook(x)
  BY <1>5 DEF hook, disk
<1>6. CASE persist
  BY <1>6 DEF persist, Leave
<1>7. CASE create_task
  BY <1>7 DEF create_task
<1>8. CASE write_task
  BY <1>8 DEF write_task
<1>9. ASSUME \/ \E n \in Name : take(n)
             \/ work
             \/ \E k \in Kind, g \in Goals : edit(k, g)
             \/ start \/ finish \/ UNCHANGED vars
             \/ \E k \in Kind : reconcile_kind(k)
      PROVE  /\ UNCHANGED <<context, spoiled, refs>>
             /\ phase = "ref" <=> phase' = "ref"
  BY <1>9 DEF take, work, edit, start, finish, reconcile_kind, vars, disk, run
<1>. QED  BY <1>1, <1>2, <1>3, <1>4, <1>5, <1>6, <1>7, <1>8, <1>9 DEF Next, Run

LEMMA TextsAreContexts ==
  ASSUME NEW u \in Unit
  PROVE  Texts(u) \subseteq Context
BY ItemsHaveContexts DEF Texts

LEMMA PendingShrinks ==
  ASSUME NEW s \in Seq(Context), s # <<>>
  PROVE  \A i \in DOMAIN s :
           s[i] = Head(s) \/ \E j \in DOMAIN Tail(s) : Tail(s)[j] = s[i]
<1>1. ASSUME NEW i \in DOMAIN s, i # 1
      PROVE  i - 1 \in DOMAIN Tail(s) /\ s[i] = Tail(s)[i - 1]
  BY <1>1
<1>2. s[1] = Head(s)
  OBVIOUS
<1>. QED  BY <1>1, <1>2

LEMMA InitRefInv == Init => RefInv
<1>. SUFFICES ASSUME Init
              PROVE  ContextsAreWhole /\ ContextsAreSeenTo /\ ReferencesHold
  BY InitTypes DEF RefInv
<1>. USE NothingIsNothing
<1>1. ContextsAreWhole
  BY DEF Init, ContextsAreWhole
<1>2. ContextsAreSeenTo
  BY DEF Init, Idle, ContextsAreSeenTo, Emitting
<1>3. ReferencesHold
  BY DEF Init, ReferencesHold, Whole
<1>. QED  BY <1>1, <1>2, <1>3

LEMMA NextRefInv == RefInv /\ [Next]_vars => RefInv'
<1>. SUFFICES ASSUME TypeOK, ContextsAreWhole, ContextsAreSeenTo, ReferencesHold, [Next]_vars
              PROVE  ContextsAreSeenTo' /\ ReferencesHold'
  BY TypesAreKept, ContextsStay DEF RefInv
<1>. USE ContextsStay
<1>0. TypeOK'
  BY TypesAreKept
<1>1. ContextsAreSeenTo'
  <2>1. CASE \E x \in Key : hook(x)
    <3>. PICK x \in Key : hook(x)
      BY <2>1
    <3>1. CASE store[x] = Want[x]
      BY <3>1 DEF hook, ContextsAreSeenTo, Emitting
    <3>2. CASE store[x] # Want[x]
      <4>1. phase' = "refs" /\ This' = <<kind, x>> /\ Want' = Want /\ key' = x
        BY <3>2 DEF hook, This, Want
      <4>2. Want[x] # None => Pending' = Texts(This')
        BY <3>2, <4>1 DEF hook, Pending, Texts
      <4>. QED  BY <4>1, <4>2 DEF ContextsAreSeenTo
    <3>. QED  BY <3>1, <3>2
  <2>2. CASE ref \/ write_ref
    <3>1. /\ This' = This /\ Want' = Want /\ key' = key /\ phase' \in {"refs", "ref"}
          /\ Emitting /\ refs # <<>> /\ This \in Unit
      BY <2>2 DEF ref, write_ref, This, Want, Emitting, TypeOK, Unit
    <3>. PICK h \in Context : h = Head(refs)
      BY <3>1 DEF TypeOK
    <3>2. refs' = refs \/ (refs' = Tail(refs) /\ Kept(h)')
      <4>1. CASE ref
        BY <4>1, NothingIsNothing DEF ref, Kept, ContextsAreWhole, TypeOK
      <4>2. CASE write_ref
        BY <4>2 DEF write_ref, Kept, TypeOK
      <4>. QED  BY <2>2, <4>1, <4>2
    <3>3. \A c \in Pending : c \in Pending' \/ Kept(c)'
      <4>1. CASE refs' = refs
        BY <4>1 DEF Pending
      <4>2. CASE refs' = Tail(refs) /\ Kept(h)'
        <5>. TAKE c \in Pending
        <5>1. PICK i \in DOMAIN refs : refs[i] = c
          BY DEF Pending
        <5>2. CASE c = Head(refs)
          BY <4>2, <5>2
        <5>3. CASE c # Head(refs)
          <6>1. refs \in Seq(Context)
            BY DEF TypeOK
          <6>2. PICK j \in DOMAIN Tail(refs) : Tail(refs)[j] = c
            BY <3>1, <5>1, <5>3, <6>1, PendingShrinks
          <6>. QED  BY <4>2, <6>2 DEF Pending
        <5>. QED  BY <5>2, <5>3
      <4>. QED  BY <3>2, <4>1, <4>2
    <3>4. \A c \in Texts(This) : c \in Context
      BY <3>1, TextsAreContexts
    <3>. QED  BY <3>1, <3>3, <3>4 DEF ContextsAreSeenTo, Kept
  <2>3. CASE create_task
    <3>1. /\ This' = This /\ Want' = Want /\ key' = key /\ Emitting /\ refs' = refs
          /\ refs = <<>> /\ This \in Unit /\ UNCHANGED <<context, spoiled>>
      BY <2>3 DEF create_task, This, Want, Emitting, TypeOK, Unit
    <3>. QED  BY <3>1 DEF ContextsAreSeenTo, Pending
  <2>4. ASSUME phase' \in {"idle", "kinds", "hooks"}
        PROVE  ContextsAreSeenTo'
    BY <2>4 DEF ContextsAreSeenTo, Emitting
  <2>5. CASE write_task \/ persist \/ finish \/ killed \/ start \/ \E k \in Kind : reconcile_kind(k)
    BY <2>4, <2>5 DEF write_task, persist, finish, killed, start, reconcile_kind, Leave
  <2>6. CASE \E k \in Kind, g \in Goals : edit(k, g)
    BY <2>4, <2>6 DEF edit, run
  <2>7. CASE (\E n \in Name : take(n)) \/ work \/ UNCHANGED vars
    <3>1. UNCHANGED <<goal, context, run, spoiled>>
      BY <2>7 DEF take, work, vars, disk
    <3>. QED  BY <3>1 DEF ContextsAreSeenTo, run, Emitting, Want, This, Pending, Texts
  <2>. QED  BY <2>1, <2>2, <2>3, <2>5, <2>6, <2>7 DEF Next, Run
<1>2. ReferencesHold'
  <2>. SUFFICES ASSUME NEW n \in Name, Whole(n)', task'[n].value # None, NEW c \in Texts(task'[n].unit)
                PROVE  Kept(c)'
    BY DEF ReferencesHold, Kept
  <2>1. task'[n] \in Task /\ task'[n].unit \in Unit /\ c \in Context
    <3>1. task'[n] \in Task
      BY <1>0 DEF TypeOK, Whole
    <3>2. task'[n].unit \in Unit
      BY <3>1 DEF Task
    <3>. QED  BY <3>1, <3>2, TextsAreContexts
  <2>2. CASE task'[n] = task[n]
    <3>1. Kept(c)
      BY <2>2 DEF ReferencesHold, Whole, Kept
    <3>. QED  BY <3>1, <2>1
  <2>3. CASE task'[n] # task[n]
    <3>1. create_task \/ write_task
      BY <2>3 DEF Next, Run, take, work, edit, start, reconcile_kind, hook, ref, write_ref, persist,
                  finish, killed, vars, disk
    <3>2. ~create_task
      BY <2>3 DEF create_task, Whole, TypeOK
    <3>3. write_task /\ refs = <<>> /\ UNCHANGED <<context, spoiled>>
      BY <3>1, <3>2 DEF write_task, ContextsAreSeenTo
    <3>4. task'[n] = [unit |-> This, value |-> Want[key]]
      BY <2>3, <3>3 DEF write_task, TypeOK
    <3>. QED  BY <3>3, <3>4 DEF write_task, ContextsAreSeenTo, Emitting, Pending, Kept
  <2>. QED  BY <2>2, <2>3
<1>. QED  BY <1>1, <1>2

-----------------------------------------------------------------------------
(* The set, its file and the tasks.                                        *)

LEMMA InitRecordInv == Init => RecordInv
<1>. SUFFICES ASSUME Init
              PROVE  RecordInv
  OBVIOUS
<1>1. TypeOK
  BY InitTypes
<1>2. TasksAreInPlace
  BY DEF Init, TasksAreInPlace, Whole
<1>3. TaskIsTorn /\ SentIsWritten /\ RestIsSaved
  BY DEF Init, Idle, TaskIsTorn, SentIsWritten, RestIsSaved, Emitting
<1>4. SentIsPast
  BY DEF Init, Idle, SentIsPast, Emitting
<1>5. ASSUME NEW u \in Filed \X Key
      PROVE  saved[u[1]][u[2]] = AskedFor(u)
  <2>1. PICK k \in Filed, x \in Key : u = <<k, x>>
    OBVIOUS
  <2>2. saved[k][x] = None /\ done[u] = None /\ Safe[x] \in Name
    BY <2>1, KeysHaveNames DEF Init, Empty, Unit, Kind
  <2>. QED  BY <2>1, <2>2 DEF Init, AskedFor, Heading, Whole
<1>. QED  BY <1>1, <1>2, <1>3, <1>4, <1>5 DEF RecordInv, RecordedWorkIsAskedFor

\* The only steps that write to tasks.
LEMMA TasksChange ==
  TypeOK /\ [Next]_vars =>
    \/ UNCHANGED task
    \/ create_task /\ phase' = "task" /\ task' = [task EXCEPT ![Safe[key]] = Torn]
    \/ /\ write_task /\ Ok
       /\ task' = [task EXCEPT ![Safe[key]] = [unit |-> This, value |-> Want[key]]]
<1>. SUFFICES ASSUME TypeOK, [Next]_vars, task' # task
              PROVE  \/ create_task /\ phase' = "task" /\ task' = [task EXCEPT ![Safe[key]] = Torn]
                     \/ /\ write_task /\ Ok
                        /\ task' = [task EXCEPT ![Safe[key]] = [unit |-> This, value |-> Want[key]]]
  OBVIOUS
<1>1. create_task \/ write_task
  BY DEF Next, Run, take, work, edit, start, reconcile_kind, hook, ref, write_ref, persist,
         finish, killed, vars, disk
<1>. QED  BY <1>1 DEF create_task, write_task

\* What write_task writes, and where.
LEMMA TaskOfThis ==
  ASSUME TypeOK, phase = "task"
  PROVE  /\ kind \in Kind /\ key \in Key /\ This \in Unit /\ Safe[key] \in Name
         /\ This = <<kind, key>> /\ [unit |-> This, value |-> Want[key]] \in Task
<1>1. kind \in Kind /\ key \in Key /\ This \in Unit /\ Safe[key] \in Name
  BY KeysHaveNames DEF TypeOK, This, Unit
<1>2. Want[key] \in Value \cup {None}
  BY <1>1, GoalsAreStores DEF TypeOK, Want, Store
<1>. QED  BY <1>1, <1>2 DEF This, Task

LEMMA TasksStayInPlace == TypeOK /\ TasksAreInPlace /\ [Next]_vars => TasksAreInPlace'
<1>. SUFFICES ASSUME TypeOK, TasksAreInPlace, [Next]_vars, NEW n \in Name, Whole(n)'
              PROVE  Safe[task'[n].unit[2]] = n
  BY DEF TasksAreInPlace
<1>1. CASE task'[n] = task[n]
  BY <1>1 DEF TasksAreInPlace, Whole
<1>2. CASE task'[n] # task[n]
  <2>1. CASE create_task /\ task' = [task EXCEPT ![Safe[key]] = Torn]
    BY <1>2, <2>1 DEF Whole, TypeOK
  <2>2. CASE write_task /\ task' = [task EXCEPT ![Safe[key]] = [unit |-> This, value |-> Want[key]]]
    <3>1. n = Safe[key] /\ task'[n].unit = This
      BY <1>2, <2>2 DEF TypeOK
    <3>. QED  BY <3>1 DEF This
  <2>. QED  BY <1>2, <2>1, <2>2, TasksChange
<1>. QED  BY <1>1, <1>2

Middle == TaskIsTorn /\ SentIsPast /\ SentIsWritten /\ RestIsSaved

LEMMA MiddleIsKept == TypeOK /\ Middle /\ [Next]_vars => Middle'
<1>. SUFFICES ASSUME TypeOK, Middle, [Next]_vars
              PROVE  Middle'
  OBVIOUS
<1>. USE DEF Middle
<1>1. CASE (\E n \in Name : take(n)) \/ work \/ UNCHANGED vars
  <2>1. UNCHANGED <<goal, disk, run, astray>>
    BY <1>1 DEF take, work, vars
  <2>. QED  BY <2>1 DEF disk, run, Emitting, This, TaskIsTorn, SentIsPast, SentIsWritten, RestIsSaved
<1>2. CASE \E k \in Kind, g \in Goals : edit(k, g)
  <2>1. phase = "idle" /\ UNCHANGED <<disk, run, astray>>
    BY <1>2 DEF edit
  <2>. QED  BY <2>1 DEF disk, run, Emitting, This, TaskIsTorn, SentIsPast, SentIsWritten, RestIsSaved
<1>3. CASE start \/ finish
  <2>1. phase' \in {"idle", "kinds"} /\ sent' = {} /\ kind' = Nothing /\ left' \subseteq Kind
    BY <1>3 DEF start, finish, kinds_of, SentIsPast
  <2>. QED  BY <2>1, NothingIsNothing DEF Emitting, TaskIsTorn, SentIsPast, SentIsWritten, RestIsSaved
<1>4. CASE killed
  <2>1. phase' = "idle" /\ sent' = {} /\ kind' = Nothing /\ left' = {}
    BY <1>4 DEF killed, Leave
  <2>. QED  BY <2>1 DEF Emitting, TaskIsTorn, SentIsPast, SentIsWritten, RestIsSaved
<1>5. CASE persist
  <2>1. phase' = "kinds" /\ sent' = sent /\ kind' = Nothing /\ left' = left
    BY <1>5 DEF persist, Leave
  <2>. QED  BY <2>1, NothingIsNothing DEF TypeOK, Emitting, TaskIsTorn, SentIsPast, SentIsWritten, RestIsSaved
<1>6. CASE \E k \in Kind : reconcile_kind(k)
  <2>. PICK k \in Kind : reconcile_kind(k)
    BY <1>6
  <2>1. /\ phase' = "hooks" /\ kind' = k /\ k \in left /\ left' = left \ {k} /\ UNCHANGED <<sent, saved>>
        /\ \A u \in sent : u[1] # k
    BY DEF reconcile_kind, disk, SentIsPast
  <2>2. k \in Filed => store' = saved[k]
    BY KindsDisjoint DEF reconcile_kind, Tracked
  <2>3. SentIsPast'
    BY <2>1 DEF SentIsPast, Emitting
  <2>. QED  BY <2>1, <2>2, <2>3 DEF Emitting, TaskIsTorn, SentIsWritten, RestIsSaved
<1>7. CASE \E x \in Key : hook(x)
  <2>. PICK x \in Key : hook(x)
    BY <1>7
  <2>1. /\ phase = "hooks" /\ phase' \in {"hooks", "refs"} /\ UNCHANGED <<sent, kind, left, saved, task>>
        /\ x \in todo /\ todo' = todo \ {x} /\ kind \in Kind
    BY DEF hook, disk, TypeOK, NextUp, Exits, Updates
  <2>2. phase' = "refs" => key' = x
    BY <2>1 DEF hook
  <2>3. \A y \in Key : y # x => store'[y] = store[y]
    BY DEF hook, TypeOK, Store
  <2>4. SentIsPast'
    BY <2>1, <2>2 DEF SentIsPast, Emitting
  <2>5. SentIsWritten'
    <3>1. <<kind, x>> \notin sent
      BY <2>1 DEF SentIsPast
    <3>. QED  BY <2>1, <2>3, <3>1 DEF SentIsWritten
  <2>6. RestIsSaved'
    <3>. SUFFICES ASSUME kind \in Filed
                  PROVE  /\ \A y \in Key : <<kind, y>> \notin astray' => store'[y] = saved[kind][y]
                         /\ phase' = "refs" => <<kind, x>> \in astray'
      BY <2>1, <2>2 DEF RestIsSaved, Emitting, This
    <3>1. CASE store[x] = Want[x]
      BY <2>1, <3>1 DEF hook, RestIsSaved
    <3>2. CASE store[x] # Want[x]
      BY <2>1, <2>3, <3>2 DEF hook, RestIsSaved
    <3>. QED  BY <3>1, <3>2
  <2>. QED  BY <2>1, <2>4, <2>5, <2>6 DEF TaskIsTorn
<1>8. CASE ref \/ write_ref
  <2>1. /\ Emitting /\ phase' \in {"refs", "ref"}
        /\ UNCHANGED <<saved, task, left, kind, store, todo, key, sent, astray>>
    BY <1>8 DEF ref, write_ref, Emitting
  <2>. QED  BY <2>1 DEF Emitting, This, TaskIsTorn, SentIsPast, SentIsWritten, RestIsSaved
<1>9. CASE create_task
  <2>1. /\ Emitting /\ phase' \in {"task", "hooks"} /\ phase = "refs"
        /\ UNCHANGED <<saved, left, kind, store, todo, key>>
        /\ sent' \subseteq sent /\ astray \subseteq astray' /\ key \in Key /\ kind \in Kind
    BY <1>9 DEF create_task, Emitting, Err, TypeOK
  <2>2. Safe[key] \in Name
    BY <2>1, KeysHaveNames
  <2>3. phase' = "task" =>
          /\ task' = [task EXCEPT ![Safe[key]] = Torn]
          /\ sent' = {u \in sent : Safe[u[2]] # Safe[key]}
    BY <1>9 DEF create_task
  <2>4. phase' = "hooks" => UNCHANGED <<task, sent>>
    BY <1>9 DEF create_task, Err
  <2>5. TaskIsTorn'
    BY <2>1, <2>2, <2>3 DEF TaskIsTorn, TypeOK
  <2>6. SentIsPast'
    BY <2>1 DEF SentIsPast, Emitting
  <2>7. SentIsWritten'
    <3>. SUFFICES ASSUME NEW x \in Key, <<kind, x>> \in sent'
                  PROVE  task'[Safe[x]] = task[Safe[x]]
      BY <2>1 DEF SentIsWritten
    <3>. QED  BY <2>1, <2>3, <2>4, KeysHaveNames DEF TypeOK
  <2>8. RestIsSaved'
    BY <2>1 DEF RestIsSaved, Emitting, This
  <2>. QED  BY <2>5, <2>6, <2>7, <2>8
<1>10. CASE write_task
  <2>1. /\ Emitting /\ phase' = "hooks" /\ phase = "task"
        /\ UNCHANGED <<saved, left, kind, todo, key, astray>>
    BY <1>10 DEF write_task, Emitting
  <2>2. TaskIsTorn'
    BY <2>1 DEF TaskIsTorn
  <2>3. CASE Err /\ UNCHANGED task
    BY <2>1, <2>2, <2>3 DEF Err, SentIsPast, SentIsWritten, RestIsSaved, Emitting, This
  <2>4. CASE Ok /\ task' = [task EXCEPT ![Safe[key]] = [unit |-> This, value |-> Want[key]]]
    <3>1. /\ kind \in Kind /\ key \in Key /\ Safe[key] \in Name /\ This = <<kind, key>>
      BY <2>1, TaskOfThis
    <3>2. sent' = sent \cup {<<kind, key>>} /\ store' = [store EXCEPT ![key] = Want[key]]
      BY <2>4, <3>1 DEF Ok
    <3>3. SentIsPast'
      BY <2>1, <3>1, <3>2 DEF SentIsPast, Emitting
    <3>4. SentIsWritten'
      <4>. SUFFICES ASSUME NEW x \in Key, <<kind, x>> \in sent'
                    PROVE  task'[Safe[x]] = [unit |-> <<kind, x>>, value |-> store'[x]]
        BY <2>1 DEF SentIsWritten
      <4>1. CASE x = key
        BY <2>4, <3>1, <3>2, <4>1 DEF TypeOK, Store
      <4>2. CASE x # key
        <5>1. <<kind, x>> \in sent /\ store'[x] = store[x]
          BY <3>2, <4>2 DEF TypeOK, Store
        <5>2. Safe[x] # Safe[key] /\ Safe[x] \in Name
          <6>1. Safe[<<kind, x>>[2]] # Safe[key]
            BY <2>1, <5>1 DEF TaskIsTorn
          <6>. QED  BY <6>1, KeysHaveNames
        <5>. QED  BY <2>1, <2>4, <3>1, <5>1, <5>2 DEF SentIsWritten, TypeOK
      <4>. QED  BY <4>1, <4>2
    <3>5. RestIsSaved'
      BY <2>1, <3>1, <3>2 DEF RestIsSaved, Emitting, TypeOK, Store
    <3>. QED  BY <2>2, <3>3, <3>4, <3>5
  <2>. QED  BY <1>10, <2>3, <2>4 DEF write_task
<1>. QED  BY <1>1, <1>2, <1>3, <1>4, <1>5, <1>6, <1>7, <1>8, <1>9, <1>10 DEF Next, Run

\* Only what is given up, or was never recorded, loses its task.
LEMMA RecordsHold == RecordInv /\ [Next]_vars => RecordedWorkIsAskedFor'
<1>. SUFFICES ASSUME RecordInv, [Next]_vars, NEW k \in Filed, NEW x \in Key, <<k, x>> \notin astray'
              PROVE  saved'[k][x] = AskedFor(<<k, x>>)'
  BY DEF RecordedWorkIsAskedFor
<1>. DEFINE u == <<k, x>>
<1>. USE DEF RecordInv
<1>0. /\ u \in Unit /\ u[1] = k /\ u[2] = x /\ Safe[x] \in Name /\ k \in Kind
      /\ u \notin astray => saved[k][x] = AskedFor(u)
  BY KeysHaveNames DEF Unit, Kind, RecordedWorkIsAskedFor
<1>. HIDE DEF u
<1>1. CASE \E n \in Name : take(n)
  <2>. PICK n \in Name : take(n)
    BY <1>1
  <2>1. /\ hand = Nothing /\ Whole(n) /\ hand' = task[n] /\ task[n] \in Task
        /\ UNCHANGED <<done, task, saved, astray>> /\ Safe[task[n].unit[2]] = n
    BY DEF take, disk, Whole, TypeOK, TasksAreInPlace
  <2>2. task[n] # Nothing
    BY <2>1 DEF Whole
  <2>3. AskedFor(u)' = AskedFor(u)
    <3>1. CASE task[n].unit = u
      BY <1>0, <2>1, <3>1 DEF AskedFor, Whole
    <3>2. CASE task[n].unit # u
      BY <1>0, <2>1, <2>2, <3>2 DEF AskedFor, Whole, Heading
    <3>. QED  BY <3>1, <3>2
  <2>. QED  BY <1>0, <2>1, <2>3 DEF u
<1>2. CASE work
  <2>1. /\ hand # Nothing /\ hand' = Nothing /\ hand \in Task
        /\ done' = [done EXCEPT ![hand.unit] = hand.value]
        /\ UNCHANGED <<task, saved, astray>>
    BY <1>2 DEF work, disk, TypeOK
  <2>2. Heading(u)' = Heading(u)
    BY <1>0, <2>1 DEF Heading, TypeOK, Task
  <2>3. AskedFor(u)' = AskedFor(u)
    BY <2>1, <2>2 DEF AskedFor, Whole
  <2>. QED  BY <1>0, <2>1, <2>3 DEF u
<1>3. ASSUME UNCHANGED <<done, hand, task, saved>>, astray \subseteq astray'
      PROVE  saved'[k][x] = AskedFor(<<k, x>>)'
  BY <1>0, <1>3 DEF AskedFor, Whole, Heading, u
<1>4. CASE \/ \E j \in Kind, g \in Goals : edit(j, g)
           \/ start \/ \E j \in Kind : reconcile_kind(j)
           \/ \E y \in Key : hook(y)
           \/ ref \/ write_ref \/ finish \/ killed \/ UNCHANGED vars
  <2>1. UNCHANGED <<done, hand, task, saved>> /\ astray \subseteq astray'
    BY <1>4 DEF edit, start, reconcile_kind, hook, ref, write_ref, finish, killed, vars, agent, disk
  <2>. QED  BY <1>3, <2>1
<1>5. CASE create_task
  <2>1. UNCHANGED <<done, hand, saved>> /\ astray \subseteq astray' /\ Emitting /\ key \in Key
    BY <1>5 DEF create_task, agent, Emitting, TypeOK
  <2>2. CASE UNCHANGED task
    BY <1>3, <2>1, <2>2
  <2>3. CASE /\ task' = [task EXCEPT ![Safe[key]] = Torn]
             /\ astray' = astray \cup Displaced(Safe[key])
    <3>1. u \notin astray /\ u # This
      <4>1. u \notin astray
        BY <2>1 DEF u
      <4>2. phase = "refs" /\ (kind \in Filed => This \in astray)
        BY <1>5 DEF create_task, RestIsSaved, Emitting
      <4>3. This = u => kind = k
        BY DEF u, This
      <4>. QED  BY <4>1, <4>2, <4>3
    <3>2. Safe[key] \in Name /\ task'[Safe[key]] = Torn
      BY <2>1, <2>3, KeysHaveNames DEF TypeOK
    <3>3. Heading(u)' = Heading(u)
      BY <2>1 DEF Heading
    <3>4. CASE Safe[x] # Safe[key] \/ ~(Whole(Safe[key]) /\ task[Safe[key]].unit = u)
      <4>1. AskedFor(u)' = AskedFor(u)
        BY <1>0, <2>3, <3>2, <3>3, <3>4 DEF AskedFor, Whole, TypeOK
      <4>. QED  BY <1>0, <2>1, <3>1, <4>1 DEF u
    <3>5. CASE Safe[x] = Safe[key] /\ Whole(Safe[key]) /\ task[Safe[key]].unit = u
      <4>1. Heading(u) = task[Safe[key]].value
        BY <1>0, <2>3, <3>1, <3>5 DEF Displaced, u
      <4>2. AskedFor(u)' = AskedFor(u)
        BY <1>0, <3>2, <3>3, <3>5, <4>1 DEF AskedFor, Whole
      <4>. QED  BY <1>0, <2>1, <3>1, <4>2 DEF u
    <3>. QED  BY <3>4, <3>5
  <2>. QED  BY <1>5, <2>2, <2>3 DEF create_task
<1>6. CASE write_task
  <2>1. UNCHANGED <<done, hand, saved, astray>> /\ phase = "task" /\ Emitting
    BY <1>6 DEF write_task, agent, Emitting
  <2>2. CASE UNCHANGED task
    BY <1>3, <2>1, <2>2
  <2>3. CASE task' = [task EXCEPT ![Safe[key]] = [unit |-> This, value |-> Want[key]]]
    <3>1. Safe[key] \in Name /\ task[Safe[key]] = Torn /\ This = <<kind, key>>
      BY <2>1, TaskOfThis DEF TaskIsTorn
    <3>2. u # This /\ u \notin astray
      BY <2>1, <3>1 DEF u, RestIsSaved
    <3>3. task'[Safe[key]].unit = This
      BY <2>3, <3>1 DEF TypeOK
    <3>4. Heading(u)' = Heading(u)
      BY <2>1 DEF Heading
    <3>5. AskedFor(u)' = AskedFor(u)
      BY <1>0, <2>3, <3>1, <3>2, <3>3, <3>4 DEF AskedFor, Whole, TypeOK
    <3>. QED  BY <1>0, <2>1, <3>2, <3>5 DEF u
  <2>. QED  BY <1>6, <2>2, <2>3 DEF write_task
<1>7. CASE persist
  <2>1. UNCHANGED <<done, hand, task>> /\ phase = "hooks"
    BY <1>7 DEF persist, agent
  <2>2. AskedFor(u)' = AskedFor(u)
    BY <2>1 DEF AskedFor, Whole, Heading
  <2>3. CASE UNCHANGED <<saved, astray>>
    BY <1>3, <2>1, <2>3
  <2>4. CASE /\ saved' = [j \in Filed |-> IF j = kind THEN store ELSE saved[j]]
             /\ astray' = astray \ {v \in sent : v[1] = kind}
    <3>1. CASE k # kind
      <4>1. u \notin astray
        BY <1>0, <2>4, <3>1 DEF u
      <4>. QED  BY <1>0, <2>2, <2>4, <3>1, <4>1 DEF u
    <3>2. CASE k = kind /\ u \notin astray
      <4>1. store[x] = saved[k][x]
        BY <2>1, <3>2 DEF RestIsSaved, u
      <4>. QED  BY <1>0, <2>2, <2>4, <3>2, <4>1 DEF u
    <3>3. CASE k = kind /\ u \in sent
      <4>1. task[Safe[x]] = [unit |-> u, value |-> store[x]]
        BY <2>1, <3>3 DEF SentIsWritten, u
      <4>2. Whole(Safe[x])
        <5>1. store[x] \in Value \cup {None}
          BY DEF TypeOK, Store
        <5>2. task[Safe[x]] \in Task
          BY <1>0, <4>1, <5>1 DEF Task
        <5>. QED  BY <5>2, NothingIsNothing DEF Whole
      <4>3. AskedFor(u) = store[x]
        BY <1>0, <4>1, <4>2 DEF AskedFor
      <4>. QED  BY <2>2, <2>4, <3>3, <4>3 DEF u
    <3>. QED  BY <1>0, <2>4, <3>1, <3>2, <3>3 DEF u
  <2>. QED  BY <1>7, <2>3, <2>4 DEF persist
<1>. QED  BY <1>1, <1>2, <1>4, <1>5, <1>6, <1>7 DEF Next, Run

LEMMA NextRecordInv == RecordInv /\ [Next]_vars => RecordInv'
BY TypesAreKept, TasksStayInPlace, MiddleIsKept, RecordsHold DEF RecordInv, Middle

-----------------------------------------------------------------------------
(* Theorems.                                                               *)

\* Every variable keeps its type.
THEOREM TypeCorrect == Spec => []TypeOK
BY InitTypes, TypesAreKept, PTL DEF Spec

\* A whole task on disk refers to files that hold the texts of its Contexts,
\* except for texts whose file could not be written.
THEOREM ReferencesAreGood == Spec => []ReferencesHold
<1>1. RefInv => ReferencesHold
  BY DEF RefInv
<1>. QED  BY <1>1, InitRefInv, NextRefInv, PTL DEF Spec

\* What a state file says is done is asked for, in hand or done, except for the
\* items whose hook or record failed, or whose task was overwritten unread.
THEOREM RecordsAreTrue == Spec => []RecordedWorkIsAskedFor
<1>1. RecordInv => RecordedWorkIsAskedFor
  BY DEF RecordInv
<1>. QED  BY <1>1, InitRecordInv, NextRecordInv, PTL DEF Spec
=============================================================================
