------------------------------ MODULE PromptTask ------------------------------
(***************************************************************************)
(* Hooks that answer with prompt`...` (optative-script/src/engine.rs): the *)
(* work is left to an agent, and the run only puts a task file on disk.    *)
(* A task is named after its item's key, made safe for a file name, and    *)
(* refers to the texts of its surrounding Contexts, each kept once in a    *)
(* file named after its hash.                                              *)
(*                                                                         *)
(* So a run of ScriptRun here changes files, and the world changes when    *)
(* the agent gets to it, which is beyond the repository: it takes up whole *)
(* task files in any order, as often as it likes.  A file is created empty *)
(* before it is written; either step may fail, and the run may be killed   *)
(* between them.  Every hook here answers with a prompt; --limit and       *)
(* --dry-run, and hooks that throw, are in ScriptRun.                      *)
(***************************************************************************)
EXTENDS KeyedStore

CONSTANTS
  Observed, Filed,  \* the kinds, as in ScriptRun
  Goals,            \* what a script may declare of a kind
  Name,             \* names of task files
  Context,          \* texts of Contexts, and the names of their files
  Safe,             \* the task file of each key
  ContextOf,        \* the Contexts around each item, outermost first
  Nothing,          \* no kind, no key, no task
  Torn,             \* a file created and not, or not wholly, written
  MaxFaults,        \* bound: steps that fail, and runs that are killed
  MaxEdits          \* bound: edits of the script

Kind == Observed \cup Filed
Unit == Kind \X Key

ASSUME KindsDisjoint == Observed \cap Filed = {}
ASSUME GoalsAreStores == Goals \subseteq Store
ASSUME KeysHaveNames == Safe \in [Key -> Name]
ASSUME ItemsHaveContexts == ContextOf \in [Unit -> Seq(Context)]

\* The Contexts around an item.
Texts(u) == {ContextOf[u][i] : i \in DOMAIN ContextOf[u]}

\* What a task asks for: this item at this value, or gone.
Task == [unit : Unit, value : Value \cup {None}]

ASSUME NothingIsNothing ==
  Nothing # Torn /\ {Nothing, Torn} \cap (Kind \cup Key \cup Context \cup Task) = {}
ASSUME BoundsAreNumbers == MaxFaults \in Nat /\ MaxEdits \in Nat

VARIABLES
  goal,       \* what the script declares
  done,       \* what the agent's work has made of each item
  hand,       \* the task the agent works on
  saved,      \* the state file of each filed kind
  context,    \* .esto/context: Nothing, Torn or the text
  task,       \* tasks: Nothing, Torn or a task
  left,       \* kinds the run has not begun
  kind,       \* the kind being reconciled
  store,      \* its set
  todo,       \* keys no loop of the set has visited
  key,        \* the item whose task is being emitted
  refs,       \* its Contexts that have not been seen to
  phase,      \* "idle", "kinds", "hooks", "refs", "ref", "task"
  sent,       \* history: items whose hook said Ok, with no other's task in their file
  astray,     \* history: filed items whose last task is lost or not recorded
  spoiled,    \* history: Contexts whose file could not be written
  faults, edits

agent  == <<done, hand>>
disk   == <<saved, context, task>>
run    == <<left, kind, store, todo, key, refs, phase, sent>>
bounds == <<faults, edits>>
vars   == <<goal, agent, disk, run, astray, spoiled, bounds>>

Idle == left = {} /\ kind = Nothing /\ store = Empty /\ todo = {} /\ key = Nothing
        /\ refs = <<>> /\ phase = "idle" /\ sent = {}

Init ==
  /\ goal \in [Kind -> Goals]
  /\ done = [u \in Unit |-> None] /\ hand = Nothing
  /\ saved = [k \in Filed |-> Empty]
  /\ context = [c \in Context |-> Nothing] /\ task = [n \in Name |-> Nothing]
  /\ Idle /\ astray = {} /\ spoiled = {}
  /\ faults = MaxFaults /\ edits = MaxEdits

Fault == faults > 0 /\ faults' = faults - 1 /\ UNCHANGED edits

-----------------------------------------------------------------------------
(* The agent, and the author of the script.                                *)

Whole(n) == task[n] \notin {Nothing, Torn}

take(n) ==
  /\ hand = Nothing /\ Whole(n) /\ hand' = task[n]
  /\ UNCHANGED <<goal, done, disk, run, astray, spoiled, bounds>>

work ==
  /\ hand # Nothing /\ hand' = Nothing
  /\ done' = [done EXCEPT ![hand.unit] = hand.value]
  /\ UNCHANGED <<goal, disk, run, astray, spoiled, bounds>>

edit(k, g) ==
  /\ phase = "idle" /\ edits > 0 /\ edits' = edits - 1
  /\ goal' = [goal EXCEPT ![k] = g]
  /\ UNCHANGED <<agent, disk, run, astray, spoiled, faults>>

-----------------------------------------------------------------------------
(* A run, up to the hook of an item.                                       *)

\* A kind is known to a run by its leaves only.
kinds_of(g) == {k \in Kind : Held(g[k]) # {}}

start ==
  /\ phase = "idle" /\ phase' = "kinds" /\ left' = kinds_of(goal)
  /\ UNCHANGED <<goal, agent, disk, kind, store, todo, key, refs, sent, astray, spoiled, bounds>>

\* observe(), or the entries loaded from the file.
Tracked(k) == IF k \in Observed THEN [x \in Key |-> done[<<k, x>>]] ELSE saved[k]

reconcile_kind(k) ==
  /\ phase = "kinds" /\ k \in left /\ left' = left \ {k}
  /\ kind' = k /\ phase' = "hooks"
  /\ store' = Tracked(k)
  /\ todo' = Held(store') \cup Held(goal[k])
  /\ UNCHANGED <<goal, agent, disk, key, refs, sent, astray, spoiled, bounds>>

Want == goal[kind]

\* The loop the key is visited in; each loop waits for the one before it.
Exits   == todo \cap exit_keys(store, Want)
Updates == todo \cap update_keys(store, Want)
NextUp  == IF Exits # {} THEN Exits ELSE IF Updates # {} THEN Updates ELSE todo

\* An entry that is to go is removed before its hook; exit hooks get no Context.
\* A filed item is astray until its task is out and recorded.
hook(x) ==
  /\ phase = "hooks" /\ x \in NextUp /\ todo' = todo \ {x}
  /\ IF store[x] = Want[x]
     THEN UNCHANGED <<store, key, refs, phase, astray>>
     ELSE /\ store' = [store EXCEPT ![x] = IF Want[x] = None THEN None ELSE @]
          /\ key' = x /\ phase' = "refs"
          /\ refs' = IF Want[x] = None THEN <<>> ELSE ContextOf[<<kind, x>>]
          /\ astray' = astray \cup ({<<kind, x>>} \cap Filed \X Key)
  /\ UNCHANGED <<goal, agent, disk, left, kind, sent, spoiled, bounds>>

-----------------------------------------------------------------------------
(* emit_task: first the files of the Contexts, then the task's.            *)

\* Mutant: the directory, not the file, is looked for.
ref_if_first ==
  /\ phase = "refs" /\ refs # <<>>
  /\ LET c == Head(refs) IN
     \/ /\ \E d \in Context : context[d] # Nothing
        /\ refs' = Tail(refs) /\ UNCHANGED <<context, phase, spoiled, bounds>>
     \/ /\ \A d \in Context : context[d] = Nothing
        /\ context' = [context EXCEPT ![c] = Torn] /\ phase' = "ref"
        /\ UNCHANGED <<refs, spoiled, bounds>>
  /\ UNCHANGED <<goal, agent, saved, task, left, kind, store, todo, key, sent, astray>>

\* A file that exists is taken for written; one that cannot be created is no error.
ref ==
  /\ phase = "refs" /\ refs # <<>>
  /\ LET c == Head(refs) IN
     \/ /\ context[c] # Nothing
        /\ refs' = Tail(refs) /\ UNCHANGED <<context, phase, spoiled, bounds>>
     \/ /\ context[c] = Nothing
        /\ context' = [context EXCEPT ![c] = Torn] /\ phase' = "ref"
        /\ UNCHANGED <<refs, spoiled, bounds>>
     \/ /\ context[c] = Nothing /\ Fault
        /\ spoiled' = spoiled \cup {c} /\ refs' = Tail(refs)
        /\ UNCHANGED <<context, phase>>
  /\ UNCHANGED <<goal, agent, saved, task, left, kind, store, todo, key, sent, astray>>

write_ref ==
  /\ phase = "ref" /\ phase' = "refs" /\ refs' = Tail(refs)
  /\ LET c == Head(refs) IN
     \/ /\ context' = [context EXCEPT ![c] = c]
        /\ spoiled' = spoiled \ {c} /\ UNCHANGED bounds
     \/ Fault /\ spoiled' = spoiled \cup {c} /\ UNCHANGED context
  /\ UNCHANGED <<goal, agent, saved, task, left, kind, store, todo, key, sent, astray>>

This == <<kind, key>>

\* The hook says Ok, and the set keeps the item; or Err, and it does not.
Ok  == /\ store' = [store EXCEPT ![key] = Want[key]]
       /\ sent' = sent \cup {This}
Err == UNCHANGED <<store, sent>>

\* What the agent's work in hand makes of an item.
Heading(u) == IF hand # Nothing /\ hand.unit = u THEN hand.value ELSE done[u]

\* The item, if another's, whose task is about to be overwritten unheeded.
Displaced(n) ==
  {u \in Filed \X Key : /\ u # This /\ Whole(n) /\ task[n].unit = u
                        /\ Heading(u) # task[n].value}

\* Mutant: as for Contexts, a file that exists is left alone.
create_task_once ==
  /\ phase = "refs" /\ refs = <<>>
  /\ LET n == Safe[key] IN
     \/ /\ task[n] # Nothing /\ phase' = "hooks" /\ Ok
        /\ UNCHANGED <<task, astray>>
     \/ /\ task[n] = Nothing /\ phase' = "task"
        /\ task' = [task EXCEPT ![n] = Torn]
        /\ astray' = astray \cup Displaced(n)
        /\ sent' = {u \in sent : Safe[u[2]] # n} /\ UNCHANGED store
  /\ UNCHANGED <<goal, agent, saved, context, left, kind, todo, key, refs, spoiled, bounds>>

create_task ==
  /\ phase = "refs" /\ refs = <<>>
  /\ LET n == Safe[key] IN
     \/ /\ phase' = "task" /\ task' = [task EXCEPT ![n] = Torn]
        /\ astray' = astray \cup Displaced(n)
        /\ sent' = {u \in sent : Safe[u[2]] # n}
        /\ UNCHANGED <<store, bounds>>
     \/ Fault /\ phase' = "hooks" /\ Err /\ UNCHANGED <<task, astray>>
  /\ UNCHANGED <<goal, agent, saved, context, left, kind, todo, key, refs, spoiled>>

\* Mutant: an error of the last write is ignored, as those of the Contexts are.
write_task_unchecked ==
  /\ phase = "task" /\ phase' = "hooks" /\ Ok
  /\ \/ /\ task' = [task EXCEPT ![Safe[key]] = [unit |-> This, value |-> Want[key]]]
        /\ UNCHANGED bounds
     \/ Fault /\ UNCHANGED task
  /\ UNCHANGED <<goal, agent, saved, context, left, kind, todo, key, refs, astray, spoiled>>

write_task ==
  /\ phase = "task" /\ phase' = "hooks"
  /\ \/ /\ task' = [task EXCEPT ![Safe[key]] = [unit |-> This, value |-> Want[key]]]
        /\ Ok /\ UNCHANGED bounds
     \/ Fault /\ Err /\ UNCHANGED task
  /\ UNCHANGED <<goal, agent, saved, context, left, kind, todo, key, refs, astray, spoiled>>

-----------------------------------------------------------------------------
(* The end of a kind and of the run.                                       *)

Leave(p) == kind' = Nothing /\ store' = Empty /\ key' = Nothing /\ phase' = p

persist ==
  /\ phase = "hooks" /\ todo = {} /\ Leave("kinds")
  /\ \/ /\ saved' = [k \in Filed |-> IF k = kind THEN store ELSE saved[k]]
        /\ astray' = astray \ {u \in sent : u[1] = kind}
        /\ UNCHANGED bounds
     \/ kind \in Filed /\ Fault /\ UNCHANGED <<saved, astray>>
  /\ UNCHANGED <<goal, agent, context, task, left, todo, refs, sent, spoiled>>

finish ==
  /\ phase = "kinds" /\ left = {} /\ phase' = "idle" /\ sent' = {}
  /\ UNCHANGED <<goal, agent, disk, left, kind, store, todo, key, refs, astray, spoiled, bounds>>

\* The run is killed.
killed ==
  /\ phase # "idle" /\ Fault
  /\ left' = {} /\ todo' = {} /\ refs' = <<>> /\ sent' = {} /\ Leave("idle")
  /\ spoiled' = spoiled \cup IF phase = "ref" THEN {Head(refs)} ELSE {}
  /\ UNCHANGED <<goal, agent, disk, astray>>

-----------------------------------------------------------------------------
Run ==
  \/ \E k \in Kind : reconcile_kind(k)
  \/ \E x \in Key : hook(x)
  \/ ref \/ write_ref \/ create_task \/ write_task \/ persist \/ finish

Next ==
  \/ \E n \in Name : take(n)
  \/ work
  \/ \E k \in Kind, g \in Goals : edit(k, g)
  \/ start \/ Run \/ killed

Spec == Init /\ [][Next]_vars

\* Runs come again (a schedule, or esto watch) and go on; the agent ends what it
\* has begun, and gets to every task file that is there time and again.
FairSpec ==
  /\ Spec /\ WF_vars(Run) /\ WF_vars(start) /\ WF_vars(work)
  /\ \A n \in Name : SF_vars(take(n))

-----------------------------------------------------------------------------
(* Properties.                                                             *)

\* The values the variables take.
TypeOK ==
  /\ goal \in [Kind -> Goals]
  /\ done \in [Unit -> Value \cup {None}] /\ hand \in Task \cup {Nothing}
  /\ saved \in [Filed -> Store]
  /\ context \in [Context -> Context \cup {Nothing, Torn}]
  /\ task \in [Name -> Task \cup {Nothing, Torn}]
  /\ left \subseteq Kind /\ kind \in Kind \cup {Nothing}
  /\ store \in Store /\ todo \subseteq Key /\ key \in Key \cup {Nothing}
  /\ refs \in Seq(Context)
  /\ phase \in {"idle", "kinds", "hooks", "refs", "ref", "task"}
  /\ sent \subseteq Unit /\ astray \subseteq Filed \X Key /\ spoiled \subseteq Context
  /\ faults \in Nat /\ edits \in Nat
  /\ phase \in {"hooks", "refs", "ref", "task"} => kind \in Kind
  /\ phase \in {"refs", "ref", "task"} => key \in Key
  /\ phase = "ref" => refs # <<>>

\* A whole task refers to files that hold the texts of its Contexts, whichever
\* task of whichever run wrote them ("same id = same content", engine.rs:200),
\* except for a text whose file could not be written: emit_task ignores that
\* error, and takes a file cut short for written ever after.
ReferencesHold ==
  \A n \in Name : Whole(n) /\ task[n].value # None =>
    \A c \in Texts(task[n].unit) : context[c] = c \/ c \in spoiled

\* What becomes of an item by the task on disk, in hand or done last.
AskedFor(u) ==
  LET n == Safe[u[2]] IN
  IF Whole(n) /\ task[n].unit = u THEN task[n].value ELSE Heading(u)

\* The state file of a kind says nothing is left to do for an item only if that
\* is being seen to: its task is on disk, in the agent's hands, or done.  The
\* exceptions are the items whose hook or whose record failed or was cut short,
\* and those whose task another item's took the place of before it was read.
RecordedWorkIsAskedFor ==
  \A u \in (Filed \X Key) \ astray : saved[u[1]][u[2]] = AskedFor(u)

Declared == kinds_of(goal)

\* What the script declares of observed kinds gets done in the end, although
\* items, also of several kinds, overwrite each other's task files run by run,
\* and stale tasks of earlier scripts are never taken back.
ObservedGetDone ==
  <>[](\A k \in Observed \cap Declared : \A x \in Key : done[<<k, x>>] = goal[k][x])
=============================================================================
