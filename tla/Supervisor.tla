----------------------------- MODULE Supervisor -----------------------------
(***************************************************************************)
(* ProcessSupervisor of optative-process-pool (supervisor.rs): a call of   *)
(* reconcile resolves each spec to a source, keeps what it resolved in a   *)
(* cache with the temporary files the source names, and drives the pool of *)
(* processes once, or twice when a spec changed: the first pass leaves the *)
(* changed ones out, so that the second one starts them afresh.            *)
(*                                                                         *)
(* The pool is an OptativeSet, whose contract is module Reconcile; its     *)
(* lifecycle is module ProcessChild.  A call of the pool is one step here. *)
(* Each spec names one Resource::File: resolving it makes a new temporary  *)
(* file, which is deleted when the cache entry that holds it is dropped.   *)
(* Processes crash between any two steps.                                  *)
(***************************************************************************)
EXTENDS Naturals, Sequences

CONSTANTS
  Identity,     \* ProcessIdentity
  Version,      \* what else a ProcessSpec says: args, env, current_dir
  File,         \* names of temporary files
  None,         \* no process, no cache entry
  MaxItems,     \* bound: the longest desired list
  MaxFailures,  \* bound: how many resolutions and pool passes go wrong
  MaxEdits      \* bound: how often the owner changes the desired list

Source  == [spec : Version, file : File]
Process == [spec : Version, file : File, up : BOOLEAN]
Spec    == [key : Identity, spec : Version]

ASSUME NoneIsNothing == None \notin Source \cup Process \cup Version
ASSUME BoundsAreNumbers == {MaxItems, MaxFailures, MaxEdits} \subseteq Nat

VARIABLES
  pool,           \* the running (or crashed) process of each tracked identity
  states,         \* the cache
  new_states,     \* the local new_states of a call
  resolved,       \* the local resolved: a sequence of [key, value]
  needs_restart,  \* the local needs_restart
  errors,         \* identities named by the errors of the call, or the last one
  todo,           \* specs of the call not resolved yet
  phase,          \* "idle", "resolve", "first", "second" or "dropped"
  request,        \* history: the list last desired
  kept,           \* history: specs cached when the call began
  repeated,       \* history: identities a list has named more than once
  failures, edits

call  == <<new_states, resolved, needs_restart, todo, phase>>
owner == <<request, kept, repeated, edits>>
vars  == <<pool, states, errors, call, owner, failures>>

Pool == INSTANCE KeyedStore WITH Key <- Identity, Value <- Source

Lists == UNION {[1..n -> Spec] : n \in 0..MaxItems}

\* The identities a list names more than once.
Repeats(l) == {l[n].key : n \in {m \in DOMAIN l : \E o \in 1..(m - 1) : l[o].key = l[m].key}}

\* Temporary files exist as long as a cache entry holds their handle.
Kept(cache) == {cache[i].file : i \in {j \in Identity : cache[j] # None}}
Files == Kept(states) \cup Kept(new_states)

\* Names somebody still knows, whether or not the file is there.
Known == Files \cup Kept(pool) \cup {resolved[n].value.file : n \in DOMAIN resolved}

NoState == [i \in Identity |-> None]

Init ==
  /\ pool = NoState /\ states = NoState /\ new_states = NoState
  /\ resolved = <<>> /\ needs_restart = {} /\ errors = {} /\ todo = <<>>
  /\ phase = "idle" /\ request = <<>> /\ kept = NoState /\ repeated = {}
  /\ failures = 0 /\ edits = 0

-----------------------------------------------------------------------------
(* The owner and the processes.                                            *)

\* The owner calls reconcile with a list of its choice, or the same again;
\* shutdown_all is the call with the empty list.
reconcile(desired) ==
  /\ phase = "idle"
  /\ \/ edits < MaxEdits /\ edits' = edits + 1
     \/ desired = request /\ UNCHANGED edits
  /\ request' = desired /\ kept' = states
  /\ repeated' = repeated \cup Repeats(desired)
  /\ todo' = desired /\ phase' = "resolve" /\ errors' = {}
  /\ UNCHANGED <<pool, states, new_states, resolved, needs_restart, failures>>

crash(i) ==
  /\ pool[i] # None /\ pool[i].up
  /\ pool' = [pool EXCEPT ![i].up = FALSE]
  /\ UNCHANGED <<states, errors, call, owner, failures>>

\* Dropping the supervisor drops the pool, whose derived Drop reconciles it
\* to the empty set, and then the cache.
drop ==
  /\ phase = "idle"
  /\ phase' = "dropped"
  /\ pool' = NoState /\ states' = NoState
  /\ UNCHANGED <<new_states, resolved, needs_restart, todo, errors, owner, failures>>

-----------------------------------------------------------------------------
(* Resolving one spec of the list.                                         *)

\* What comes after the loop: the first pass runs only if a spec changed.
After(rest, restarts) ==
  IF rest # <<>> THEN "resolve" ELSE IF restarts # {} THEN "first" ELSE "second"

\* Mutant: an unchanged spec is resolved again, to another file.
Reuse_resolves(s) ==
  /\ \E f \in File \ Known :
       LET source == [spec |-> s.spec, file |-> f] IN
       /\ resolved' = Append(resolved, [key |-> s.key, value |-> source])
       /\ new_states' = [new_states EXCEPT ![s.key] = source]
  /\ UNCHANGED <<needs_restart, errors, failures>>

Reuse(s) ==
  /\ resolved' = Append(resolved, [key |-> s.key, value |-> states[s.key]])
  /\ new_states' = [new_states EXCEPT ![s.key] = states[s.key]]
  /\ UNCHANGED <<needs_restart, errors, failures>>

\* Mutant: a changed spec is resolved again but not restarted.
Resolve_no_restart(s) ==
  /\ UNCHANGED needs_restart
  /\ \E f \in File \ Known :
       LET source == [spec |-> s.spec, file |-> f] IN
       /\ resolved' = Append(resolved, [key |-> s.key, value |-> source])
       /\ new_states' = [new_states EXCEPT ![s.key] = source]
       /\ UNCHANGED <<errors, failures>>

\* A spec that is not cached, or cached with another content: the cache entry
\* is dropped (its files with it) before the new one is resolved.
Resolve(s) ==
  /\ needs_restart' = needs_restart \cup (IF states[s.key] = None THEN {} ELSE {s.key})
  /\ \/ \E f \in File \ Known :
          LET source == [spec |-> s.spec, file |-> f] IN
          /\ resolved' = Append(resolved, [key |-> s.key, value |-> source])
          /\ new_states' = [new_states EXCEPT ![s.key] = source]
          /\ UNCHANGED <<errors, failures>>
     \/ /\ failures < MaxFailures /\ failures' = failures + 1
        /\ errors' = errors \cup {s.key}
        /\ UNCHANGED <<resolved, new_states>>

resolve_next ==
  /\ phase = "resolve" /\ todo # <<>>
  /\ LET s == Head(todo) IN
     /\ IF states[s.key] # None /\ states[s.key].spec = s.spec
           THEN Reuse(s) ELSE Resolve(s)
     /\ states' = [states EXCEPT ![s.key] = None]
  /\ todo' = Tail(todo)
  /\ phase' = After(Tail(todo), needs_restart')
  /\ UNCHANGED <<pool, owner>>

resolve_none ==
  /\ phase = "resolve" /\ todo = <<>>
  /\ phase' = "second"
  /\ UNCHANGED <<pool, states, errors, new_states, resolved, needs_restart, todo, owner,
                 failures>>

-----------------------------------------------------------------------------
(* The passes of the pool.                                                 *)

\* The pool's set collects the resolved sources: see KeyedStore.
wanted == Pool!dedup_by_key(resolved)

Started(source) == [spec |-> source.spec, file |-> source.file, up |-> TRUE]

\* ProcessPool::reconcile.  A process not desired exits; one that is new is
\* spawned; one that runs goes on as it is, whatever its source says now; one
\* that crashed is respawned from its source, unless it is backing off.  The
\* spawns of `failing` fail: failed are the identities the pool reports.
PoolPass(want, failing, waiting, failed) ==
  LET wants(i)  == want[i] # None
      spawns(i) == /\ wants(i)
                   /\ pool[i] = None \/ (~pool[i].up /\ i \notin waiting)
  IN  /\ failed = {i \in failing : spawns(i)}
      /\ pool' = [i \in Identity |->
                    CASE ~wants(i) -> None
                      [] spawns(i) /\ i \notin failing -> Started(want[i])
                      [] OTHER -> pool[i]]

\* Each pass that reports something uses up a failure.
Passes(want, failed) ==
  \E failing, waiting \in SUBSET Identity :
    /\ PoolPass(want, failing, waiting, failed)
    /\ IF failed = {} THEN UNCHANGED failures
                      ELSE failures < MaxFailures /\ failures' = failures + 1

\* Mutant: the first pass leaves every source out.
Unchanged_none(want) == NoState

Unchanged(want) == [i \in Identity |-> IF i \in needs_restart THEN None ELSE want[i]]

\* The errors of the first pass are not kept.
first_pass ==
  /\ phase = "first"
  /\ \E failed \in SUBSET Identity : Passes(Unchanged(wanted), failed)
  /\ phase' = "second"
  /\ UNCHANGED <<states, errors, new_states, resolved, needs_restart, todo, owner>>

\* Mutant: only a source whose process the pool tracks is cached.
second_pass_forgets ==
  /\ phase = "second"
  /\ \E failed \in SUBSET Identity :
       Passes(wanted, failed) /\ errors' = errors \cup failed
  /\ states' = [i \in Identity |-> IF pool[i] = None THEN None ELSE new_states[i]]
  /\ new_states' = NoState
  /\ resolved' = <<>> /\ needs_restart' = {} /\ phase' = "idle"
  /\ UNCHANGED <<todo, owner>>

\* The second pass, and the end of the call: self.states = new_states drops
\* the entries of the identities that are gone, after their process exited.
second_pass ==
  /\ phase = "second"
  /\ \E failed \in SUBSET Identity :
       Passes(wanted, failed) /\ errors' = errors \cup failed
  /\ states' = new_states /\ new_states' = NoState
  /\ resolved' = <<>> /\ needs_restart' = {} /\ phase' = "idle"
  /\ UNCHANGED <<todo, owner>>

-----------------------------------------------------------------------------
Step == resolve_next \/ resolve_none \/ first_pass \/ second_pass

Next ==
  \/ \E l \in Lists : reconcile(l)
  \/ \E i \in Identity : crash(i)
  \/ drop
  \/ Step

SafeSpec == Init /\ [][Next]_vars

\* A call that began goes on, and the owner keeps calling with what it wants.
FairSpec == SafeSpec /\ WF_vars(Step) /\ WF_vars(reconcile(request))

-----------------------------------------------------------------------------
(* Properties.                                                             *)

Cache == [Identity -> Source \cup {None}]

\* The values the variables take.
TypeOK ==
  /\ pool \in [Identity -> Process \cup {None}]
  /\ states \in Cache /\ new_states \in Cache /\ kept \in Cache
  /\ resolved \in Seq([key : Identity, value : Source])
  /\ needs_restart \subseteq Identity /\ errors \subseteq Identity
  /\ repeated \subseteq Identity
  /\ todo \in Seq(Spec) /\ request \in Seq(Spec)
  /\ phase \in {"idle", "resolve", "first", "second", "dropped"}
  /\ failures \in 0..MaxFailures /\ edits \in 0..MaxEdits

\* What follows is about identities no list has named twice: the first mention
\* takes the cache entry out, so the second one is judged as if it were new, and
\* the cache may then describe a process that does not run.
Single == Identity \ repeated

\* Between calls the cache describes the pool: every tracked process runs with
\* the content and the temporary file of its cache entry, whatever failed or
\* crashed on the way.  A stale entry would make a later change go unnoticed.
CacheDescribesPool ==
  phase = "idle" =>
    \A i \in Single : pool[i] # None =>
      /\ states[i] # None
      /\ pool[i].spec = states[i].spec /\ pool[i].file = states[i].file

\* The spec the last call asked for, by the last item that names the identity.
Asked(i) ==
  LET at == {n \in DOMAIN request : request[n].key = i}
  IN  IF at = {} THEN None
      ELSE request[CHOOSE n \in at : \A m \in at : m <= n].spec

\* supervisor.rs:111-114: "reconcile_self doesn't detect arg changes, so changed
\* specs need an explicit exit-then-enter cycle".  When a call has returned,
\* what runs is what it asked for, and nothing else does; what it asked for and
\* does not run is named by an error, none is lost with those of the first pass.
RunsAsAskedOrReports ==
  phase = "idle" =>
    /\ \A i \in Single : pool[i] # None => pool[i].spec = Asked(i)
    /\ \A i \in Identity : Asked(i) # None /\ pool[i] = None => i \in errors

\* A running process loses its temporary file only once its changed spec has
\* been seen, and until the first pass stops it: never in any other window.
OnlyRestartsLoseTheirFile ==
  \A i \in Single : pool[i] # None /\ pool[i].file \notin Files =>
    i \in needs_restart /\ phase \in {"resolve", "first"}

\* Seen by its owner, the supervisor does what Supervision promises: to the specs
\* of its processes, for crashes are the pool's affair.  A call is a number of
\* steps to the processes, and one to its errors.
Promise == INSTANCE Supervision WITH
  Key      <- Identity,
  Value    <- Version,
  wanted   <- [i \in Identity |-> Asked(i)],
  running  <- [i \in Identity |-> IF pool[i] = None THEN None ELSE pool[i].spec],
  reported <- IF phase = "idle" \/ phase = "dropped" THEN errors ELSE {},
  exempt   <- repeated,
  at       <- IF phase = "idle" \/ phase = "dropped" THEN phase ELSE "call"

ImplementsSupervision == Promise!Spec

\* The owner's last list is what runs in the end.
Converges ==
  []<>(phase \in {"idle", "dropped"}) /\
  <>[](phase = "idle" =>
         \A i \in Single :
           IF pool[i] = None THEN Asked(i) = None ELSE pool[i].spec = Asked(i))
=============================================================================
