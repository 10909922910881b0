----------------------------- MODULE Supervision -----------------------------
(***************************************************************************)
(* What ProcessSupervisor (optative-process-pool, supervisor.rs) promises  *)
(* its owner: keys are identities, a value is what a spec says, and what   *)
(* runs is a map of the one to the other.  The pool alone does not notice  *)
(* that a spec has changed; with the supervisor around it, a call replaces *)
(* the processes whose spec changed and touches no other.  Processes are   *)
(* not replaced in one step: while a call is going on an identity may have *)
(* no process, and if starting one fails it has none when the call is over *)
(* either, but then the call says so.                                      *)
(*                                                                         *)
(* Nothing is promised of the spec of an identity from the first list on   *)
(* that names it twice.                                                    *)
(***************************************************************************)
EXTENDS KeyedStore

VARIABLES
  wanted,    \* what the last list asked for
  running,   \* the spec each process was started with
  reported,  \* the identities the errors of the last call name
  exempt,    \* the identities a list has named twice
  at         \* "idle", "call" or "dropped"

vars == <<wanted, running, reported, exempt, at>>

Init ==
  /\ wanted = Empty /\ running = Empty /\ reported = {} /\ exempt = {}
  /\ at = "idle"

Call ==
  /\ at = "idle" /\ at' = "call"
  /\ wanted' \in Store /\ reported' = {}
  /\ exempt' \in SUBSET Key /\ exempt \subseteq exempt'
  /\ UNCHANGED running

\* What a call may do to a process: leave it, start the one that is wanted where
\* there is none, or stop one that is not.
Touches(k) ==
  \/ running'[k] = running[k]
  \/ running[k] = None /\ running'[k] = wanted[k]
  \/ running[k] # wanted[k] /\ running'[k] = None

Touched == running' \in Store /\ \A k \in Key \ exempt : Touches(k)

Work ==
  /\ at = "call" /\ Touched
  /\ UNCHANGED <<wanted, reported, exempt, at>>

\* A call is over when what runs is what is wanted, but for what it reports, and
\* it reports nothing it was not asked for.
Return ==
  /\ at = "call" /\ at' = "idle" /\ Touched
  /\ reported' \in SUBSET Held(wanted)
  /\ Held(wanted) \ reported' \subseteq Held(running')
  /\ Held(running') \subseteq Held(wanted)
  /\ \A k \in Held(running') \ exempt : running'[k] = wanted[k]
  /\ UNCHANGED <<wanted, exempt>>

Drop ==
  /\ at = "idle" /\ at' = "dropped"
  /\ running' = Empty
  /\ UNCHANGED <<wanted, reported, exempt>>

Next == Call \/ Work \/ Return \/ Drop

Spec == Init /\ [][Next]_vars
=============================================================================
