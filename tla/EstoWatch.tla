------------------------------ MODULE EstoWatch ------------------------------
(***************************************************************************)
(* The command `esto watch` (optative-esto/src/watch.rs), and what a run   *)
(* means for the process (run_file in lib.rs).                             *)
(*                                                                         *)
(* A thread of the notify library sees what happens to the watched paths,  *)
(* on Linux also that they are opened, and sends for each an event through *)
(* an mpsc channel, whatever its kind; the main thread waits for one or    *)
(* for the interval, drains the channel, and runs the script.  A run reads *)
(* the watched files at some moment of its own.                            *)
(* Versions count the changes, so that a run can be said to have seen one. *)
(***************************************************************************)
EXTENDS Naturals

CONSTANTS
  ItemCounts,   \* the counts a run may report (items diffed, errors)
  MaxVersions,  \* bound: changes to the watched files
  MaxUnsent,    \* bound: events that wait when a run's own reads add to them
  MaxLost       \* bound: changes for which notify reports an error instead of
                \* an event, when --every is given

ASSUME CountsAreNumbers == ItemCounts \subseteq Nat
ASSUME WatchBoundsAreNumbers == {MaxVersions, MaxUnsent, MaxLost} \subseteq Nat

VARIABLES
  args,      \* --every, --dry-run, and whether the script reads what is watched
  version,   \* changes made so far
  unsent,    \* what notify has seen and not yet sent an event for
  channel,   \* events in the channel
  stage,     \* "starting", "waiting", "draining", "running", "read" or "exited"
  seen,      \* the version the script read last
  stats,     \* delta and errors of the last run that returned Ok
  status,    \* exit status of the process
  lost       \* changes notify may still fail to report

watcher    == <<version, unsent, channel, lost>>
loop       == <<stage, seen, stats, status>>
watch_vars == <<args, watcher, loop>>

\* Without an interval, what notify cannot report is not acted upon at all.
MayLose == IF args.every THEN MaxLost ELSE 0

WatchInit ==
  /\ args \in [every : BOOLEAN, dry_run : BOOLEAN, reads_watched : BOOLEAN]
  /\ version = 0 /\ unsent = 0 /\ channel = 0 /\ lost = MayLose
  /\ stage = "starting" /\ seen = 0 /\ status = 0
  /\ stats = [delta |-> 0, errors |-> 0]

-----------------------------------------------------------------------------
(* The files and the notify thread.                                        *)

\* A watched file changes (the script's own run may do it).  Before the
\* watches are there, nobody notices.
change ==
  /\ version < MaxVersions /\ version' = version + 1
  /\ unsent' = IF stage = "starting" THEN unsent ELSE unsent + 1
  /\ UNCHANGED <<args, channel, lost, loop>>

\* The callback: an event is sent, an error is not.
notify ==
  /\ unsent > 0 /\ unsent' = unsent - 1
  /\ \/ channel' = channel + 1 /\ UNCHANGED lost
     \/ lost > 0 /\ lost' = lost - 1 /\ UNCHANGED channel
  /\ UNCHANGED <<args, version, loop>>

-----------------------------------------------------------------------------
(* run_file.                                                               *)

exit_code(s) == IF args.dry_run THEN s.delta ELSE s.errors

\* The operating system keeps eight bits of what a process exits with.
exited_with(n) == n % 256

\* The script learns what has changed.  If it opens watched paths for that,
\* inotify reports it (several reports may be one), and the callback in watch.rs
\* does not ask what an event is of.
run_read ==
  /\ stage = "running" /\ stage' = "read"
  /\ seen' = version
  /\ \/ UNCHANGED unsent
     \/ args.reads_watched /\ unsent < MaxUnsent /\ unsent' = unsent + 1
  /\ UNCHANGED <<args, version, channel, lost, stats, status>>

\* A run that fails as a whole is ignored by the watch loop; one that counts
\* something ends the process.
run_end ==
  /\ stage = "read"
  /\ \/ stage' = "waiting" /\ UNCHANGED <<stats, status>>
     \/ /\ stats' \in [delta : ItemCounts, errors : ItemCounts]
        /\ IF exit_code(stats') = 0
           THEN stage' = "waiting" /\ UNCHANGED status
           ELSE stage' = "exited" /\ status' = exited_with(exit_code(stats'))
  /\ UNCHANGED <<args, seen, watcher>>

-----------------------------------------------------------------------------
(* watch_file.                                                             *)

\* Every path is watched, then comes the initial run; a path that cannot be
\* watched ends the command.
watch ==
  /\ stage = "starting"
  /\ \/ stage' = "running" /\ UNCHANGED status
     \/ stage' = "exited" /\ status' = 1
  /\ UNCHANGED <<args, seen, stats, watcher>>

\* Mutant: the interval does not run the script.
recv_events_only ==
  /\ stage = "waiting" /\ channel > 0
  /\ channel' = channel - 1 /\ stage' = "draining"
  /\ UNCHANGED <<args, version, unsent, lost, seen, stats, status>>

\* Mutant: an empty channel fires although there is no interval.
recv_polls ==
  /\ stage = "waiting"
  /\ \/ channel > 0 /\ channel' = channel - 1
     \/ channel = 0 /\ UNCHANGED channel
  /\ stage' = "draining"
  /\ UNCHANGED <<args, version, unsent, lost, seen, stats, status>>

\* recv, or recv_timeout when there is an interval.
recv ==
  /\ stage = "waiting"
  /\ \/ channel > 0 /\ channel' = channel - 1
     \/ channel = 0 /\ args.every /\ UNCHANGED channel
  /\ stage' = "draining"
  /\ UNCHANGED <<args, version, unsent, lost, seen, stats, status>>

\* Mutant: what has come in during the run is drained, too.
drain_late ==
  \/ /\ stage = "draining" /\ stage' = "running"
     /\ UNCHANGED <<args, seen, stats, status, watcher>>
  \/ /\ stage = "read" /\ channel > 0 /\ channel' = channel - 1
     /\ UNCHANGED <<args, version, unsent, lost, loop>>

\* try_recv until the channel is empty, then the script runs.
drain ==
  /\ stage = "draining"
  /\ \/ channel > 0 /\ channel' = channel - 1 /\ UNCHANGED stage
     \/ channel = 0 /\ stage' = "running" /\ UNCHANGED channel
  /\ UNCHANGED <<args, version, unsent, lost, seen, stats, status>>

-----------------------------------------------------------------------------
Loop == watch \/ run_read \/ run_end \/ recv \/ drain

WatchNext == change \/ notify \/ Loop

WatchSpec == WatchInit /\ [][WatchNext]_watch_vars

\* Both threads go on; nobody has to change a file.
WatchFairSpec == WatchSpec /\ WF_watch_vars(notify) /\ WF_watch_vars(Loop)

-----------------------------------------------------------------------------
(* Properties.                                                             *)

\* The values the variables take.
WatchTypeOK ==
  /\ args \in [every : BOOLEAN, dry_run : BOOLEAN, reads_watched : BOOLEAN]
  /\ version \in 0..MaxVersions /\ unsent \in Nat /\ channel \in Nat
  /\ stage \in {"starting", "waiting", "draining", "running", "read", "exited"}
  /\ seen \in Nat /\ status \in 0..255 /\ lost \in 0..MayLose
  /\ stats \in [delta : Nat, errors : Nat]

\* No lost wakeup: a change the script has not read is on its way to the
\* channel, or in it, or the loop is on its way to a run that will read it.
\* Only a change that notify could not report is an exception.
UnseenIsOnItsWay ==
  seen < version =>
    \/ unsent > 0 \/ channel > 0 \/ lost < MayLose
    \/ stage \in {"starting", "draining", "running", "exited"}

\* As long as the process lives, the script comes to read every change, also
\* one that happens in the middle of a run or of a burst; with an interval,
\* also one that notify has not reported.
ChangesAreRead ==
  \A n \in 1..MaxVersions : (version >= n) ~> (seen >= n \/ stage = "exited")

\* A burst is not answered by runs without end: once nothing changes, no interval
\* is set, and the script reads other things than it watches (as with the trigger
\* git-commit), it is not run again.  A script that reads what it watches may
\* trigger itself for ever.
RunsComeToRest ==
  (~args.every /\ ~args.reads_watched) => <>[](stage \in {"waiting", "exited"})

\* main.rs:38: "Re-run a script whenever a trigger fires."  The loop is written
\* to outlive a run that fails (watch.rs:58 and 81 ignore its result).
EveryTriggerReruns ==
  \A n \in 1..MaxVersions :
    (version >= n /\ stage \notin {"starting", "exited"}) ~> (seen >= n)
=============================================================================
