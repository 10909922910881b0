---------------------------- MODULE ProcessChild ----------------------------
(* One process of optative-process-pool (process.rs): spawning, crash         *)
(* detection with backoff, the props channel to its stdin, and the SIGTERM,   *)
(* grace period, SIGKILL teardown of its process group.  The owner's set      *)
(* calls one hook at a time; the child, the thread that writes its stdin and  *)
(* the clock move between any two steps.                                      *)
(*                                                                            *)
(* Time is discrete.  The code keeps Instants and only ever compares their    *)
(* differences with constants, so the module keeps the differences: age is    *)
(* now - spawned_at (saturating where the code stops telling it apart), and   *)
(* respawn_in is next_respawn_at - now, 0 when that is past or None.          *)
EXTENDS Integers, Sequences

CONSTANTS
    Props,            \* values of ProcessSource.props
    None,             \* no props, or no event
    Absent,           \* the identity is not in the desired set
    InitialBackoff,   \* INITIAL_RESPAWN_BACKOFF
    MaxBackoff,       \* MAX_RESPAWN_BACKOFF
    ResetUptime,      \* RESPAWN_BACKOFF_RESET_UPTIME
    GracePeriod,      \* SHUTDOWN_GRACE_PERIOD
    SpawnTimes,       \* how long it may take from reading `now` to spawned_at
    Grandchildren,    \* how a grandchild may take SIGTERM: "obeys", "ignores"
    MaxEdits,         \* bound on the changes of the desired set
    MaxFailures       \* bound on the system calls that fail

ASSUME PropsDistinct == None \notin Props /\ Absent \notin Props /\ None # Absent
ASSUME Durations ==
    /\ {InitialBackoff, MaxBackoff, ResetUptime, GracePeriod} \subseteq Nat \ {0}
    /\ {MaxEdits, MaxFailures} \subseteq Nat /\ SpawnTimes \subseteq Nat
\* process.rs:14-26: the first three delays (200, 400 and 800 ms) together
\* outlast the reset uptime (1 s), and none of them meets the ceiling (5 s).
ASSUME ThreeDelaysOutlastReset ==
    7 * InitialBackoff >= ResetUptime /\ MaxBackoff >= 4 * InitialBackoff
ASSUME GrandchildKinds == Grandchildren \subseteq {"obeys", "ignores"}

VARIABLES
    desired,          \* what the owner wants: Absent, or the props to run with
    tracked,          \* the set holds a ProcessState for the identity
    child,            \* "none", "running", "dead" (a zombie) or "reaped"
    age,              \* time since spawned_at, up to ResetUptime
    restart_count,    \* up to the attempt from which the delay stays the same
    respawn_in,
    last_sent_props,
    event_rx,         \* events sent on event_tx, not yet written to stdin
    stdin_open,       \* the stdin thread runs and holds the receiver
    heard,            \* the last event written to the child's stdin
    reads,            \* the child reads its stdin
    grandchild,       \* the child's own child in its group, if one lives
    exiting,          \* "no", "grace" (polling after SIGTERM) or "killed"
    grace,            \* time left until the deadline of exit
    spawns,           \* history: ages, up to ResetUptime, of the last five spawns
    edits, failures

clock == <<age, respawn_in, grace, spawns>>
stdio == <<last_sent_props, event_rx, stdin_open, heard, reads>>
owner == <<desired, edits>>
vars  == <<desired, tracked, child, age, restart_count, respawn_in,
           last_sent_props, event_rx, stdin_open, heard, reads, grandchild,
           exiting, grace, spawns, edits, failures>>

Capped(n)   == IF n > ResetUptime THEN ResetUptime ELSE n
Positive(n) == IF n > 0 THEN n ELSE 0
LongAgo     == [i \in 1..5 |-> ResetUptime]

\* 2 to the exponent attempt.saturating_sub(1).min(6): attempts from LastAttempt
\* on have one delay, and are one attempt here.
Doublings == <<1, 2, 4, 8, 16, 32, 64>>
LastAttempt == 7
respawn_backoff(attempt) ==
    LET doubled == InitialBackoff * Doublings[attempt]
    IN  IF doubled > MaxBackoff THEN MaxBackoff ELSE doubled

Init ==
    /\ desired = Absent /\ tracked = FALSE /\ child = "none"
    /\ age = 0 /\ restart_count = 0 /\ respawn_in = 0
    /\ last_sent_props = None /\ event_rx = <<>> /\ stdin_open = FALSE /\ heard = None
    /\ reads = TRUE
    /\ grandchild = "none" /\ exiting = "no" /\ grace = 0 /\ spawns = LongAgo
    /\ edits = 0 /\ failures = 0

-----------------------------------------------------------------------------
(* The clock, the owner, the child and the stdin thread.                      *)

tick ==
    /\ age' = Capped(age + 1)
    /\ respawn_in' = Positive(respawn_in - 1)
    /\ grace' = Positive(grace - 1)
    /\ spawns' = [i \in 1..5 |-> Capped(spawns[i] + 1)]
    /\ UNCHANGED <<owner, tracked, child, restart_count, stdio, grandchild,
                   exiting, failures>>

want(d) ==
    /\ edits < MaxEdits /\ d # desired
    /\ desired' = d /\ edits' = edits + 1
    /\ UNCHANGED <<clock, stdio, tracked, child, restart_count, grandchild,
                   exiting, failures>>

\* The child exits by itself, crashes, or gives in to SIGTERM.
die ==
    /\ child = "running"
    /\ child' = "dead" 
    /\ UNCHANGED <<clock, stdio, owner, tracked, restart_count, grandchild, exiting,
                   failures>>

\* One forked after SIGTERM went out has not been signalled: it is "late".
fork ==
    /\ child = "running" /\ grandchild = "none" /\ exiting # "killed"
    /\ \E g \in Grandchildren :
          grandchild' = IF exiting = "no" THEN g ELSE "late"
    /\ UNCHANGED <<clock, stdio, owner, tracked, child, restart_count, exiting,
                   failures>>

\* What was doomed by a signal ends, and so may anything else.
grandchild_ends ==
    /\ grandchild # "none" /\ grandchild' = "none"
    /\ UNCHANGED <<clock, stdio, owner, tracked, child, restart_count, exiting,
                   failures>>

\* The child stops reading its stdin, or goes on.
listen ==
    /\ child = "running" /\ reads' = ~reads
    /\ UNCHANGED <<clock, owner, tracked, child, restart_count, last_sent_props,
                   event_rx, stdin_open, heard, grandchild, exiting, failures>>

\* A write to a child that does not read may find room in the pipe, or block.
write ==
    /\ stdin_open /\ event_rx # <<>> /\ child = "running"
    /\ heard' = Head(event_rx) /\ event_rx' = Tail(event_rx)
    /\ UNCHANGED <<clock, owner, tracked, child, restart_count, last_sent_props,
                   stdin_open, reads, grandchild, exiting, failures>>

\* A write to a child that is gone, or that closed its stdin, ends the thread.
give_up ==
    /\ stdin_open /\ event_rx # <<>>
    /\ child # "running" \/ failures < MaxFailures
    /\ failures' = IF child = "running" THEN failures + 1 ELSE failures
    /\ stdin_open' = FALSE /\ event_rx' = <<>>
    /\ UNCHANGED <<clock, owner, tracked, child, restart_count, last_sent_props,
                   heard, reads, grandchild, exiting>>

stdin_thread == write \/ give_up

-----------------------------------------------------------------------------
(* The hooks.                                                                 *)

\* MUTANT of Spawned: the props count as sent, yet a new child is sent nothing.
Spawned_unsent(count, delay, props, d) ==
    /\ child' = "running" /\ age' = 0 /\ restart_count' = count
    /\ respawn_in' = Positive(delay - d)
    /\ spawns' = [i \in 1..5 |-> IF i = 1 THEN 0 ELSE Capped(spawns[i - 1] + d)]
    /\ stdin_open' = TRUE /\ heard' = None /\ last_sent_props' = props
    /\ event_rx' = <<>> /\ UNCHANGED reads
    /\ grandchild' = "none"

\* What a new ProcessState holds: enter and the respawn share it.
Spawned(count, delay, props, d) ==
    /\ child' = "running" /\ age' = 0 /\ restart_count' = count
    /\ respawn_in' = Positive(delay - d)
    /\ spawns' = [i \in 1..5 |-> IF i = 1 THEN 0 ELSE Capped(spawns[i - 1] + d)]
    /\ stdin_open' = TRUE /\ heard' = None /\ last_sent_props' = props
    /\ event_rx' = IF props = None THEN <<>> ELSE <<props>>
    /\ UNCHANGED reads
    /\ grandchild' = "none"

SpawnFails ==
    /\ failures < MaxFailures /\ failures' = failures + 1
    /\ UNCHANGED <<clock, stdio, restart_count, grandchild>>

enter ==
    /\ exiting = "no" /\ ~tracked /\ desired # Absent
    /\ \/ /\ \E d \in SpawnTimes : Spawned(0, 0, desired, d)
          /\ tracked' = TRUE
          /\ UNCHANGED failures
       \/ SpawnFails /\ UNCHANGED <<tracked, child>>
    /\ UNCHANGED <<owner, exiting, grace>>

RestartCount ==
    IF age >= ResetUptime THEN 1
    ELSE IF restart_count = LastAttempt THEN LastAttempt ELSE restart_count + 1

\* MUTANT of backing_off: every look at the dead child starts the delay again.
backing_off_rearmed ==
    /\ respawn_in > 0
    /\ child' = "reaped"
    /\ respawn_in' = respawn_backoff(restart_count)
    /\ UNCHANGED <<age, grace, spawns, stdio, restart_count, grandchild, failures>>

\* try_wait saw the exit, which reaps the child.
backing_off ==
    /\ respawn_in > 0
    /\ child' = "reaped"
    /\ UNCHANGED <<clock, stdio, restart_count, grandchild, failures>>

\* MUTANT of respawn: no delay is set for the next respawn.
respawn_at_once ==
    /\ respawn_in = 0
    /\ \/ /\ \E d \in SpawnTimes : Spawned(RestartCount, 0, desired, d)
          /\ UNCHANGED <<grace, failures>>
       \/ SpawnFails /\ child' = "reaped"

\* A spawn that fails returns before `*state = new_state`.
respawn ==
    /\ respawn_in = 0
    /\ \/ /\ \E d \in SpawnTimes :
                Spawned(RestartCount, respawn_backoff(RestartCount), desired, d)
          /\ UNCHANGED <<grace, failures>>
       \/ SpawnFails /\ child' = "reaped"

\* MUTANT of send_props: recorded before anything is sent.
send_props_unsent ==
    /\ last_sent_props' = IF desired = None THEN last_sent_props ELSE desired
    /\ UNCHANGED <<event_rx, stdin_open, heard, reads, clock, child, restart_count, grandchild>>

\* `let _ = send`: recorded whether or not the receiver is still there.
send_props ==
    /\ IF desired \in {None, last_sent_props}
          THEN UNCHANGED <<last_sent_props, event_rx>>
          ELSE /\ last_sent_props' = desired
               /\ event_rx' = IF stdin_open THEN Append(event_rx, desired) ELSE event_rx
    /\ UNCHANGED <<stdin_open, heard, reads, clock, child, restart_count, grandchild>>

\* try_wait may fail on a child not reaped yet; the code reads that as alive.
reconcile_self ==
    /\ exiting = "no" /\ tracked /\ desired # Absent
    /\ \/ /\ child \in {"dead", "reaped"}
          /\ backing_off \/ respawn
       \/ child = "running" /\ send_props /\ UNCHANGED failures
       \/ /\ child = "dead" /\ failures < MaxFailures
          /\ failures' = failures + 1
          /\ send_props
    /\ UNCHANGED <<owner, tracked, exiting, grace>>

\* MUTANT of exit_term: only the leader is signalled.
exit_term_leader ==
    /\ exiting = "no" /\ tracked /\ desired = Absent
    /\ exiting' = "grace" /\ grace' = GracePeriod
    /\ UNCHANGED <<owner, stdio, tracked, child, age, respawn_in, spawns,
                   restart_count, failures, grandchild>>

\* MUTANT of exit_term: the group of a child that has crashed is left alone.
exit_term_if_alive ==
    /\ exiting = "no" /\ tracked /\ desired = Absent
    /\ exiting' = "grace" /\ grace' = GracePeriod
    /\ grandchild' = IF child = "running" /\ grandchild = "obeys" THEN "doomed"
                     ELSE grandchild
    /\ UNCHANGED <<owner, stdio, tracked, child, age, respawn_in, spawns,
                   restart_count, failures>>

\* killpg(pgid, SIGTERM) only sends: the leader gives in when it likes, through
\* die, and a grandchild that obeys is doomed, but ends in a step of its own.
exit_term ==
    /\ exiting = "no" /\ tracked /\ desired = Absent
    /\ exiting' = "grace" /\ grace' = GracePeriod
    /\ grandchild' = IF grandchild = "obeys" THEN "doomed" ELSE grandchild
    /\ UNCHANGED <<owner, stdio, tracked, child, age, respawn_in, spawns,
                   restart_count, failures>>

\* The ProcessState is dropped: event_tx closes and the stdin thread ends.
Dropped ==
    /\ tracked' = FALSE /\ child' = "none" /\ exiting' = "no"
    /\ age' = 0 /\ restart_count' = 0 /\ respawn_in' = 0 /\ grace' = 0
    /\ spawns' = LongAgo
    /\ last_sent_props' = None /\ event_rx' = <<>> /\ stdin_open' = FALSE /\ heard' = None
    /\ reads' = TRUE

exit_poll ==
    /\ exiting = "grace" /\ grace > 0 /\ child \in {"dead", "reaped"}
    /\ Dropped
    /\ UNCHANGED <<owner, grandchild, failures>>

\* The deadline passed, or try_wait failed: killpg(pgid, SIGKILL), which spares
\* nobody and only sends, too.
exit_kill ==
    /\ exiting = "grace"
    /\ \/ grace = 0 /\ UNCHANGED failures
       \/ child # "reaped" /\ failures < MaxFailures /\ failures' = failures + 1
    /\ exiting' = "killed"
    /\ grandchild' = IF grandchild = "none" THEN "none" ELSE "doomed"
    /\ UNCHANGED <<clock, stdio, owner, tracked, child, restart_count>>

exit_wait ==
    /\ exiting = "killed" /\ child \in {"dead", "reaped"}
    /\ Dropped
    /\ UNCHANGED <<owner, grandchild, failures>>

exit == exit_term \/ exit_poll \/ exit_kill \/ exit_wait
hook == enter \/ reconcile_self \/ exit

Next ==
    \/ tick
    \/ \E d \in Props \cup {None, Absent} : want(d)
    \/ die \/ fork \/ grandchild_ends
    \/ listen \/ stdin_thread
    \/ hook

Spec == Init /\ [][Next]_vars

\* Time passes, the owner keeps reconciling, a write to a child that reads
\* returns, and who was sent a signal that ends it ends.
FairSpec ==
    /\ Spec
    /\ WF_vars(tick) /\ WF_vars(hook)
    /\ WF_vars(reads /\ write)
    /\ WF_vars(exiting = "killed" /\ die)
    /\ WF_vars(grandchild = "doomed" /\ grandchild_ends)

-----------------------------------------------------------------------------
(* Properties.                                                                *)

Desired == Props \cup {None, Absent}

\* The values the variables take; event_tx holds no event once the stdin thread
\* has dropped its receiver, and exit waits for what the set holds.
TypeOK ==
    /\ desired \in Desired /\ edits \in 0..MaxEdits /\ failures \in 0..MaxFailures
    /\ tracked \in BOOLEAN /\ stdin_open \in BOOLEAN /\ reads \in BOOLEAN
    /\ child \in {"none", "running", "dead", "reaped"}
    /\ tracked = (child # "none")
    /\ age \in 0..ResetUptime
    /\ restart_count \in 0..LastAttempt /\ respawn_in \in 0..MaxBackoff
    /\ last_sent_props \in Props \cup {None} /\ heard \in Props \cup {None}
    /\ event_rx \in Seq(Props) /\ (~stdin_open => event_rx = <<>>)
    /\ grandchild \in Grandchildren \cup {"none", "late", "doomed"}
    /\ exiting \in {"no", "grace", "killed"} /\ (exiting # "no" => tracked)
    /\ grace \in 0..GracePeriod
    /\ spawns \in [1..5 -> 0..ResetUptime]

\* However the calls fall and however long each spawn takes, five spawns of one
\* ProcessState never fall within one ResetUptime: a crash-looping child is not
\* respawned in a busy loop, whatever its measured uptime does to the count.
SpawnsAreSpaced ==
    tracked => spawns[5] >= ResetUptime

\* What last_sent_props says was sent is on its way to the running child, or
\* was the last thing written to it, as long as the stdin thread lives.
SentPropsAreOnTheirWay ==
    (child = "running" /\ stdin_open) =>
        last_sent_props = IF event_rx = <<>> THEN heard ELSE event_rx[Len(event_rx)]

\* What makes ExitReachesTheGroup inductive.
GroupIsSignalled ==
    /\ exiting = "grace" => grandchild # "obeys"
    /\ exiting = "killed" => grandchild \in {"none", "doomed"}

\* The inductive invariant.
IInv == TypeOK /\ GroupIsSignalled /\ SentPropsAreOnTheirWay

\* exit returns to a group in which nobody was passed over: a grandchild that
\* still lives is ending, unless exit came without SIGKILL and it ignores
\* SIGTERM or was forked after that.  (It may end later than exit returns.)
ExitReachesTheGroup ==
    [][ (tracked /\ ~tracked') =>
            /\ grandchild' # "obeys"
            /\ exiting = "killed" => grandchild' \in {"none", "doomed"} ]_vars

\* A process that is wanted no more leaves no orphan but those: also what it had
\* started, crashed or not, comes to an end if SIGTERM ends it.
NoOrphanStays ==
    <>[](desired = Absent) => <>[](grandchild \in {"none", "ignores", "late"})

\* A process that stays wanted is running again and again, whatever it dies of;
\* one that is no longer wanted is gone for good: exit always returns, even
\* from a child that ignores SIGTERM.
KeepsRunning ==
    /\ []<>(desired # Absent => child = "running")
    /\ <>[](desired = Absent) => <>[](~tracked)

\* A child that stays up and reads its stdin from some time on hears the props
\* that stay wanted, unless the stdin thread gave up before.
PropsArrive ==
    <>[](child = "running" /\ reads) =>
        <>[](desired \in Props /\ stdin_open => heard = desired)

=============================================================================
