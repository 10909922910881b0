---------------------------- MODULE ProcessOutput ----------------------------
(***************************************************************************)
(* What a managed process prints (optative-process-pool: process.rs,       *)
(* lib.rs).  A thread per child reads the lines of its stdout pipe and     *)
(* sends them on one channel to whoever made the pool.  The thread is      *)
(* never joined: that of a child that crashed goes on reading while the    *)
(* pool starts the next one, for as long as somebody holds the pipe, be it *)
(* only a helper the child has left behind.                                *)
(*                                                                         *)
(* Props, backoff and signals are module ProcessChild; here a child may be *)
(* respawned at once, and any process may end at any moment.  A line is    *)
(* what tells: whether it is text, and its number among those its          *)
(* generation printed.  The thread of stderr is the same loop with a log   *)
(* in place of the channel.                                                *)
(***************************************************************************)
EXTENDS Naturals, Sequences

CONSTANTS
  PipeSize,  \* lines a pipe holds
  MaxSpawns, \* bound: generations of the process
  MaxLines   \* bound: lines printed by a generation

ASSUME SizesArePositive == {PipeSize, MaxSpawns, MaxLines} \subseteq Nat \ {0}

Generation == 1..MaxSpawns
Writer     == {"child", "helper"}

VARIABLES
  gen,       \* the last generation spawned, 0 before the first
  tracked,   \* does the pool hold a ProcessState?
  exiting,   \* is the owner waiting in exit?
  writers,   \* by generation: processes that hold the write end of its stdout
  printed,   \* by generation: its lines, "text", "bytes" (no UTF-8) or "cut"
  taken,     \* by generation: how many of them its thread has taken from the pipe
  reader,    \* by generation: "none", "reading" or "closed"
  channel,   \* StreamItems sent and not received: <<generation, number>>
  listening, \* does the receiver exist?
  got        \* history: by generation, the numbers of the lines received

slot  == <<gen, tracked, exiting>>
pipes == <<writers, printed, taken, reader>>
sink  == <<channel, listening, got>>

output_vars == <<slot, pipes, sink>>

OutputInit ==
  /\ gen = 0 /\ tracked = FALSE /\ exiting = FALSE
  /\ writers = [g \in Generation |-> {}] /\ printed = [g \in Generation |-> <<>>]
  /\ taken = [g \in Generation |-> 0] /\ reader = [g \in Generation |-> "none"]
  /\ channel = <<>> /\ listening = TRUE /\ got = [g \in Generation |-> <<>>]

-----------------------------------------------------------------------------
(* The pool: enter, reconcile_self of a child that died, exit.             *)

spawn_process ==
  /\ gen < MaxSpawns /\ gen' = gen + 1
  /\ writers' = [writers EXCEPT ![gen'] = {"child"}]
  /\ reader' = [reader EXCEPT ![gen'] = "reading"]
  /\ UNCHANGED <<printed, taken, sink>>

enter == ~tracked /\ tracked' = TRUE /\ spawn_process /\ UNCHANGED exiting

reconcile_self ==
  /\ tracked /\ ~exiting /\ "child" \notin writers[gen]
  /\ spawn_process /\ UNCHANGED <<tracked, exiting>>

\* SIGTERM, and the grace period begins.
exit ==
  /\ tracked /\ ~exiting /\ exiting' = TRUE
  /\ UNCHANGED <<gen, tracked, pipes, sink>>

\* The child was reaped; or the period is over, and the group is killed.
exited ==
  /\ exiting /\ exiting' = FALSE /\ tracked' = FALSE
  /\ \/ "child" \notin writers[gen] /\ UNCHANGED writers
     \/ "child" \in writers[gen] /\ writers' = [writers EXCEPT ![gen] = {}]
  /\ UNCHANGED <<gen, printed, taken, reader, sink>>

-----------------------------------------------------------------------------
(* The processes.                                                          *)

Unread(g) == Len(printed[g]) - taken[g]
Full(g)   == reader[g] # "closed" /\ Unread(g) = PipeSize

fork(g) ==
  /\ "child" \in writers[g] /\ writers' = [writers EXCEPT ![g] = Writer]
  /\ UNCHANGED <<slot, printed, taken, reader, sink>>

\* Printing waits while the pipe is full.
Printed(g, line) ==
  /\ reader[g] = "reading" /\ ~Full(g) /\ Len(printed[g]) < MaxLines
  /\ printed' = [printed EXCEPT ![g] = Append(@, line)]

print(g, line) ==
  /\ writers[g] # {} /\ Printed(g, line)
  /\ UNCHANGED <<slot, writers, taken, reader, sink>>

\* A process ends: by itself, by a signal, or by SIGPIPE if the pipe is closed.
\* If it was the last to hold the pipe, it may leave the beginning of a line.
die(g, w) ==
  /\ w \in writers[g] /\ writers' = [writers EXCEPT ![g] = @ \ {w}]
  /\ \/ UNCHANGED printed
     \/ writers'[g] = {} /\ Printed(g, "cut")
  /\ UNCHANGED <<slot, taken, reader, sink>>

-----------------------------------------------------------------------------
(* The thread of a child's stdout, and the owner of the channel.           *)

Next_line(g) == printed[g][taken[g] + 1]

\* A line that is no text, a channel nobody listens to, or the end of the
\* file ends the loop, which drops the pipe.
Closes(g) ==
  IF Unread(g) = 0 THEN writers[g] = {} ELSE Next_line(g) = "bytes" \/ ~listening

\* Mutant: a line that is no text is skipped.
forward_skips(g) ==
  /\ reader[g] = "reading"
  /\ \/ /\ Closes(g) /\ (Unread(g) = 0 \/ ~listening)
        /\ reader' = [reader EXCEPT ![g] = "closed"] /\ UNCHANGED <<taken, channel>>
     \/ /\ Unread(g) > 0 /\ listening /\ taken' = [taken EXCEPT ![g] = @ + 1]
        /\ channel' = IF Next_line(g) = "bytes" THEN channel
                      ELSE Append(channel, <<g, taken'[g]>>)
        /\ UNCHANGED reader
  /\ UNCHANGED <<slot, writers, printed, listening, got>>

\* Mutant: the loop ends with the processes, whatever is left in the pipe.
forward_until_death(g) ==
  /\ reader[g] = "reading"
  /\ \/ /\ Closes(g) \/ writers[g] = {}
        /\ reader' = [reader EXCEPT ![g] = "closed"] /\ UNCHANGED <<taken, channel>>
     \/ /\ Unread(g) > 0 /\ ~Closes(g) /\ taken' = [taken EXCEPT ![g] = @ + 1]
        /\ channel' = Append(channel, <<g, taken'[g]>>) /\ UNCHANGED reader
  /\ UNCHANGED <<slot, writers, printed, listening, got>>

forward(g) ==
  /\ reader[g] = "reading"
  /\ \/ /\ Closes(g)
        /\ reader' = [reader EXCEPT ![g] = "closed"] /\ UNCHANGED <<taken, channel>>
     \/ /\ Unread(g) > 0 /\ ~Closes(g) /\ taken' = [taken EXCEPT ![g] = @ + 1]
        /\ channel' = Append(channel, <<g, taken'[g]>>) /\ UNCHANGED reader
  /\ UNCHANGED <<slot, writers, printed, listening, got>>

\* An owner with one thread does not receive while it waits in exit.
receive ==
  /\ listening /\ ~exiting /\ channel # <<>>
  /\ LET item == Head(channel) IN got' = [got EXCEPT ![item[1]] = Append(@, item[2])]
  /\ channel' = Tail(channel)
  /\ UNCHANGED <<slot, pipes, listening>>

\* The owner drops the receiver, and what is in the channel with it.
hang_up ==
  /\ listening /\ listening' = FALSE /\ channel' = <<>>
  /\ UNCHANGED <<slot, pipes, got>>

-----------------------------------------------------------------------------
OutputNext ==
  \/ enter \/ reconcile_self \/ exit \/ exited
  \/ receive \/ hang_up
  \/ \E g \in Generation :
       \/ fork(g)
       \/ \E line \in {"text", "bytes"} : print(g, line)
       \/ \E w \in Writer : die(g, w)
       \/ forward(g)

OutputSpec == OutputInit /\ [][OutputNext]_output_vars

\* The threads run, exit returns after its grace period at the latest, and an
\* owner that listens gets to it time and again.
OutputFairSpec ==
  /\ OutputSpec /\ WF_output_vars(exited) /\ SF_output_vars(receive)
  /\ \A g \in Generation : WF_output_vars(forward(g))

-----------------------------------------------------------------------------
(* Properties.                                                             *)

\* The values the variables take.
OutputTypeOK ==
  /\ gen \in 0..MaxSpawns /\ tracked \in BOOLEAN /\ exiting \in BOOLEAN
  /\ writers \in [Generation -> SUBSET Writer]
  /\ printed \in [Generation -> Seq({"text", "bytes", "cut"})]
  /\ taken \in [Generation -> Nat]
  /\ reader \in [Generation -> {"none", "reading", "closed"}]
  /\ channel \in Seq(Generation \X Nat) /\ listening \in BOOLEAN
  /\ got \in [Generation -> Seq(Nat)]

Upto(n) == [i \in 1..n |-> i]

\* Where the channel holds lines of a generation.
Sent(g) == {i \in DOMAIN channel : channel[i][1] = g}

\* However generations overlap on the channel, the lines of each arrive in
\* their order, once, and none is left out before a later one: those received,
\* and then those on the channel, are the first n that were printed.  What a
\* process printed after them is given up only for a line that is no text or for
\* want of a listener.  A line cut short is the last, and passes for a line.
LinesComeInOrder ==
  \A g \in Generation :
    \E n \in Len(got[g])..Len(printed[g]) :
      /\ got[g] = Upto(Len(got[g]))
      /\ {channel[i][2] : i \in Sent(g)} = (Len(got[g]) + 1)..n
      /\ \A i, j \in Sent(g) : i < j => channel[i][2] < channel[j][2]
      /\ \A i \in 1..n : printed[g][i] # "bytes"
      /\ reader[g] = "closed" /\ listening /\ n < Len(printed[g]) =>
           printed[g][n + 1] = "bytes"

\* What is printed arrives, also after the process ended and the next one is
\* running, unless it or a line before it is no text or nobody listens any more; and
\* no process waits on a full pipe for ever, whatever the owner does.
OutputArrives ==
  \A g \in Generation :
    /\ Full(g) ~> ~Full(g)
    /\ \A i \in 1..MaxLines :
         i <= Len(printed[g]) ~>
           \/ i <= Len(got[g]) \/ ~listening
           \/ \E j \in DOMAIN printed[g] : j <= i /\ printed[g][j] = "bytes"
=============================================================================
