------------------------- MODULE ProcessChildProofs -------------------------
(* Proofs about ProcessChild, for every duration that satisfies its           *)
(* assumptions: how far apart a child is spawned, what last_sent_props        *)
(* promises, and whom exit reaches of the process group.                      *)
EXTENDS ProcessChild, TLAPS

\* The delays are within the ceiling; the first three double, and no later one
\* is shorter.
LEMMA Backoffs ==
    \A n \in 1..LastAttempt :
        /\ respawn_backoff(n) \in 0..MaxBackoff
        /\ respawn_backoff(n) >= InitialBackoff
        /\ n >= 2 => respawn_backoff(n) >= 2 * InitialBackoff
        /\ n >= 3 => respawn_backoff(n) >= 4 * InitialBackoff
<1>1. InitialBackoff \in Nat \ {0} /\ MaxBackoff \in Nat /\ MaxBackoff >= 4 * InitialBackoff
  BY Durations, ThreeDelaysOutlastReset
<1>2. \A n \in 1..7 : /\ Doublings[n] \in Nat /\ Doublings[n] >= 1
                      /\ n >= 2 => Doublings[n] >= 2
                      /\ n >= 3 => Doublings[n] >= 4
  BY DEF Doublings
<1>3. ASSUME NEW k \in Nat, NEW m \in Nat, k >= m
      PROVE  InitialBackoff * k \in Nat /\ InitialBackoff * k >= m * InitialBackoff
  BY <1>1, <1>3
<1>4. ASSUME NEW n \in 1..7
      PROVE  /\ respawn_backoff(n) \in 0..MaxBackoff
             /\ respawn_backoff(n) >= InitialBackoff
             /\ n >= 2 => respawn_backoff(n) >= 2 * InitialBackoff
             /\ n >= 3 => respawn_backoff(n) >= 4 * InitialBackoff
  <2>. DEFINE doubled == InitialBackoff * Doublings[n]
  <2>1. /\ doubled \in Nat /\ doubled >= 1 * InitialBackoff
        /\ n >= 2 => doubled >= 2 * InitialBackoff
        /\ n >= 3 => doubled >= 4 * InitialBackoff
    <3>1. Doublings[n] \in Nat /\ 1 \in Nat /\ 2 \in Nat /\ 4 \in Nat
      BY <1>2
    <3>. HIDE DEF doubled
    <3>2. \A m \in Nat : Doublings[n] >= m => doubled \in Nat /\ doubled >= m * InitialBackoff
      BY <1>3, <3>1 DEF doubled
    <3>. QED BY <1>2, <3>1, <3>2
  <2>2. respawn_backoff(n) = IF doubled > MaxBackoff THEN MaxBackoff ELSE doubled
    BY DEF respawn_backoff
  <2>. HIDE DEF doubled
  <2>. QED BY <1>1, <2>1, <2>2
<1>. QED BY <1>4 DEF LastAttempt

\* The event sent last ends the queue; taking one off the front keeps the end.
LEMMA QueueEnds ==
    /\ \A q \in Seq(Props), p \in Props :
          /\ Append(q, p) \in Seq(Props) /\ Append(q, p) # <<>>
          /\ Append(q, p)[Len(Append(q, p))] = p
    /\ \A q \in Seq(Props) : q # <<>> =>
          /\ Head(q) \in Props /\ Tail(q) \in Seq(Props)
          /\ q[Len(q)] = IF Tail(q) = <<>> THEN Head(q) ELSE Tail(q)[Len(Tail(q))]
    /\ <<>> \in Seq(Props)
    /\ \A p \in Props : /\ <<p>> \in Seq(Props) /\ <<p>> # <<>> /\ <<p>>[Len(<<p>>)] = p
  OBVIOUS

LEMMA EmptyQueue == <<>> \in Seq(Props)
  OBVIOUS

LEMMA InitInvariant == Init => IInv
<1>. SUFFICES ASSUME Init PROVE IInv
  OBVIOUS
<1>1. /\ ResetUptime \in Nat /\ MaxEdits \in Nat /\ MaxFailures \in Nat
      /\ MaxBackoff \in Nat /\ GracePeriod \in Nat /\ InitialBackoff \in Nat
  BY Durations
<1>2. LongAgo \in [1..5 -> 0..ResetUptime]
  BY <1>1 DEF LongAgo
<1>3. TypeOK
  <2>1. event_rx \in Seq(Props) /\ (~stdin_open => event_rx = <<>>)
    BY EmptyQueue DEF Init
  <2>2. spawns \in [1..5 -> 0..ResetUptime]
    BY <1>2 DEF Init
  <2>3. /\ edits \in 0..MaxEdits /\ failures \in 0..MaxFailures
        /\ age \in 0..ResetUptime
        /\ restart_count \in 0..LastAttempt /\ respawn_in \in 0..MaxBackoff
        /\ grace \in 0..GracePeriod
    BY <1>1 DEF Init, LastAttempt
  <2>4. /\ desired \in Desired /\ tracked \in BOOLEAN /\ stdin_open \in BOOLEAN
        /\ reads \in BOOLEAN /\ child = "none" /\ tracked = (child # "none")
        /\ last_sent_props \in Props \cup {None} /\ heard \in Props \cup {None}
        /\ grandchild \in Grandchildren \cup {"none", "late", "doomed"} /\ exiting = "no"
    BY DEF Init, Desired
  <2>. QED BY <2>1, <2>2, <2>3, <2>4 DEF TypeOK
<1>4. GroupIsSignalled
  BY DEF Init, GroupIsSignalled
<1>5. SentPropsAreOnTheirWay
  BY DEF Init, SentPropsAreOnTheirWay
<1>. QED BY <1>3, <1>4, <1>5 DEF IInv

-----------------------------------------------------------------------------
(* The clock: each part of the invariant is kept as time passes.              *)

LEMMA TickKeeps ==
    ASSUME IInv, tick
    PROVE  IInv'
<1>1. /\ ResetUptime \in Nat /\ MaxBackoff \in Nat /\ GracePeriod \in Nat
      /\ InitialBackoff \in Nat
  BY Durations
<1>2. \A n \in 0..ResetUptime : Capped(n + 1) \in 0..ResetUptime
  BY <1>1 DEF Capped
<1>3. /\ \A n \in 0..MaxBackoff : Positive(n - 1) \in 0..MaxBackoff /\ Positive(n - 1) <= n
      /\ \A n \in 0..GracePeriod : Positive(n - 1) \in 0..GracePeriod
  BY <1>1 DEF Positive
<1>4. TypeOK'
  BY <1>2, <1>3 DEF IInv, TypeOK, tick, stdio, owner
<1>5. GroupIsSignalled' /\ SentPropsAreOnTheirWay'
  BY DEF IInv, GroupIsSignalled, SentPropsAreOnTheirWay, tick, stdio
<1>. QED BY <1>4, <1>5 DEF IInv

-----------------------------------------------------------------------------
(* The owner, the child and the stdin thread.                                 *)

LEMMA BoundIsKept ==
    ASSUME NEW max \in Nat, NEW n \in 0..max
    PROVE  n < max => n + 1 \in 0..max
OBVIOUS

LEMMA WantKeeps ==
    ASSUME IInv, NEW d \in Desired, want(d)
    PROVE  IInv'
<1>1. TypeOK'
  <2>1. MaxEdits \in Nat /\ edits \in 0..MaxEdits
    BY Durations DEF IInv, TypeOK
  <2>2. edits' \in 0..MaxEdits
    BY <2>1, BoundIsKept DEF want
  <2>. QED BY <2>2 DEF IInv, TypeOK, want, clock, stdio
<1>3. GroupIsSignalled' /\ SentPropsAreOnTheirWay'
  BY DEF IInv, GroupIsSignalled, SentPropsAreOnTheirWay, want, stdio
<1>. QED BY <1>1, <1>3 DEF IInv

LEMMA DieKeeps ==
    ASSUME IInv, die
    PROVE  IInv'
<1>1. TypeOK'
  BY DEF IInv, TypeOK, die, clock, stdio, owner
<1>3. GroupIsSignalled' /\ SentPropsAreOnTheirWay'
  BY DEF IInv, GroupIsSignalled, SentPropsAreOnTheirWay, die, stdio
<1>. QED BY <1>1, <1>3 DEF IInv

LEMMA ForkKeeps ==
    ASSUME IInv, fork
    PROVE  IInv'
<1>1. TypeOK'
  BY DEF IInv, TypeOK, fork, clock, stdio, owner
<1>3. GroupIsSignalled' /\ SentPropsAreOnTheirWay'
  BY DEF IInv, GroupIsSignalled, SentPropsAreOnTheirWay, fork, stdio
<1>. QED BY <1>1, <1>3 DEF IInv

LEMMA GrandchildEndsKeeps ==
    ASSUME IInv, grandchild_ends
    PROVE  IInv'
<1>1. TypeOK'
  BY DEF IInv, TypeOK, grandchild_ends, clock, stdio, owner
<1>2. GroupIsSignalled' /\ SentPropsAreOnTheirWay'
  BY DEF IInv, GroupIsSignalled, SentPropsAreOnTheirWay, grandchild_ends, stdio
<1>. QED BY <1>1, <1>2 DEF IInv

LEMMA ListenKeeps ==
    ASSUME IInv, listen
    PROVE  IInv'
<1>1. TypeOK'
  BY DEF IInv, TypeOK, listen, clock, owner
<1>2. GroupIsSignalled' /\ SentPropsAreOnTheirWay'
  BY DEF IInv, GroupIsSignalled, SentPropsAreOnTheirWay, listen
<1>. QED BY <1>1, <1>2 DEF IInv

LEMMA StdinThreadKeeps ==
    ASSUME IInv, stdin_thread
    PROVE  IInv'
<1>1. TypeOK'
  <2>0. event_rx \in Seq(Props) /\ heard \in Props \cup {None} /\ event_rx # <<>>
    BY DEF IInv, TypeOK, stdin_thread, write, give_up
  <2>1. event_rx' \in Seq(Props) /\ heard' \in Props \cup {None}
    <3>1. CASE heard' = Head(event_rx) /\ event_rx' = Tail(event_rx)
      BY <2>0, <3>1, QueueEnds
    <3>2. CASE event_rx' = <<>> /\ heard' = heard
      BY <2>0, <3>2, QueueEnds
    <3>. QED BY <3>1, <3>2 DEF stdin_thread, write, give_up
  <2>2. failures' \in 0..MaxFailures
    <3>1. MaxFailures \in Nat /\ failures \in 0..MaxFailures
      BY Durations DEF IInv, TypeOK
    <3>2. failures' = failures \/ (failures < MaxFailures /\ failures' = failures + 1)
      BY DEF stdin_thread, write, give_up
    <3>. QED BY <3>1, <3>2
  <2>3. stdin_open' \in BOOLEAN /\ (~stdin_open' => event_rx' = <<>>)
    BY DEF IInv, TypeOK, stdin_thread, write, give_up
  <2>. QED BY <2>1, <2>2, <2>3 DEF IInv, TypeOK, stdin_thread, write, give_up,
                                      clock, owner
<1>3. GroupIsSignalled'
  BY DEF IInv, GroupIsSignalled, stdin_thread, write, give_up
<1>4. SentPropsAreOnTheirWay'
  BY QueueEnds DEF IInv, TypeOK, SentPropsAreOnTheirWay, stdin_thread, write, give_up
<1>. QED BY <1>1, <1>3, <1>4 DEF IInv

-----------------------------------------------------------------------------
(* The hooks.                                                                 *)

\* Whatever is spawned with a delay in range is well typed and owes its props.
LEMMA SpawnedIsSound ==
    ASSUME IInv, NEW count \in 0..LastAttempt, NEW delay \in 0..MaxBackoff,
           NEW d \in SpawnTimes, desired # Absent,
           Spawned(count, delay, desired, d), tracked', exiting = "no",
           failures' \in 0..MaxFailures,
           UNCHANGED <<owner, exiting, grace>>
    PROVE  IInv'
<1>1. ResetUptime \in Nat /\ d \in Nat /\ MaxBackoff \in Nat
  BY Durations
<1>2. Positive(delay - d) \in 0..MaxBackoff
  BY <1>1 DEF Positive
<1>3. desired \in Props \cup {None}
  BY DEF IInv, TypeOK, Desired
<1>4. spawns' \in [1..5 -> 0..ResetUptime]
  <2>1. \A n \in 0..ResetUptime : Capped(n + d) \in 0..ResetUptime
    BY <1>1 DEF Capped
  <2>2. \A i \in 1..5 : i # 1 => i - 1 \in 1..5
    OBVIOUS
  <2>3. 0 \in 0..ResetUptime /\ spawns \in [1..5 -> 0..ResetUptime]
    <3>1. spawns \in [1..5 -> 0..ResetUptime]
      BY DEF IInv, TypeOK
    <3>. QED BY <1>1, <3>1
  <2>4. \A i \in 1..5 :
           (IF i = 1 THEN 0 ELSE Capped(spawns[i - 1] + d)) \in 0..ResetUptime
    BY <2>1, <2>2, <2>3
  <2>. QED BY <2>4 DEF Spawned
<1>5. TypeOK'
  <2>1. event_rx' \in Seq(Props) /\ last_sent_props' \in Props \cup {None}
        /\ heard' \in Props \cup {None}
    BY <1>3, QueueEnds DEF Spawned
  <2>2. /\ respawn_in' \in 0..MaxBackoff /\ age' \in 0..ResetUptime
        /\ restart_count' \in 0..LastAttempt
    BY <1>1, <1>2 DEF Spawned
  <2>3. stdin_open' = TRUE /\ child' = "running" /\ grandchild' = "none" /\ reads' = reads
    BY DEF Spawned
  <2>. QED BY <2>1, <2>2, <2>3, <1>4 DEF IInv, TypeOK, owner
<1>7. GroupIsSignalled'
  BY DEF Spawned, GroupIsSignalled
<1>8. SentPropsAreOnTheirWay'
  BY <1>3, QueueEnds, PropsDistinct DEF Spawned, SentPropsAreOnTheirWay
<1>. QED BY <1>5, <1>7, <1>8 DEF IInv

LEMMA EnterKeeps ==
    ASSUME IInv, enter
    PROVE  IInv'
<1>0. MaxBackoff \in Nat /\ MaxFailures \in Nat /\ 0 \in 0..LastAttempt
  BY Durations DEF LastAttempt
<1>1. CASE UNCHANGED failures /\ tracked' /\ \E d \in SpawnTimes : Spawned(0, 0, desired, d)
  <2>1. PICK d \in SpawnTimes : Spawned(0, 0, desired, d)
    BY <1>1
  <2>2. failures' \in 0..MaxFailures /\ 0 \in 0..MaxBackoff
    BY <1>0, <1>1 DEF IInv, TypeOK
  <2>. QED BY <1>0, <1>1, <2>1, <2>2, SpawnedIsSound DEF enter
<1>2. CASE SpawnFails /\ UNCHANGED <<tracked, child>>
  <2>1. TypeOK'
    BY <1>0, <1>2 DEF IInv, TypeOK, enter, SpawnFails, clock, stdio, owner
  <2>3. GroupIsSignalled' /\ SentPropsAreOnTheirWay'
    BY <1>2 DEF IInv, GroupIsSignalled, SentPropsAreOnTheirWay, enter, SpawnFails, stdio
  <2>. QED BY <2>1, <2>3 DEF IInv
<1>. QED BY <1>1, <1>2 DEF enter

LEMMA RestartCounts ==
    ASSUME IInv
    PROVE  RestartCount \in 1..LastAttempt
BY DEF RestartCount, IInv, TypeOK, LastAttempt

LEMMA ReconcileSelfKeeps ==
    ASSUME IInv, reconcile_self
    PROVE  IInv'
<1>0. MaxFailures \in Nat
  BY Durations
<1>1. ASSUME child' = "reaped", child \in {"dead", "reaped"}, failures' \in 0..MaxFailures,
             UNCHANGED <<clock, stdio, restart_count, grandchild>>
      PROVE  IInv'
  <2>1. TypeOK'
    BY <1>1 DEF IInv, TypeOK, reconcile_self, clock, stdio, owner
  <2>3. GroupIsSignalled' /\ SentPropsAreOnTheirWay'
    BY <1>1 DEF IInv, GroupIsSignalled, SentPropsAreOnTheirWay, reconcile_self
  <2>. QED BY <2>1, <2>3 DEF IInv
<1>2. CASE child \in {"dead", "reaped"} /\ backing_off
  BY <1>1, <1>2 DEF backing_off, IInv, TypeOK
<1>3. CASE child \in {"dead", "reaped"} /\ respawn
  <2>1. CASE UNCHANGED failures /\ \E d \in SpawnTimes :
                Spawned(RestartCount, respawn_backoff(RestartCount), desired, d)
    <3>1. PICK d \in SpawnTimes :
                Spawned(RestartCount, respawn_backoff(RestartCount), desired, d)
      BY <2>1
    <3>2. RestartCount \in 1..LastAttempt
      BY RestartCounts
    <3>3. respawn_backoff(RestartCount) \in 0..MaxBackoff
      BY <3>2, Backoffs
    <3>4. RestartCount \in 0..LastAttempt /\ failures' \in 0..MaxFailures /\ tracked'
      BY <1>3, <2>1, <3>2 DEF IInv, TypeOK, reconcile_self, LastAttempt
    <3>. HIDE DEF RestartCount, respawn_backoff, Spawned
    <3>. QED BY <3>1, <3>3, <3>4, SpawnedIsSound DEF reconcile_self
  <2>2. CASE SpawnFails /\ child' = "reaped"
    BY <1>0, <1>1, <1>3, <2>2 DEF SpawnFails, IInv, TypeOK
  <2>. QED BY <1>3, <2>1, <2>2 DEF respawn
<1>4. ASSUME send_props, failures' \in 0..MaxFailures
      PROVE  IInv'
  <2>0. desired \in Props \cup {None}
    BY DEF reconcile_self, IInv, TypeOK, Desired
  <2>1. TypeOK'
    BY <1>4, <2>0, QueueEnds DEF IInv, TypeOK, reconcile_self, send_props, clock, owner
  <2>3. GroupIsSignalled'
    BY <1>4 DEF IInv, GroupIsSignalled, reconcile_self
  <2>4. SentPropsAreOnTheirWay'
    BY <1>4, <2>0, QueueEnds DEF IInv, TypeOK, SentPropsAreOnTheirWay, send_props
  <2>. QED BY <2>1, <2>3, <2>4 DEF IInv
<1>5. CASE child = "running" /\ send_props /\ UNCHANGED failures
  BY <1>4, <1>5 DEF IInv, TypeOK
<1>6. CASE child = "dead" /\ failures < MaxFailures /\ failures' = failures + 1 /\ send_props
  BY <1>0, <1>4, <1>6 DEF IInv, TypeOK
<1>. QED BY <1>2, <1>3, <1>5, <1>6 DEF reconcile_self

LEMMA DroppedIsSound ==
    ASSUME IInv, Dropped, UNCHANGED <<owner, grandchild, failures>>
    PROVE  IInv'
<1>1. /\ ResetUptime \in Nat /\ MaxBackoff \in Nat /\ GracePeriod \in Nat
      /\ InitialBackoff \in Nat
  BY Durations
<1>2. LongAgo \in [1..5 -> 0..ResetUptime]
  BY <1>1 DEF LongAgo
<1>3. TypeOK'
  <2>1. event_rx' \in Seq(Props) /\ (~stdin_open' => event_rx' = <<>>)
    BY EmptyQueue DEF Dropped
  <2>2. spawns' \in [1..5 -> 0..ResetUptime]
    BY <1>2 DEF Dropped
  <2>3. /\ age' \in 0..ResetUptime
        /\ restart_count' \in 0..LastAttempt /\ respawn_in' \in 0..MaxBackoff
        /\ grace' \in 0..GracePeriod /\ reads' \in BOOLEAN
    BY <1>1 DEF Dropped, LastAttempt
  <2>. QED BY <2>1, <2>2, <2>3 DEF IInv, TypeOK, Dropped, owner
<1>4. GroupIsSignalled' /\ SentPropsAreOnTheirWay'
  BY DEF Dropped, GroupIsSignalled, SentPropsAreOnTheirWay
<1>. QED BY <1>3, <1>4 DEF IInv

LEMMA ExitKeeps ==
    ASSUME IInv, exit
    PROVE  IInv'
<1>1. CASE exit_term
  <2>1. TypeOK'
    <3>1. GracePeriod \in 0..GracePeriod
      BY Durations
    <3>. QED BY <1>1, <3>1 DEF IInv, TypeOK, exit_term, owner, stdio
  <2>3. GroupIsSignalled' /\ SentPropsAreOnTheirWay'
    BY <1>1 DEF IInv, GroupIsSignalled, SentPropsAreOnTheirWay, exit_term, stdio
  <2>. QED BY <2>1, <2>3 DEF IInv
<1>2. CASE exit_poll
  BY <1>2, DroppedIsSound DEF exit_poll
<1>3. CASE exit_kill
  <2>1. TypeOK'
    <3>1. MaxFailures \in Nat /\ failures \in 0..MaxFailures
      BY Durations DEF IInv, TypeOK
    <3>2. failures' \in 0..MaxFailures
      BY <1>3, <3>1, BoundIsKept DEF exit_kill
    <3>. QED BY <1>3, <3>2 DEF IInv, TypeOK, exit_kill, owner, stdio, clock
  <2>3. GroupIsSignalled'
    BY <1>3 DEF IInv, TypeOK, GroupIsSignalled, exit_kill
  <2>4. SentPropsAreOnTheirWay'
    BY <1>3 DEF IInv, SentPropsAreOnTheirWay, exit_kill, stdio
  <2>. QED BY <2>1, <2>3, <2>4 DEF IInv
<1>4. CASE exit_wait
  BY <1>4, DroppedIsSound DEF exit_wait
<1>. QED BY <1>1, <1>2, <1>3, <1>4 DEF exit

LEMMA NextInvariant == IInv /\ [Next]_vars => IInv'
<1>. SUFFICES ASSUME IInv, [Next]_vars PROVE IInv'
  OBVIOUS
<1>1. CASE tick
  BY <1>1, TickKeeps
<1>2. CASE \E d \in Desired : want(d)
  BY <1>2, WantKeeps
<1>3. CASE die \/ fork \/ grandchild_ends
  BY <1>3, DieKeeps, ForkKeeps, GrandchildEndsKeeps
<1>6. CASE listen \/ stdin_thread
  BY <1>6, ListenKeeps, StdinThreadKeeps
<1>4. CASE hook
  BY <1>4, EnterKeeps, ReconcileSelfKeeps, ExitKeeps DEF hook
<1>5. CASE UNCHANGED vars
  BY <1>5 DEF vars, IInv, TypeOK, GroupIsSignalled, SentPropsAreOnTheirWay
<1>. QED BY <1>1, <1>2, <1>3, <1>4, <1>5, <1>6 DEF Next, Desired

-----------------------------------------------------------------------------
(* The spacing of spawns.                                                     *)

\* The spawn i back is a reset uptime away, or will be total away by the time the
\* next spawn may come.
Apart(i, total) == spawns[i] >= ResetUptime \/ spawns[i] + respawn_in >= total

\* Before the spawns of a crash loop there is a gap of a reset uptime, or only
\* `enter`; and from the end of one spawn to the next respawn but n there are n
\* whole delays, gone by or left to wait.  A spawn that takes long may eat up the
\* delay that began with it, which is why that one is not counted.
SpawnsAddUp ==
    /\ ~tracked => spawns = LongAgo
    /\ tracked =>
         /\ age = spawns[1] /\ spawns[1] <= spawns[2] /\ spawns[2] <= spawns[3]
         /\ spawns[3] <= spawns[4] /\ spawns[4] <= spawns[5]
         /\ restart_count = 0 => spawns[2] >= ResetUptime
         /\ restart_count = 1 => spawns[3] >= ResetUptime
         /\ restart_count = 2 => spawns[4] >= ResetUptime
         /\ restart_count >= 3 => spawns[5] >= ResetUptime
         /\ restart_count >= 1 => Apart(2, InitialBackoff)
         /\ restart_count >= 2 => Apart(3, 3 * InitialBackoff)
         /\ restart_count >= 3 => Apart(4, 7 * InitialBackoff)

LEMMA TickSpaces ==
    ASSUME IInv, SpawnsAddUp, tick
    PROVE  SpawnsAddUp'
<1>1. /\ ResetUptime \in Nat /\ InitialBackoff \in Nat /\ MaxBackoff \in Nat
      /\ spawns \in [1..5 -> 0..ResetUptime] /\ respawn_in \in 0..MaxBackoff
      /\ age \in 0..ResetUptime /\ restart_count' = restart_count /\ tracked' = tracked
  BY Durations DEF IInv, TypeOK, tick
<1>2. \A i \in 1..5 : spawns[i] \in 0..ResetUptime /\ spawns'[i] = Capped(spawns[i] + 1)
  BY <1>1 DEF tick
<1>3. respawn_in' = Positive(respawn_in - 1) /\ age' = Capped(age + 1)
  BY DEF tick
<1>4. \A m, n \in 0..ResetUptime : m <= n => Capped(m + 1) <= Capped(n + 1)
  BY <1>1 DEF Capped
<1>5. \A n \in 0..ResetUptime : n >= ResetUptime => Capped(n + 1) >= ResetUptime
  BY <1>1 DEF Capped
<1>6. \A i \in 1..5, total \in Nat : Apart(i, total) => Apart(i, total)'
  <2>. SUFFICES ASSUME NEW i \in 1..5, NEW total \in Nat,
                       spawns[i] >= ResetUptime \/ spawns[i] + respawn_in >= total
                PROVE  Capped(spawns[i] + 1) >= ResetUptime
                       \/ Capped(spawns[i] + 1) + Positive(respawn_in - 1) >= total
    BY <1>2, <1>3 DEF Apart
  <2>. QED BY <1>1, <1>2 DEF Capped, Positive
<1>7. CASE ~tracked
  <2>1. Capped(ResetUptime + 1) = ResetUptime
    BY <1>1 DEF Capped
  <2>2. spawns' = [i \in 1..5 |-> Capped(spawns[i] + 1)] /\ spawns = LongAgo
    BY <1>7 DEF SpawnsAddUp, tick
  <2>3. spawns' = LongAgo
    BY <2>1, <2>2 DEF LongAgo
  <2>. QED BY <1>1, <1>7, <2>3 DEF SpawnsAddUp, LongAgo
<1>8. CASE tracked
  <2>1. /\ age' = spawns'[1] /\ spawns'[1] <= spawns'[2] /\ spawns'[2] <= spawns'[3]
        /\ spawns'[3] <= spawns'[4] /\ spawns'[4] <= spawns'[5]
    BY <1>2, <1>3, <1>4, <1>8 DEF SpawnsAddUp
  <2>2. \A i \in 1..5 : spawns[i] >= ResetUptime => spawns'[i] >= ResetUptime
    BY <1>2, <1>5
  <2>3. {InitialBackoff, 3 * InitialBackoff, 7 * InitialBackoff} \subseteq Nat
    BY <1>1
  <2>4. {1, 2, 3, 4, 5} = 1..5
    OBVIOUS
  <2>. QED BY <1>1, <1>6, <1>8, <2>1, <2>2, <2>3, <2>4 DEF SpawnsAddUp
<1>. QED BY <1>7, <1>8

\* A respawn adds its delay; a first spawn, or one after a reset uptime, begins
\* a new loop.
LEMMA SpawnSpaces ==
    ASSUME IInv, IInv', SpawnsAddUp, NEW count \in 0..LastAttempt, NEW delay \in Nat,
           NEW d \in SpawnTimes, Spawned(count, delay, desired, d), tracked',
           tracked => respawn_in = 0 /\ count = RestartCount /\ delay = respawn_backoff(count),
           ~tracked => count = 0
    PROVE  SpawnsAddUp'
<1>1. /\ ResetUptime \in Nat /\ InitialBackoff \in Nat
      /\ 7 * InitialBackoff >= ResetUptime /\ d \in Nat
      /\ spawns \in [1..5 -> 0..ResetUptime] /\ spawns' \in [1..5 -> 0..ResetUptime]
      /\ age \in 0..ResetUptime /\ restart_count \in 0..LastAttempt
  <2>1. /\ ResetUptime \in Nat /\ InitialBackoff \in Nat
        /\ 7 * InitialBackoff >= ResetUptime
    BY Durations, ThreeDelaysOutlastReset
  <2>2. d \in Nat
    BY Durations
  <2>3. /\ spawns \in [1..5 -> 0..ResetUptime] /\ age \in 0..ResetUptime
        /\ restart_count \in 0..LastAttempt
    BY DEF IInv, TypeOK
  <2>4. spawns' \in [1..5 -> 0..ResetUptime]
    BY DEF IInv, TypeOK
  <2>. QED BY <2>1, <2>2, <2>3, <2>4
<1>2. /\ spawns'[1] = 0 /\ spawns'[2] = Capped(spawns[1] + d)
      /\ spawns'[3] = Capped(spawns[2] + d) /\ spawns'[4] = Capped(spawns[3] + d)
      /\ spawns'[5] = Capped(spawns[4] + d)
      /\ age' = 0 /\ restart_count' = count /\ respawn_in' = Positive(delay - d)
  BY DEF Spawned
<1>3. \A m, n \in 0..ResetUptime : m <= n => Capped(m + d) <= Capped(n + d)
  BY <1>1 DEF Capped
<1>4. \A n \in 0..ResetUptime : n >= ResetUptime => Capped(n + d) >= ResetUptime
  BY <1>1 DEF Capped
<1>5. /\ spawns[1] \in 0..ResetUptime /\ spawns[2] \in 0..ResetUptime
      /\ spawns[3] \in 0..ResetUptime /\ spawns[4] \in 0..ResetUptime
      /\ spawns[5] \in 0..ResetUptime /\ spawns'[2] \in 0..ResetUptime
  BY <1>1
<1>6. /\ spawns[1] <= spawns[2] /\ spawns[2] <= spawns[3] /\ spawns[3] <= spawns[4]
      /\ spawns[4] <= spawns[5]
  BY <1>1 DEF SpawnsAddUp, LongAgo
<1>7. /\ age' = spawns'[1] /\ spawns'[1] <= spawns'[2] /\ spawns'[2] <= spawns'[3]
      /\ spawns'[3] <= spawns'[4] /\ spawns'[4] <= spawns'[5]
  BY <1>2, <1>3, <1>5, <1>6
<1>8. CASE ~tracked
  <2>1. spawns[1] = ResetUptime
    BY <1>8 DEF SpawnsAddUp, LongAgo
  <2>2. spawns'[2] >= ResetUptime
    BY <1>1, <1>2, <1>4, <1>5, <2>1
  <2>. QED BY <1>2, <1>7, <1>8, <2>2 DEF SpawnsAddUp
<1>9. CASE tracked /\ age >= ResetUptime
  <2>1. count = 1 /\ spawns[1] >= ResetUptime /\ spawns[2] >= ResetUptime
    BY <1>1, <1>5, <1>6, <1>9 DEF RestartCount, SpawnsAddUp
  <2>2. spawns'[2] >= ResetUptime /\ spawns'[3] >= ResetUptime
    BY <1>2, <1>4, <1>5, <2>1
  <2>. QED BY <1>2, <1>7, <2>1, <2>2 DEF SpawnsAddUp, Apart
<1>10. CASE tracked /\ age < ResetUptime
  <2>1. /\ respawn_in = 0 /\ delay = respawn_backoff(count) /\ count \in 1..LastAttempt
        /\ count = 1 => restart_count = 0
        /\ count = 2 => restart_count = 1
        /\ count = 3 => restart_count = 2
        /\ count >= 4 => restart_count >= 3
    BY <1>1, <1>10, RestartCounts DEF RestartCount, LastAttempt
  <2>2. ASSUME NEW i \in 1..4, NEW total \in Nat, NEW more \in Nat,
               Apart(i, total), delay >= more
        PROVE  Apart(i + 1, total + more)'
    <3>1. spawns[i] \in 0..ResetUptime /\ spawns'[i + 1] = Capped(spawns[i] + d)
      BY <1>2, <1>5, i = 1 \/ i = 2 \/ i = 3 \/ i = 4
    <3>2. Capped(spawns[i] + d) >= ResetUptime
          \/ Capped(spawns[i] + d) + Positive(delay - d) >= total + more
      BY <1>1, <2>1, <2>2, <3>1 DEF Capped, Positive, Apart
    <3>. QED BY <1>2, <3>1, <3>2 DEF Apart
  <2>3. /\ delay >= InitialBackoff
        /\ count >= 2 => delay >= 2 * InitialBackoff
        /\ count >= 3 => delay >= 4 * InitialBackoff
    BY <2>1, Backoffs
  <2>4. /\ Apart(1, 0) /\ 0 \in Nat
        /\ {InitialBackoff, 2 * InitialBackoff, 3 * InitialBackoff, 4 * InitialBackoff} \subseteq Nat
    BY <1>1, <1>5, <2>1 DEF Apart
  <2>5. Apart(2, InitialBackoff)'
    <3>1. 1 \in 1..4 /\ 1 + 1 = 2 /\ 0 + InitialBackoff = InitialBackoff
      BY <1>1
    <3>2. Apart(1 + 1, 0 + InitialBackoff)'
      <4>. HIDE DEF Apart
      <4>. QED BY <2>2, <2>3, <2>4, <3>1
    <3>. QED BY <3>1, <3>2
  <2>6. count >= 2 => Apart(3, 3 * InitialBackoff)'
    <3>. SUFFICES ASSUME count >= 2 PROVE Apart(3, 3 * InitialBackoff)'
      OBVIOUS
    <3>1. restart_count >= 1
      BY <1>1, <2>1
    <3>2. Apart(2, InitialBackoff)
      BY <1>10, <3>1 DEF SpawnsAddUp
    <3>3. Apart(2 + 1, InitialBackoff + 2 * InitialBackoff)'
      <4>1. 2 \in 1..4 /\ InitialBackoff \in Nat /\ 2 * InitialBackoff \in Nat
        BY <2>4
      <4>. QED BY <2>2, <2>3, <3>2, <4>1
    <3>4. 2 + 1 = 3 /\ InitialBackoff + 2 * InitialBackoff = 3 * InitialBackoff
      BY <1>1
    <3>. QED BY <3>3, <3>4
  <2>7. count >= 3 => Apart(4, 7 * InitialBackoff)'
    <3>. SUFFICES ASSUME count >= 3 PROVE Apart(4, 7 * InitialBackoff)'
      OBVIOUS
    <3>1. restart_count >= 2
      BY <1>1, <2>1
    <3>2. Apart(3, 3 * InitialBackoff)
      BY <1>10, <3>1 DEF SpawnsAddUp
    <3>3. Apart(3 + 1, 3 * InitialBackoff + 4 * InitialBackoff)'
      BY <2>2, <2>3, <2>4, <3>2
    <3>4. 3 + 1 = 4 /\ 3 * InitialBackoff + 4 * InitialBackoff = 7 * InitialBackoff
      BY <1>1
    <3>. QED BY <3>3, <3>4
  <2>8. /\ count = 1 => spawns[2] >= ResetUptime
        /\ count = 2 => spawns[3] >= ResetUptime
        /\ count >= 3 => spawns[4] >= ResetUptime
    BY <1>1, <1>5, <1>10, <2>1 DEF SpawnsAddUp, Apart
  <2>9. /\ count = 1 => spawns'[3] >= ResetUptime
        /\ count = 2 => spawns'[4] >= ResetUptime
        /\ count >= 3 => spawns'[5] >= ResetUptime
    BY <1>2, <1>4, <1>5, <2>8
  <2>. QED BY <1>2, <1>7, <2>1, <2>5, <2>6, <2>7, <2>9 DEF SpawnsAddUp
<1>. QED BY <1>1, <1>8, <1>9, <1>10

LEMMA SpacingKept ==
    ASSUME SpawnsAddUp, UNCHANGED <<tracked, age, restart_count, respawn_in, spawns>>
    PROVE  SpawnsAddUp'
BY DEF SpawnsAddUp, LongAgo, Apart

LEMMA NextSpaces == IInv /\ SpawnsAddUp /\ [Next]_vars => SpawnsAddUp'
<1>. SUFFICES ASSUME IInv, SpawnsAddUp, [Next]_vars PROVE SpawnsAddUp'
  OBVIOUS
<1>0. IInv' /\ InitialBackoff \in Nat
  BY NextInvariant, Durations
<1>1. CASE tick
  BY <1>1, TickSpaces
<1>2. CASE (\E d \in Desired : want(d)) \/ die \/ fork \/ grandchild_ends \/ listen
           \/ stdin_thread
  BY <1>2, SpacingKept DEF want, die, fork, grandchild_ends, listen, stdin_thread, write,
                           give_up, clock
<1>3. CASE enter
  <2>1. CASE SpawnFails /\ UNCHANGED <<tracked, child>>
    BY <2>1, SpacingKept DEF SpawnFails, clock
  <2>2. CASE tracked' = TRUE /\ \E d \in SpawnTimes : Spawned(0, 0, desired, d)
    <3>1. PICK d \in SpawnTimes : Spawned(0, 0, desired, d)
      BY <2>2
    <3>2. ~tracked /\ 0 \in 0..LastAttempt /\ 0 \in Nat
      BY <1>3 DEF enter, LastAttempt
    <3>. QED BY <1>0, <2>2, <3>1, <3>2, SpawnSpaces
  <2>. QED BY <1>3, <2>1, <2>2 DEF enter
<1>4. CASE reconcile_self
  <2>0. tracked /\ tracked' = tracked
    BY <1>4 DEF reconcile_self
  <2>1. CASE backing_off \/ send_props
    BY <2>0, <2>1, SpacingKept DEF backing_off, send_props, clock
  <2>2. CASE respawn
    <3>1. CASE SpawnFails
      BY <2>0, <3>1, SpacingKept DEF SpawnFails, clock
    <3>2. ASSUME NEW d \in SpawnTimes,
                 Spawned(RestartCount, respawn_backoff(RestartCount), desired, d)
          PROVE  SpawnsAddUp'
      <4>1. RestartCount \in 1..LastAttempt /\ respawn_in = 0
        BY <2>2, RestartCounts DEF respawn
      <4>2. respawn_backoff(RestartCount) \in 0..MaxBackoff /\ MaxBackoff \in Nat
        BY <4>1, Backoffs, Durations
      <4>3. RestartCount \in 0..LastAttempt /\ respawn_backoff(RestartCount) \in Nat
        <5>. HIDE DEF RestartCount, respawn_backoff
        <5>. QED BY <4>1, <4>2 DEF LastAttempt
      <4>. HIDE DEF RestartCount, respawn_backoff, Spawned
      <4>. QED BY <1>0, <2>0, <3>2, <4>1, <4>3, SpawnSpaces
    <3>. QED BY <2>2, <3>1, <3>2 DEF respawn
  <2>. QED BY <1>4, <2>1, <2>2 DEF reconcile_self
<1>5. CASE exit
  <2>1. CASE exit_term
    BY <2>1, SpacingKept DEF exit_term
  <2>2. CASE exit_kill
    BY <2>2, SpacingKept DEF exit_kill, clock
  <2>3. CASE exit_poll \/ exit_wait
    BY <2>3 DEF exit_poll, exit_wait, Dropped, SpawnsAddUp
  <2>. QED BY <1>5, <2>1, <2>2, <2>3 DEF exit
<1>6. CASE UNCHANGED vars
  BY <1>6, SpacingKept DEF vars
<1>. QED BY <1>1, <1>2, <1>3, <1>4, <1>5, <1>6 DEF Next, Desired, hook

-----------------------------------------------------------------------------
(* The theorems.                                                              *)

\* The invariant of process.rs, for any durations and any number of events.
THEOREM Invariance == Spec => []IInv
<1>. QED BY InitInvariant, NextInvariant, PTL DEF Spec

\* Every variable keeps to its values.
THEOREM TypeCorrect == Spec => []TypeOK
<1>1. IInv => TypeOK
  BY DEF IInv
<1>. QED BY <1>1, Invariance, PTL

\* Five spawns never fall within a reset uptime, however the owner's calls fall
\* and however long each spawn takes.
THEOREM SpawnsSpaced == Spec => []SpawnsAreSpaced
<1>1. Init => SpawnsAddUp
  BY DEF Init, SpawnsAddUp
<1>2. IInv /\ SpawnsAddUp => SpawnsAreSpaced
  <2>. SUFFICES ASSUME IInv, SpawnsAddUp, tracked PROVE spawns[5] >= ResetUptime
    BY DEF SpawnsAreSpaced
  <2>1. /\ restart_count \in 0..LastAttempt /\ ResetUptime \in Nat
        /\ spawns \in [1..5 -> 0..ResetUptime]
    BY Durations DEF IInv, TypeOK
  <2>2. \A i \in 1..5 : spawns[i] \in 0..ResetUptime
    BY <2>1
  <2>. QED BY <2>1, <2>2 DEF SpawnsAddUp, LastAttempt
<1>. QED BY <1>1, <1>2, InitInvariant, NextInvariant, NextSpaces, PTL DEF Spec

\* What last_sent_props says was sent reaches, or is queued for, the live child.
THEOREM PropsAreSent == Spec => []SentPropsAreOnTheirWay
<1>1. IInv => SentPropsAreOnTheirWay
  BY DEF IInv
<1>. QED BY <1>1, Invariance, PTL

\* exit passes over no grandchild that takes SIGTERM, and over none at all once it
\* has sent SIGKILL.
THEOREM GroupReached == Spec => ExitReachesTheGroup
<1>1. IInv /\ [Next]_vars =>
        [ (tracked /\ ~tracked') =>
            /\ grandchild' # "obeys"
            /\ exiting = "killed" => grandchild' \in {"none", "doomed"} ]_vars
  <2>. SUFFICES ASSUME IInv, Next, tracked, ~tracked'
                PROVE  /\ grandchild' # "obeys"
                       /\ exiting = "killed" => grandchild' \in {"none", "doomed"}
    BY DEF vars
  <2>1. exit_poll \/ exit_wait
    BY DEF Next, tick, want, die, fork, grandchild_ends, listen, stdin_thread, write, give_up,
           hook, enter, reconcile_self, exit, exit_term, exit_kill
  <2>. QED BY <2>1 DEF exit_poll, exit_wait, IInv, GroupIsSignalled
<1>. QED BY <1>1, Invariance, PTL DEF Spec, ExitReachesTheGroup

=============================================================================
