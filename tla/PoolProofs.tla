------------------------------ MODULE PoolProofs ------------------------------
(***************************************************************************)
(* Proofs about the process pool: ProcessOutput, what the processes print, *)
(* for any sizes; and Supervisor, for any identities, specs, files and     *)
(* lists.                                                                  *)
(***************************************************************************)
EXTENDS Supervisor, ProcessOutput, SequenceTheorems, TLAPS, WellFoundedInduction

(***************************************************************************)
(* ProcessOutput.  A line is received, on the channel, in the pipe, or not *)
(* printed yet: the invariant counts, for each generation, the lines that  *)
(* are past each of these places.                                          *)
(***************************************************************************)

\* How many lines of a generation have been received or are on the channel.
Passed(g) == IF listening THEN taken[g] ELSE Len(got[g])

TakenIsPrinted ==
  \A g \in Generation :
    /\ Len(got[g]) <= taken[g] /\ taken[g] <= Len(printed[g])
    /\ \A i \in 1..taken[g] : printed[g][i] # "bytes"

ClosedIsDone ==
  \A g \in Generation :
    reader[g] = "closed" /\ listening /\ taken[g] < Len(printed[g]) =>
      printed[g][taken[g] + 1] = "bytes"

ChannelIsInOrder ==
  /\ \A g \in Generation :
       /\ got[g] = Upto(Len(got[g]))
       /\ {channel[i][2] : i \in Sent(g)} = (Len(got[g]) + 1)..Passed(g)
       /\ \A i, j \in Sent(g) : i < j => channel[i][2] < channel[j][2]
  /\ ~listening => channel = <<>>

OutputIInv == OutputTypeOK /\ TakenIsPrinted /\ ClosedIsDone /\ ChannelIsInOrder

Lines == {"text", "bytes", "cut"}

\* A line more at the end.
LEMMA LineMore ==
  ASSUME NEW S, NEW s \in Seq(S), NEW x \in S
  PROVE  /\ Append(s, x) \in Seq(S) /\ Len(s) \in Nat /\ Len(Append(s, x)) = Len(s) + 1
         /\ \A i \in 1..Len(s) : Append(s, x)[i] = s[i]
         /\ Append(s, x)[Len(s) + 1] = x
BY AppendProperties, LenProperties

LEMMA OutputInitIInv == OutputInit => OutputIInv
<1>. SUFFICES ASSUME OutputInit PROVE OutputIInv
  OBVIOUS
<1>1. OutputTypeOK
  <2>1. <<>> \in Seq(Nat) /\ <<>> \in Seq({"text", "bytes", "cut"}) /\ <<>> \in Seq(Generation \X Nat)
    BY EmptySeq
  <2>2. gen \in 0..MaxSpawns
    BY SizesArePositive DEF OutputInit
  <2>. QED BY <2>1, <2>2 DEF OutputInit, OutputTypeOK
<1>2. \A g \in Generation : got[g] = <<>> /\ printed[g] = <<>> /\ taken[g] = 0 /\ Len(<<>>) = 0
  BY EmptySeq DEF OutputInit
<1>3. channel = <<>> /\ listening /\ \A g \in Generation : Sent(g) = {}
  BY DEF OutputInit, Sent
<1>4. Upto(0) = <<>>
  BY DEF Upto
<1>5. TakenIsPrinted /\ ClosedIsDone
  BY <1>2 DEF TakenIsPrinted, ClosedIsDone
<1>6. ChannelIsInOrder
  BY <1>2, <1>3, <1>4 DEF ChannelIsInOrder, Passed
<1>. QED BY <1>1, <1>5, <1>6 DEF OutputIInv

\* Types, one step at a time.
LEMMA OutputTypesAreKept == OutputTypeOK /\ [OutputNext]_output_vars => OutputTypeOK'
<1>. SUFFICES ASSUME OutputTypeOK, [OutputNext]_output_vars PROVE OutputTypeOK'
  OBVIOUS
<1>. USE DEF OutputTypeOK
<1>1. ASSUME spawn_process, tracked' \in BOOLEAN, exiting' \in BOOLEAN PROVE OutputTypeOK'
  BY <1>1, SizesArePositive DEF spawn_process, sink, Writer, Generation
<1>2. CASE enter \/ reconcile_self
  BY <1>1, <1>2 DEF enter, reconcile_self
<1>3. CASE exit
  BY <1>3 DEF exit, pipes, sink
<1>4. CASE exited
  BY <1>4 DEF exited, sink
<1>5. CASE receive
  <2>1. channel \in Seq(Generation \X Nat) /\ channel # <<>>
    BY <1>5 DEF receive
  <2>2. Head(channel) \in Generation \X Nat /\ Tail(channel) \in Seq(Generation \X Nat)
    BY <2>1, HeadTailProperties
  <2>3. Head(channel)[1] \in Generation /\ Head(channel)[2] \in Nat
    BY <2>2
  <2>4. got' \in [Generation -> Seq(Nat)]
    BY <1>5, <2>3, LineMore DEF receive
  <2>. QED BY <1>5, <2>2, <2>4 DEF receive, slot, pipes
<1>6. CASE hang_up
  BY <1>6, EmptySeq DEF hang_up, slot, pipes
<1>7. ASSUME NEW g \in Generation, fork(g) PROVE OutputTypeOK'
  BY <1>7 DEF fork, slot, sink
<1>8. ASSUME NEW g \in Generation, NEW line \in {"text", "bytes", "cut"}, Printed(g, line)
      PROVE  printed' \in [Generation -> Seq({"text", "bytes", "cut"})]
  BY <1>8, LineMore DEF Printed
<1>9. ASSUME NEW g \in Generation, NEW line \in {"text", "bytes"}, print(g, line) PROVE OutputTypeOK'
  BY <1>8, <1>9 DEF print, slot, sink
<1>10. ASSUME NEW g \in Generation, NEW w \in Writer, die(g, w) PROVE OutputTypeOK'
  <2>1. printed' \in [Generation -> Seq({"text", "bytes", "cut"})]
    BY <1>8, <1>10 DEF die
  <2>. QED BY <1>10, <2>1 DEF die, slot, sink
<1>11. ASSUME NEW g \in Generation, forward(g) PROVE OutputTypeOK'
  <2>1. CASE UNCHANGED <<taken, channel>>
    BY <1>11, <2>1 DEF forward, slot
  <2>2. CASE /\ taken' = [taken EXCEPT ![g] = @ + 1]
             /\ channel' = Append(channel, <<g, taken'[g]>>) /\ UNCHANGED reader
    <3>1. taken' \in [Generation -> Nat] /\ taken'[g] \in Nat
      BY <2>2
    <3>2. channel' \in Seq(Generation \X Nat)
      BY <1>11, <2>2, <3>1, LineMore
    <3>. QED BY <1>11, <2>2, <3>1, <3>2 DEF forward, slot
  <2>. QED BY <1>11, <2>1, <2>2 DEF forward
<1>12. CASE UNCHANGED output_vars
  BY <1>12 DEF output_vars, slot, pipes, sink
<1>. QED BY <1>2, <1>3, <1>4, <1>5, <1>6, <1>7, <1>9, <1>10, <1>11, <1>12 DEF OutputNext


\* What the invariant says of a generation speaks of that generation only.
LEMMA LengthsAreNumbers ==
  OutputTypeOK =>
    /\ Len(channel) \in Nat /\ DOMAIN channel = 1..Len(channel)
    /\ \A g \in Generation :
         /\ Len(got[g]) \in Nat /\ Len(printed[g]) \in Nat /\ taken[g] \in Nat
         /\ Passed(g) \in Nat /\ Sent(g) \subseteq 1..Len(channel)
    /\ \A i \in 1..Len(channel) : channel[i][1] \in Generation /\ channel[i][2] \in Nat
<1>. SUFFICES ASSUME OutputTypeOK
     PROVE  /\ Len(channel) \in Nat /\ DOMAIN channel = 1..Len(channel)
            /\ \A g \in Generation :
                 /\ Len(got[g]) \in Nat /\ Len(printed[g]) \in Nat /\ taken[g] \in Nat
                 /\ Passed(g) \in Nat /\ Sent(g) \subseteq 1..Len(channel)
            /\ \A i \in 1..Len(channel) : channel[i][1] \in Generation /\ channel[i][2] \in Nat
  OBVIOUS
<1>1. Len(channel) \in Nat /\ DOMAIN channel = 1..Len(channel)
  BY LenProperties DEF OutputTypeOK
<1>2. ASSUME NEW g \in Generation
      PROVE  /\ Len(got[g]) \in Nat /\ Len(printed[g]) \in Nat /\ taken[g] \in Nat
             /\ Passed(g) \in Nat
  <2>1. got[g] \in Seq(Nat) /\ printed[g] \in Seq({"text", "bytes", "cut"}) /\ taken[g] \in Nat
    BY DEF OutputTypeOK
  <2>2. Len(got[g]) \in Nat /\ Len(printed[g]) \in Nat
    BY <2>1, LenProperties
  <2>. QED BY <2>1, <2>2 DEF Passed
<1>3. ASSUME NEW i \in 1..Len(channel) PROVE channel[i] \in Generation \X Nat
  BY <1>1, ElementOfSeq DEF OutputTypeOK
<1>4. ASSUME NEW i \in 1..Len(channel) PROVE channel[i][1] \in Generation /\ channel[i][2] \in Nat
  BY <1>3
<1>. QED BY <1>1, <1>2, <1>4 DEF Sent

\* A step that leaves the channel and both its ends alone.
LEMMA ChannelIsKept ==
  ChannelIsInOrder /\ UNCHANGED <<taken, channel, listening, got>> => ChannelIsInOrder'
BY DEF ChannelIsInOrder, Passed, Sent

\* A process prints a line.
LEMMA PrintedKeepsIInv ==
  ASSUME OutputIInv, OutputTypeOK', NEW g \in Generation, NEW line \in Lines, Printed(g, line),
         UNCHANGED <<taken, reader, sink>>
  PROVE  OutputIInv'
<1>1. ChannelIsInOrder'
  BY ChannelIsKept DEF OutputIInv, sink
<1>2. ASSUME NEW h \in Generation
      PROVE  /\ Len(printed'[h]) \in Nat /\ Len(printed[h]) \in Nat /\ taken[h] \in Nat
             /\ Len(printed[h]) <= Len(printed'[h])
             /\ \A i \in 1..Len(printed[h]) : printed'[h][i] = printed[h][i]
             /\ h # g => printed'[h] = printed[h]
  <2>1. printed[h] \in Seq(Lines) /\ taken[h] \in Nat
    BY DEF OutputIInv, OutputTypeOK, Lines
  <2>2. printed'[h] = IF h = g THEN Append(printed[h], line) ELSE printed[h]
    BY DEF Printed, OutputIInv, OutputTypeOK
  <2>. QED BY <2>1, <2>2, LineMore, LenProperties
<1>3. TakenIsPrinted'
  <2>. SUFFICES ASSUME NEW h \in Generation
       PROVE  /\ Len(got'[h]) <= taken'[h] /\ taken'[h] <= Len(printed'[h])
              /\ \A i \in 1..taken'[h] : printed'[h][i] # "bytes"
    BY DEF TakenIsPrinted
  <2>1. /\ Len(got[h]) <= taken[h] /\ taken[h] <= Len(printed[h])
        /\ \A i \in 1..taken[h] : printed[h][i] # "bytes"
    BY DEF OutputIInv, TakenIsPrinted
  <2>2. taken'[h] = taken[h] /\ got'[h] = got[h]
    BY DEF sink
  <2>3. taken[h] <= Len(printed'[h])
    BY <1>2, <2>1
  <2>4. \A i \in 1..taken[h] : i \in 1..Len(printed[h])
    BY <1>2, <2>1
  <2>. QED BY <1>2, <2>1, <2>2, <2>3, <2>4
<1>4. ClosedIsDone'
  <2>. SUFFICES ASSUME NEW h \in Generation,
                       reader'[h] = "closed" /\ listening' /\ taken'[h] < Len(printed'[h])
                PROVE  printed'[h][taken'[h] + 1] = "bytes"
    BY DEF ClosedIsDone
  <2>1. h # g
    BY DEF Printed
  <2>. QED BY <1>2, <2>1 DEF OutputIInv, ClosedIsDone, sink
<1>. QED BY <1>1, <1>3, <1>4 DEF OutputIInv

\* The thread of a child closes the pipe.
LEMMA ClosingKeepsIInv ==
  ASSUME OutputIInv, OutputTypeOK', NEW g \in Generation, forward(g),
         Closes(g), reader' = [reader EXCEPT ![g] = "closed"], UNCHANGED <<taken, channel>>
  PROVE  OutputIInv'
<1>1. UNCHANGED <<printed, listening, got>>
  BY DEF forward
<1>2. ChannelIsInOrder' /\ TakenIsPrinted'
  BY <1>1, ChannelIsKept DEF OutputIInv, TakenIsPrinted
<1>3. ClosedIsDone'
  <2>. SUFFICES ASSUME NEW h \in Generation,
                       reader'[h] = "closed", listening, taken[h] < Len(printed[h])
                PROVE  printed[h][taken[h] + 1] = "bytes"
    BY <1>1 DEF ClosedIsDone
  <2>1. CASE h = g
    <3>1. Len(printed[g]) \in Nat /\ taken[g] \in Nat
      BY LengthsAreNumbers DEF OutputIInv
    <3>2. Unread(g) # 0
      BY <2>1, <3>1 DEF Unread
    <3>. QED BY <2>1, <3>2 DEF Closes, Next_line
  <2>2. CASE h # g
    <3>1. reader[h] = "closed"
      BY <2>2 DEF OutputIInv, OutputTypeOK
    <3>. QED BY <3>1 DEF OutputIInv, ClosedIsDone
  <2>. QED BY <2>1, <2>2
<1>. QED BY <1>2, <1>3 DEF OutputIInv

\* The thread of a child puts a line on the channel.
LEMMA SendingKeepsIInv ==
  ASSUME OutputIInv, OutputTypeOK', NEW g \in Generation, forward(g),
         Unread(g) > 0, ~Closes(g), taken' = [taken EXCEPT ![g] = @ + 1],
         channel' = Append(channel, <<g, taken'[g]>>), UNCHANGED reader
  PROVE  OutputIInv'
<1>1. UNCHANGED <<printed, listening, got>> /\ reader[g] = "reading"
  BY DEF forward
<1>2. Len(printed[g]) \in Nat /\ taken[g] \in Nat /\ taken'[g] = taken[g] + 1
  BY LengthsAreNumbers DEF OutputIInv, OutputTypeOK
<1>3. taken[g] + 1 <= Len(printed[g]) /\ listening /\ printed[g][taken[g] + 1] # "bytes"
  BY <1>2 DEF Unread, Closes, Next_line
<1>4. \A h \in Generation : h # g => taken'[h] = taken[h]
  BY DEF OutputIInv, OutputTypeOK
<1>5. TakenIsPrinted'
  <2>. SUFFICES ASSUME NEW h \in Generation
       PROVE  /\ Len(got[h]) <= taken'[h] /\ taken'[h] <= Len(printed[h])
              /\ \A i \in 1..taken'[h] : printed[h][i] # "bytes"
    BY <1>1 DEF TakenIsPrinted
  <2>1. /\ Len(got[h]) <= taken[h] /\ taken[h] <= Len(printed[h])
        /\ \A i \in 1..taken[h] : printed[h][i] # "bytes"
    BY DEF OutputIInv, TakenIsPrinted
  <2>2. Len(got[h]) \in Nat /\ taken[h] \in Nat
    BY LengthsAreNumbers DEF OutputIInv
  <2>. QED BY <1>2, <1>3, <1>4, <2>1, <2>2
<1>6. ClosedIsDone'
  BY <1>1, <1>4 DEF OutputIInv, ClosedIsDone
<1>7. ChannelIsInOrder'
  <2>. DEFINE n == Len(channel)
  <2>1. /\ n \in Nat /\ Len(channel') = n + 1 /\ DOMAIN channel' = 1..(n + 1)
        /\ \A i \in 1..n : channel'[i] = channel[i]
        /\ channel'[n + 1] = <<g, taken[g] + 1>>
    <3>1. channel \in Seq(Generation \X Nat) /\ <<g, taken[g] + 1>> \in Generation \X Nat
      BY <1>2 DEF OutputIInv, OutputTypeOK
    <3>2. channel' \in Seq(Generation \X Nat)
      BY DEF OutputTypeOK
    <3>. QED BY <1>2, <3>1, <3>2, LineMore, LenProperties
  <2>2. DOMAIN channel = 1..n
    BY LengthsAreNumbers DEF OutputIInv
  <2>. HIDE DEF n
  <2>3. \A h \in Generation : Sent(h)' = IF h = g THEN Sent(h) \cup {n + 1} ELSE Sent(h)
    BY <2>1, <2>2 DEF Sent
  <2>4. \A h \in Generation : Sent(h) \subseteq 1..n
    BY <2>2 DEF Sent
  <2>5. ~listening' => channel' = <<>>
    BY <1>1, <1>3
  <2>. SUFFICES ASSUME NEW h \in Generation
       PROVE  /\ got'[h] = Upto(Len(got'[h]))
              /\ {channel'[i][2] : i \in Sent(h)'} = (Len(got'[h]) + 1)..Passed(h)'
              /\ \A i, j \in Sent(h)' : i < j => channel'[i][2] < channel'[j][2]
    BY <2>5 DEF ChannelIsInOrder
  <2>6. /\ got[h] = Upto(Len(got[h]))
        /\ {channel[i][2] : i \in Sent(h)} = (Len(got[h]) + 1)..Passed(h)
        /\ \A i, j \in Sent(h) : i < j => channel[i][2] < channel[j][2]
    BY DEF OutputIInv, ChannelIsInOrder
  <2>7. Passed(h) = taken[h] /\ Passed(h)' = taken'[h]
    BY <1>1, <1>3 DEF Passed
  <2>8. \A i \in Sent(h) : channel'[i] = channel[i]
    BY <2>1, <2>4
  <2>9. CASE h # g
    <3>1. Sent(h)' = Sent(h) /\ taken'[h] = taken[h]
      BY <1>4, <2>3, <2>9
    <3>2. {channel'[i][2] : i \in Sent(h)'} = {channel[i][2] : i \in Sent(h)}
      BY <2>8, <3>1
    <3>3. \A i, j \in Sent(h)' : i < j => channel'[i][2] < channel'[j][2]
      BY <2>6, <2>8, <3>1
    <3>. QED BY <1>1, <2>6, <2>7, <3>1, <3>2, <3>3
  <2>10. CASE h = g
    <3>1. Sent(h)' = Sent(h) \cup {n + 1} /\ channel'[n + 1][2] = taken[h] + 1
      BY <2>1, <2>3, <2>10
    <3>2. {channel'[i][2] : i \in Sent(h)'} = {channel[i][2] : i \in Sent(h)} \cup {taken[h] + 1}
      <4>1. {channel'[i][2] : i \in Sent(h)} = {channel[i][2] : i \in Sent(h)}
        BY <2>8
      <4>2. {channel'[i][2] : i \in Sent(h)'} = {channel'[i][2] : i \in Sent(h)} \cup {channel'[n + 1][2]}
        BY <3>1
      <4>. QED BY <3>1, <4>1, <4>2
    <3>3. Len(got[h]) \in Nat /\ taken[h] \in Nat /\ Len(got[h]) <= taken[h]
      BY LengthsAreNumbers DEF OutputIInv, TakenIsPrinted
    <3>4. (Len(got[h]) + 1)..taken[h] \cup {taken[h] + 1} = (Len(got[h]) + 1)..(taken[h] + 1)
      BY <3>3
    <3>5. \A i \in Sent(h) : channel[i][2] \in (Len(got[h]) + 1)..taken[h]
      BY <2>6, <2>7
    <3>6. \A i \in Sent(h) : i \in Nat /\ i < n + 1 /\ channel[i][2] < taken[h] + 1
      BY <2>1, <2>4, <3>3, <3>5
    <3>7. ASSUME NEW i \in Sent(h)', NEW j \in Sent(h)', i < j
          PROVE  channel'[i][2] < channel'[j][2]
      <4>1. i \in Sent(h)
        BY <2>1, <3>1, <3>6, <3>7
      <4>2. CASE j \in Sent(h)
        BY <2>6, <2>8, <3>7, <4>1, <4>2
      <4>3. CASE j = n + 1
        BY <2>8, <3>1, <3>6, <4>1, <4>3
      <4>. QED BY <3>1, <4>2, <4>3
    <3>. QED BY <1>1, <1>2, <2>6, <2>7, <2>10, <3>2, <3>4, <3>7
  <2>. QED BY <2>9, <2>10
<1>. QED BY <1>5, <1>6, <1>7 DEF OutputIInv

\* The owner of the channel receives a line: the next one of its generation.
LEMMA ReceivingKeepsIInv ==
  ASSUME OutputIInv, OutputTypeOK', receive PROVE OutputIInv'
<1>. DEFINE n == Len(channel) h == channel[1][1] m == Len(got[h])
<1>1. UNCHANGED <<printed, taken, reader, listening>> /\ listening
  BY DEF receive, pipes
<1>2. /\ n \in Nat \ {0} /\ Len(channel') = n - 1 /\ DOMAIN channel' = 1..(n - 1)
      /\ \A i \in 1..(n - 1) : channel'[i] = channel[i + 1]
      /\ DOMAIN channel = 1..n /\ Head(channel) = channel[1]
  <2>1. channel \in Seq(Generation \X Nat) /\ channel # <<>> /\ channel' = Tail(channel)
    BY DEF OutputIInv, OutputTypeOK, receive
  <2>2. n \in Nat \ {0} /\ DOMAIN channel = 1..n
    BY <2>1, LenProperties, EmptySeq
  <2>3. channel' \in Seq(Generation \X Nat) /\ Len(channel') = n - 1
        /\ \A i \in 1..(n - 1) : channel'[i] = channel[i + 1]
    BY <2>1, HeadTailProperties
  <2>. QED BY <2>1, <2>2, <2>3, LenProperties, HeadTailProperties
<1>3. h \in Generation /\ channel[1][2] \in Nat /\ m \in Nat /\ taken[h] \in Nat
  BY <1>2, LengthsAreNumbers DEF OutputIInv
<1>4. \A g \in Generation : got'[g] = IF g = h THEN Append(got[h], channel[1][2]) ELSE got[g]
  BY <1>2, <1>3 DEF receive, OutputIInv, OutputTypeOK
<1>. HIDE DEF n, h, m
<1>5. ASSUME NEW g \in Generation
      PROVE  /\ got[g] = Upto(Len(got[g]))
             /\ {channel[i][2] : i \in Sent(g)} = (Len(got[g]) + 1)..taken[g]
             /\ \A i, j \in Sent(g) : i < j => channel[i][2] < channel[j][2]
             /\ Len(got[g]) <= taken[g] /\ Len(got[g]) \in Nat /\ taken[g] \in Nat
             /\ Sent(g) = {i \in 1..n : channel[i][1] = g}
             /\ Sent(g)' = {i \in 1..(n - 1) : i + 1 \in Sent(g)}
             /\ Passed(g)' = taken[g]
  <2>1. /\ got[g] = Upto(Len(got[g]))
        /\ {channel[i][2] : i \in Sent(g)} = (Len(got[g]) + 1)..taken[g]
        /\ \A i, j \in Sent(g) : i < j => channel[i][2] < channel[j][2]
    BY <1>1 DEF OutputIInv, ChannelIsInOrder, Passed
  <2>2. Len(got[g]) <= taken[g] /\ Len(got[g]) \in Nat /\ taken[g] \in Nat
    BY LengthsAreNumbers DEF OutputIInv, TakenIsPrinted
  <2>3. Sent(g) = {i \in 1..n : channel[i][1] = g}
    BY <1>2 DEF Sent
  <2>4. Sent(g)' = {i \in 1..(n - 1) : channel[i + 1][1] = g}
    BY <1>2 DEF Sent
  <2>5. Sent(g)' = {i \in 1..(n - 1) : i + 1 \in Sent(g)}
    BY <1>2, <2>3, <2>4
  <2>6. Passed(g)' = taken[g]
    BY <1>1 DEF Passed
  <2>. QED BY <2>1, <2>2, <2>3, <2>5, <2>6
<1>6. 1 \in Sent(h)
  BY <1>2, <1>3, <1>5 DEF h
<1>7. channel[1][2] = m + 1 /\ m + 1 <= taken[h]
  <2>1. channel[1][2] \in (m + 1)..taken[h]
    BY <1>3, <1>5, <1>6 DEF m
  <2>2. PICK i \in Sent(h) : channel[i][2] = m + 1
    <3>1. m + 1 \in (m + 1)..taken[h]
      BY <1>3, <2>1
    <3>. QED BY <1>3, <1>5, <3>1 DEF m
  <2>3. i = 1 \/ 1 < i
    BY <1>3, <1>5
  <2>4. 1 < i => channel[1][2] < m + 1
    BY <1>3, <1>5, <1>6, <2>2
  <2>. QED BY <1>3, <2>1, <2>2, <2>3, <2>4
<1>8. got'[h] = Upto(m + 1) /\ Len(got'[h]) = m + 1
  <2>1. got'[h] = Append(got[h], m + 1) /\ got[h] = Upto(m)
    BY <1>3, <1>4, <1>5, <1>7 DEF m
  <2>2. Len(Upto(m)) = m /\ Append(Upto(m), m + 1) = Upto(m + 1)
    BY <1>3 DEF Upto
  <2>3. Len(Upto(m + 1)) = m + 1
    BY <1>3 DEF Upto
  <2>. QED BY <2>1, <2>2, <2>3
<1>9. \A g \in Generation : g # h => got'[g] = got[g]
  BY <1>4
<1>10. TakenIsPrinted'
  BY <1>1, <1>7, <1>8, <1>9 DEF OutputIInv, TakenIsPrinted
<1>11. ClosedIsDone'
  BY <1>1 DEF OutputIInv, ClosedIsDone
<1>12. ChannelIsInOrder'
  <2>1. ~listening' => channel' = <<>>
    BY <1>1
  <2>. SUFFICES ASSUME NEW g \in Generation
       PROVE  /\ got'[g] = Upto(Len(got'[g]))
              /\ {channel'[i][2] : i \in Sent(g)'} = (Len(got'[g]) + 1)..Passed(g)'
              /\ \A i, j \in Sent(g)' : i < j => channel'[i][2] < channel'[j][2]
    BY <2>1 DEF ChannelIsInOrder
  <2>2. \A i \in Sent(g)' : i \in 1..(n - 1) /\ i + 1 \in Sent(g) /\ channel'[i][2] = channel[i + 1][2]
    BY <1>2, <1>5
  <2>3. ASSUME NEW i \in Sent(g)', NEW j \in Sent(g)', i < j
        PROVE  channel'[i][2] < channel'[j][2]
    BY <1>2, <1>5, <2>2, <2>3
  <2>4. {channel'[i][2] : i \in Sent(g)'} = {channel[i][2] : i \in Sent(g) \ {1}}
    <3>1. ASSUME NEW i \in Sent(g) \ {1}
          PROVE  \E j \in Sent(g)' : channel'[j][2] = channel[i][2]
      <4>1. i - 1 \in 1..(n - 1) /\ (i - 1) + 1 = i
        BY <1>2, <1>5
      <4>2. i - 1 \in Sent(g)'
        BY <1>5, <4>1
      <4>. QED BY <2>2, <4>1, <4>2
    <3>2. ASSUME NEW i \in Sent(g)'
          PROVE  \E j \in Sent(g) \ {1} : channel'[i][2] = channel[j][2]
      BY <1>2, <2>2
    <3>. QED BY <3>1, <3>2
  <2>5. CASE g # h
    <3>1. 1 \notin Sent(g)
      BY <1>2, <1>5, <2>5 DEF h
    <3>. QED BY ZenonT(60), <1>5, <1>9, <2>3, <2>4, <2>5, <3>1
  <2>6. CASE g = h
    <3>1. {channel[i][2] : i \in Sent(g)} = (m + 1)..taken[h]
      BY <1>5, <2>6 DEF m
    <3>2. \A i \in Sent(g) \ {1} : channel[i][2] # m + 1
      <4>1. ASSUME NEW i \in Sent(g) \ {1} PROVE channel[1][2] < channel[i][2]
        BY <1>2, <1>5, <1>6, <2>6
      <4>2. ASSUME NEW i \in Sent(g) \ {1} PROVE channel[i][2] \in Int
        BY <1>3, <3>1
      <4>. QED BY <1>3, <1>7, <4>1, <4>2
    <3>3. {channel[i][2] : i \in Sent(g) \ {1}} = ((m + 1)..taken[h]) \ {m + 1}
      BY <1>6, <1>7, <2>6, <3>1, <3>2
    <3>4. ((m + 1)..taken[h]) \ {m + 1} = (m + 2)..taken[h]
      BY <1>3
    <3>5. Passed(g)' = taken[h] /\ (m + 1) + 1 = m + 2
      BY <1>3, <1>5, <2>6
    <3>6. {channel'[i][2] : i \in Sent(g)'} = (Len(got'[g]) + 1)..Passed(g)'
      BY <1>8, <2>4, <2>6, <3>3, <3>4, <3>5
    <3>. QED BY <1>8, <2>3, <2>6, <3>6
  <2>. QED BY <2>5, <2>6
<1>. QED BY <1>10, <1>11, <1>12 DEF OutputIInv

\* The owner of the channel goes away, and what was on it is lost.
LEMMA HangingUpKeepsIInv ==
  ASSUME OutputIInv, OutputTypeOK', hang_up PROVE OutputIInv'
<1>1. UNCHANGED <<printed, taken, reader, got>> /\ ~listening' /\ channel' = <<>>
  BY DEF hang_up, pipes
<1>2. TakenIsPrinted' /\ ClosedIsDone'
  BY <1>1 DEF OutputIInv, TakenIsPrinted, ClosedIsDone
<1>3. ASSUME NEW g \in Generation
      PROVE  Sent(g)' = {} /\ Passed(g)' = Len(got[g]) /\ (Len(got[g]) + 1)..Len(got[g]) = {}
  BY <1>1, LengthsAreNumbers DEF OutputIInv, Sent, Passed
<1>4. ChannelIsInOrder'
  BY <1>1, <1>3 DEF OutputIInv, ChannelIsInOrder
<1>. QED BY <1>2, <1>4 DEF OutputIInv

LEMMA OutputNextIInv == OutputIInv /\ [OutputNext]_output_vars => OutputIInv'
<1>. SUFFICES ASSUME OutputIInv, [OutputNext]_output_vars PROVE OutputIInv'
  OBVIOUS
<1>1. OutputTypeOK'
  BY OutputTypesAreKept DEF OutputIInv
\* Neither the pipes nor the channel change, or a pipe is opened.
<1>2. ASSUME UNCHANGED <<printed, taken, sink>>,
             \A g \in Generation : reader'[g] = "closed" => reader[g] = "closed"
      PROVE  OutputIInv'
  <2>1. ChannelIsInOrder'
    BY <1>2, ChannelIsKept DEF OutputIInv, sink
  <2>2. TakenIsPrinted' /\ ClosedIsDone'
    BY <1>2 DEF OutputIInv, TakenIsPrinted, ClosedIsDone, sink
  <2>. QED BY <1>1, <2>1, <2>2 DEF OutputIInv
<1>3. CASE enter \/ reconcile_self
  <2>1. UNCHANGED <<printed, taken, sink>> /\ reader' = [reader EXCEPT ![gen'] = "reading"]
    BY <1>3 DEF enter, reconcile_self, spawn_process
  <2>. QED BY <1>2, <2>1 DEF OutputIInv, OutputTypeOK
<1>4. CASE exit \/ exited \/ UNCHANGED output_vars
  BY <1>2, <1>4 DEF exit, exited, output_vars, pipes
<1>5. CASE receive
  BY <1>1, <1>5, ReceivingKeepsIInv
<1>6. CASE hang_up
  BY <1>1, <1>6, HangingUpKeepsIInv
<1>7. ASSUME NEW g \in Generation, fork(g) PROVE OutputIInv'
  BY <1>2, <1>7 DEF fork
<1>8. ASSUME NEW g \in Generation, NEW line \in {"text", "bytes"}, print(g, line) PROVE OutputIInv'
  BY <1>1, <1>8, PrintedKeepsIInv DEF print, Lines
<1>9. ASSUME NEW g \in Generation, NEW w \in Writer, die(g, w) PROVE OutputIInv'
  <2>1. CASE UNCHANGED printed
    BY <1>2, <1>9, <2>1 DEF die
  <2>2. CASE Printed(g, "cut")
    BY <1>1, <1>9, <2>2, PrintedKeepsIInv DEF die, Lines
  <2>. QED BY <1>9, <2>1, <2>2 DEF die
<1>10. ASSUME NEW g \in Generation, forward(g) PROVE OutputIInv'
  BY <1>1, <1>10, ClosingKeepsIInv, SendingKeepsIInv DEF forward
<1>. QED BY <1>3, <1>4, <1>5, <1>6, <1>7, <1>8, <1>9, <1>10 DEF OutputNext

\* The values the variables take, and the invariant, hold in every state of a run.
THEOREM OutputInvariance == OutputSpec => []OutputIInv
<1>. QED BY OutputInitIInv, OutputNextIInv, PTL DEF OutputSpec

THEOREM OutputTypeCorrect == OutputSpec => []OutputTypeOK
<1>1. OutputIInv => OutputTypeOK
  BY DEF OutputIInv
<1>. QED BY <1>1, OutputInvariance, PTL

\* Lines of all generations arrive in their order, once, with none left out.
THEOREM LinesInOrder == OutputSpec => []LinesComeInOrder
<1>1. OutputIInv => LinesComeInOrder
  <2>. SUFFICES ASSUME OutputIInv, NEW g \in Generation
       PROVE  \E n \in Len(got[g])..Len(printed[g]) :
                /\ got[g] = Upto(Len(got[g]))
                /\ {channel[i][2] : i \in Sent(g)} = (Len(got[g]) + 1)..n
                /\ \A i, j \in Sent(g) : i < j => channel[i][2] < channel[j][2]
                /\ \A i \in 1..n : printed[g][i] # "bytes"
                /\ reader[g] = "closed" /\ listening /\ n < Len(printed[g]) =>
                     printed[g][n + 1] = "bytes"
    BY DEF LinesComeInOrder
  <2>1. /\ Len(got[g]) \in Nat /\ Len(printed[g]) \in Nat /\ taken[g] \in Nat
        /\ Len(got[g]) <= taken[g] /\ taken[g] <= Len(printed[g])
        /\ \A i \in 1..taken[g] : printed[g][i] # "bytes"
    BY LengthsAreNumbers DEF OutputIInv, TakenIsPrinted
  <2>2. Passed(g) \in Len(got[g])..Len(printed[g]) /\ Passed(g) <= taken[g]
    BY <2>1 DEF Passed
  <2>3. \A i \in 1..Passed(g) : printed[g][i] # "bytes"
    BY <2>1, <2>2
  <2>4. reader[g] = "closed" /\ listening /\ Passed(g) < Len(printed[g]) =>
          printed[g][Passed(g) + 1] = "bytes"
    BY DEF OutputIInv, ClosedIsDone, Passed
  <2>5. /\ got[g] = Upto(Len(got[g]))
        /\ {channel[i][2] : i \in Sent(g)} = (Len(got[g]) + 1)..Passed(g)
        /\ \A i, j \in Sent(g) : i < j => channel[i][2] < channel[j][2]
    BY DEF OutputIInv, ChannelIsInOrder
  <2>. QED BY <2>2, <2>3, <2>4, <2>5
<1>. QED BY <1>1, OutputInvariance, PTL

-----------------------------------------------------------------------------
(***************************************************************************)
(* Supervisor.  The properties speak of the pool and the cache between     *)
(* calls, and of the steps of its passes.  What makes them inductive is    *)
(* what holds in the middle of a call: which specs have been resolved,     *)
(* what that has made of their entries, and which cache the pool still     *)
(* goes by.                                                                *)
(***************************************************************************)

Calling == phase \in {"resolve", "first", "second"}

\* How much of the list has been resolved, and whom that was about.
Pos     == Len(request) - Len(todo)
Visited == {request[n].key : n \in 1..Pos}

\* What is still to resolve is the rest of the list.
TodoIsTheRest ==
  /\ Len(todo) <= Len(request)
  /\ \A n \in DOMAIN todo : todo[n] = request[Pos + n]
  /\ phase # "resolve" => todo = <<>>
  /\ phase = "resolve" /\ todo = <<>> => request = <<>>

\* An identity that is not repeated is named once.
NamedOnce ==
  \A m, n \in DOMAIN request :
    m # n /\ request[m].key = request[n].key => request[m].key \in repeated

\* The two locals in which a call collects what it has resolved agree.
ResolvedIsCached ==
  /\ \A i \in Identity :
       new_states[i] # None <=> \E n \in DOMAIN resolved : resolved[n].key = i
  /\ \A n \in DOMAIN resolved :
       resolved[n].key \in Single => resolved[n].value = new_states[resolved[n].key]

\* Nothing has happened to an identity the call has not come to.
UnvisitedAreAsBefore ==
  Calling => \A i \in Single \ Visited :
               states[i] = kept[i] /\ new_states[i] = None /\ i \notin needs_restart

\* What has been resolved is cached anew or reported.
VisitedAreCachedOrReported ==
  Calling => \A n \in 1..Pos :
               new_states[request[n].key] # None \/ request[n].key \in errors

\* An unchanged spec keeps its entry; a changed one is restarted, and gets an
\* entry with its new content, if any.
VisitedAreJudged ==
  Calling => \A n \in 1..Pos :
    LET i == request[n].key IN
    i \in Single =>
      /\ states[i] = None
      /\ IF kept[i] # None /\ kept[i].spec = request[n].spec
         THEN new_states[i] = kept[i] /\ i \notin needs_restart
         ELSE /\ i \in needs_restart <=> kept[i] # None
              /\ new_states[i] # None => new_states[i].spec = request[n].spec

\* The process of an identity runs as a cache says.
Matches(i, cache) ==
  cache[i] # None /\ pool[i].spec = cache[i].spec /\ pool[i].file = cache[i].file

\* The cache the pool goes by is the old one until the changed are stopped, and
\* then the new one, but for processes the last pass is going to stop.
PoolFollows(i) ==
  /\ phase # "dropped"
  /\ phase = "idle" => Matches(i, states)
  /\ phase \in {"resolve", "first"} => Matches(i, kept)
  /\ phase = "second" =>
       /\ i \notin needs_restart
       /\ new_states[i] # None => Matches(i, new_states)
       /\ new_states[i] = None => Matches(i, states)

PoolIsCached == \A i \in Single : pool[i] # None => PoolFollows(i)

\* Between calls the locals are empty.
LocalsAreEmpty ==
  ~Calling => new_states = NoState /\ resolved = <<>> /\ needs_restart = {}

IInv ==
  /\ TypeOK /\ TodoIsTheRest /\ NamedOnce /\ ResolvedIsCached
  /\ UnvisitedAreAsBefore /\ VisitedAreCachedOrReported /\ VisitedAreJudged
  /\ PoolIsCached /\ LocalsAreEmpty /\ RunsAsAskedOrReports
-----------------------------------------------------------------------------
(* Lists, and the maps they are collected into.                            *)

\* A set of positions of a list that is not empty has a greatest element.
LEMMA LastPosition ==
  ASSUME NEW n \in Nat, NEW at \in SUBSET (1..n), at # {}
  PROVE  \E i \in at : \A j \in at : j <= i
<1> DEFINE FromEnd == {n - i : i \in at}
           Less    == OpToRel(<, Nat)
<1>1. FromEnd \subseteq Nat /\ FromEnd # {}
  <2>1. \A i \in at : n - i \in Nat
    OBVIOUS
  <2>2. PICK i \in at : TRUE
    OBVIOUS
  <2>3. n - i \in FromEnd
    OBVIOUS
  <2> QED  BY <2>1, <2>3
<1>2. IsWellFoundedOn(Less, Nat) /\ \A a, b \in Nat : a < b => <<a, b>> \in Less
  BY NatLessThanWellFounded DEF OpToRel
<1>3. PICK x \in FromEnd : \A y \in FromEnd : x <= y
  <2> HIDE DEF FromEnd, Less
  <2>0. IsWellFoundedOn(Less, Nat) /\ FromEnd \subseteq Nat /\ FromEnd # {}
    BY <1>1, <1>2
  <2>1. PICK x \in FromEnd : \A y \in FromEnd : ~ (<<y, x>> \in Less)
    BY <2>0, WFMin, Zenon
  <2>2. \A y \in FromEnd : ~ (y < x)
    BY <1>1, <1>2, <2>1
  <2> QED  BY <1>1, <2>2
<1>4. PICK i \in at : x = n - i
  BY <1>3
<1>5. ASSUME NEW j \in at  PROVE j <= i
  <2>1. n - i <= n - j
    BY <1>3, <1>4
  <2>2. i \in Nat /\ j \in Nat
    OBVIOUS
  <2> QED  BY <2>1, <2>2
<1> QED  BY <1>5


Resolution == [key : Identity, value : Source]

LEMMA ResolutionsAreTyped ==
  ASSUME TypeOK, NEW n \in DOMAIN resolved
  PROVE  resolved[n].key \in Identity /\ resolved[n].value \in Source
<1>1. resolved \in Seq(Resolution)
  BY DEF TypeOK, Resolution
<1>2. resolved[n] \in Resolution
  BY <1>1
<1>. QED  BY <1>2 DEF Resolution

\* What resolving a spec comes to: c is the entry it gets, None after an error.
Resolves(s, c) ==
  /\ IF c # None
     THEN /\ new_states' = [new_states EXCEPT ![s.key] = c]
          /\ resolved' = Append(resolved, [key |-> s.key, value |-> c])
          /\ errors' = errors
     ELSE /\ UNCHANGED <<new_states, resolved>>
          /\ errors' = errors \cup {s.key}
  /\ IF states[s.key] # None /\ states[s.key].spec = s.spec
     THEN c = states[s.key] /\ UNCHANGED needs_restart
     ELSE /\ needs_restart' = needs_restart \cup (IF states[s.key] = None THEN {} ELSE {s.key})
          /\ c # None => c.spec = s.spec

LEMMA HeadIsSpec ==
  ASSUME TypeOK, todo # <<>>
  PROVE  Head(todo).key \in Identity /\ Head(todo).spec \in Version
<1>1. Head(todo) \in Spec
  BY DEF TypeOK
<1>. QED  BY <1>1 DEF Spec

LEMMA Resolving ==
  ASSUME TypeOK, resolve_next
  PROVE  \E c \in Source \cup {None} : Resolves(Head(todo), c)
<1>. DEFINE s == Head(todo)
<1>1. s.key \in Identity /\ s.spec \in Version
  BY HeadIsSpec DEF resolve_next
<1>2. IF states[s.key] # None /\ states[s.key].spec = s.spec THEN Reuse(s) ELSE Resolve(s)
  BY DEF resolve_next
<1>. HIDE DEF s
<1>3. CASE states[s.key] # None /\ states[s.key].spec = s.spec
  <2>1. states[s.key] \in Source
    BY <1>1, <1>3 DEF TypeOK, Cache
  <2>. QED  BY <1>2, <1>3, <2>1 DEF Reuse, Resolves, s
<1>4. CASE ~(states[s.key] # None /\ states[s.key].spec = s.spec)
  <2>0. Resolve(s)
    BY <1>2, <1>4
  <2>1. CASE errors' = errors \cup {s.key} /\ UNCHANGED <<resolved, new_states>>
    <3>1. Resolves(s, None)
      BY <1>4, <2>0, <2>1 DEF Resolve, Resolves
    <3>. QED  BY <3>1 DEF s
  <2>2. ASSUME NEW f \in File,
               resolved' = Append(resolved, [key |-> s.key, value |-> [spec |-> s.spec, file |-> f]]),
               new_states' = [new_states EXCEPT ![s.key] = [spec |-> s.spec, file |-> f]],
               UNCHANGED errors
        PROVE  \E c \in Source \cup {None} : Resolves(s, c)
    <3>. DEFINE c == [spec |-> s.spec, file |-> f]
    <3>1. c \in Source /\ c # None /\ c.spec = s.spec
      BY <1>1, NoneIsNothing DEF Source
    <3>2. /\ resolved' = Append(resolved, [key |-> s.key, value |-> c])
          /\ new_states' = [new_states EXCEPT ![s.key] = c]
      BY <2>2
    <3>. HIDE DEF c
    <3>. QED  BY <1>4, <2>0, <2>2, <3>1, <3>2 DEF Resolve, Resolves
  <2>3. \/ errors' = errors \cup {s.key} /\ UNCHANGED <<resolved, new_states>>
        \/ \E f \in File :
             /\ resolved' = Append(resolved, [key |-> s.key, value |-> [spec |-> s.spec, file |-> f]])
             /\ new_states' = [new_states EXCEPT ![s.key] = [spec |-> s.spec, file |-> f]]
             /\ UNCHANGED errors
    BY <2>0 DEF Resolve
  <2>. QED  BY <2>1, <2>2, <2>3 DEF s
<1>. QED  BY <1>3, <1>4

\* What is wanted is a cache: of the sources resolved for an identity, one.
LEMMA WantedIsResolved ==
  ASSUME TypeOK
  PROVE  /\ wanted \in Cache
         /\ \A i \in Identity :
              IF \E n \in DOMAIN resolved : resolved[n].key = i
              THEN \E n \in DOMAIN resolved : resolved[n].key = i /\ wanted[i] = resolved[n].value
              ELSE wanted[i] = None
<1>. SUFFICES ASSUME NEW i \in Identity
              PROVE  /\ wanted[i] \in Source \cup {None}
                     /\ IF \E n \in DOMAIN resolved : resolved[n].key = i
                        THEN \E n \in DOMAIN resolved :
                               resolved[n].key = i /\ wanted[i] = resolved[n].value
                        ELSE wanted[i] = None
  BY DEF wanted, Pool!dedup_by_key, Cache
<1>. DEFINE at   == {n \in DOMAIN resolved : resolved[n].key = i}
            last == CHOOSE n \in at : \A m \in at : m <= n
<1>1. resolved \in Seq([key : Identity, value : Source])
  BY DEF TypeOK
<1>2. wanted[i] = IF at = {} THEN None ELSE resolved[last].value
  BY DEF wanted, Pool!dedup_by_key
<1>3. CASE at = {}
  BY <1>2, <1>3
<1>4. CASE at # {}
  <2>1. at \in SUBSET (1..Len(resolved)) /\ Len(resolved) \in Nat
    BY <1>1
  <2>2. last \in at
    BY <1>4, <2>1, LastPosition
  <2>3. last \in DOMAIN resolved
    BY <2>2
  <2>4. resolved[last].value \in Source
    <3>. HIDE DEF last
    <3>. QED  BY <2>3, ResolutionsAreTyped
  <2>. QED  BY <1>2, <1>4, <2>2, <2>4
<1>. QED  BY <1>3, <1>4

\* The pool is driven towards the new cache.
LEMMA WantedIsCached ==
  ASSUME TypeOK, ResolvedIsCached
  PROVE  /\ wanted \in Cache
         /\ \A i \in Identity : wanted[i] # None <=> new_states[i] # None
         /\ \A i \in Single : wanted[i] = new_states[i]
<1>1. \A n \in DOMAIN resolved : resolved[n].value # None
  BY ResolutionsAreTyped, NoneIsNothing
<1>. QED  BY <1>1, WantedIsResolved DEF ResolvedIsCached, Single

\* A list an owner may ask for.
LEMMA ListsAreSequences ==
  Lists \subseteq Seq(Spec)
BY DEF Lists

-----------------------------------------------------------------------------
(* Types.                                                                  *)

\* What a pass makes of the processes.
LEMMA PassKeepsTypes ==
  ASSUME TypeOK, NEW want \in Cache, NEW failed \in SUBSET Identity, Passes(want, failed)
  PROVE  /\ pool' \in [Identity -> Process \cup {None}]
         /\ failures' \in 0..MaxFailures
<1>1. PICK failing \in SUBSET Identity, waiting \in SUBSET Identity :
         PoolPass(want, failing, waiting, failed)
  BY DEF Passes
<1>2. \A i \in Identity : want[i] # None => Started(want[i]) \in Process
  BY DEF Cache, Started, Source, Process
<1>3. pool' \in [Identity -> Process \cup {None}]
  BY <1>1, <1>2 DEF PoolPass, TypeOK
<1>4. failures' \in 0..MaxFailures
  BY BoundsAreNumbers DEF Passes, TypeOK
<1>. QED  BY <1>3, <1>4

LEMMA UnchangedIsCache ==
  ASSUME NEW want \in Cache
  PROVE  Unchanged(want) \in Cache
BY DEF Unchanged, Cache

\* Nothing is lost or torn by any step.
LEMMA TypesHold ==
  TypeOK /\ [Next]_vars => TypeOK'
<1>. SUFFICES ASSUME TypeOK, [Next]_vars  PROVE TypeOK'
  OBVIOUS
<1>. USE DEF TypeOK, Cache
<1>1. ASSUME NEW l \in Lists, reconcile(l)  PROVE TypeOK'
  <2>1. l \in Seq(Spec)
    BY ListsAreSequences
  <2>2. Repeats(l) \subseteq Identity
    <3>1. \A n \in DOMAIN l : l[n] \in Spec
      BY <2>1
    <3>2. \A n \in DOMAIN l : l[n].key \in Identity
      BY <3>1 DEF Spec
    <3>. QED  BY <3>2 DEF Repeats
  <2>3. edits' \in 0..MaxEdits
    BY <1>1, BoundsAreNumbers DEF reconcile
  <2>. QED  BY <1>1, <2>1, <2>2, <2>3 DEF reconcile
<1>2. ASSUME NEW i \in Identity, crash(i)  PROVE TypeOK'
  <2>1. pool' \in [Identity -> Process \cup {None}]
    BY <1>2 DEF crash, Process
  <2>. QED  BY <1>2, <2>1 DEF crash, call, owner
<1>3. ASSUME drop  PROVE TypeOK'
  BY <1>3 DEF drop, owner, NoState
<1>4. ASSUME resolve_next  PROVE TypeOK'
  <2>. DEFINE s == Head(todo)
  <2>1. s.key \in Identity /\ s.spec \in Version
    BY <1>4, HeadIsSpec DEF resolve_next
  <2>2. todo' \in Seq(Spec)
    BY <1>4 DEF resolve_next
  <2>3. PICK c \in Source \cup {None} : Resolves(s, c)
    BY <1>4, Resolving
  <2>. HIDE DEF s
  <2>4. failures' \in 0..MaxFailures
    <3>1. UNCHANGED failures \/ (failures < MaxFailures /\ failures' = failures + 1)
      BY <1>4 DEF resolve_next, Reuse, Resolve
    <3>. QED  BY <3>1, BoundsAreNumbers
  <2>5. states' \in Cache /\ UNCHANGED <<pool, owner>> /\ phase' \in {"resolve", "first", "second"}
    BY <1>4 DEF resolve_next, After
  <2>6. new_states' \in Cache /\ needs_restart' \subseteq Identity /\ errors' \subseteq Identity
    BY <2>1, <2>3 DEF Resolves
  <2>7. resolved' \in Seq([key : Identity, value : Source])
    <3>1. CASE c = None
      BY <2>3, <3>1 DEF Resolves
    <3>2. CASE c # None
      <4>1. resolved' = Append(resolved, [key |-> s.key, value |-> c])
        BY <2>3, <3>2 DEF Resolves
      <4>2. [key |-> s.key, value |-> c] \in Resolution
        BY <2>1, <3>2 DEF Resolution
      <4>3. resolved \in Seq(Resolution)
        BY DEF Resolution
      <4>4. resolved' \in Seq(Resolution)
        BY <4>1, <4>2, <4>3
      <4>. QED  BY <4>4 DEF Resolution
    <3>. QED  BY <3>1, <3>2
  <2>. QED  BY <2>2, <2>4, <2>5, <2>6, <2>7 DEF owner
<1>5. ASSUME resolve_none  PROVE TypeOK'
  BY <1>5 DEF resolve_none, owner
<1>6. ASSUME first_pass  PROVE TypeOK'
  <2>1. PICK failed \in SUBSET Identity : Passes(Unchanged(wanted), failed)
    BY <1>6 DEF first_pass
  <2>2. pool' \in [Identity -> Process \cup {None}] /\ failures' \in 0..MaxFailures
    BY <2>1, WantedIsResolved, UnchangedIsCache, PassKeepsTypes
  <2>. QED  BY <1>6, <2>2 DEF first_pass, owner
<1>7. ASSUME second_pass  PROVE TypeOK'
  <2>1. PICK failed \in SUBSET Identity : Passes(wanted, failed) /\ errors' = errors \cup failed
    BY <1>7 DEF second_pass
  <2>2. pool' \in [Identity -> Process \cup {None}] /\ failures' \in 0..MaxFailures
    BY <2>1, WantedIsResolved, PassKeepsTypes
  <2>. QED  BY <1>7, <2>1, <2>2 DEF second_pass, owner, NoState
<1>8. CASE UNCHANGED vars
  BY <1>8 DEF vars, call, owner
<1>. QED  BY <1>1, <1>2, <1>3, <1>4, <1>5, <1>6, <1>7, <1>8 DEF Next, Step

-----------------------------------------------------------------------------
(* The invariant, step by step.                                            *)

LEMMA PosIsNat ==
  ASSUME TypeOK, TodoIsTheRest
  PROVE  /\ Len(request) \in Nat /\ Pos \in 0..Len(request)
         /\ DOMAIN request = 1..Len(request)
         /\ todo = <<>> => Pos = Len(request)
<1>1. Len(request) \in Nat /\ Len(todo) \in Nat /\ DOMAIN request = 1..Len(request)
  BY DEF TypeOK
<1>2. todo = <<>> => Len(todo) = 0
  OBVIOUS
<1>3. Len(todo) <= Len(request)
  BY DEF TodoIsTheRest
<1>4. Pos \in 0..Len(request) /\ (Len(todo) = 0 => Pos = Len(request))
  <2>1. \A r, t \in Nat : t <= r => r - t \in 0..r /\ (t = 0 => r - t = r)
    OBVIOUS
  <2>. QED  BY <1>1, <1>3, <2>1, Zenon DEF Pos
<1>. QED  BY <1>1, <1>2, <1>4

LEMMA InitSatisfies ==
  Init => IInv
<1>. SUFFICES ASSUME Init  PROVE IInv
  OBVIOUS
<1>. USE DEF Init
<1>1. TypeOK
  BY BoundsAreNumbers DEF TypeOK, NoState, Cache
<1>2. TodoIsTheRest /\ NamedOnce /\ ResolvedIsCached
  BY DEF TodoIsTheRest, NamedOnce, ResolvedIsCached, NoState
<1>3. /\ UnvisitedAreAsBefore /\ VisitedAreCachedOrReported /\ VisitedAreJudged
      /\ LocalsAreEmpty
  BY DEF UnvisitedAreAsBefore, VisitedAreCachedOrReported, VisitedAreJudged, LocalsAreEmpty,
         Calling
<1>4. PoolIsCached
  BY DEF PoolIsCached, Single, NoState
<1>5. RunsAsAskedOrReports
  <2>1. \A i : Asked(i) = None
    BY DEF Asked
  <2>. QED  BY <2>1 DEF RunsAsAskedOrReports, Single, NoState
<1>. QED  BY <1>1, <1>2, <1>3, <1>4, <1>5 DEF IInv

\* A crash shows in no other variable, and leaves the process its spec and file.
LEMMA CrashSatisfies ==
  ASSUME IInv, TypeOK', NEW i \in Identity, crash(i)
  PROVE  IInv'
<1>1. UNCHANGED <<states, errors, new_states, resolved, needs_restart, todo, phase, request,
                  kept, repeated, edits, failures>>
  BY DEF crash, call, owner
<1>2. \A j \in Identity :
        /\ pool'[j] # None <=> pool[j] # None
        /\ pool[j] # None => pool'[j].spec = pool[j].spec /\ pool'[j].file = pool[j].file
  <2>1. /\ pool[i] # None /\ pool' = [pool EXCEPT ![i].up = FALSE]
        /\ pool \in [Identity -> Process \cup {None}]
    BY DEF crash, IInv, TypeOK
  <2>2. pool[i] \in Process
    BY <2>1
  <2>3. [pool[i] EXCEPT !.up = FALSE] \in Process
    BY <2>2 DEF Process
  <2>4. pool'[i] = [pool[i] EXCEPT !.up = FALSE]
    BY <2>1
  <2>5. pool'[i] # None
    BY <2>3, <2>4, NoneIsNothing
  <2>6. pool'[i].spec = pool[i].spec /\ pool'[i].file = pool[i].file
    BY <2>2, <2>4 DEF Process
  <2>. QED  BY <2>1, <2>5, <2>6
<1>3. Calling' = Calling /\ Pos' = Pos /\ Visited' = Visited /\ Single' = Single
  BY <1>1 DEF Calling, Pos, Visited, Single
<1>4. \A j : Asked(j)' = Asked(j)
  BY <1>1 DEF Asked
<1>5. TodoIsTheRest' /\ NamedOnce' /\ ResolvedIsCached'
  BY <1>1, <1>3 DEF IInv, TodoIsTheRest, NamedOnce, ResolvedIsCached
<1>6. /\ UnvisitedAreAsBefore' /\ VisitedAreCachedOrReported' /\ VisitedAreJudged'
      /\ LocalsAreEmpty'
  BY <1>1, <1>3 DEF IInv, UnvisitedAreAsBefore, VisitedAreCachedOrReported, VisitedAreJudged,
                    LocalsAreEmpty
<1>7. PoolIsCached'
  <2>. SUFFICES ASSUME NEW j \in Single, pool[j] # None  PROVE PoolFollows(j)'
    BY <1>2, <1>3 DEF PoolIsCached, Single
  <2>1. PoolFollows(j)
    BY DEF IInv, PoolIsCached
  <2>2. /\ Matches(j, states)' <=> Matches(j, states)
        /\ Matches(j, kept)' <=> Matches(j, kept)
        /\ Matches(j, new_states)' <=> Matches(j, new_states)
    BY <1>1, <1>2 DEF Matches, Single
  <2>. QED  BY <1>1, <2>1, <2>2 DEF PoolFollows
<1>8. RunsAsAskedOrReports'
  BY <1>1, <1>2, <1>3, <1>4 DEF IInv, RunsAsAskedOrReports, Single
<1>. QED  BY <1>5, <1>6, <1>7, <1>8 DEF IInv

\* A call begins: the old cache is kept, and nothing has been resolved.
LEMMA CallSatisfies ==
  ASSUME IInv, TypeOK', NEW l \in Lists, reconcile(l)
  PROVE  IInv'
<1>1. /\ phase = "idle" /\ phase' = "resolve" /\ request' = l /\ todo' = l /\ kept' = states
      /\ repeated' = repeated \cup Repeats(l)
      /\ UNCHANGED <<pool, states, new_states, resolved, needs_restart>>
  BY DEF reconcile
<1>2. l \in Seq(Spec)
  BY ListsAreSequences
<1>3. Pos' = 0 /\ Visited' = {} /\ Single' \subseteq Single
  BY <1>1, <1>2 DEF Pos, Visited, Single
<1>4. new_states = NoState /\ resolved = <<>> /\ needs_restart = {}
  BY <1>1 DEF IInv, LocalsAreEmpty, Calling
<1>5. TodoIsTheRest'
  <2>1. \A n \in DOMAIN l : l[n] = l[0 + n]
    BY <1>2
  <2>. QED  BY <1>1, <1>2, <1>3, <2>1 DEF TodoIsTheRest
<1>6. NamedOnce'
  <2>. SUFFICES ASSUME NEW m \in DOMAIN l, NEW n \in DOMAIN l, m < n, l[m].key = l[n].key
                PROVE  l[m].key \in Repeats(l)
    BY <1>1, <1>2 DEF NamedOnce
  <2>1. m \in 1..(n - 1)
    BY <1>2
  <2>. QED  BY <2>1 DEF Repeats
<1>7. ResolvedIsCached'
  BY <1>1, <1>4 DEF ResolvedIsCached, NoState
<1>8. UnvisitedAreAsBefore'
  BY <1>1, <1>3, <1>4 DEF UnvisitedAreAsBefore, Single, NoState
<1>9. VisitedAreCachedOrReported' /\ VisitedAreJudged'
  BY <1>3 DEF VisitedAreCachedOrReported, VisitedAreJudged
<1>10. LocalsAreEmpty' /\ RunsAsAskedOrReports'
  BY <1>1 DEF LocalsAreEmpty, Calling, RunsAsAskedOrReports
<1>11. PoolIsCached'
  BY <1>1, <1>3 DEF IInv, PoolIsCached, PoolFollows, Matches
<1>. QED  BY <1>5, <1>6, <1>7, <1>8, <1>9, <1>10, <1>11 DEF IInv

LEMMA DropSatisfies ==
  ASSUME IInv, TypeOK', drop
  PROVE  IInv'
<1>1. /\ phase = "idle" /\ phase' = "dropped" /\ pool' = NoState
      /\ UNCHANGED <<new_states, resolved, needs_restart, todo, request, repeated>>
  BY DEF drop, owner
<1>2. TodoIsTheRest' /\ NamedOnce' /\ ResolvedIsCached'
  BY <1>1 DEF IInv, TodoIsTheRest, NamedOnce, ResolvedIsCached, Pos, Single
<1>3. /\ UnvisitedAreAsBefore' /\ VisitedAreCachedOrReported' /\ VisitedAreJudged'
      /\ LocalsAreEmpty' /\ RunsAsAskedOrReports'
  BY <1>1 DEF IInv, UnvisitedAreAsBefore, VisitedAreCachedOrReported, VisitedAreJudged,
              LocalsAreEmpty, RunsAsAskedOrReports, Calling
<1>4. PoolIsCached'
  BY <1>1 DEF PoolIsCached, Single, NoState
<1>. QED  BY <1>2, <1>3, <1>4 DEF IInv

\* What the call has decided, it has decided for good: the new cache agrees with
\* the old one about every process that is not to be restarted.
LEMMA CachesAgree ==
  ASSUME UnvisitedAreAsBefore, VisitedAreJudged, Calling,
         NEW i \in Single \ needs_restart, kept[i] # None
  PROVE  IF new_states[i] # None THEN new_states[i] = kept[i] ELSE states[i] = kept[i]
<1>1. CASE i \notin Visited
  BY <1>1 DEF UnvisitedAreAsBefore
<1>2. CASE i \in Visited
  <2>1. PICK n \in 1..Pos : request[n].key = i
    BY <1>2 DEF Visited
  <2>2. new_states[i] = kept[i]
    BY <2>1 DEF VisitedAreJudged
  <2>. QED  BY <2>2
<1>. QED  BY <1>1, <1>2

\* A step resolves one spec more, and touches nothing else.
LEMMA ResolveSatisfies ==
  ASSUME IInv, TypeOK', resolve_next
  PROVE  IInv'
<1>. DEFINE s == Head(todo)
            p == Pos + 1
<1>. USE DEF IInv
<1>1. /\ phase = "resolve" /\ todo # <<>> /\ todo' = Tail(todo)
      /\ states' = [states EXCEPT ![s.key] = None]
      /\ phase' = After(Tail(todo), needs_restart')
      /\ UNCHANGED <<pool, request, kept, repeated>>
  BY DEF resolve_next, owner
<1>2. PICK c \in Source \cup {None} : Resolves(s, c)
  BY Resolving
<1>3. s.key \in Identity /\ states[s.key] \in Source \cup {None}
  BY <1>1, HeadIsSpec DEF TypeOK, Cache
<1>4. /\ Len(todo) \in Nat \ {0} /\ Len(todo') = Len(todo) - 1
      /\ DOMAIN todo = 1..Len(todo) /\ DOMAIN todo' = 1..(Len(todo) - 1)
      /\ s = todo[1] /\ \A n \in DOMAIN todo' : todo'[n] = todo[n + 1]
  BY <1>1 DEF TypeOK
<1>5. /\ Pos \in Nat /\ Pos' = p /\ p \in DOMAIN request /\ request[p] = s
      /\ Len(todo') <= Len(request) /\ Len(request) \in Nat
      /\ DOMAIN request = 1..Len(request)
  <2>1. Len(request) \in Nat /\ Pos \in 0..Len(request) /\ DOMAIN request = 1..Len(request)
    BY PosIsNat
  <2>2. Pos' = Len(request) - (Len(todo) - 1) /\ Pos = Len(request) - Len(todo)
    BY <1>1, <1>4 DEF Pos
  <2>3. Len(todo) <= Len(request) /\ todo[1] = request[Pos + 1]
    BY <1>4 DEF TodoIsTheRest
  <2>. HIDE DEF IInv, s
  <2>4. \A r, t \in Nat : t # 0 /\ t <= r =>
          r - (t - 1) = r - t + 1 /\ r - t + 1 \in 1..r /\ t - 1 <= r
    OBVIOUS
  <2>5. Pos' = p /\ p \in 1..Len(request) /\ Len(todo') <= Len(request)
    BY <1>4, <2>1, <2>2, <2>3, <2>4
  <2>. QED  BY <1>4, <2>1, <2>3, <2>5
<1>6. Visited' = Visited \cup {s.key}
  <2>1. 1..p = 1..Pos \cup {p}
    BY <1>5
  <2>. QED  BY <1>1, <1>5, <2>1 DEF Visited
<1>7. Single' = Single /\ Calling /\ Calling'
  BY <1>1 DEF Single, Calling, After
<1>8. s.key \in Single => s.key \notin Visited
  <2>. SUFFICES ASSUME NEW n \in 1..Pos, request[n].key = s.key  PROVE s.key \in repeated
    BY DEF Visited, Single
  <2>1. n # p /\ n \in DOMAIN request
    BY <1>5
  <2>. QED  BY <1>5, <2>1 DEF NamedOnce
<1>9. s.key \in Single =>
        states[s.key] = kept[s.key] /\ new_states[s.key] = None /\ s.key \notin needs_restart
  BY <1>7, <1>8 DEF UnvisitedAreAsBefore
<1>10. \A i \in Identity \ {s.key} :
         /\ states'[i] = states[i] /\ new_states'[i] = new_states[i]
         /\ i \in needs_restart' <=> i \in needs_restart
  BY <1>1, <1>2, <1>3 DEF Resolves, TypeOK, Cache
<1>11. states'[s.key] = None /\ new_states'[s.key] = IF c # None THEN c ELSE new_states[s.key]
  BY <1>1, <1>2, <1>3 DEF Resolves, TypeOK, Cache
<1>. HIDE DEF s, p, IInv
<1>12. TodoIsTheRest'
  <2>1. \A n \in DOMAIN todo' : todo'[n] = request'[Pos' + n]
    <3>. SUFFICES ASSUME NEW n \in 1..(Len(todo) - 1)  PROVE todo'[n] = request[p + n]
      BY <1>1, <1>4, <1>5
    <3>1. todo'[n] = todo[n + 1] /\ n + 1 \in DOMAIN todo
      BY <1>4
    <3>2. todo[n + 1] = request[Pos + (n + 1)]
      BY <3>1 DEF IInv, TodoIsTheRest
    <3>3. Pos + (n + 1) = p + n
      BY <1>5 DEF p
    <3>. QED  BY <3>1, <3>2, <3>3
  <2>. QED  BY <1>1, <1>5, <2>1 DEF TodoIsTheRest, After
<1>13. NamedOnce'
  BY <1>1 DEF IInv, NamedOnce
<1>14. ResolvedIsCached'
  <2>1. CASE c = None
    BY <1>2, <1>7, <2>1 DEF Resolves, IInv, ResolvedIsCached
  <2>2. CASE c # None
    <3>. DEFINE r == [key |-> s.key, value |-> c]
    <3>1. resolved' = Append(resolved, r) /\ resolved \in Seq(Resolution) /\ r \in Resolution
      BY <1>2, <1>3, <2>2 DEF Resolves, Resolution, IInv, TypeOK
    <3>2. r.key = s.key /\ r.value = c
      OBVIOUS
    <3>. HIDE DEF r
    <3>3. /\ Len(resolved) \in Nat /\ DOMAIN resolved = 1..Len(resolved)
          /\ DOMAIN resolved' = 1..(Len(resolved) + 1)
          /\ resolved'[Len(resolved) + 1] = r
          /\ \A n \in DOMAIN resolved : resolved'[n] = resolved[n]
      BY <3>1
    <3>4. ASSUME NEW i \in Identity
          PROVE  new_states'[i] # None <=> \E n \in DOMAIN resolved' : resolved'[n].key = i
      <4>1. CASE i = s.key
        BY <1>11, <2>2, <3>2, <3>3, <4>1
      <4>2. CASE i # s.key
        <5>1. new_states'[i] # None <=> \E n \in DOMAIN resolved : resolved[n].key = i
          BY <1>10, <4>2 DEF IInv, ResolvedIsCached
        <5>2. \A n \in DOMAIN resolved' : n \in DOMAIN resolved \/ n = Len(resolved) + 1
          BY <3>3
        <5>3. \A n \in DOMAIN resolved : n \in DOMAIN resolved'
          BY <3>3
        <5>. QED  BY <3>2, <3>3, <4>2, <5>1, <5>2, <5>3
      <4>. QED  BY <4>1, <4>2
    <3>5. ASSUME NEW n \in DOMAIN resolved', resolved'[n].key \in Single
          PROVE  resolved'[n].value = new_states'[resolved'[n].key]
      <4>1. CASE n = Len(resolved) + 1
        BY <1>11, <2>2, <3>2, <3>3, <4>1
      <4>2. CASE n \in DOMAIN resolved
        <5>1. resolved'[n] = resolved[n] /\ resolved[n].key \in Single
          BY <3>3, <3>5, <4>2
        <5>2. resolved[n].value = new_states[resolved[n].key] /\ new_states[resolved[n].key] # None
          BY <4>2, <5>1 DEF IInv, ResolvedIsCached, Single
        <5>3. resolved[n].key # s.key
          BY <1>9, <5>1, <5>2
        <5>. QED  BY <1>10, <5>1, <5>2, <5>3 DEF Single
      <4>. QED  BY <3>3, <4>1, <4>2
    <3>. QED  BY <1>7, <3>4, <3>5 DEF ResolvedIsCached
  <2>. QED  BY <2>1, <2>2
<1>15. UnvisitedAreAsBefore'
  BY <1>1, <1>6, <1>7, <1>10 DEF IInv, UnvisitedAreAsBefore, Single
<1>16. ASSUME NEW n \in 1..Pos'  PROVE n \in 1..Pos \/ n = p
  BY <1>5, <1>16 DEF p
<1>17. VisitedAreCachedOrReported'
  <2>. SUFFICES ASSUME NEW n \in 1..Pos'
                PROVE  new_states'[request[n].key] # None \/ request[n].key \in errors'
    BY <1>1 DEF VisitedAreCachedOrReported
  <2>1. CASE n = p
    BY <1>2, <1>5, <1>11, <2>1 DEF Resolves
  <2>2. CASE n \in 1..Pos
    <3>1. request[n].key \in Identity
      <4>1. n \in DOMAIN request
        BY <1>5, <2>2
      <4>2. request[n] \in Spec
        BY <4>1 DEF IInv, TypeOK
      <4>. QED  BY <4>2 DEF Spec
    <3>2. new_states[request[n].key] # None \/ request[n].key \in errors
      BY <1>7, <2>2 DEF IInv, VisitedAreCachedOrReported
    <3>3. errors \subseteq errors'
      BY <1>2 DEF Resolves
    <3>. QED  BY <1>10, <1>11, <3>1, <3>2, <3>3
  <2>. QED  BY <1>16, <2>1, <2>2
<1>18. VisitedAreJudged'
  <2>. SUFFICES ASSUME NEW n \in 1..Pos', request[n].key \in Single
                PROVE  LET i == request[n].key IN
                       /\ states'[i] = None
                       /\ IF kept[i] # None /\ kept[i].spec = request[n].spec
                          THEN new_states'[i] = kept[i] /\ i \notin needs_restart'
                          ELSE /\ i \in needs_restart' <=> kept[i] # None
                               /\ new_states'[i] # None => new_states'[i].spec = request[n].spec
    BY <1>1, <1>7 DEF VisitedAreJudged
  <2>1. CASE n = p
    BY <1>2, <1>5, <1>9, <1>11, <2>1 DEF Resolves
  <2>2. CASE n \in 1..Pos
    <3>1. request[n].key # s.key /\ request[n].key \in Identity
      BY <1>8, <2>2 DEF Visited, Single
    <3>. QED  BY <1>7, <1>10, <2>2, <3>1 DEF IInv, VisitedAreJudged
  <2>. QED  BY <1>16, <2>1, <2>2
<1>19. PoolIsCached'
  <2>. SUFFICES ASSUME NEW i \in Single, pool[i] # None  PROVE PoolFollows(i)'
    BY <1>1, <1>7 DEF PoolIsCached
  <2>1. Matches(i, kept)
    BY <1>1 DEF IInv, PoolIsCached, PoolFollows
  <2>2. CASE phase' \in {"resolve", "first"}
    BY <1>1, <2>1, <2>2 DEF PoolFollows, Matches
  <2>3. CASE phase' = "second"
    <3>1. needs_restart' = {}
      BY <1>1, <2>3 DEF After
    <3>2. IF new_states'[i] # None THEN new_states'[i] = kept[i] ELSE states'[i] = kept[i]
      <4>1. CASE i \in Visited'
        <5>1. PICK n \in 1..Pos' : request[n].key = i
          BY <1>1, <4>1 DEF Visited
        <5>2. new_states'[i] = kept[i]
          BY <1>1, <1>7, <1>18, <2>1, <3>1, <5>1 DEF VisitedAreJudged, Matches
        <5>. QED  BY <2>1, <5>2 DEF Matches
      <4>2. CASE i \notin Visited'
        BY <1>1, <1>7, <1>15, <4>2 DEF UnvisitedAreAsBefore
      <4>. QED  BY <4>1, <4>2
    <3>. QED  BY <1>1, <2>1, <2>3, <3>1, <3>2 DEF PoolFollows, Matches
  <2>. QED  BY <1>7, <2>2, <2>3 DEF Calling
<1>20. LocalsAreEmpty' /\ RunsAsAskedOrReports'
  BY <1>7 DEF LocalsAreEmpty, RunsAsAskedOrReports, Calling
<1>. QED  BY <1>12, <1>13, <1>14, <1>15, <1>17, <1>18, <1>19, <1>20 DEF IInv

\* An empty list needs no first pass.
LEMMA ResolveNoneSatisfies ==
  ASSUME IInv, TypeOK', resolve_none
  PROVE  IInv'
<1>1. /\ phase = "resolve" /\ todo = <<>> /\ phase' = "second" /\ request = <<>>
      /\ UNCHANGED <<pool, states, errors, new_states, resolved, needs_restart, todo, request,
                     kept, repeated>>
  BY DEF resolve_none, owner, IInv, TodoIsTheRest
<1>2. Calling /\ Calling' /\ Pos' = Pos /\ Visited' = Visited /\ Single' = Single
  BY <1>1 DEF Calling, Pos, Visited, Single
<1>3. Pos = 0 /\ Visited = {}
  BY <1>1 DEF Pos, Visited
<1>4. TodoIsTheRest' /\ NamedOnce' /\ ResolvedIsCached'
  BY <1>1, <1>2 DEF IInv, TodoIsTheRest, NamedOnce, ResolvedIsCached
<1>5. UnvisitedAreAsBefore' /\ VisitedAreCachedOrReported' /\ VisitedAreJudged'
  BY <1>1, <1>2 DEF IInv, UnvisitedAreAsBefore, VisitedAreCachedOrReported, VisitedAreJudged
<1>6. LocalsAreEmpty' /\ RunsAsAskedOrReports'
  BY <1>1, <1>2 DEF LocalsAreEmpty, RunsAsAskedOrReports
<1>7. PoolIsCached'
  <2>. SUFFICES ASSUME NEW i \in Single, pool[i] # None  PROVE PoolFollows(i)'
    BY <1>1, <1>2 DEF PoolIsCached
  <2>1. Matches(i, kept)
    BY <1>1 DEF IInv, PoolIsCached, PoolFollows
  <2>2. states[i] = kept[i] /\ new_states[i] = None /\ i \notin needs_restart
    BY <1>2, <1>3 DEF IInv, UnvisitedAreAsBefore
  <2>. QED  BY <1>1, <2>1, <2>2 DEF PoolFollows, Matches
<1>. QED  BY <1>4, <1>5, <1>6, <1>7 DEF IInv

\* What a pass makes of one identity: nothing that is not wanted is left, what
\* runs is as it was or as wanted, and what is wanted and missing is reported.
LEMMA PassOfOne ==
  ASSUME NEW want \in Cache, NEW failed \in SUBSET Identity, Passes(want, failed),
         NEW i \in Identity
  PROVE  /\ want[i] = None => pool'[i] = None
         /\ pool'[i] = pool[i] \/ pool'[i] = None \/ pool'[i] = Started(want[i])
         /\ want[i] # None /\ pool[i] # None => pool'[i] # None
         /\ want[i] # None /\ pool'[i] = None => i \in failed
         /\ i \in failed => want[i] # None
<1>1. PICK failing \in SUBSET Identity, waiting \in SUBSET Identity :
         PoolPass(want, failing, waiting, failed)
  BY DEF Passes
<1>2. want[i] # None => Started(want[i]) # None
  <2>1. want[i] # None => Started(want[i]) \in Process
    BY DEF Cache, Started, Source, Process
  <2>. QED  BY <2>1, NoneIsNothing
<1>. DEFINE spawns == want[i] # None /\ (pool[i] = None \/ (~pool[i].up /\ i \notin waiting))
<1>3. /\ i \in failed <=> i \in failing /\ spawns
      /\ want[i] = None => pool'[i] = None
      /\ want[i] # None /\ spawns /\ i \notin failing => pool'[i] = Started(want[i])
      /\ want[i] # None /\ ~(spawns /\ i \notin failing) => pool'[i] = pool[i]
  BY <1>1 DEF PoolPass
<1>. HIDE DEF spawns
<1>4. (want[i] # None /\ pool[i] = None => spawns) /\ (spawns => want[i] # None)
  BY DEF spawns
<1>. QED  BY <1>2, <1>3, <1>4

\* The first pass stops what is to be restarted, and leaves what follows the new
\* cache, and nothing else.
LEMMA FirstPassSatisfies ==
  ASSUME IInv, TypeOK', first_pass
  PROVE  IInv'
<1>1. /\ phase = "first" /\ phase' = "second"
      /\ UNCHANGED <<states, errors, new_states, resolved, needs_restart, todo, request,
                     kept, repeated>>
  BY DEF first_pass, owner
<1>2. Calling /\ Calling' /\ Pos' = Pos /\ Visited' = Visited /\ Single' = Single
  BY <1>1 DEF Calling, Pos, Visited, Single
<1>3. TodoIsTheRest' /\ NamedOnce' /\ ResolvedIsCached'
  BY <1>1, <1>2 DEF IInv, TodoIsTheRest, NamedOnce, ResolvedIsCached
<1>4. UnvisitedAreAsBefore' /\ VisitedAreCachedOrReported' /\ VisitedAreJudged'
  BY <1>1, <1>2 DEF IInv, UnvisitedAreAsBefore, VisitedAreCachedOrReported, VisitedAreJudged
<1>5. LocalsAreEmpty' /\ RunsAsAskedOrReports'
  BY <1>1, <1>2 DEF LocalsAreEmpty, RunsAsAskedOrReports
<1>6. PoolIsCached'
  <2>. SUFFICES ASSUME NEW i \in Single, pool'[i] # None  PROVE PoolFollows(i)'
    BY <1>2 DEF PoolIsCached
  <2>1. wanted \in Cache /\ wanted[i] = new_states[i] /\ i \in Identity
    BY WantedIsCached DEF IInv, Single
  <2>2. PICK failed \in SUBSET Identity : Passes(Unchanged(wanted), failed)
    BY DEF first_pass
  <2>3. /\ Unchanged(wanted)[i] # None
        /\ pool'[i] = pool[i] \/ pool'[i] = Started(Unchanged(wanted)[i])
    BY <2>1, <2>2, PassOfOne, UnchangedIsCache
  <2>4. i \notin needs_restart /\ Unchanged(wanted)[i] = new_states[i] /\ new_states[i] # None
    BY <2>1, <2>3 DEF Unchanged
  <2>5. pool'[i].spec = new_states[i].spec /\ pool'[i].file = new_states[i].file
    <3>1. CASE pool'[i] = Started(new_states[i])
      BY <3>1 DEF Started
    <3>2. CASE pool'[i] = pool[i]
      <4>1. Matches(i, kept)
        BY <1>1, <3>2 DEF IInv, PoolIsCached, PoolFollows
      <4>2. new_states[i] = kept[i]
        BY <1>2, <2>4, <4>1, CachesAgree DEF IInv, Matches
      <4>. QED  BY <3>2, <4>1, <4>2 DEF Matches
    <3>. QED  BY <2>3, <2>4, <3>1, <3>2
  <2>. QED  BY <1>1, <2>4, <2>5 DEF PoolFollows, Matches
<1>. QED  BY <1>3, <1>4, <1>5, <1>6 DEF IInv

\* The last item that names an identity is the only one, if it is not repeated.
LEMMA AskedOnce ==
  ASSUME TypeOK, NamedOnce, NEW n \in DOMAIN request, request[n].key \in Single
  PROVE  Asked(request[n].key) = request[n].spec
<1>. DEFINE at   == {m \in DOMAIN request : request[m].key = request[n].key}
            last == CHOOSE m \in at : \A o \in at : o <= m
<1>1. at = {n}
  BY DEF NamedOnce, Single
<1>2. Asked(request[n].key) = request[last].spec
  BY <1>1 DEF Asked
<1>3. n \in Nat
  BY DEF TypeOK
<1>4. last = n
  <2>. HIDE DEF at
  <2>. QED  BY <1>1, <1>3
<1>. QED  BY <1>2, <1>4

\* The second pass drives the pool to the new cache, which becomes the cache.
LEMMA SecondPassSatisfies ==
  ASSUME IInv, TypeOK', second_pass
  PROVE  IInv'
<1>1. /\ phase = "second" /\ phase' = "idle" /\ states' = new_states /\ new_states' = NoState
      /\ resolved' = <<>> /\ needs_restart' = {} /\ todo = <<>>
      /\ UNCHANGED <<todo, request, kept, repeated>>
  BY DEF second_pass, owner, IInv, TodoIsTheRest
<1>2. PICK failed \in SUBSET Identity : Passes(wanted, failed) /\ errors' = errors \cup failed
  BY DEF second_pass
<1>3. Calling /\ ~Calling' /\ Single' = Single /\ Pos' = Pos
  BY <1>1 DEF Calling, Single, Pos
<1>4. /\ wanted \in Cache
      /\ \A i \in Identity : wanted[i] # None <=> new_states[i] # None
      /\ \A i \in Single : wanted[i] = new_states[i]
  BY WantedIsCached DEF IInv
<1>5. TodoIsTheRest' /\ NamedOnce' /\ ResolvedIsCached'
  <2>1. ResolvedIsCached'
    BY <1>1 DEF ResolvedIsCached, NoState
  <2>. QED  BY <1>1, <1>3, <2>1 DEF IInv, TodoIsTheRest, NamedOnce
<1>6. /\ UnvisitedAreAsBefore' /\ VisitedAreCachedOrReported' /\ VisitedAreJudged'
      /\ LocalsAreEmpty'
  BY <1>1, <1>3 DEF UnvisitedAreAsBefore, VisitedAreCachedOrReported, VisitedAreJudged,
                    LocalsAreEmpty
<1>7. ASSUME NEW i \in Single, pool'[i] # None
      PROVE  /\ new_states[i] # None
             /\ pool'[i].spec = new_states[i].spec /\ pool'[i].file = new_states[i].file
  <2>1. i \in Identity
    BY DEF Single
  <2>2. wanted[i] = new_states[i] /\ new_states[i] # None
        /\ (pool'[i] = pool[i] \/ pool'[i] = Started(new_states[i]))
    BY <1>2, <1>4, <1>7, <2>1, PassOfOne
  <2>3. CASE pool'[i] = Started(new_states[i])
    BY <2>2, <2>3 DEF Started
  <2>4. CASE pool'[i] = pool[i]
    BY <1>1, <1>7, <2>2, <2>4 DEF IInv, PoolIsCached, PoolFollows, Matches
  <2>. QED  BY <2>2, <2>3, <2>4
<1>8. PoolIsCached'
  BY <1>1, <1>3, <1>7 DEF PoolIsCached, PoolFollows, Matches
<1>9. Pos = Len(request) /\ DOMAIN request = 1..Len(request)
  BY <1>1, PosIsNat DEF IInv
<1>10. RunsAsAskedOrReports'
  <2>1. \A i : Asked(i)' = Asked(i)
    BY <1>1 DEF Asked
  <2>2. ASSUME NEW i \in Single, pool'[i] # None  PROVE pool'[i].spec = Asked(i)
    <3>1. new_states[i] # None /\ pool'[i].spec = new_states[i].spec
      BY <1>7, <2>2
    <3>2. i \in Visited
      BY <1>3, <3>1 DEF IInv, UnvisitedAreAsBefore
    <3>3. PICK n \in 1..Pos : request[n].key = i
      BY <3>2 DEF Visited
    <3>4. new_states[i].spec = request[n].spec
      BY <1>3, <3>1, <3>3 DEF IInv, VisitedAreJudged
    <3>5. Asked(i) = request[n].spec
      BY <1>9, <3>3, AskedOnce DEF IInv
    <3>. QED  BY <3>1, <3>4, <3>5
  <2>3. ASSUME NEW i \in Identity, Asked(i) # None, pool'[i] = None  PROVE i \in errors'
    <3>1. PICK n \in 1..Pos : request[n].key = i
      BY <1>9, <2>3 DEF Asked
    <3>2. new_states[i] # None \/ i \in errors
      BY <1>3, <3>1 DEF IInv, VisitedAreCachedOrReported
    <3>3. new_states[i] # None => i \in failed
      BY <1>2, <1>4, <2>3, PassOfOne
    <3>. QED  BY <1>2, <3>2, <3>3
  <2>. QED  BY <1>3, <2>1, <2>2, <2>3 DEF RunsAsAskedOrReports
<1>. QED  BY <1>5, <1>6, <1>8, <1>10 DEF IInv

LEMMA StepSatisfies ==
  IInv /\ [Next]_vars => IInv'
<1>. SUFFICES ASSUME IInv, [Next]_vars  PROVE IInv'
  OBVIOUS
<1>1. TypeOK'
  BY TypesHold DEF IInv
<1>2. CASE \E l \in Lists : reconcile(l)
  BY <1>1, <1>2, CallSatisfies
<1>3. CASE \E i \in Identity : crash(i)
  BY <1>1, <1>3, CrashSatisfies
<1>4. CASE drop
  BY <1>1, <1>4, DropSatisfies
<1>5. CASE resolve_next
  BY <1>1, <1>5, ResolveSatisfies
<1>6. CASE resolve_none
  BY <1>1, <1>6, ResolveNoneSatisfies
<1>7. CASE first_pass
  BY <1>1, <1>7, FirstPassSatisfies
<1>8. CASE second_pass
  BY <1>1, <1>8, SecondPassSatisfies
<1>9. CASE UNCHANGED vars
  <2>1. /\ UNCHANGED <<pool, states, errors, new_states, resolved, needs_restart, todo, phase,
                       request, kept, repeated, edits, failures>>
    BY <1>9 DEF vars, call, owner
  <2>2. Calling' = Calling /\ Pos' = Pos /\ Visited' = Visited /\ Single' = Single
        /\ \A i : Asked(i)' = Asked(i)
    BY <2>1 DEF Calling, Pos, Visited, Single, Asked
  <2>3. TodoIsTheRest' /\ NamedOnce' /\ ResolvedIsCached' /\ LocalsAreEmpty'
    BY <2>1, <2>2 DEF IInv, TodoIsTheRest, NamedOnce, ResolvedIsCached, LocalsAreEmpty
  <2>4. UnvisitedAreAsBefore' /\ VisitedAreCachedOrReported' /\ VisitedAreJudged'
    BY <2>1, <2>2 DEF IInv, UnvisitedAreAsBefore, VisitedAreCachedOrReported, VisitedAreJudged
  <2>5. PoolIsCached' /\ RunsAsAskedOrReports'
    BY <2>1, <2>2 DEF IInv, PoolIsCached, PoolFollows, Matches, RunsAsAskedOrReports
  <2>. QED  BY <1>1, <2>3, <2>4, <2>5 DEF IInv
<1>. QED  BY <1>2, <1>3, <1>4, <1>5, <1>6, <1>7, <1>8, <1>9 DEF Next, Step

-----------------------------------------------------------------------------
(* What the owner sees: the map asked for, and the map of what runs.       *)

\* What a list asks of an identity.
AskedBy(l, i) ==
  LET at == {n \in DOMAIN l : l[n].key = i}
  IN  IF at = {} THEN None ELSE l[CHOOSE n \in at : \A m \in at : m <= n].spec

LEMMA AskedIsNamed ==
  ASSUME NEW l \in Seq(Spec), NEW i \in Identity
  PROVE  /\ AskedBy(l, i) \in Version \cup {None}
         /\ AskedBy(l, i) # None <=> \E n \in DOMAIN l : l[n].key = i
<1>. DEFINE at   == {n \in DOMAIN l : l[n].key = i}
            last == CHOOSE n \in at : \A m \in at : m <= n
<1>1. AskedBy(l, i) = IF at = {} THEN None ELSE l[last].spec
  BY DEF AskedBy
<1>2. CASE at = {}
  BY <1>1, <1>2
<1>3. CASE at # {}
  <2>1. at \in SUBSET (1..Len(l)) /\ Len(l) \in Nat
    OBVIOUS
  <2>2. last \in at
    BY <1>3, <2>1, LastPosition
  <2>3. l[last] \in Spec
    <3>1. last \in DOMAIN l
      BY <2>2
    <3>. HIDE DEF last
    <3>. QED  BY <3>1
  <2>4. l[last].spec \in Version
    BY <2>3 DEF Spec
  <2>. QED  BY <1>1, <1>3, <2>2, <2>4, NoneIsNothing
<1>. QED  BY <1>2, <1>3

\* The content a process runs with, if there is one.
Runs(i) == IF pool[i] = None THEN None ELSE pool[i].spec

\* Whom a call has cached or reported, its list names.
SeenAreAsked ==
  Calling => \A i \in Identity : i \in errors \/ new_states[i] # None => i \in Visited

LEMMA SeenInit == Init => SeenAreAsked
BY DEF Init, SeenAreAsked, Calling

LEMMA SeenStep ==
  ASSUME IInv, SeenAreAsked, [Next]_vars
  PROVE  SeenAreAsked'
<1>1. ASSUME UNCHANGED <<request, todo>>, phase' = phase \/ Calling,
             errors' = errors, new_states' = new_states
      PROVE  SeenAreAsked'
  BY <1>1 DEF SeenAreAsked, Calling, Visited, Pos
<1>2. ASSUME NEW l \in Lists, reconcile(l)  PROVE SeenAreAsked'
  <2>1. errors' = {} /\ new_states' = NoState
    BY <1>2 DEF reconcile, IInv, LocalsAreEmpty, Calling
  <2>. QED  BY <2>1 DEF SeenAreAsked, NoState
<1>3. ASSUME NEW i \in Identity, crash(i)  PROVE SeenAreAsked'
  BY <1>1, <1>3 DEF crash, call, owner
<1>4. CASE drop \/ second_pass
  BY <1>4 DEF drop, second_pass, SeenAreAsked, Calling
<1>5. CASE resolve_none \/ first_pass
  BY <1>1, <1>5 DEF resolve_none, first_pass, owner, Calling
<1>6. CASE resolve_next
  <2>. DEFINE s == Head(todo)
  <2>1. PICK c \in Source \cup {None} : Resolves(s, c)
    BY <1>6, Resolving DEF IInv
  <2>2. s.key \in Identity
    BY <1>6, HeadIsSpec DEF resolve_next, IInv
  <2>3. Visited' = Visited \cup {s.key} /\ Calling
    <3>1. /\ phase = "resolve" /\ todo # <<>> /\ todo' = Tail(todo) /\ request' = request
      BY <1>6 DEF resolve_next, owner
    <3>2. /\ Len(todo) \in Nat \ {0} /\ Len(todo') = Len(todo) - 1
          /\ s = todo[1] /\ 1 \in DOMAIN todo
      BY <3>1 DEF IInv, TypeOK
    <3>3. Len(request) \in Nat /\ Pos \in 0..Len(request)
      BY PosIsNat DEF IInv
    <3>4. s = request[Pos + 1]
      BY <3>2 DEF IInv, TodoIsTheRest
    <3>. HIDE DEF s
    <3>5. Pos' = Pos + 1
      BY <3>1, <3>2, <3>3 DEF Pos
    <3>6. 1..(Pos + 1) = 1..Pos \cup {Pos + 1}
      BY <3>3
    <3>. QED  BY <3>1, <3>4, <3>5, <3>6 DEF Visited, Calling
  <2>. HIDE DEF s
  <2>4. \A i \in Identity : i # s.key =>
          (i \in errors' <=> i \in errors) /\ new_states'[i] = new_states[i]
    BY <2>1, <2>2 DEF Resolves, IInv, TypeOK, Cache
  <2>. QED  BY <2>3, <2>4 DEF SeenAreAsked
<1>7. CASE UNCHANGED vars
  BY <1>1, <1>7 DEF vars, call, owner
<1>. QED  BY <1>2, <1>3, <1>4, <1>5, <1>6, <1>7 DEF Next, Step

\* Once the list is resolved, whom it names has been judged, by its only item.
LEMMA JudgedAsAsked ==
  ASSUME IInv, Calling, todo = <<>>, NEW i \in Single, Asked(i) # None
  PROVE  /\ states[i] = None
         /\ new_states[i] # None => new_states[i].spec = Asked(i)
         /\ kept[i] # None /\ kept[i].spec = Asked(i) =>
              new_states[i] = kept[i] /\ i \notin needs_restart
<1>1. Pos = Len(request) /\ DOMAIN request = 1..Len(request)
  BY PosIsNat DEF IInv
<1>2. PICK n \in 1..Pos : request[n].key = i
  BY <1>1 DEF Asked
<1>3. Asked(i) = request[n].spec
  BY <1>1, <1>2, AskedOnce DEF IInv
<1>. QED  BY <1>2, <1>3 DEF IInv, VisitedAreJudged

\* What a pass does to one process is what Supervision allows.
LEMMA PassTouches ==
  ASSUME IInv, SeenAreAsked, first_pass \/ second_pass, NEW i \in Single
  PROVE  \/ Runs(i)' = Runs(i)
         \/ Runs(i) = None /\ Runs(i)' = Asked(i)
         \/ Runs(i) # Asked(i) /\ Runs(i)' = None
<1>1. i \in Identity /\ Calling /\ todo = <<>>
  BY DEF first_pass, second_pass, Calling, IInv, TodoIsTheRest, Single
<1>2. wanted \in Cache /\ wanted[i] = new_states[i]
  BY WantedIsCached DEF IInv
<1>3. pool[i] # None => PoolFollows(i)
  BY DEF IInv, PoolIsCached
<1>4. PICK want \in Cache, failed \in SUBSET Identity :
        /\ Passes(want, failed)
        /\ \/ first_pass /\ want = Unchanged(wanted)
           \/ second_pass /\ want = wanted
  <2>1. CASE first_pass
    BY <1>2, <2>1, UnchangedIsCache DEF first_pass
  <2>2. CASE second_pass
    BY <1>2, <2>2 DEF second_pass
  <2>. QED  BY <2>1, <2>2
<1>5. /\ want[i] = None => pool'[i] = None
      /\ pool'[i] = pool[i] \/ pool'[i] = None \/ pool'[i] = Started(want[i])
      /\ want[i] # None /\ pool[i] # None => pool'[i] # None
  BY <1>1, <1>4, PassOfOne
<1>6. /\ want[i] # None => want[i] = new_states[i] /\ (first_pass => i \notin needs_restart)
      /\ new_states[i] # None /\ i \notin needs_restart => want[i] # None
      /\ second_pass => want[i] = new_states[i]
  BY <1>1, <1>2, <1>4 DEF Unchanged, first_pass, second_pass
<1>7. new_states[i] # None => Asked(i) # None
  <2>. SUFFICES ASSUME new_states[i] # None PROVE Asked(i) # None
    OBVIOUS
  <2>1. i \in Visited
    BY <1>1 DEF SeenAreAsked
  <2>2. \E n \in DOMAIN request : request[n].key = i
    BY <1>1, <2>1, PosIsNat DEF Visited, IInv
  <2>3. Asked(i) = AskedBy(request, i) /\ request \in Seq(Spec)
    BY DEF Asked, AskedBy, IInv, TypeOK
  <2>. QED  BY <1>1, <2>2, <2>3, AskedIsNamed
<1>8. CASE pool'[i] = pool[i]
  BY <1>8 DEF Runs
<1>9. CASE pool'[i] # None /\ pool'[i] = Started(want[i])
  <2>1. want[i] # None /\ new_states[i] = want[i]
    BY <1>5, <1>6, <1>9
  <2>2. Runs(i)' = new_states[i].spec
    BY <1>9, <2>1 DEF Runs, Started
  <2>3. new_states[i].spec = Asked(i)
    BY <1>1, <1>7, <2>1, JudgedAsAsked
  <2>4. CASE pool[i] = None
    BY <2>2, <2>3, <2>4 DEF Runs
  <2>5. CASE pool[i] # None
    <3>1. CASE first_pass
      <4>1. Matches(i, kept)
        BY <1>3, <2>5, <3>1 DEF first_pass, PoolFollows
      <4>2. new_states[i] = kept[i]
        BY <1>1, <1>6, <2>1, <3>1, <4>1, CachesAgree DEF IInv, Matches
      <4>. QED  BY <2>2, <2>5, <4>1, <4>2 DEF Matches, Runs
    <3>2. CASE second_pass
      <4>1. Matches(i, new_states)
        BY <1>3, <2>1, <2>5, <3>2 DEF second_pass, PoolFollows
      <4>. QED  BY <2>2, <2>5, <4>1 DEF Matches, Runs
    <3>. QED  BY <3>1, <3>2
  <2>. QED  BY <2>4, <2>5
<1>10. CASE pool[i] # None /\ pool'[i] = None
  <2>. SUFFICES ASSUME pool[i].spec = Asked(i)  PROVE FALSE
    BY <1>10 DEF Runs
  <2>1. Asked(i) # None
    <3>1. pool[i] \in Process
      BY <1>1, <1>10 DEF IInv, TypeOK
    <3>. QED  BY <3>1, NoneIsNothing DEF Process
  <2>2. want[i] = None
    BY <1>5, <1>10
  <2>3. CASE first_pass
    <3>1. Matches(i, kept)
      BY <1>3, <1>10, <2>3 DEF first_pass, PoolFollows
    <3>2. new_states[i] = kept[i] /\ i \notin needs_restart /\ kept[i] # None
      BY <1>1, <2>1, <3>1, JudgedAsAsked DEF Matches
    <3>. QED  BY <1>6, <2>2, <3>2
  <2>4. CASE second_pass
    <3>1. Matches(i, states)
      BY <1>3, <1>6, <1>10, <2>2, <2>4 DEF second_pass, PoolFollows
    <3>. QED  BY <1>1, <2>1, <3>1, JudgedAsAsked DEF Matches
  <2>. QED  BY <2>3, <2>4
<1>. QED  BY <1>5, <1>8, <1>9, <1>10

\* The owner's maps are maps of the abstract specification.
WantedMap  == [i \in Identity |-> Asked(i)]
RunningMap == [i \in Identity |-> Runs(i)]

LEMMA AskedIsTyped ==
  ASSUME TypeOK, NEW i \in Identity
  PROVE  /\ Asked(i) \in Version \cup {None}
         /\ Asked(i) # None <=> \E n \in DOMAIN request : request[n].key = i
<1>1. Asked(i) = AskedBy(request, i) /\ request \in Seq(Spec)
  BY DEF Asked, AskedBy, TypeOK
<1>. QED  BY <1>1, AskedIsNamed

\* What a pass does to the processes, Supervision allows.
LEMMA PassIsTouched ==
  ASSUME IInv, IInv', SeenAreAsked, first_pass \/ second_pass
  PROVE  Promise!Touched
<1>1. RunningMap' \in [Identity -> Version \cup {None}]
  BY DEF RunningMap, Runs, IInv, TypeOK, Process
<1>2. \A k \in Identity \ repeated : Promise!Touches(k)
  <2>. TAKE k \in Identity \ repeated
  <2>1. \/ Runs(k)' = Runs(k)
        \/ Runs(k) = None /\ Runs(k)' = Asked(k)
        \/ Runs(k) # Asked(k) /\ Runs(k)' = None
    BY PassTouches DEF Single
  <2>. QED  BY <2>1 DEF Promise!Touches, Runs
<1>. QED  BY <1>1, <1>2 DEF Promise!Touched, Promise!Store, RunningMap, Runs

\* A call ends as Supervision says.
LEMMA SecondPassReturns ==
  ASSUME IInv, IInv', SeenAreAsked, second_pass
  PROVE  Promise!Return
<1>1. /\ phase = "second" /\ phase' = "idle" /\ todo = <<>> /\ Calling
      /\ UNCHANGED <<request, repeated>>
  BY DEF second_pass, owner, Calling, IInv, TodoIsTheRest
<1>2. \A i : Asked(i)' = Asked(i)
  BY <1>1 DEF Asked
<1>3. Promise!Touched
  BY PassIsTouched
<1>4. PICK failed \in SUBSET Identity : Passes(wanted, failed) /\ errors' = errors \cup failed
  BY DEF second_pass
<1>5. wanted \in Cache /\ \A i \in Identity : wanted[i] # None <=> new_states[i] # None
  BY WantedIsCached DEF IInv
<1>6. ASSUME NEW i \in Identity, i \in errors \/ new_states[i] # None
      PROVE  Asked(i) # None
  <2>1. i \in Visited
    BY <1>1, <1>6 DEF SeenAreAsked
  <2>2. \E n \in DOMAIN request : request[n].key = i
    BY <1>1, <2>1, PosIsNat DEF Visited, IInv
  <2>. QED  BY <2>2, AskedIsTyped DEF IInv
<1>7. ASSUME NEW i \in errors'  PROVE i \in Identity /\ Asked(i) # None
  <2>1. i \in Identity
    BY <1>4, <1>7 DEF IInv, TypeOK
  <2>. QED  BY <1>4, <1>5, <1>6, <1>7, <2>1, PassOfOne
<1>8. ASSUME NEW i \in Identity, pool'[i] # None  PROVE Asked(i) # None /\ Runs(i)' # None
  <2>1. Asked(i) # None
    BY <1>4, <1>5, <1>6, <1>8, PassOfOne
  <2>2. pool'[i] \in Process
    BY <1>8 DEF IInv, TypeOK
  <2>. QED  BY <1>8, <2>1, <2>2, NoneIsNothing DEF Runs, Process
<1>9. /\ \A i \in Single : pool'[i] # None => pool'[i].spec = Asked(i)
      /\ \A i \in Identity : Asked(i) # None /\ pool'[i] = None => i \in errors'
  BY <1>1, <1>2 DEF IInv, RunsAsAskedOrReports, Single
<1>10. Promise!Held(WantedMap) = {i \in Identity : Asked(i) # None}
  BY DEF Promise!Held, WantedMap
<1>11. Promise!Held(RunningMap') = {i \in Identity : pool'[i] # None}
  BY <1>8 DEF Promise!Held, RunningMap, Runs
<1>12. errors' \in SUBSET Promise!Held(WantedMap)
  BY <1>7, <1>10
<1>13. Promise!Held(WantedMap) \ errors' \subseteq Promise!Held(RunningMap')
  BY <1>9, <1>10, <1>11
<1>14. Promise!Held(RunningMap') \subseteq Promise!Held(WantedMap)
  BY <1>8, <1>10, <1>11
<1>15. \A k \in Promise!Held(RunningMap') \ repeated : RunningMap'[k] = WantedMap[k]
  BY <1>9, <1>11 DEF RunningMap, WantedMap, Runs, Single
<1>16. WantedMap' = WantedMap
  BY <1>2 DEF WantedMap
<1>. QED  BY <1>1, <1>3, <1>12, <1>13, <1>14, <1>15, <1>16
          DEF Promise!Return, RunningMap, WantedMap, Runs

\* Every step of the supervisor is one its owner can make sense of.
LEMMA StepKeepsPromise ==
  ASSUME IInv, IInv', SeenAreAsked, [Next]_vars
  PROVE  [Promise!Next]_(Promise!vars)
<1>1. ASSUME NEW l \in Lists, reconcile(l)  PROVE Promise!Call
  <2>1. /\ phase = "idle" /\ phase' = "resolve" /\ UNCHANGED pool
        /\ repeated' = repeated \cup Repeats(l)
    BY <1>1 DEF reconcile
  <2>2. WantedMap' \in [Identity -> Version \cup {None}]
    <3>. SUFFICES ASSUME NEW i \in Identity  PROVE Asked(i)' \in Version \cup {None}
      BY DEF WantedMap
    <3>1. Asked(i)' = AskedBy(request', i) /\ request' \in Seq(Spec)
      BY DEF Asked, AskedBy, IInv, TypeOK
    <3>. QED  BY <3>1, AskedIsNamed
  <2>3. repeated' \in SUBSET Identity
    BY DEF IInv, TypeOK
  <2>. QED  BY <2>1, <2>2, <2>3 DEF Promise!Call, Promise!Store, WantedMap
<1>2. ASSUME UNCHANGED <<request, repeated, errors>>, phase' = phase \/ (Calling /\ Calling'),
             \A i \in Identity : Runs(i)' = Runs(i)
      PROVE  UNCHANGED Promise!vars
  <2>1. \A i : Asked(i)' = Asked(i)
    BY <1>2 DEF Asked
  <2>. QED  BY <1>2, <2>1 DEF Promise!vars, Runs, Calling
<1>3. ASSUME NEW i \in Identity, crash(i)  PROVE UNCHANGED Promise!vars
  <2>1. UNCHANGED <<request, repeated, errors, phase>>
    BY <1>3 DEF crash, call, owner
  <2>2. \A j \in Identity : Runs(j)' = Runs(j)
    <3>1. /\ pool[i] # None /\ pool' = [pool EXCEPT ![i].up = FALSE]
          /\ pool \in [Identity -> Process \cup {None}]
      BY <1>3 DEF crash, IInv, TypeOK
    <3>2. pool[i] \in Process
      BY <3>1
    <3>3. pool'[i] = [pool[i] EXCEPT !.up = FALSE]
      BY <3>1
    <3>4. pool'[i] # None /\ pool'[i].spec = pool[i].spec
      BY <3>2, <3>3, NoneIsNothing DEF Process
    <3>. QED  BY <3>1, <3>4 DEF Runs
  <2>. QED  BY <1>2, <2>1, <2>2
<1>4. CASE drop
  <2>1. /\ phase = "idle" /\ phase' = "dropped" /\ pool' = NoState
        /\ UNCHANGED <<request, repeated, errors>>
    BY <1>4 DEF drop, owner
  <2>2. \A i : Asked(i)' = Asked(i)
    BY <2>1 DEF Asked
  <2>3. Promise!Drop
    BY <2>1, <2>2 DEF Promise!Drop, Promise!Empty, NoState
  <2>. QED  BY <2>3 DEF Promise!Next
<1>5. CASE resolve_next \/ resolve_none
  <2>1. UNCHANGED <<request, repeated, pool>> /\ Calling /\ Calling'
    BY <1>5 DEF resolve_next, resolve_none, owner, Calling, After
  <2>2. \A i : Asked(i)' = Asked(i)
    BY <2>1 DEF Asked
  <2>. QED  BY <2>1, <2>2 DEF Promise!vars, Calling
<1>6. CASE first_pass
  <2>1. UNCHANGED <<request, repeated>> /\ phase = "first" /\ phase' = "second"
    BY <1>6 DEF first_pass, owner
  <2>2. \A i : Asked(i)' = Asked(i)
    BY <2>1 DEF Asked
  <2>3. Promise!Work
    BY <1>6, <2>1, <2>2, PassIsTouched DEF Promise!Work
  <2>. QED  BY <2>3 DEF Promise!Next
<1>7. CASE second_pass
  BY <1>7, SecondPassReturns DEF Promise!Next
<1>8. CASE UNCHANGED vars
  BY <1>2, <1>8 DEF vars, call, owner, Runs
<1>. QED  BY <1>1, <1>3, <1>4, <1>5, <1>6, <1>7, <1>8 DEF Next, Step, Promise!Next

-----------------------------------------------------------------------------
(* Theorems.                                                               *)

\* The inductive invariant of ProcessSupervisor::reconcile: what each spec that
\* has been resolved was found to be, and which cache the pool goes by.
THEOREM Invariance == SafeSpec => []IInv
<1>. QED  BY InitSatisfies, StepSatisfies, PTL DEF SafeSpec

\* Every variable keeps its type.
THEOREM TypeCorrect == SafeSpec => []TypeOK
<1>1. IInv => TypeOK
  BY DEF IInv
<1>. QED  BY <1>1, Invariance, PTL

\* Between calls the cache describes the pool, for any lists, any failures of
\* resolutions and spawns, and crashes at any moment (supervisor.rs:127).
THEOREM CacheIsTrue == SafeSpec => []CacheDescribesPool
<1>1. IInv => CacheDescribesPool
  BY DEF IInv, PoolIsCached, PoolFollows, Matches, CacheDescribesPool
<1>. QED  BY <1>1, Invariance, PTL

\* What runs is what the last call asked for, and what it asked for and does not
\* run is named by an error, although the first pass throws its errors away.
THEOREM NoFailureIsLost == SafeSpec => []RunsAsAskedOrReports
<1>1. IInv => RunsAsAskedOrReports
  BY DEF IInv
<1>. QED  BY <1>1, Invariance, PTL

\* A process has its temporary file until its changed spec has been seen.
THEOREM FilesOutliveTheirProcess == SafeSpec => []OnlyRestartsLoseTheirFile
<1>1. IInv => OnlyRestartsLoseTheirFile
  <2>. SUFFICES ASSUME IInv, NEW i \in Single, pool[i] # None, pool[i].file \notin Files
                PROVE  i \in needs_restart /\ phase \in {"resolve", "first"}
    BY DEF OnlyRestartsLoseTheirFile
  <2>1. i \in Identity /\ PoolFollows(i)
    BY DEF IInv, PoolIsCached, Single
  <2>2. ~Matches(i, states) /\ ~Matches(i, new_states)
    BY <2>1 DEF Matches, Files, Kept
  <2>3. phase \in {"resolve", "first"}
    BY <2>1, <2>2 DEF PoolFollows, IInv, TypeOK
  <2>4. Matches(i, kept) /\ Calling
    BY <2>1, <2>3 DEF PoolFollows, Calling
  <2>5. states[i] # kept[i] /\ new_states[i] # kept[i]
    BY <2>2, <2>4 DEF Matches
  <2>6. i \in needs_restart
    BY <2>4, <2>5, CachesAgree DEF IInv, Matches
  <2>. QED  BY <2>3, <2>6
<1>. QED  BY <1>1, Invariance, PTL

\* A process whose spec did not change is not stopped by a call, whatever
\* changes, fails or crashes beside it.
UnchangedAreLeftAlone ==
  [][ \A i \in Single :
        (pool[i] # None /\ pool'[i] = None /\ phase' # "dropped") =>
          kept[i] = None \/ kept[i].spec # Asked(i) ]_vars

\* No pass stops a process whose spec did not change.
THEOREM UnchangedSurvive == SafeSpec => UnchangedAreLeftAlone
<1>1. ASSUME IInv, [Next]_vars
      PROVE  [\A i \in Single :
                (pool[i] # None /\ pool'[i] = None /\ phase' # "dropped") =>
                  kept[i] = None \/ kept[i].spec # Asked(i)]_vars
  <2>. SUFFICES ASSUME Next, NEW i \in Single, pool[i] # None, pool'[i] = None,
                       phase' # "dropped", kept[i] # None, kept[i].spec = Asked(i)
                PROVE  FALSE
    BY <1>1
  <2>1. CASE pool' = pool
    BY <2>1
  <2>2. ASSUME NEW j \in Identity, crash(j)  PROVE FALSE
    <3>1. pool[j] # None /\ pool \in [Identity -> Process \cup {None}]
      BY <1>1, <2>2 DEF crash, IInv, TypeOK
    <3>2. pool' = [pool EXCEPT ![j] = [pool[j] EXCEPT !.up = FALSE]]
          /\ [pool[j] EXCEPT !.up = FALSE] \in Process
      BY <2>2, <3>1 DEF crash, Process
    <3>. QED  BY <3>1, <3>2, NoneIsNothing DEF Single
  <2>3. CASE first_pass \/ second_pass
    <3>1. i \in Identity /\ Calling /\ todo = <<>> /\ PoolFollows(i)
      BY <1>1, <2>3 DEF first_pass, second_pass, Calling, IInv, TodoIsTheRest, PoolIsCached,
                        Single
    <3>2. wanted \in Cache /\ wanted[i] = new_states[i]
      BY <1>1, WantedIsCached DEF IInv
    <3>3. i \in needs_restart \/ new_states[i] = None
      <4>1. CASE first_pass
        <5>1. PICK failed \in SUBSET Identity : Passes(Unchanged(wanted), failed)
          BY <4>1 DEF first_pass
        <5>2. Unchanged(wanted)[i] = None
          BY <3>1, <3>2, <5>1, PassOfOne, UnchangedIsCache
        <5>. QED  BY <3>1, <3>2, <5>2 DEF Unchanged
      <4>2. CASE second_pass
        <5>1. PICK failed \in SUBSET Identity : Passes(wanted, failed)
          BY <4>2 DEF second_pass
        <5>. QED  BY <3>1, <3>2, <5>1, PassOfOne
      <4>. QED  BY <2>3, <4>1, <4>2
    <3>4. Pos = Len(request) /\ DOMAIN request = 1..Len(request)
      BY <1>1, <3>1, PosIsNat DEF IInv
    <3>5. Asked(i) # None
      <4>1. kept[i] \in Source
        BY <1>1, <3>1 DEF IInv, TypeOK, Cache
      <4>. QED  BY <4>1, NoneIsNothing DEF Source
    <3>6. PICK n \in 1..Pos : request[n].key = i
      BY <3>4, <3>5 DEF Asked
    <3>7. Asked(i) = request[n].spec
      BY <1>1, <3>4, <3>6, AskedOnce DEF IInv
    <3>8. new_states[i] = kept[i] /\ i \notin needs_restart
      BY <1>1, <3>1, <3>6, <3>7 DEF IInv, VisitedAreJudged
    <3>. QED  BY <3>3, <3>8
  <2>4. CASE (\E l \in Lists : reconcile(l)) \/ resolve_next \/ resolve_none
    BY <2>1, <2>4 DEF reconcile, resolve_next, resolve_none
  <2>5. CASE drop
    BY <2>5 DEF drop
  <2>. QED  BY <2>2, <2>3, <2>4, <2>5 DEF Next, Step
<1>. QED  BY <1>1, Invariance, PTL DEF SafeSpec, UnchangedAreLeftAlone

\* Seen by its owner, the supervisor implements Supervision: the first pass and
\* the second, the cache they go by, the resolutions that fail and the crashes
\* in between come to a map of what is wanted to what runs.
THEOREM Refinement == SafeSpec => ImplementsSupervision
<1>1. Init => Promise!Init
  <2>. SUFFICES ASSUME Init  PROVE Promise!Init
    OBVIOUS
  <2>1. request = <<>> /\ DOMAIN request = {}
    BY DEF Init
  <2>2. \A i : Asked(i) = None
    BY <2>1 DEF Asked
  <2>. QED  BY <2>2 DEF Init, Promise!Init, Promise!Empty, NoState
<1>2. IInv /\ IInv' /\ SeenAreAsked /\ [Next]_vars => [Promise!Next]_(Promise!vars)
  BY StepKeepsPromise
<1>3. SafeSpec => []SeenAreAsked
  BY Invariance, SeenInit, SeenStep, PTL DEF SafeSpec
<1>. QED  BY <1>1, <1>2, <1>3, Invariance, PTL DEF SafeSpec, ImplementsSupervision, Promise!Spec

-----------------------------------------------------------------------------
(* The pool keeps the contract of the set it is.                           *)

\* Who is in a map, whatever is said of them: a process that runs goes on, also
\* when its source says something else now.
Present     == CHOOSE x : x # None
Presence(m) == [i \in Identity |-> IF m[i] = None THEN None ELSE Present]

Contract == INSTANCE Reconcile WITH
  Key      <- Identity,
  Value    <- {Present},
  wanted   <- Presence(wanted),
  tracked  <- Presence(pool),
  reported <- errors

\* A pass of the pool towards want is a call of a set; what it reports in the
\* second pass is among the errors of the call.
Settled(want) ==
  \E failed \in SUBSET Identity :
    /\ Contract!Settles(Presence(pool), Presence(want), failed, Presence(pool'))
    /\ phase = "second" => errors' = errors \cup failed

\* Each of the two passes of a call does to the pool what Reconcile lets a call
\* do to a set, the first one towards what did not change (supervisor.rs:111-129).
PassesKeepTheContract ==
  [][ /\ phase = "first" => Settled(Unchanged(wanted))
      /\ phase = "second" => Settled(wanted) ]_phase

LEMMA SomethingIsPresent == Present # None
<1>1. \E x : x # None
  <2>1. CASE None = {}
    <3>1. {{}} # None
      BY <2>1
    <3>. QED  BY <3>1
  <2>2. CASE None # {}
    BY <2>2
  <2>. QED  BY <2>1, <2>2
<1>. QED  BY <1>1 DEF Present

LEMMA PassSettles ==
  ASSUME TypeOK, NEW want \in Cache, NEW failed \in SUBSET Identity, Passes(want, failed)
  PROVE  Contract!Settles(Presence(pool), Presence(want), failed, Presence(pool)')
<1>1. PICK failing \in SUBSET Identity, waiting \in SUBSET Identity :
         PoolPass(want, failing, waiting, failed)
  BY DEF Passes
<1>. DEFINE s == Presence(pool)
            w == Presence(want)
            t == Presence(pool)'
<1>2. \A i \in Identity : /\ s[i] = None <=> pool[i] = None
                          /\ w[i] = None <=> want[i] = None
                          /\ t[i] = None <=> pool'[i] = None
                          /\ {s[i], w[i], t[i]} \subseteq {None, Present}
  BY SomethingIsPresent DEF Presence
<1>. HIDE DEF s, w, t
<1>3. \A i \in Identity :
        /\ i \in failed => want[i] # None /\ pool'[i] = pool[i]
        /\ i \notin failed => ((pool'[i] = None) <=> (want[i] = None))
  <2>. SUFFICES ASSUME NEW i \in Identity
                PROVE  /\ i \in failed => want[i] # None /\ pool'[i] = pool[i]
                       /\ i \notin failed => ((pool'[i] = None) <=> (want[i] = None))
    OBVIOUS
  <2>1. i \in failed => i \in failing
    BY <1>1 DEF PoolPass
  <2>2. i \in failed => want[i] # None /\ pool'[i] = pool[i]
    BY <1>1, <2>1 DEF PoolPass
  <2>. QED  BY <2>2, PassOfOne
<1>4. failed \subseteq Contract!Held(s) \cup Contract!Held(w)
  BY <1>2, <1>3 DEF Contract!Held
<1>5. \A i \in Identity \ failed : t[i] = w[i]
  BY <1>2, <1>3
<1>6. \A i \in failed : (i \in Contract!Held(t)) <=> (i \in Contract!Held(s) \cap Contract!Held(w))
  BY <1>2, <1>3 DEF Contract!Held
<1>7. Contract!Settles(s, w, failed, t)
  BY <1>4, <1>5, <1>6 DEF Contract!Settles
<1>. QED  BY <1>7 DEF s, w, t

\* Both passes of every call keep the contract of the set the pool is.
THEOREM PassesAreCalls == SafeSpec => PassesKeepTheContract
<1>1. ASSUME TypeOK, [Next]_vars
      PROVE  [ /\ phase = "first" => Settled(Unchanged(wanted))
               /\ phase = "second" => Settled(wanted) ]_phase
  <2>. SUFFICES ASSUME phase' # phase
                PROVE  /\ phase = "first" => Settled(Unchanged(wanted))
                       /\ phase = "second" => Settled(wanted)
    OBVIOUS
  <2>1. wanted \in Cache /\ Unchanged(wanted) \in Cache
    BY <1>1, WantedIsResolved, UnchangedIsCache
  <2>2. CASE first_pass
    <3>1. PICK failed \in SUBSET Identity : Passes(Unchanged(wanted), failed)
      BY <2>2 DEF first_pass
    <3>2. Contract!Settles(Presence(pool), Presence(Unchanged(wanted)), failed, Presence(pool)')
      BY <1>1, <2>1, <3>1, PassSettles
    <3>. QED  BY <2>2, <3>2 DEF first_pass, Settled, Presence
  <2>3. CASE second_pass
    <3>1. PICK failed \in SUBSET Identity : Passes(wanted, failed) /\ errors' = errors \cup failed
      BY <2>3 DEF second_pass
    <3>2. Contract!Settles(Presence(pool), Presence(wanted), failed, Presence(pool)')
      BY <1>1, <2>1, <3>1, PassSettles
    <3>. QED  BY <2>3, <3>1, <3>2 DEF second_pass, Settled, Presence
  <2>4. CASE ~first_pass /\ ~second_pass
    BY <1>1, <2>4 DEF Next, Step, reconcile, crash, drop, resolve_next, resolve_none, vars, call
  <2>. QED  BY <2>2, <2>3, <2>4
<1>. QED  BY <1>1, TypeCorrect, PTL DEF SafeSpec, PassesKeepTheContract
=============================================================================
