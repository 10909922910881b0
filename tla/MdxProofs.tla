------------------------------ MODULE MdxProofs ------------------------------
(***************************************************************************)
(* Proofs about the two loops of optative-script-mdx: EsmScan, for         *)
(* statements of any length and any nesting, and MdxLower, for documents   *)
(* of any length.                                                          *)
(*                                                                         *)
(* EsmScan.  The modes of the scanner, each inside the one before, spell   *)
(* out what is open: from the mark of a mode, which is the quote or the    *)
(* `${` it was entered by, to that of the next there are its brackets, and *)
(* a comment comes last (Laid, OpenIsKnown).                               *)
(*                                                                         *)
(* MdxLower.  What is directly under a heading is fixed by positions       *)
(* alone, so a section keeps what it holds until its heading is closed:    *)
(* the next node is directly under the section on top and under no other   *)
(* (NextIsUnderTop), and after a closing heading nothing is under what it  *)
(* closes (NothingMore).  From where sections have their children follows  *)
(* the order in which they are read (HeldIsReadInOrder).                   *)
(***************************************************************************)
EXTENDS MdxLower, EsmScan, SequenceTheorems, WellFoundedInduction, TLAPS

-----------------------------------------------------------------------------
(* EsmScan: modes, and what they have open.                                  *)

ModeType == [in : {"Code"}, brackets : Seq(Bracket)] \cup [in : Quote, brackets : {<<>>}]
Opener   == DOMAIN Closer

ScanTypeOK ==
  /\ mode \in ModeType /\ resume \in Seq(ModeType)
  /\ comment \in Comment \cup {"none"} /\ open \in Seq(Opener)

\* What opens a mode inside another.
OpenedBy(m) == IF m.in = "Code" THEN "${" ELSE m.in

\* Which mode may be around which.
Inside(m, around) ==
  /\ around.in = "Code" => m.in # "Code"
  /\ around.in # "Code" => around.in = "Template" /\ m.in = "Code"

\* The modes M, each inside the one before, leave open what o lists; the mark of
\* the i-th is at p[i], its brackets follow.
Laid(M, o, p) ==
  /\ Len(M) > 0 /\ M[1].in = "Code"
  /\ p \in [1..Len(M) -> Nat] /\ p[1] = 0
  /\ Len(o) = p[Len(M)] + Len(M[Len(M)].brackets)
  /\ \A i \in 1..(Len(M) - 1) :
       /\ p[i + 1] = p[i] + Len(M[i].brackets) + 1
       /\ o[p[i + 1]] = OpenedBy(M[i + 1])
       /\ Inside(M[i + 1], M[i])
  /\ \A i, k \in 1..Len(M) : i < k => p[i] + Len(M[i].brackets) < p[k]
  /\ \A i \in 1..Len(M) : \A j \in 1..Len(M[i].brackets) : o[p[i] + j] = M[i].brackets[j]

Open(M, o) == \E p : Laid(M, o, p)

\* The modes of the scanner, and what is open but for a comment.
Modes    == Append(resume, mode)
Nested   == IF comment = "none" THEN open ELSE Front(open)
OpenIsKnown ==
  /\ Open(Modes, Nested)
  /\ comment # "none" => open # <<>> /\ Last(open) = comment /\ mode.in = "Code"

ScanIInv == ScanTypeOK /\ OpenIsKnown

-----------------------------------------------------------------------------
(* Sequences.                                                                *)

LEMMA FrontLast ==
  ASSUME NEW S, NEW s \in Seq(S), s # <<>>
  PROVE  /\ Len(s) \in Nat \ {0} /\ Last(s) = s[Len(s)] /\ Last(s) \in S
         /\ Front(s) \in Seq(S) /\ Len(Front(s)) = Len(s) - 1
         /\ \A i \in 1..(Len(s) - 1) : Front(s)[i] = s[i]
<1>1. Len(s) \in Nat \ {0} /\ \A i \in 1..Len(s) : s[i] \in S
  BY EmptySeq, ElementOfSeq
<1>2. Front(s) = SubSeq(s, 1, Len(s) - 1)
  BY DEF Front
<1>3. \A i \in 1..(Len(s) - 1) : s[i] \in S
  BY <1>1
<1>4. /\ SubSeq(s, 1, Len(s) - 1) \in Seq(S)
      /\ Len(SubSeq(s, 1, Len(s) - 1)) = Len(s) - 1
      /\ \A i \in 1..(Len(s) - 1) : SubSeq(s, 1, Len(s) - 1)[i] = s[i]
  <2> DEFINE n == Len(s) - 1
             t == SubSeq(s, 1, n)
  <2>1. 1 \in Int /\ n \in Nat /\ n \in Int /\ \A i \in 1..n : s[i] \in S
    BY <1>1
  <2>. HIDE DEF n
  <2>2. /\ t \in Seq(S) /\ Len(t) = (IF 1 <= n THEN n - 1 + 1 ELSE 0)
        /\ \A i \in 1..(n - 1 + 1) : t[i] = s[1 + i - 1]
    BY <2>1, SubSeqProperties
  <2>3. \A i \in 1..n : t[i] = s[i]
    <3>. SUFFICES ASSUME NEW i \in 1..n PROVE t[i] = s[i]
      OBVIOUS
    <3>1. 1 + i - 1 = i /\ i \in 1..(n - 1 + 1)
      BY <2>1
    <3>. QED BY <2>2, <3>1
  <2>4. Len(t) = n
    BY <2>1, <2>2
  <2>. QED BY <2>2, <2>3, <2>4 DEF n
<1>. QED BY <1>1, <1>2, <1>4 DEF Last

LEMMA AppendProps ==
  ASSUME NEW S, NEW s \in Seq(S), NEW x \in S
  PROVE  /\ Append(s, x) \in Seq(S) /\ Len(s) \in Nat /\ Len(Append(s, x)) = Len(s) + 1
         /\ \A i \in 1..Len(s) : Append(s, x)[i] = s[i]
         /\ Append(s, x)[Len(s) + 1] = x
BY AppendProperties, LenProperties

LEMMA AppendIs ==
  ASSUME NEW S, NEW s \in Seq(S), NEW x \in S, NEW t, t = Append(s, x), NEW n, n = Len(s) + 1
  PROVE  /\ n \in Nat /\ Len(t) = n /\ t \in Seq(S) /\ t[n] = x
         /\ \A i \in 1..(n - 1) : t[i] = s[i]
<1>1. /\ t \in Seq(S) /\ Len(s) \in Nat /\ Len(t) = Len(s) + 1 /\ t[Len(s) + 1] = x
      /\ \A i \in 1..Len(s) : t[i] = s[i]
  BY AppendProps
<1>2. n - 1 = Len(s) /\ n \in Nat
  BY <1>1
<1>. QED BY <1>1, <1>2

-----------------------------------------------------------------------------
(* EsmScan: modes that are entered, left or changed.                         *)

LEMMA ModesHaveTypes ==
  ASSUME NEW m \in ModeType
  PROVE  /\ m.brackets \in Seq(Bracket) /\ Len(m.brackets) \in Nat
         /\ m.in \in Quote \cup {"Code"} /\ (m.in # "Code" => m.brackets = <<>>)
         /\ OpenedBy(m) \in Opener /\ OpenedBy(m) \notin Bracket
BY EmptySeq, LenProperties DEF ModeType, OpenedBy, Opener, Quote, Bracket, Closer

\* What is open in the i-th mode lies within what is open.
LEMMA Bounds ==
  ASSUME NEW M \in Seq(ModeType), NEW o \in Seq(Opener), NEW p, Laid(M, o, p),
         NEW i \in 1..Len(M)
  PROVE  /\ p[i] \in Nat /\ M[i] \in ModeType /\ Len(M[i].brackets) \in Nat
         /\ p[i] + Len(M[i].brackets) <= Len(o)
         /\ i # 1 => p[i] > 0
<1> DEFINE n == Len(M)
<1>1. n \in Nat \ {0} /\ Len(o) \in Nat /\ \A k \in 1..n : M[k] \in ModeType
  BY ElementOfSeq, EmptySeq, LenProperties DEF Laid
<1>2. \A k \in 1..n : p[k] \in Nat /\ Len(M[k].brackets) \in Nat
  BY <1>1, ModesHaveTypes DEF Laid
<1>3. Len(o) = p[n] + Len(M[n].brackets) /\ p[1] = 0
  BY DEF Laid
<1>4. \A k, l \in 1..n : k < l => p[k] + Len(M[k].brackets) < p[l]
  BY DEF Laid
<1>. HIDE DEF n
<1>5. 1 \in 1..n /\ n \in 1..n /\ i \in 1..n
  BY <1>1 DEF n
<1>6. i # n => p[i] + Len(M[i].brackets) < p[n]
  BY <1>1, <1>4, <1>5
<1>7. i # 1 => p[1] + Len(M[1].brackets) < p[i]
  BY <1>1, <1>4, <1>5
<1>. QED BY SMTT(30), <1>1, <1>2, <1>3, <1>5, <1>6, <1>7

\* Another mode is entered.
LEMMA Pushed ==
  ASSUME NEW M \in Seq(ModeType), NEW o \in Seq(Opener), NEW m \in ModeType,
         Open(M, o), m.brackets = <<>>, Inside(m, M[Len(M)])
  PROVE  Open(Append(M, m), Append(o, OpenedBy(m)))
<1>1. PICK p : Laid(M, o, p)
  BY DEF Open
<1> DEFINE n == Len(M)
           N == Append(M, m)
           q == [i \in 1..(n + 1) |-> IF i <= n THEN p[i] ELSE Len(o) + 1]
           u == Append(o, OpenedBy(m))
<1>2. /\ n \in Nat \ {0} /\ Len(N) = n + 1 /\ N[n + 1] = m
      /\ \A i \in 1..n : N[i] = M[i] /\ M[i] \in ModeType
  BY <1>1, AppendProps, ElementOfSeq DEF Laid
<1>3. /\ Len(o) \in Nat /\ Len(u) = Len(o) + 1 /\ u[Len(o) + 1] = OpenedBy(m)
      /\ \A i \in 1..Len(o) : u[i] = o[i]
  BY ModesHaveTypes, AppendProps
<1>4. \A i \in 1..n : Len(M[i].brackets) \in Nat
  BY <1>2, ModesHaveTypes
<1>. HIDE DEF N, u
<1>5. q \in [1..Len(N) -> Nat] /\ q[1] = 0 /\ N[1].in = "Code"
  BY <1>1, <1>2, <1>3 DEF Laid
<1>6. Len(u) = q[Len(N)] + Len(N[Len(N)].brackets)
  BY <1>2, <1>3, EmptySeq
<1>7. ASSUME NEW i \in 1..(Len(N) - 1)
      PROVE  /\ q[i + 1] = q[i] + Len(N[i].brackets) + 1
             /\ u[q[i + 1]] = OpenedBy(N[i + 1])
             /\ Inside(N[i + 1], N[i])
  <2>1. CASE i = n
    BY <1>1, <1>2, <1>3, <2>1 DEF Laid
  <2>2. CASE i \in 1..(n - 1)
    <3>1. /\ p[i + 1] = p[i] + Len(M[i].brackets) + 1 /\ o[p[i + 1]] = OpenedBy(M[i + 1])
          /\ Inside(M[i + 1], M[i])
      BY <1>1, <2>2 DEF Laid
    <3>2. p[i + 1] \in 1..Len(o)
      BY SMTT(30), <1>1, <1>2, <1>3, <2>2, Bounds
    <3>. QED BY <1>2, <1>3, <2>2, <3>1, <3>2
  <2>. QED BY <1>2, <2>1, <2>2
<1>8. ASSUME NEW i \in 1..Len(N), NEW k \in 1..Len(N), i < k
       PROVE  q[i] + Len(N[i].brackets) < q[k]
  <2>1. i \in 1..n /\ N[i] = M[i] /\ q[i] = p[i] /\ p[i] \in Nat /\ p[n] \in Nat
    <3>1. i \in 1..n /\ n \in 1..n
      BY <1>2, <1>8
    <3>. QED BY <1>1, <1>2, <3>1 DEF Laid
  <2>2. CASE k \in 1..n
    BY <1>1, <1>2, <1>8, <2>1, <2>2 DEF Laid
  <2>3. CASE k = n + 1
    BY SMTT(30), <1>1, <1>2, <1>3, <2>1, <2>3, Bounds
  <2>. QED BY <1>2, <2>2, <2>3
<1>9. ASSUME NEW i \in 1..Len(N), NEW j \in 1..Len(N[i].brackets)
      PROVE  u[q[i] + j] = N[i].brackets[j]
  <2>1. i \in 1..n
    BY <1>2, EmptySeq
  <2>2. p[i] + j \in 1..Len(o)
    BY SMTT(30), <1>1, <1>2, <1>3, <2>1, Bounds
  <2>. QED BY <1>1, <1>2, <1>3, <2>1, <2>2 DEF Laid
<1>10. Laid(N, u, q)
  <2>. HIDE DEF q
  <2>. QED BY <1>2, <1>5, <1>6, <1>7, <1>9, <1>8 DEF Laid
<1>. QED BY <1>10 DEF N, u, Open

\* The innermost mode is left.
LEMMA Popped ==
  ASSUME NEW M \in Seq(ModeType), NEW o \in Seq(Opener),
         Open(M, o), Len(M) > 1, M[Len(M)].brackets = <<>>
  PROVE  /\ Len(o) > 0 /\ Open(Front(M), Front(o))
         /\ Last(o) = OpenedBy(M[Len(M)]) /\ Inside(M[Len(M)], M[Len(M) - 1])
<1>1. PICK p : Laid(M, o, p)
  BY DEF Open
<1> DEFINE n == Len(M)
           N == Front(M)
           q == [i \in 1..(n - 1) |-> p[i]]
           u == Front(o)
<1>2. /\ n \in Nat /\ n > 1 /\ Len(N) = n - 1 /\ \A i \in 1..(n - 1) : N[i] = M[i]
      /\ \A i \in 1..n : /\ p[i] \in Nat /\ M[i] \in ModeType /\ Len(M[i].brackets) \in Nat
                         /\ p[i] + Len(M[i].brackets) <= Len(o) /\ (i # 1 => p[i] > 0)
  <2>1. M # <<>>
    BY EmptySeq
  <2>. QED BY <1>1, <2>1, FrontLast, Bounds
<1>3. Len(o) = p[n] /\ p[n] > 0
  BY <1>1, <1>2, EmptySeq DEF Laid
<1>4. /\ Len(o) \in Nat /\ Len(u) = Len(o) - 1 /\ Last(o) = o[Len(o)]
      /\ \A i \in 1..(Len(o) - 1) : u[i] = o[i]
  <2>1. o # <<>>
    BY <1>3, EmptySeq
  <2>. QED BY <2>1, FrontLast
<1>5. /\ p[n] = p[n - 1] + Len(M[n - 1].brackets) + 1 /\ o[p[n]] = OpenedBy(M[n])
      /\ Inside(M[n], M[n - 1])
  <2>1. n - 1 \in 1..(n - 1) /\ n - 1 + 1 = n
    BY <1>2
  <2>. QED BY <1>1, <2>1 DEF Laid
<1>6. \A i \in 1..(n - 1) : p[i] + Len(M[i].brackets) <= Len(o) - 1
  BY <1>1, <1>2, <1>3 DEF Laid
<1>. HIDE DEF N, u, n
<1>7. Laid(N, u, q)
  <2>1. q \in [1..Len(N) -> Nat] /\ q[1] = 0 /\ N[1].in = "Code" /\ Len(N) > 0
    BY <1>1, <1>2 DEF Laid, n
  <2>2. Len(u) = q[Len(N)] + Len(N[Len(N)].brackets)
    BY <1>2, <1>3, <1>4, <1>5
  <2>3. ASSUME NEW i \in 1..(Len(N) - 1)
        PROVE  /\ q[i + 1] = q[i] + Len(N[i].brackets) + 1
               /\ u[q[i + 1]] = OpenedBy(N[i + 1])
               /\ Inside(N[i + 1], N[i])
    <3>1. i + 1 \in 1..(n - 1) /\ i \in 1..(n - 1)
      BY <1>2
    <3>2. /\ p[i + 1] = p[i] + Len(M[i].brackets) + 1 /\ o[p[i + 1]] = OpenedBy(M[i + 1])
          /\ Inside(M[i + 1], M[i])
      BY <1>1, <1>2, <3>1 DEF Laid, n
    <3>3. p[i + 1] \in 1..(Len(o) - 1)
      <4>1. p[i + 1] + Len(M[i + 1].brackets) <= Len(o) - 1
        BY <1>6, <3>1
      <4>2. p[i + 1] \in Nat /\ Len(M[i + 1].brackets) \in Nat /\ p[i + 1] > 0
        BY <1>2, <3>1
      <4>. QED BY <1>4, <4>1, <4>2
    <3>. QED BY <1>2, <1>4, <3>1, <3>2, <3>3
  <2>4. ASSUME NEW i \in 1..Len(N), NEW k \in 1..Len(N), i < k
        PROVE  q[i] + Len(N[i].brackets) < q[k]
    BY <1>1, <1>2, <2>4 DEF Laid, n
  <2>5. ASSUME NEW i \in 1..Len(N), NEW j \in 1..Len(N[i].brackets)
        PROVE  u[q[i] + j] = N[i].brackets[j]
    <3>1. i \in 1..(n - 1) /\ i \in 1..n /\ j \in 1..Len(M[i].brackets)
      BY <1>2
    <3>2. p[i] + j \in 1..(Len(o) - 1)
      <4>1. /\ p[i] + Len(M[i].brackets) <= Len(o) - 1
            /\ p[i] \in Nat /\ Len(M[i].brackets) \in Nat
        BY <1>2, <1>6, <3>1
      <4>. QED BY <1>4, <3>1, <4>1
    <3>3. o[p[i] + j] = M[i].brackets[j]
      BY <1>1, <3>1 DEF Laid, n
    <3>. QED BY <1>2, <1>4, <3>1, <3>2, <3>3
  <2>. HIDE DEF q
  <2>. QED BY <2>1, <2>2, <2>3, <2>4, <2>5 DEF Laid
<1>. QED BY <1>3, <1>4, <1>5, <1>7 DEF N, u, n, Open

\* From b to c the same is appended or dropped as from o to u.
SameChange(b, c, o, u) ==
  /\ Len(u) + Len(b) = Len(o) + Len(c)
  /\ \A i \in 1..Len(o) : i <= Len(u) => u[i] = o[i]
  /\ \A j \in 1..Len(b) : j <= Len(c) => c[j] = b[j]
  /\ \A j \in 1..Len(c) : j > Len(b) => c[j] = u[j + (Len(o) - Len(b))]

\* The brackets of the innermost mode change, and so does what is open.
LEMMA Resized ==
  ASSUME NEW M \in Seq(ModeType), NEW N \in Seq(ModeType), NEW o \in Seq(Opener),
         NEW u \in Seq(Opener), NEW n \in Nat, n = Len(M), n = Len(N), Open(M, o),
         \A i \in 1..(n - 1) : N[i] = M[i], M[n].in = N[n].in,
         SameChange(M[n].brackets, N[n].brackets, o, u)
  PROVE  Open(N, u)
<1>1. PICK p : Laid(M, o, p)
  BY DEF Open
<1>2. /\ n > 0
      /\ \A i \in 1..n : /\ p[i] \in Nat /\ M[i] \in ModeType /\ Len(M[i].brackets) \in Nat
                         /\ p[i] + Len(M[i].brackets) <= Len(o) /\ (i # 1 => p[i] > 0)
                         /\ N[i] \in ModeType /\ Len(N[i].brackets) \in Nat
  BY <1>1, Bounds, ModesHaveTypes, ElementOfSeq DEF Laid
<1>3. Len(o) \in Nat /\ Len(u) \in Nat /\ Len(o) = p[n] + Len(M[n].brackets)
  BY <1>1, LenProperties DEF Laid
<1>4. Len(u) = p[n] + Len(N[n].brackets)
  <2>1. p[n] \in Nat /\ Len(M[n].brackets) \in Nat /\ Len(N[n].brackets) \in Nat
    BY <1>2
  <2>2. Len(u) + Len(M[n].brackets) = Len(o) + Len(N[n].brackets)
    BY DEF SameChange
  <2> DEFINE lo == Len(o)
             lu == Len(u)
             lb == Len(M[n].brackets)
             lc == Len(N[n].brackets)
             q  == p[n]
  <2>3. q \in Nat /\ lb \in Nat /\ lc \in Nat /\ lo \in Nat /\ lu \in Nat
        /\ lu + lb = lo + lc /\ lo = q + lb
    BY <1>3, <2>1, <2>2
  <2>4. lu = q + lc
    <3>. HIDE DEF lo, lu, lb, lc, q
    <3>. QED BY <2>3
  <2>. QED BY <2>4
<1>5. \A i \in 1..(n - 1) : p[i] + Len(M[i].brackets) < p[n]
  BY <1>1, <1>2 DEF Laid
<1>6. \A i \in 1..n : N[i].in = M[i].in
  <2>. SUFFICES ASSUME NEW i \in 1..n PROVE N[i].in = M[i].in
    OBVIOUS
  <2>1. i = n \/ i \in 1..(n - 1)
    OBVIOUS
  <2>. QED BY <2>1
<1>7. Laid(N, u, p)
  <2>1. p \in [1..Len(N) -> Nat] /\ p[1] = 0 /\ N[1].in = "Code" /\ Len(N) > 0
    BY <1>1, <1>2, <1>6 DEF Laid
  <2>2. Len(u) = p[Len(N)] + Len(N[Len(N)].brackets)
    BY <1>4
  <2>3. ASSUME NEW i \in 1..(Len(N) - 1)
        PROVE  /\ p[i + 1] = p[i] + Len(N[i].brackets) + 1
               /\ u[p[i + 1]] = OpenedBy(N[i + 1])
               /\ Inside(N[i + 1], N[i])
    <3>1. i + 1 \in 1..n /\ i \in 1..n /\ i + 1 # 1
      BY <1>2
    <3>2. /\ p[i + 1] = p[i] + Len(M[i].brackets) + 1 /\ o[p[i + 1]] = OpenedBy(M[i + 1])
          /\ Inside(M[i + 1], M[i])
      BY <1>1, <1>2, <3>1 DEF Laid
    <3>3. p[i + 1] <= p[n]
      <4>1. i + 1 = n \/ i + 1 \in 1..(n - 1)
        BY <3>1
      <4>2. i + 1 \in 1..(n - 1) => p[i + 1] + Len(M[i + 1].brackets) < p[n]
        BY <1>5
      <4>. QED BY <1>2, <3>1, <4>1, <4>2
    <3>4. p[i + 1] \in 1..Len(o) /\ p[i + 1] <= Len(u)
      <4> DEFINE lo == Len(o)
                 lu == Len(u)
                 lb == Len(M[n].brackets)
                 lc == Len(N[n].brackets)
                 q  == p[i + 1]
      <4>1. n \in 1..n
        BY <1>2
      <4>2. /\ q \in Nat /\ q > 0 /\ q <= p[n] /\ p[n] \in Nat /\ lb \in Nat /\ lc \in Nat
            /\ lo \in Nat /\ lu \in Nat /\ lo = p[n] + lb /\ lu = p[n] + lc
        BY <1>2, <1>3, <1>4, <3>1, <3>3, <4>1
      <4>3. q \in 1..lo /\ q <= lu
        <5>. HIDE DEF lo, lu, lb, lc, q
        <5>. QED BY SMTT(30), <4>2
      <4>. QED BY <4>3
    <3>5. N[i + 1].in = M[i + 1].in /\ N[i].in = M[i].in /\ N[i] = M[i]
      BY <1>6, <3>1
    <3>. QED BY <3>2, <3>4, <3>5 DEF OpenedBy, Inside, SameChange
  <2>4. ASSUME NEW i \in 1..Len(N), NEW k \in 1..Len(N), i < k
        PROVE  p[i] + Len(N[i].brackets) < p[k]
    <3>1. i \in 1..(n - 1) /\ N[i] = M[i] /\ k \in 1..n
      BY <1>2, <2>4
    <3>2. p[i] + Len(M[i].brackets) < p[k]
      BY <1>1, <2>4, <3>1 DEF Laid
    <3>. QED BY <3>1, <3>2
  <2>5. ASSUME NEW i \in 1..Len(N), NEW j \in 1..Len(N[i].brackets)
        PROVE  u[p[i] + j] = N[i].brackets[j]
    <3>1. CASE i < n
      <4>1. i \in 1..(n - 1) /\ i \in 1..n /\ N[i] = M[i]
        BY <1>2, <3>1
      <4>2. p[i] + j \in 1..Len(o) /\ p[i] + j <= Len(u)
        <5>1. j \in Nat /\ 0 < j /\ j <= Len(M[i].brackets)
          BY <1>2, <4>1
        <5>2. p[i] + Len(M[i].brackets) < p[n] /\ p[i] \in Nat /\ Len(M[i].brackets) \in Nat
          BY <1>2, <1>5, <4>1
        <5>3. p[n] \in Nat /\ p[n] <= Len(o) /\ p[n] <= Len(u)
          <6>1. p[n] \in Nat /\ Len(M[n].brackets) \in Nat /\ Len(N[n].brackets) \in Nat
            BY <1>2
          <6>. QED BY <1>3, <1>4, <6>1
        <5>. QED BY SMTT(30), <1>3, <5>1, <5>2, <5>3
      <4>3. o[p[i] + j] = M[i].brackets[j]
        BY <1>1, <4>1 DEF Laid
      <4>. QED BY <4>1, <4>2, <4>3 DEF SameChange
    <3>2. CASE i = n /\ j <= Len(M[n].brackets)
      <4>1. p[n] + j \in 1..Len(o) /\ p[n] + j <= Len(u) /\ j \in 1..Len(M[n].brackets)
        BY <1>2, <1>3, <1>4, <3>2
      <4>2. o[p[n] + j] = M[n].brackets[j]
        BY <1>1, <1>2, <4>1 DEF Laid
      <4>. QED BY SMTT(30), <3>2, <4>1, <4>2 DEF SameChange
    <3>3. CASE i = n /\ j > Len(M[n].brackets)
      <4>1. j + (Len(o) - Len(M[n].brackets)) = p[n] + j
        BY <1>2, <1>3, <3>3
      <4>. QED BY <3>3, <4>1 DEF SameChange
    <3>. QED BY <1>2, <3>1, <3>2, <3>3
  <2>. QED BY <2>1, <2>2, <2>3, <2>4, <2>5 DEF Laid
<1>. QED BY <1>7 DEF Open

LEMMA FrontOfAppend ==
  ASSUME NEW S, NEW s \in Seq(S), NEW x \in S
  PROVE  Front(Append(s, x)) = s /\ Append(s, x) # <<>> /\ Last(Append(s, x)) = x
<1> DEFINE t == Append(s, x)
<1>1. /\ t \in Seq(S) /\ Len(s) \in Nat /\ Len(t) = Len(s) + 1
      /\ \A i \in 1..Len(s) : t[i] = s[i]
      /\ t[Len(s) + 1] = x
  BY AppendProps
<1>. HIDE DEF t
<1>2. t # <<>>
  BY <1>1, EmptySeq
<1>3. /\ Front(t) \in Seq(S) /\ Len(Front(t)) = Len(t) - 1
      /\ \A i \in 1..(Len(t) - 1) : Front(t)[i] = t[i]
      /\ Last(t) = t[Len(t)]
  BY <1>1, <1>2, FrontLast
<1>4. Front(t) = s
  <2>1. Len(Front(t)) = Len(s) /\ \A i \in 1..Len(s) : Front(t)[i] = s[i]
    BY <1>1, <1>3
  <2>. QED BY <1>3, <2>1, SeqEqual
<1>. QED BY <1>1, <1>2, <1>3, <1>4 DEF t

LEMMA AppendOfFront ==
  ASSUME NEW S, NEW s \in Seq(S), s # <<>>
  PROVE  Append(Front(s), Last(s)) = s
<1> DEFINE t == Append(Front(s), Last(s))
<1>1. /\ Len(s) \in Nat \ {0} /\ Last(s) = s[Len(s)] /\ Last(s) \in S
      /\ Front(s) \in Seq(S) /\ Len(Front(s)) = Len(s) - 1
      /\ \A i \in 1..(Len(s) - 1) : Front(s)[i] = s[i]
  BY FrontLast
<1>2. /\ t \in Seq(S) /\ Len(t) = Len(s) - 1 + 1
      /\ \A i \in 1..(Len(s) - 1) : t[i] = Front(s)[i]
      /\ t[Len(s) - 1 + 1] = Last(s)
  BY <1>1, AppendProps
<1>. HIDE DEF t
<1>3. Len(t) = Len(s) /\ \A i \in 1..Len(s) : t[i] = s[i]
  BY <1>1, <1>2
<1>4. t = s
  BY <1>2, <1>3, SeqEqual
<1>. QED BY <1>4 DEF t

LEMMA Appended ==
  ASSUME NEW b \in Seq(Bracket), NEW o \in Seq(Opener), NEW x \in Bracket, Len(b) <= Len(o)
  PROVE  SameChange(b, Append(b, x), o, Append(o, x))
<1>1. x \in Opener
  BY DEF Opener, Bracket, Closer
<1>2. /\ Len(b) \in Nat /\ Len(Append(b, x)) = Len(b) + 1
      /\ \A i \in 1..Len(b) : Append(b, x)[i] = b[i]
      /\ Append(b, x)[Len(b) + 1] = x
  BY AppendProps
<1>3. /\ Len(o) \in Nat /\ Len(Append(o, x)) = Len(o) + 1
      /\ \A i \in 1..Len(o) : Append(o, x)[i] = o[i]
      /\ Append(o, x)[Len(o) + 1] = x
  BY <1>1, AppendProps
<1> DEFINE c == Append(b, x)
           u == Append(o, x)
<1>. HIDE DEF c, u
<1>4. ASSUME NEW j \in 1..Len(c), j > Len(b) PROVE c[j] = u[j + (Len(o) - Len(b))]
  <2>1. j = Len(b) + 1
    BY <1>2, <1>4 DEF c
  <2>2. j + (Len(o) - Len(b)) = Len(o) + 1
    BY <1>2, <1>3, <2>1
  <2>. QED BY <1>2, <1>3, <2>1, <2>2 DEF c, u
<1>5. Len(u) + Len(b) = Len(o) + Len(c)
  BY <1>2, <1>3 DEF c, u
<1>6. /\ \A i \in 1..Len(o) : i <= Len(u) => u[i] = o[i]
      /\ \A j \in 1..Len(b) : j <= Len(c) => c[j] = b[j]
  BY <1>2, <1>3 DEF c, u
<1>. QED BY <1>4, <1>5, <1>6 DEF SameChange, c, u

LEMMA Dropped ==
  ASSUME NEW b \in Seq(Bracket), NEW o \in Seq(Opener), b # <<>>, o # <<>>
  PROVE  SameChange(b, Front(b), o, Front(o))
<1>1. /\ Len(b) \in Nat \ {0} /\ Len(Front(b)) = Len(b) - 1
      /\ \A i \in 1..(Len(b) - 1) : Front(b)[i] = b[i]
  BY FrontLast
<1>2. /\ Len(o) \in Nat \ {0} /\ Len(Front(o)) = Len(o) - 1
      /\ \A i \in 1..(Len(o) - 1) : Front(o)[i] = o[i]
  BY FrontLast
<1>. QED BY <1>1, <1>2 DEF SameChange

LEMMA CloserIs ==
  /\ Opener = {"(", "[", "{", "${", "SingleQuote", "DoubleQuote", "Template", "//", "/*"}
  /\ Closer["("] = ")" /\ Closer["["] = "]" /\ Closer["{"] = "}" /\ Closer["${"] = "}"
  /\ Closer["//"] = "\n" /\ Closer["/*"] = "*/"
  /\ Closer["SingleQuote"] = "SingleQuote" /\ Closer["DoubleQuote"] = "DoubleQuote"
  /\ Closer["Template"] = "Template"
BY DEF Closer, Opener

LEMMA EmptyIsShort ==
  ASSUME NEW S, NEW s \in Seq(S)
  PROVE  Len(s) \in Nat /\ (s = <<>> => Len(s) = 0) /\ (s # <<>> => Len(s) > 0)
<1>1. s # <<>> => Len(s) \in Nat \ {0}
  BY EmptySeq
<1>. QED BY <1>1, EmptySeq, LenProperties

\* What was opened last, by the mode.
LEMMA Innermost ==
  ASSUME ScanIInv
  PROVE  /\ Modes \in Seq(ModeType) /\ Len(Modes) = Len(resume) + 1 /\ Len(resume) \in Nat
         /\ Modes[Len(Modes)] = mode
         /\ comment # "none" => open # <<>> /\ Last(open) = comment /\ mode.in = "Code"
         /\ mode.brackets # <<>> => Nested # <<>> /\ Last(Nested) = Last(mode.brackets)
         /\ mode.brackets = <<>> /\ resume # <<>> => Nested # <<>> /\ Last(Nested) = OpenedBy(mode)
         /\ mode.brackets = <<>> /\ resume = <<>> => Nested = <<>> /\ mode.in = "Code"
         /\ Nested \in Seq(Opener) /\ Len(mode.brackets) <= Len(Nested)
<1>1. /\ mode \in ModeType /\ resume \in Seq(ModeType) /\ open \in Seq(Opener)
      /\ comment \in Comment \cup {"none"}
  BY DEF ScanIInv, ScanTypeOK
<1>2. /\ Modes \in Seq(ModeType) /\ Len(Modes) = Len(resume) + 1 /\ Len(resume) \in Nat
      /\ Modes[Len(Modes)] = mode
  <2>1. /\ Modes \in Seq(ModeType) /\ Len(Modes) = Len(resume) + 1 /\ Len(resume) \in Nat
        /\ Modes[Len(resume) + 1] = mode
    BY <1>1, AppendProps DEF Modes
  <2>. QED BY <2>1
<1>3. comment # "none" => open # <<>> /\ Last(open) = comment /\ mode.in = "Code"
  BY DEF ScanIInv, OpenIsKnown
<1>4. Nested \in Seq(Opener)
  BY <1>1, <1>3, FrontLast DEF Nested
<1>5. PICK p : Laid(Modes, Nested, p)
  BY DEF ScanIInv, OpenIsKnown, Open
<1> DEFINE n == Len(Modes)
           b == mode.brackets
<1>6. /\ n \in Nat \ {0} /\ p[n] \in Nat /\ Len(b) \in Nat /\ b \in Seq(Bracket)
      /\ Len(Nested) = p[n] + Len(b) /\ Len(Nested) \in Nat
      /\ p[1] = 0 /\ Modes[1].in = "Code" /\ (n # 1 => p[n] > 0)
  <2>1. n \in Nat \ {0} /\ n \in 1..n
    BY <1>2
  <2>2. p[n] \in Nat /\ (n # 1 => p[n] > 0)
    BY <1>2, <1>4, <1>5, <2>1, Bounds
  <2>. QED BY <1>1, <1>2, <1>4, <1>5, <2>1, <2>2, ModesHaveTypes, LenProperties DEF Laid
<1>7. ASSUME b # <<>> PROVE Nested # <<>> /\ Last(Nested) = Last(b)
  <2>1. Len(b) \in 1..Len(b) /\ Last(b) = b[Len(b)]
    <3>1. Len(b) > 0
      BY <1>6, <1>7, EmptyIsShort
    <3>2. Last(b) = b[Len(b)]
      BY <1>6, <1>7, FrontLast
    <3>. QED BY <1>6, <3>1, <3>2
  <2>2. Nested # <<>>
    BY <1>6, <2>1, EmptySeq
  <2>3. Nested[p[n] + Len(b)] = b[Len(b)]
    <3>1. n \in 1..n
      BY <1>6
    <3>. QED BY <1>2, <1>5, <2>1, <3>1 DEF Laid
  <2>. QED BY <1>4, <1>6, <2>1, <2>2, <2>3, FrontLast
<1>8. ASSUME b = <<>>, resume # <<>> PROVE Nested # <<>> /\ Last(Nested) = OpenedBy(mode)
  <2>1. n > 1
    <3>1. Len(resume) > 0
      BY <1>1, <1>8, EmptyIsShort
    <3>. QED BY <1>2, <3>1
  <2>2. Open(Modes, Nested)
    BY <1>5 DEF Open
  <2>3. Len(Nested) > 0 /\ Last(Nested) = OpenedBy(mode)
    BY <1>2, <1>4, <1>8, <2>1, <2>2, Popped
  <2>. QED BY <2>3, EmptySeq
<1>9. ASSUME b = <<>>, resume = <<>> PROVE Nested = <<>> /\ mode.in = "Code"
  <2>1. n = 1 /\ Len(b) = 0
    <3>1. Len(resume) = 0 /\ Len(b) = 0
      BY <1>1, <1>6, <1>9, EmptyIsShort
    <3>. QED BY <1>2, <3>1
  <2>2. Len(Nested) = 0
    BY <1>6, <2>1
  <2>3. Nested = <<>>
    BY <1>4, <2>2, EmptyIsShort
  <2>. QED BY <1>2, <1>6, <2>1, <2>3
<1>10. Len(b) <= Len(Nested)
  BY <1>6
<1>. QED BY <1>2, <1>3, <1>4, <1>7, <1>8, <1>9, <1>10

-----------------------------------------------------------------------------
(* EsmScan: the steps of the scanner.                                        *)

LEMMA EntersMode ==
  ASSUME ScanIInv, comment = "none", NEW m \in ModeType, m.brackets = <<>>, Inside(m, mode),
         mode' = m, resume' = Append(resume, mode), comment' = "none", open' = Append(open, OpenedBy(m))
  PROVE  ScanIInv'
<1>1. Nested = open /\ Nested' = open' /\ Modes' = Append(Modes, m)
  BY DEF Nested, Modes
<1>2. open \in Seq(Opener) /\ mode \in ModeType /\ resume \in Seq(ModeType)
  BY DEF ScanIInv, ScanTypeOK
<1>3. Open(Modes, Nested)
  BY DEF ScanIInv, OpenIsKnown
<1>4. Open(Append(Modes, m), Append(Nested, OpenedBy(m)))
  BY <1>1, <1>2, <1>3, Innermost, Pushed
<1>5. ScanTypeOK'
  BY <1>2, ModesHaveTypes, AppendProps DEF ScanTypeOK
<1>. QED BY <1>1, <1>4, <1>5 DEF ScanIInv, OpenIsKnown

LEMMA LeavesMode ==
  ASSUME ScanIInv, comment = "none", mode.brackets = <<>>, resume # <<>>, pop_mode,
         comment' = "none", open' = Front(open)
  PROVE  ScanIInv'
<1>1. open \in Seq(Opener) /\ mode \in ModeType /\ resume \in Seq(ModeType) /\ Nested = open
  BY DEF ScanIInv, ScanTypeOK, Nested
<1>2. mode' = Last(resume) /\ resume' = Front(resume)
  BY DEF pop_mode
<1>3. Modes' = resume /\ Front(Modes) = resume
  BY <1>1, <1>2, AppendOfFront, FrontOfAppend DEF Modes
<1>4. open # <<>> /\ Open(Modes, open)
  BY <1>1, Innermost DEF ScanIInv, OpenIsKnown
<1>5. Open(Front(Modes), Front(open))
  <2>1. Len(Modes) > 1
    <3>1. Len(resume) > 0
      BY <1>1, EmptyIsShort
    <3> DEFINE n == Len(resume)
    <3>2. Len(Modes) = n + 1 /\ n \in Nat
      BY Innermost
    <3>3. n # 0
      BY <3>1
    <3>. HIDE DEF n
    <3>. QED BY <3>2, <3>3
  <2>. QED BY <1>1, <1>4, <2>1, Innermost, Popped
<1>6. ScanTypeOK'
  BY <1>1, <1>2, <1>4, FrontLast DEF ScanTypeOK
<1>. QED BY <1>3, <1>5, <1>6 DEF ScanIInv, OpenIsKnown, Nested

LEMMA ChangesBrackets ==
  ASSUME ScanIInv, comment = "none", mode.in = "Code", NEW c \in Seq(Bracket), NEW u \in Seq(Opener),
         SameChange(mode.brackets, c, open, u),
         mode' = Code(c), resume' = resume, comment' = "none", open' = u
  PROVE  ScanIInv'
<1>1. open \in Seq(Opener) /\ mode \in ModeType /\ resume \in Seq(ModeType) /\ Nested = open
  BY DEF ScanIInv, ScanTypeOK, Nested
<1>2. Code(c) \in ModeType /\ Code(c).in = "Code" /\ Code(c).brackets = c
  BY DEF Code, ModeType
<1> DEFINE N == Append(resume, Code(c))
           n == Len(resume) + 1
<1>3. /\ n \in Nat /\ Len(Modes) = n /\ Modes \in Seq(ModeType) /\ Modes[n] = mode
      /\ \A i \in 1..(n - 1) : Modes[i] = resume[i]
  <2>1. n = Len(resume) + 1 /\ Modes = Append(resume, mode)
    BY DEF Modes
  <2>. HIDE DEF n
  <2>. QED BY <1>1, <2>1, AppendIs
<1>4. /\ Len(N) = n /\ N \in Seq(ModeType) /\ N[n] = Code(c)
      /\ \A i \in 1..(n - 1) : N[i] = resume[i]
  <2>1. n = Len(resume) + 1 /\ N = Append(resume, Code(c))
    OBVIOUS
  <2>. HIDE DEF n, N
  <2>. QED BY <1>1, <1>2, <2>1, AppendIs
<1>5. Modes' = N /\ Nested' = u
  BY DEF Modes, Nested
<1>. HIDE DEF N, n
<1>6. Open(Modes, open)
  BY <1>1 DEF ScanIInv, OpenIsKnown
<1>7. Open(N, u)
  <2>1. \A i \in 1..(n - 1) : N[i] = Modes[i]
    BY <1>3, <1>4
  <2>2. Modes[n].in = N[n].in /\ SameChange(Modes[n].brackets, N[n].brackets, open, u)
    BY <1>2, <1>3, <1>4
  <2>. QED BY <1>1, <1>3, <1>4, <1>6, <2>1, <2>2, Resized
<1>8. ScanTypeOK'
  BY <1>1, <1>2 DEF ScanTypeOK
<1>. QED BY <1>5, <1>7, <1>8 DEF ScanIInv, OpenIsKnown

LEMMA StaysInMode ==
  ASSUME ScanIInv, UNCHANGED <<mode, resume>>,
         \/ UNCHANGED <<comment, open>>
         \/ /\ mode.in = "Code" /\ comment = "none" /\ comment' \in Comment
            /\ open' = Append(open, comment')
         \/ comment # "none" /\ comment' = "none" /\ open' = Front(open)
  PROVE  ScanIInv'
<1>1. /\ open \in Seq(Opener) /\ mode \in ModeType /\ resume \in Seq(ModeType)
      /\ comment \in Comment \cup {"none"} /\ Comment \subseteq Opener /\ "none" \notin Comment
  BY CloserIs DEF ScanIInv, ScanTypeOK, Comment
<1>2. Modes' = Modes
  BY DEF Modes
<1>3. CASE UNCHANGED <<comment, open>>
  <2>1. Nested' = Nested
    BY <1>3 DEF Nested
  <2>. QED BY <1>1, <1>2, <1>3, <2>1 DEF ScanIInv, ScanTypeOK, OpenIsKnown
<1>4. CASE comment = "none" /\ mode.in = "Code" /\ comment' \in Comment /\ open' = Append(open, comment')
  <2>1. /\ Front(open') = open /\ open' # <<>> /\ Last(open') = comment' /\ open' \in Seq(Opener)
    BY <1>1, <1>4, FrontOfAppend, AppendProps
  <2>2. Nested' = Nested
    BY <1>1, <1>4, <2>1 DEF Nested
  <2>. QED BY <1>1, <1>2, <1>4, <2>1, <2>2 DEF ScanIInv, ScanTypeOK, OpenIsKnown
<1>5. CASE comment # "none" /\ comment' = "none" /\ open' = Front(open)
  <2>1. open # <<>>
    BY <1>5 DEF ScanIInv, OpenIsKnown
  <2>2. Nested' = Nested /\ open' \in Seq(Opener)
    BY <1>1, <1>5, <2>1, FrontLast DEF Nested
  <2>. QED BY <1>1, <1>2, <1>5, <2>2 DEF ScanIInv, ScanTypeOK, OpenIsKnown
<1>. QED BY <1>3, <1>4, <1>5

\* What was opened last closes next.
LEMMA CodeSteps ==
  ASSUME ScanIInv, NEW c \in Char, NEW escaped \in BOOLEAN, in_code(c),
         open' = OpenAfter(c, escaped)
  PROVE  ScanIInv'
<1> DEFINE b == mode.brackets
           inner == IF open = <<>> THEN "{" ELSE Last(open)
<1>1. /\ mode.in = "Code" /\ comment = "none" /\ Nested = open
      /\ mode \in ModeType /\ b \in Seq(Bracket) /\ open \in Seq(Opener) /\ Len(b) <= Len(open)
  BY Innermost DEF in_code, ScanIInv, ScanTypeOK, ModeType, Nested, Quote
<1>2. /\ b # <<>> => open # <<>> /\ Last(open) = Last(b) /\ Last(b) \in Bracket
      /\ b = <<>> /\ resume # <<>> => open # <<>> /\ Last(open) = "${"
      /\ b = <<>> /\ resume = <<>> => open = <<>>
  BY <1>1, Innermost, FrontLast DEF OpenedBy
<1>3. inner \in Bracket \cup {"${"} /\ inner \notin Quote
  BY <1>2 DEF Bracket, Quote
<1>4. open' = IF open # <<>> /\ c = Closer[inner] THEN Front(open)
              ELSE IF c = "${" THEN Append(open, "{")
              ELSE IF c \in Opener THEN Append(open, c)
              ELSE open
  BY <1>3 DEF OpenAfter, Opener
<1>5. Closer[inner] \notin Opener /\ Closer[inner] \in {")", "]", "}"}
  BY <1>3, CloserIs DEF Bracket
<1>6. b # <<>> => Closer[Last(b)] \in {")", "]", "}"}
  BY <1>2, CloserIs DEF Bracket
<1>. HIDE DEF inner
<1>7. CASE c \in Bracket \cup {"${"}
  <2> DEFINE x == IF c = "${" THEN "{" ELSE c
  <2>1. /\ x \in Bracket /\ x \in Opener /\ c \in Opener
        /\ c \notin Comment /\ c \notin Quote /\ c \notin {")", "]", "}"}
    BY <1>7, CloserIs DEF Bracket, Comment, Quote
  <2>2. open' = Append(open, x)
    BY <1>4, <1>5, <2>1
  <2>3. mode' = Code(Append(b, x)) /\ resume' = resume /\ comment' = "none"
    BY <1>7, <1>6, <2>1 DEF in_code, Bracket
  <2>4. SameChange(b, Append(b, x), open, Append(open, x))
    BY <1>1, <2>1, Appended
  <2>5. Append(b, x) \in Seq(Bracket) /\ Append(open, x) \in Seq(Opener)
    BY <1>1, <2>1, AppendProps
  <2>. HIDE DEF x
  <2>. QED BY <1>1, <2>2, <2>3, <2>4, <2>5, ChangesBrackets
<1>8. CASE c \in Quote
  <2>1. /\ c \in Opener /\ c # "${" /\ c \notin Bracket \cup {"${"} /\ c \notin Comment
        /\ c \notin {")", "]", "}"}
    BY <1>8, CloserIs DEF Quote, Bracket, Comment
  <2>2. open' = Append(open, c)
    BY <1>4, <1>5, <2>1
  <2>3. mode' = Quoted(c) /\ resume' = Append(resume, mode) /\ comment' = "none"
    BY <1>8, <1>6, <2>1 DEF in_code, brackets_push_mode
  <2>4. /\ Quoted(c) \in ModeType /\ Quoted(c).brackets = <<>> /\ OpenedBy(Quoted(c)) = c
        /\ Inside(Quoted(c), mode)
    BY <1>1, <1>8 DEF Quoted, ModeType, OpenedBy, Inside, Quote
  <2>. QED BY <1>1, <2>2, <2>3, <2>4, EntersMode
<1>9. CASE c \in Comment
  <2>1. /\ c \in Opener /\ c # "${" /\ c \notin Bracket \cup {"${"} /\ c \notin Quote
        /\ c \notin {")", "]", "}"}
    BY <1>9, CloserIs DEF Quote, Bracket, Comment
  <2>2. open' = Append(open, c)
    BY <1>4, <1>5, <2>1
  <2>3. UNCHANGED <<mode, resume>> /\ comment' = c
    BY <1>9, <1>6, <2>1 DEF in_code
  <2>. QED BY <1>1, <1>9, <2>2, <2>3, StaysInMode
<1>10. CASE c \notin Opener
  <2>1. c \notin Bracket \cup {"${"} /\ c \notin Quote /\ c \notin Comment
    BY <1>10, CloserIs DEF Bracket, Quote, Comment
  <2>2. comment' = "none"
    BY <2>1 DEF in_code
  <2>3. CASE b # <<>> /\ c = Closer[Last(b)]
    <3>1. mode' = Code(Front(b)) /\ resume' = resume
      BY <2>1, <2>3 DEF in_code
    <3>2. open' = Front(open)
      BY <1>2, <1>4, <2>3 DEF inner
    <3>3. Front(b) \in Seq(Bracket) /\ Front(open) \in Seq(Opener)
      BY <1>1, <1>2, <2>3, FrontLast
    <3>4. SameChange(b, Front(b), open, Front(open))
      BY <1>1, <1>2, <2>3, Dropped
    <3>. QED BY <1>1, <2>2, <3>1, <3>2, <3>3, <3>4, ChangesBrackets
  <2>4. CASE c = "}" /\ b = <<>> /\ resume # <<>>
    <3>1. pop_mode
      BY <2>1, <2>4 DEF in_code
    <3>2. open' = Front(open)
      BY <1>2, <1>4, <2>4, CloserIs DEF inner
    <3>. QED BY <1>1, <2>2, <2>4, <3>1, <3>2, LeavesMode
  <2>5. CASE ~(b # <<>> /\ c = Closer[Last(b)]) /\ ~(c = "}" /\ b = <<>> /\ resume # <<>>)
    <3>1. UNCHANGED <<mode, resume>>
      BY <2>1, <2>5 DEF in_code
    <3>2. open' = open
      BY <1>2, <1>4, <1>10, <2>1, <2>5, CloserIs DEF inner
    <3>. QED BY <1>1, <2>2, <3>1, <3>2, StaysInMode
  <2>. QED BY <2>3, <2>4, <2>5
<1>. QED BY <1>7, <1>8, <1>9, <1>10, CloserIs DEF Bracket, Quote, Comment

LEMMA CommentSteps ==
  ASSUME ScanIInv, NEW c \in Char, NEW escaped \in BOOLEAN, in_comment(c),
         open' = OpenAfter(c, escaped)
  PROVE  ScanIInv'
<1>1. /\ comment \in Comment /\ open # <<>> /\ Last(open) = comment
      /\ UNCHANGED <<mode, resume>>
  BY DEF in_comment, ScanIInv, ScanTypeOK, OpenIsKnown
<1>2. comment \notin Quote /\ comment \notin Bracket \cup {"${"} /\ comment # "Template"
  BY <1>1 DEF Comment, Quote, Bracket
<1>3. open' = IF c = Closer[comment] THEN Front(open) ELSE open
  BY <1>1, <1>2 DEF OpenAfter
<1>. QED BY <1>1, <1>3, StaysInMode DEF in_comment

LEMMA TextSteps ==
  ASSUME ScanIInv, NEW c \in Char, NEW escaped \in BOOLEAN, in_text(c, escaped),
         open' = OpenAfter(c, escaped)
  PROVE  ScanIInv'
<1>1. /\ mode.in \in Quote /\ mode \in ModeType /\ mode.brackets = <<>> /\ OpenedBy(mode) = mode.in
      /\ UNCHANGED comment
  BY DEF in_text, ScanIInv, ScanTypeOK, ModeType, Quote, OpenedBy
<1>2. comment = "none" /\ resume # <<>> /\ Nested = open /\ open # <<>> /\ Last(open) = mode.in
  BY <1>1, Innermost DEF Quote, Nested
<1>3. Last(open) \in Quote /\ Closer[Last(open)] = mode.in /\ mode.in \notin Bracket \cup {"${"}
  BY <1>1, <1>2, CloserIs DEF Quote, Bracket
<1>4. open' = IF c = mode.in /\ ~escaped THEN Front(open)
              ELSE IF mode.in = "Template" /\ c = "${" /\ ~escaped THEN Append(open, "${")
              ELSE open
  BY <1>2, <1>3 DEF OpenAfter
<1>5. CASE ~escaped /\ c = mode.in
  BY <1>1, <1>2, <1>4, <1>5, LeavesMode DEF in_text
<1>6. CASE ~escaped /\ c # mode.in /\ c = "${" /\ mode.in = "Template"
  <2>1. brackets_push_mode(Code(<<>>)) /\ open' = Append(open, "${")
    BY <1>4, <1>6 DEF in_text
  <2>2. /\ Code(<<>>) \in ModeType /\ Code(<<>>).brackets = <<>> /\ OpenedBy(Code(<<>>)) = "${"
        /\ Inside(Code(<<>>), mode)
    BY <1>6, EmptySeq DEF Code, ModeType, OpenedBy, Inside
  <2>. QED BY <1>1, <1>2, <2>1, <2>2, EntersMode DEF brackets_push_mode
<1>7. CASE ~(~escaped /\ c = mode.in) /\ ~(~escaped /\ c = "${" /\ mode.in = "Template")
  <2>1. UNCHANGED <<mode, resume, comment, open>>
    BY <1>1, <1>4, <1>7 DEF in_text
  <2>. QED BY <2>1, StaysInMode
<1>. QED BY <1>5, <1>6, <1>7

\* No statement has been read.
LEMMA FreshIsLaid ==
  /\ Code(<<>>) \in ModeType /\ <<>> \in Seq(ModeType) /\ <<>> \in Seq(Opener)
  /\ Open(Append(<<>>, Code(<<>>)), <<>>)
<1> DEFINE M == Append(<<>>, Code(<<>>))
<1>1. /\ Code(<<>>) \in ModeType /\ <<>> \in Seq(ModeType) /\ <<>> \in Seq(Opener)
  BY EmptySeq DEF Code, ModeType
<1>2. /\ Len(M) = 1 /\ M[1] = Code(<<>>) /\ Len(<<>>) = 0
      /\ Len(Code(<<>>).brackets) = 0 /\ Code(<<>>).in = "Code"
  BY EmptySeq DEF Code
<1>3. Laid(M, <<>>, [i \in 1..1 |-> 0])
  <2>. HIDE DEF M
  <2>. QED BY <1>2 DEF Laid
<1>. QED BY <1>1, <1>3 DEF Open

LEMMA ScanNextIInv == ScanIInv /\ [ScanNext]_scan_vars => ScanIInv'
<1>. SUFFICES ASSUME ScanIInv, [ScanNext]_scan_vars PROVE ScanIInv'
  OBVIOUS
<1>1. CASE restart
  BY <1>1, FreshIsLaid DEF restart, ScanIInv, ScanTypeOK, OpenIsKnown, Modes, Nested
<1>2. ASSUME NEW c \in Char, NEW escaped \in BOOLEAN, read(c, escaped) PROVE ScanIInv'
  BY <1>2, CodeSteps, CommentSteps, TextSteps DEF read
<1>3. CASE UNCHANGED scan_vars
  BY <1>3, StaysInMode DEF scan_vars
<1>. QED BY <1>1, <1>2, <1>3 DEF ScanNext

\* What is open is what the modes say.
THEOREM ScanInvariance == ScanSpec => []ScanIInv
<1>1. ScanInit => ScanIInv
  BY FreshIsLaid DEF ScanInit, ScanIInv, ScanTypeOK, OpenIsKnown, Modes, Nested
<1>. QED BY <1>1, ScanNextIInv, PTL DEF ScanSpec

LEMMA LastTwo ==
  ASSUME NEW n \in Nat, NEW k \in 1..n, k = n \/ k = n - 1, NEW j \in k..n
  PROVE  j = k \/ j = n
OBVIOUS

\* A blank line ends a statement in which only comments are open, and none in
\* which a bracket, a quote or a template is open after the last `${`
\* (esm_statement_is_complete).
THEOREM StatementsEndClosed == ScanSpec => []EndsWhatIsClosed
<1>1. ASSUME ScanIInv PROVE EndsWhatIsClosed
  <2>1. /\ mode \in ModeType /\ open \in Seq(Opener) /\ comment \in Comment \cup {"none"}
        /\ Len(open) \in Nat /\ DOMAIN open = 1..Len(open)
    BY <1>1, LenProperties DEF ScanIInv, ScanTypeOK
  <2>2. mode.in \in Quote \cup {"Code"} /\ mode.brackets \in Seq(Bracket)
    BY <2>1, ModesHaveTypes
  <2>3. CASE mode.in = "Code" /\ mode.brackets = <<>>
    <3>1. esm_statement_is_complete
      BY <2>3 DEF esm_statement_is_complete
    <3>2. ASSUME NEW i \in DOMAIN open
          PROVE  open[i] \in Comment \/ \E j \in i..Len(open) : open[j] = "${"
      <4>1. i \in 1..Len(open) /\ open # <<>>
        BY <2>1, EmptySeq
      <4>2. CASE comment = "none"
        <5>1. Nested = open /\ Last(open) = open[Len(open)]
          BY <2>1, <4>1, <4>2, FrontLast DEF Nested
        <5>2. Last(open) = "${"
          BY <1>1, <2>3, <4>1, <5>1, Innermost DEF OpenedBy
        <5>3. Len(open) \in i..Len(open)
          BY <2>1, <4>1
        <5>. QED BY <5>1, <5>2, <5>3
      <4>3. CASE comment # "none"
        <5>1. /\ comment \in Comment /\ Nested = Front(open) /\ Last(open) = comment
              /\ Last(open) = open[Len(open)]
              /\ Len(Nested) = Len(open) - 1 /\ \A j \in 1..(Len(open) - 1) : Nested[j] = open[j]
          BY <1>1, <2>1, <4>1, <4>3, Innermost, FrontLast DEF Nested
        <5>2. CASE i = Len(open)
          BY <5>1, <5>2
        <5>3. CASE i < Len(open)
          <6>1. Nested \in Seq(Opener) /\ Nested # <<>>
            BY <1>1, <2>1, <4>1, <5>1, <5>3, Innermost, EmptyIsShort
          <6>2. Last(Nested) = "${" /\ Last(Nested) = Nested[Len(Nested)]
            BY <1>1, <2>3, <6>1, Innermost, FrontLast DEF OpenedBy
          <6>3. Len(open) - 1 \in i..Len(open) /\ Len(open) - 1 \in 1..(Len(open) - 1)
            BY <2>1, <4>1, <5>3
          <6>4. open[Len(open) - 1] = "${"
            BY <5>1, <6>2, <6>3
          <6>. QED BY <6>3, <6>4
        <5>4. i = Len(open) \/ i < Len(open)
          BY <2>1, <4>1
        <5>. QED BY <5>2, <5>3, <5>4
      <4>. QED BY <4>2, <4>3
    <3>3. "${" \notin Comment
      BY DEF Comment
    <3>. QED BY <3>1, <3>2, <3>3 DEF EndsWhatIsClosed
  <2>4. CASE ~(mode.in = "Code" /\ mode.brackets = <<>>)
    \* What was opened last is a bracket or a quote, but for a comment.
    <3>1. ~esm_statement_is_complete
      BY <2>4 DEF esm_statement_is_complete
    <3>2. PICK k \in 1..Len(open) :
            /\ open[k] \in Bracket \cup Quote
            /\ k = Len(open) \/ (k = Len(open) - 1 /\ open[Len(open)] \in Comment)
      <4>1. Nested # <<>> /\ Last(Nested) \in Bracket \cup Quote /\ Nested \in Seq(Opener)
        BY <1>1, <2>1, <2>2, <2>4, Innermost, FrontLast DEF OpenedBy, ModeType
      <4>2. Last(Nested) = Nested[Len(Nested)] /\ Len(Nested) > 0 /\ Len(Nested) \in Nat
        BY <4>1, FrontLast, EmptyIsShort
      <4>3. CASE comment = "none"
        <5>1. Nested = open
          BY <4>3 DEF Nested
        <5>2. Len(open) \in 1..Len(open) /\ open[Len(open)] \in Bracket \cup Quote
          BY <4>1, <4>2, <5>1
        <5>. QED BY <5>2
      <4>4. CASE comment # "none"
        <5>1. open # <<>> /\ Last(open) = comment /\ comment \in Comment /\ Nested = Front(open)
          BY <1>1, <2>1, <4>4, Innermost DEF Nested
        <5>2. /\ Last(open) = open[Len(open)] /\ Len(Nested) = Len(open) - 1
              /\ \A j \in 1..(Len(open) - 1) : Nested[j] = open[j]
          BY <2>1, <5>1, FrontLast
        <5>3. Len(open) - 1 \in 1..(Len(open) - 1)
          BY <2>1, <4>2, <5>2
        <5>4. open[Len(open) - 1] \in Bracket \cup Quote
          BY <4>1, <4>2, <5>2, <5>3
        <5>5. Len(open) - 1 \in 1..Len(open) /\ open[Len(open)] \in Comment
          BY <2>1, <5>1, <5>2, <5>3
        <5>. QED BY <5>4, <5>5
      <4>. QED BY <4>3, <4>4
    <3>3. /\ open[k] \notin Comment /\ open[k] # "${"
          /\ \A j \in k..Len(open) : j = k \/ open[j] \in Comment
      <4>1. open[k] \notin Comment /\ open[k] # "${"
        BY <3>2 DEF Bracket, Quote, Comment
      <4>2. ASSUME NEW j \in k..Len(open) PROVE j = k \/ open[j] \in Comment
        <5>1. j = k \/ j = Len(open)
          <6>1. Len(open) \in Nat /\ (k = Len(open) \/ k = Len(open) - 1)
            BY Zenon, <2>1, <3>2
          <6>. QED BY Zenon, <6>1, LastTwo
        <5>2. j # k => open[Len(open)] \in Comment
          BY Zenon, <2>1, <3>2, <4>2, <5>1
        <5>. QED BY <5>1, <5>2
      <4>. QED BY <4>1, <4>2
    <3>4. \A j \in k..Len(open) : open[j] # "${"
      BY <3>3 DEF Comment
    <3>5. k \in DOMAIN open
      BY <2>1
    <3>. QED BY <3>1, <3>3, <3>4, <3>5 DEF EndsWhatIsClosed
  <2>. QED BY <2>3, <2>4
<1>. QED BY <1>1, ScanInvariance, PTL

-----------------------------------------------------------------------------
(* MdxLower.                                                                 *)

\* What each step does to the stack, with types and without the data.
Typed(s) ==
  /\ Len(s) > 0 /\ IsSequence(s)
  /\ \A i \in DOMAIN s : IsSection(s[i]) /\ IsSequence(s[i].children)

\* The first n sections of s and t have the same headings.
SameHeadings(s, t, n) ==
  \A i \in 1..n : s[i].depth = t[i].depth /\ s[i].heading_text = t[i].heading_text

LEMMA SequenceOfItsElements ==
  ASSUME NEW n \in Nat, NEW f, f = [i \in 1..n |-> f[i]]
  PROVE  IsSequence(f) /\ Len(f) = n
BY DEF IsSequence

LEMMA SequenceIsFunction ==
  ASSUME NEW S, NEW q \in Seq(S)
  PROVE  q = [i \in 1..Len(q) |-> q[i]]
OBVIOUS

\* An element more at the end.
LEMMA SequenceMore ==
  ASSUME NEW f, IsSequence(f), NEW x
  PROVE  /\ Len(f) \in Nat /\ DOMAIN f = 1..Len(f)
         /\ IsSequence(Append(f, x)) /\ Len(Append(f, x)) = Len(f) + 1
         /\ DOMAIN Append(f, x) = 1..(Len(f) + 1)
         /\ \A i \in 1..Len(f) : Append(f, x)[i] = f[i]
         /\ Append(f, x)[Len(f) + 1] = x
<1> DEFINE S == {f[i] : i \in DOMAIN f} \cup {x}
<1>1. f \in Seq(S)
  BY DEF IsSequence
<1> HIDE DEF S
<1>2. x \in S
  BY DEF S
<1>3. /\ Append(f, x) \in Seq(S) /\ Len(f) \in Nat /\ Len(Append(f, x)) = Len(f) + 1
      /\ DOMAIN f = 1..Len(f) /\ DOMAIN Append(f, x) = 1..(Len(f) + 1)
      /\ \A i \in 1..Len(f) : Append(f, x)[i] = f[i]
      /\ Append(f, x)[Len(f) + 1] = x
  BY <1>1, <1>2, AppendProperties, LenProperties
<1> DEFINE g == Append(f, x)
<1> HIDE DEF g
<1>4. g = [i \in 1..(Len(f) + 1) |-> g[i]]
  BY <1>3, SequenceIsFunction DEF g
<1>5. IsSequence(g)
  BY <1>3, <1>4, SequenceOfItsElements
<1> QED
  BY <1>3, <1>5 DEF g

LEMMA TopIsTyped ==
  ASSUME TypeOK
  PROVE  /\ Len(stack) \in Nat \ {0} /\ DOMAIN stack = 1..Len(stack)
         /\ stack = [i \in 1..Len(stack) |-> stack[i]]
         /\ top = stack[Len(stack)] /\ IsSection(top) /\ IsSequence(top.children)
<1>1. IsSequence(stack) /\ Len(stack) > 0
  BY DEF TypeOK
<1>2. Len(stack) \in Nat /\ DOMAIN stack = 1..Len(stack)
  BY <1>1 DEF IsSequence
<1>3. stack = [i \in 1..Len(stack) |-> stack[i]]
  BY <1>1 DEF IsSequence
<1>4. Len(stack) \in DOMAIN stack
  BY <1>1, <1>2
<1> QED
  BY <1>1, <1>2, <1>3, <1>4 DEF TypeOK, top

\* One section of the stack is replaced by a section with the same heading.
LEMMA Replaced ==
  ASSUME TypeOK, NEW n \in 1..Len(stack),
         NEW sect, IsSection(sect), IsSequence(sect.children),
         sect.depth = stack[n].depth, sect.heading_text = stack[n].heading_text,
         NEW m \in n..Len(stack),
         NEW new, new = [[i \in 1..m |-> stack[i]] EXCEPT ![n] = sect]
  PROVE  Typed(new) /\ Len(new) = m /\ SameHeadings(new, stack, m)
<1>1. /\ Len(stack) \in Nat \ {0} /\ DOMAIN stack = 1..Len(stack)
      /\ \A i \in DOMAIN stack : IsSection(stack[i]) /\ IsSequence(stack[i].children)
  BY TopIsTyped DEF TypeOK
<1>2. m \in Nat /\ m > 0 /\ n \in 1..m
  BY <1>1
<1>3. new = [i \in 1..m |-> IF i = n THEN sect ELSE stack[i]]
  OBVIOUS
<1>4. new = [i \in 1..m |-> new[i]] /\ DOMAIN new = 1..m
  BY <1>3
<1>5. IsSequence(new) /\ Len(new) = m
  BY <1>2, <1>4, SequenceOfItsElements
<1>6. \A i \in 1..m : i \in DOMAIN stack
  BY <1>1, <1>2
<1>7. \A i \in DOMAIN new : IsSection(new[i]) /\ IsSequence(new[i].children)
  BY <1>1, <1>3, <1>4, <1>6
<1>8. SameHeadings(new, stack, m)
  BY <1>3 DEF SameHeadings
<1> QED
  BY <1>2, <1>5, <1>7, <1>8 DEF Typed

LEMMA PopStep ==
  ASSUME TypeOK, pop
  PROVE  /\ Typed(stack') /\ Len(stack') = Len(stack) - 1
         /\ SameHeadings(stack', stack, Len(stack) - 1)
<1> DEFINE n == Len(stack) - 1
           below == SubSeq(stack, 1, n)
           sect == [stack[n] EXCEPT !.children = Append(@, SubSection(top))]
<1>1. n \in 1..Len(stack) /\ n \in n..Len(stack)
  BY TopIsTyped DEF pop
<1>2. below = [i \in 1..n |-> stack[i]]
  BY <1>1, TopIsTyped
<1>3. stack' = [below EXCEPT ![n].children = Append(@, SubSection(top))]
  BY DEF pop
<1>4. stack' = [[i \in 1..n |-> stack[i]] EXCEPT ![n] = sect]
  BY <1>1, <1>2, <1>3
<1>5. IsSection(stack[n]) /\ IsSequence(stack[n].children)
  BY <1>1, TopIsTyped DEF TypeOK
<1>6. /\ IsSection(sect) /\ sect.children = Append(stack[n].children, SubSection(top))
      /\ sect.depth = stack[n].depth /\ sect.heading_text = stack[n].heading_text
  BY <1>5 DEF IsSection
<1> HIDE DEF sect, n
<1>7. IsSequence(sect.children)
  BY <1>5, <1>6, SequenceMore
<1>8. /\ IsSection(sect)
      /\ sect.depth = stack[n].depth /\ sect.heading_text = stack[n].heading_text
  BY <1>6
<1> QED
  BY <1>1, <1>4, <1>7, <1>8, Replaced DEF n

\* A step that changes the section on top and goes on.
LEMMA TopStep ==
  ASSUME TypeOK, NEW sect, OnTop(sect),
         IsSection(sect), IsSequence(sect.children),
         sect.depth = top.depth, sect.heading_text = top.heading_text
  PROVE  Typed(stack') /\ Len(stack') = Len(stack) /\ SameHeadings(stack', stack, Len(stack))
<1> DEFINE n == Len(stack)
<1>1. n \in 1..Len(stack) /\ n \in n..Len(stack)
  BY TopIsTyped
<1>2. stack' = [[i \in 1..n |-> stack[i]] EXCEPT ![n] = sect]
  BY TopIsTyped DEF OnTop
<1>3. sect.depth = stack[n].depth /\ sect.heading_text = stack[n].heading_text
  BY TopIsTyped
<1> HIDE DEF n
<1> QED
  BY <1>1, <1>2, <1>3, Replaced DEF n

LEMMA FlowStep ==
  ASSUME TypeOK, flow
  PROVE  Typed(stack') /\ Len(stack') = Len(stack) /\ SameHeadings(stack', stack, Len(stack))
<1> DEFINE sect == [top EXCEPT !.children = Append(@, Verbatim(pos))]
<1>1. OnTop(sect)
  BY DEF flow
<1>2. /\ IsSection(sect) /\ sect.children = Append(top.children, Verbatim(pos))
      /\ sect.depth = top.depth /\ sect.heading_text = top.heading_text
  BY TopIsTyped DEF IsSection
<1> HIDE DEF sect
<1>3. IsSequence(sect.children)
  BY <1>2, TopIsTyped, SequenceMore
<1> QED
  BY <1>1, <1>2, <1>3, TopStep

LEMMA ProseStep ==
  ASSUME TypeOK, prose
  PROVE  Typed(stack') /\ Len(stack') = Len(stack) /\ SameHeadings(stack', stack, Len(stack))
<1> DEFINE sect == [top EXCEPT !.prose_parts = Append(@, pos)]
<1>1. OnTop(sect)
  BY DEF prose
<1>2. pos \in Nat
  BY DEF TypeOK
<1>3. top.prose_parts \in Seq(Nat) /\ Append(top.prose_parts, pos) \in Seq(Nat)
  BY <1>2, TopIsTyped DEF IsSection
<1> DEFINE parts == Append(top.prose_parts, pos)
<1>4. sect = [top EXCEPT !.prose_parts = parts] /\ parts \in Seq(Nat)
  BY <1>3
<1> HIDE DEF sect, parts
<1>5. /\ IsSection(sect) /\ sect.children = top.children
      /\ sect.depth = top.depth /\ sect.heading_text = top.heading_text
  BY <1>4, TopIsTyped DEF IsSection
<1> QED
  BY <1>1, <1>5, TopIsTyped, TopStep

\* What a node of the document is.
LEMMA NodesAreTyped ==
  ASSUME TypeOK
  PROVE  /\ Len(doc) \in Nat /\ DOMAIN doc = 1..Len(doc)
         /\ pos \in Nat /\ 1 <= pos /\ pos <= Len(doc) + 1
         /\ \A i \in Headings : doc[i].depth \in Depth /\ i \in Nat /\ 1 <= i /\ i <= Len(doc)
<1>1. doc \in Seq(Node) /\ Len(doc) \in Nat /\ DOMAIN doc = 1..Len(doc)
  BY DEF TypeOK
<1>2. pos \in Nat /\ 1 <= pos /\ pos <= Len(doc) + 1
  BY <1>1 DEF TypeOK
<1>3. \A i \in Headings : doc[i] \in Node /\ doc[i].kind = "heading"
  BY <1>1 DEF Headings
<1>4. \A i \in Headings : doc[i].depth \in Depth
  BY <1>3 DEF Node
<1> QED
  BY <1>1, <1>2, <1>4 DEF Headings

LEMMA HeadingStep ==
  ASSUME TypeOK, heading
  PROVE  /\ Typed(stack') /\ Len(stack') = Len(stack) + 1
         /\ SameHeadings(stack', stack, Len(stack))
         /\ stack'[Len(stack) + 1].heading_text = pos
         /\ stack'[Len(stack) + 1].depth = doc[pos].depth
<1> DEFINE n == Len(stack)
           sect == Section(doc[pos].depth, pos)
<1>1. n \in Nat \ {0} /\ stack = [i \in 1..n |-> stack[i]] /\ DOMAIN stack = 1..n
  BY TopIsTyped
<1>2. stack' = [i \in 1..(n + 1) |-> IF i = n + 1 THEN sect ELSE stack[i]]
  BY <1>1 DEF heading, TypeOK, IsSequence
<1>3. pos \in Headings
  BY DEF heading, At, Headings
<1>4. /\ IsSection(sect) /\ sect.children = <<>> /\ IsSequence(sect.children)
      /\ sect.heading_text = pos /\ sect.depth = doc[pos].depth
  <2>1. IsSequence(<<>>)
    BY DEF IsSequence
  <2> QED
    BY <1>3, <2>1, NodesAreTyped DEF Section, IsSection
<1> HIDE DEF sect
<1>5. /\ stack' = [i \in 1..(n + 1) |-> stack'[i]] /\ DOMAIN stack' = 1..(n + 1)
      /\ stack'[n + 1] = sect
      /\ \A i \in 1..n : stack'[i] = stack[i]
  BY <1>1, <1>2
<1>6. IsSequence(stack') /\ Len(stack') = n + 1
  BY <1>1, <1>5, SequenceOfItsElements
<1>7. \A i \in DOMAIN stack : IsSection(stack[i]) /\ IsSequence(stack[i].children)
  BY DEF TypeOK
<1>8. \A i \in DOMAIN stack' : IsSection(stack'[i]) /\ IsSequence(stack'[i].children)
  <2> SUFFICES ASSUME NEW i \in 1..(n + 1)
               PROVE  IsSection(stack'[i]) /\ IsSequence(stack'[i].children)
    BY <1>5
  <2>1. CASE i = n + 1
    BY <2>1, <1>4, <1>5
  <2>2. CASE i \in 1..n
    BY <2>2, <1>1, <1>5, <1>7
  <2> QED
    BY <1>1, <2>1, <2>2
<1>9. SameHeadings(stack', stack, n)
  BY <1>5 DEF SameHeadings
<1> QED
  BY <1>1, <1>4, <1>5, <1>6, <1>8, <1>9 DEF Typed

-----------------------------------------------------------------------------
\* The type invariant.
LEMMA TypeInit == LowerInit => TypeOK
<1> SUFFICES ASSUME LowerInit PROVE TypeOK
  OBVIOUS
<1>1. PICK n \in 0..MaxNodes : doc \in [1..n -> Node]
  BY DEF LowerInit, Documents
<1>2. n \in Nat
  OBVIOUS
<1>3. doc \in Seq(Node) /\ Len(doc) \in Nat
  BY <1>1, <1>2
<1>4. /\ stack = <<Section(0, 0)>> /\ IsSection(Section(0, 0))
      /\ IsSequence(Section(0, 0).children) /\ closed = {}
  BY DEF LowerInit, Section, IsSection, IsSequence
<1>5. IsSequence(stack) /\ Len(stack) = 1 /\ DOMAIN stack = {1} /\ stack[1] = Section(0, 0)
  BY <1>4 DEF IsSequence
<1> QED
  BY <1>3, <1>4, <1>5 DEF LowerInit, TypeOK

LEMMA TypeNext == TypeOK /\ [LowerNext]_lower_vars => TypeOK'
<1> SUFFICES ASSUME TypeOK, [LowerNext]_lower_vars PROVE TypeOK'
  OBVIOUS
<1>1. ASSUME UNCHANGED stack PROVE Typed(stack')
  BY <1>1 DEF TypeOK, Typed
<1>2. Typed(stack') => IsSequence(stack)' /\ (Len(stack) > 0)'
                       /\ (\A i \in DOMAIN stack : IsSection(stack[i]) /\ IsSequence(stack[i].children))'
  BY DEF Typed, IsSequence, IsSection
<1>3. ASSUME Typed(stack'), UNCHANGED doc, closed' \in {closed, closed \cup {top}},
             pos' = pos \/ (pos' = pos + 1 /\ pos \in DOMAIN doc),
             phase' \in {"lowering", "lowered", "failed"},
             esm_statements' \subseteq DOMAIN doc
      PROVE  TypeOK'
  <2>1. pos' \in 1..(Len(doc') + 1)
    BY <1>3, NodesAreTyped
  <2>2. (doc \in Seq(Node))' /\ (esm_statements \subseteq DOMAIN doc)'
    BY <1>3 DEF TypeOK
  <2>3. \A sect \in closed \cup {top} : IsSection(sect) /\ IsSequence(sect.children)
    BY TopIsTyped DEF TypeOK
  <2>4. \A sect \in closed' : IsSection(sect) /\ IsSequence(sect.children)
    BY <1>3, <2>3
  <2>5. (\A sect \in closed \cup {stack[i] : i \in DOMAIN stack} :
           IsSection(sect) /\ IsSequence(sect.children))'
    BY <1>2, <1>3, <2>4
  <2> QED
    BY <1>2, <1>3, <2>1, <2>2, <2>5 DEF TypeOK
<1>4. /\ esm_statements \subseteq DOMAIN doc
      /\ phase \in {"lowering", "lowered", "failed"}
  BY DEF TypeOK
<1>5. CASE esm
  BY <1>1, <1>3, <1>4, <1>5 DEF esm, At, Advance
<1>6. CASE pop
  BY <1>3, <1>4, <1>6, PopStep DEF pop
<1>7. CASE heading
  BY <1>3, <1>4, <1>7, HeadingStep DEF heading, At, Advance
<1>8. CASE flow
  BY <1>3, <1>4, <1>8, FlowStep DEF flow, At, Advance
<1>9. CASE prose
  BY <1>3, <1>4, <1>9, ProseStep DEF prose, At, Advance
<1>10. CASE rejected
  BY <1>1, <1>3, <1>4, <1>10 DEF rejected
<1>11. CASE lower_to_tsx
  BY <1>1, <1>3, <1>4, <1>11 DEF lower_to_tsx
<1>12. CASE UNCHANGED lower_vars
  BY <1>1, <1>3, <1>4, <1>12 DEF lower_vars
<1> QED
  BY <1>5, <1>6, <1>7, <1>8, <1>9, <1>10, <1>11, <1>12 DEF LowerNext

-----------------------------------------------------------------------------
(* The stack and the headings.                                             *)

Chain == RankOfHeading /\ StackIsTheGoverningHeadings

LEMMA ChainInit == LowerInit => Chain
<1> SUFFICES ASSUME LowerInit PROVE Chain
  OBVIOUS
<1>1. TypeOK
  BY TypeInit
<1>2. Len(stack) = 1 /\ stack[1].depth = 0 /\ stack[1].heading_text = 0 /\ pos = 1
  BY DEF LowerInit, Section
<1>3. \A h \in Headings : ~ Governs(h, pos - 1)
  BY <1>1, <1>2, NodesAreTyped DEF Governs
<1> QED
  BY <1>2, <1>3 DEF Chain, RankOfHeading, StackIsTheGoverningHeadings, OnlyGoverning,
                    AllGoverning, InOrder

\* What governs the nodes read so far still governs the next one, and nothing
\* new does, if it is not a heading.
LEMMA NotAHeading ==
  ASSUME TypeOK, pos \notin Headings, NEW h \in Headings
  PROVE  Governs(h, pos) <=> Governs(h, pos - 1)
<1>1. h # pos /\ (h <= pos <=> h <= pos - 1)
  BY NodesAreTyped
<1>2. \A j \in Headings : j <= pos <=> j <= pos - 1
  BY NodesAreTyped
<1> QED
  BY <1>1, <1>2 DEF Governs

\* A step that reads a node that is no heading.
LEMMA ChainReads ==
  ASSUME TypeOK, Chain, UNCHANGED doc, pos' = pos + 1,
         pos \in DOMAIN doc, doc[pos].kind # "heading",
         Len(stack') = Len(stack), SameHeadings(stack', stack, Len(stack))
  PROVE  Chain'
<1>1. pos \notin Headings /\ pos' - 1 = pos /\ Headings' = Headings /\ pos <= Len(doc)
  BY NodesAreTyped DEF Headings
<1>2. /\ Len(stack) \in Nat \ {0}
      /\ \A i \in 1..Len(stack) : /\ stack'[i].depth = stack[i].depth
                                 /\ stack'[i].heading_text = stack[i].heading_text
  BY TopIsTyped DEF SameHeadings
<1>3. 1 \in 1..Len(stack) /\ \A i \in 2..Len(stack) : i \in 1..Len(stack)
  BY <1>2
<1>4. RankOfHeading'
  BY <1>1, <1>2, <1>3 DEF Chain, RankOfHeading
<1>5. \A h, i : Governs(h, i)' <=> Governs(h, i)
  BY <1>1 DEF Governs
<1>6. OnlyGoverning'
  BY <1>1, <1>2, <1>3, <1>5, NotAHeading
     DEF Chain, RankOfHeading, StackIsTheGoverningHeadings, OnlyGoverning
<1>7. AllGoverning'
  BY <1>1, <1>2, <1>3, <1>5, NotAHeading
     DEF Chain, StackIsTheGoverningHeadings, AllGoverning
<1>8. InOrder'
  BY <1>2, <1>3 DEF Chain, StackIsTheGoverningHeadings, InOrder
<1> QED
  BY <1>4, <1>6, <1>7, <1>8 DEF Chain, StackIsTheGoverningHeadings

\* A section that is closed is closed by the heading ahead, or by the end.
LEMMA ChainPops == TypeOK /\ Chain /\ pop => Chain'
<1> SUFFICES ASSUME TypeOK, Chain, pop PROVE Chain'
  OBVIOUS
<1> DEFINE n == Len(stack)
<1>1. n \in Nat /\ n > 1 /\ UNCHANGED <<doc, pos>> /\ Headings' = Headings
  BY TopIsTyped DEF pop, Headings
<1>2. /\ Len(stack') = n - 1
      /\ \A i \in 1..(n - 1) : /\ stack'[i].depth = stack[i].depth
                              /\ stack'[i].heading_text = stack[i].heading_text
  BY PopStep DEF SameHeadings
<1>3. 1 \in 1..(n - 1) /\ \A i \in 2..(n - 1) : i \in 1..(n - 1) /\ i \in 2..n
  BY <1>1
<1>4. RankOfHeading'
  BY <1>1, <1>2, <1>3 DEF Chain, RankOfHeading
<1>5. \A h, i : Governs(h, i)' <=> Governs(h, i)
  BY <1>1 DEF Governs
<1>6. OnlyGoverning'
  BY <1>1, <1>2, <1>3, <1>5 DEF Chain, StackIsTheGoverningHeadings, OnlyGoverning
<1>7. InOrder'
  BY <1>1, <1>2, <1>3 DEF Chain, StackIsTheGoverningHeadings, InOrder
<1>8. AllGoverning'
  <2> SUFFICES ASSUME NEW h \in Headings, Governs(h, pos - 1)
               PROVE  \/ \E i \in 2..(n - 1) : stack'[i].heading_text = h
                      \/ pos > Len(doc)
                      \/ doc[pos].kind = "heading" /\ doc[pos].depth <= doc[h].depth
    BY <1>1, <1>2, <1>5 DEF AllGoverning
  <2>1. CASE \E i \in 2..n : stack[i].heading_text = h
    <3>1. PICK i \in 2..n : stack[i].heading_text = h
      BY <2>1
    <3>2. CASE i \in 2..(n - 1)
      BY <3>1, <3>2, <1>2, <1>3
    <3>3. CASE i = n
      <4>1. top.depth = doc[h].depth
        BY <3>1, <3>3, TopIsTyped DEF Chain, RankOfHeading
      <4> QED
        BY <4>1 DEF pop, Closing, closes, At, AtEnd
    <3> QED
      BY <3>2, <3>3, <1>1
  <2> QED
    BY <2>1 DEF Chain, StackIsTheGoverningHeadings, AllGoverning
<1> QED
  BY <1>4, <1>6, <1>7, <1>8 DEF Chain, StackIsTheGoverningHeadings

\* The ranks of the open sections grow from the root on.
LEMMA TopIsDeepest ==
  ASSUME TypeOK, Chain, NEW i \in 2..Len(stack)
  PROVE  doc[stack[i].heading_text].depth <= top.depth
<1> DEFINE n == Len(stack)
<1>1. n \in Nat /\ n \in 2..n /\ top = stack[n]
  BY TopIsTyped
<1>2. /\ stack[i].heading_text \in Headings /\ stack[n].heading_text \in Headings
      /\ top.depth = doc[stack[n].heading_text].depth
  BY <1>1 DEF Chain, RankOfHeading
<1>3. top.depth \in Nat
  BY <1>2, NodesAreTyped, DepthsAreRanks
<1>4. CASE i = n
  BY <1>2, <1>3, <1>4
<1>5. CASE i < n
  <2>1. stack[i].heading_text < stack[n].heading_text
    BY <1>1, <1>5 DEF Chain, StackIsTheGoverningHeadings, InOrder
  <2>2. Governs(stack[i].heading_text, pos - 1) /\ Governs(stack[n].heading_text, pos - 1)
    BY <1>1 DEF Chain, StackIsTheGoverningHeadings, OnlyGoverning
  <2>3. top.depth > doc[stack[i].heading_text].depth
    BY <1>2, <2>1, <2>2 DEF Governs
  <2>4. doc[stack[i].heading_text].depth \in Nat
    BY <1>2, NodesAreTyped, DepthsAreRanks
  <2> QED
    BY <2>3, <2>4, <1>3
<1> QED
  BY <1>1, <1>4, <1>5

\* A heading is pushed when the sections left open are those it is in.
LEMMA ChainPushes == TypeOK /\ Chain /\ heading => Chain'
<1> SUFFICES ASSUME TypeOK, Chain, heading PROVE Chain'
  OBVIOUS
<1> DEFINE n == Len(stack)
<1>1. n \in Nat \ {0} /\ UNCHANGED doc /\ pos' - 1 = pos /\ Headings' = Headings
  BY TopIsTyped, NodesAreTyped DEF heading, Advance, Headings
<1>2. /\ Len(stack') = n + 1
      /\ stack'[n + 1].heading_text = pos /\ stack'[n + 1].depth = doc[pos].depth
      /\ \A i \in 1..n : /\ stack'[i].depth = stack[i].depth
                        /\ stack'[i].heading_text = stack[i].heading_text
  BY HeadingStep DEF SameHeadings
<1>3. pos \in Headings /\ pos \in Nat /\ pos <= Len(doc) /\ Len(doc) \in Nat
  BY NodesAreTyped DEF heading, At, Headings
<1>4. \A i \in 2..(n + 1) : i = n + 1 \/ (i \in 2..n /\ i \in 1..n)
  BY <1>1
<1>5. RankOfHeading'
  BY <1>1, <1>2, <1>3, <1>4 DEF Chain, RankOfHeading
<1>6. \A h, i : Governs(h, i)' <=> Governs(h, i)
  BY <1>1 DEF Governs
<1>7. \A i \in 2..n : doc[stack[i].heading_text].depth < doc[pos].depth
  <2> SUFFICES ASSUME NEW i \in 2..n
               PROVE  doc[stack[i].heading_text].depth < doc[pos].depth
    OBVIOUS
  <2>1. ~ (top.depth >= doc[pos].depth)
    BY <1>1 DEF heading, closes
  <2>2. doc[stack[i].heading_text].depth \in Nat /\ doc[pos].depth \in Nat
    BY <1>3, NodesAreTyped, DepthsAreRanks DEF Chain, RankOfHeading
  <2>3. top.depth \in Nat
    BY TopIsTyped, DepthsAreRanks DEF IsSection
  <2> QED
    BY <2>1, <2>2, <2>3, TopIsDeepest
<1>8. \A i \in 2..n : stack[i].heading_text < pos
  <2> SUFFICES ASSUME NEW i \in 2..n PROVE stack[i].heading_text < pos
    OBVIOUS
  <2>1. stack[i].heading_text \in Headings /\ stack[i].heading_text <= pos - 1
    BY DEF Chain, RankOfHeading, StackIsTheGoverningHeadings, OnlyGoverning, Governs
  <2>2. stack[i].heading_text \in Nat
    BY <2>1, NodesAreTyped
  <2> QED
    BY <2>1, <2>2, <1>3
<1>9. ASSUME NEW h \in Headings
      PROVE  Governs(h, pos) <=>
               h = pos \/ (Governs(h, pos - 1) /\ doc[h].depth < doc[pos].depth)
  <2>1. /\ h \in Nat /\ doc[h].depth \in Nat /\ doc[pos].depth \in Nat
        /\ \A j \in Headings : j \in Nat
    BY <1>3, NodesAreTyped, DepthsAreRanks
  <2>2. \A j \in Headings : j <= pos <=> j = pos \/ j <= pos - 1
    BY <1>3, <2>1
  <2>3. Governs(pos, pos)
    BY <1>3, <2>1 DEF Governs
  <2>4. CASE h = pos
    BY <2>3, <2>4
  <2>5. CASE h # pos
    BY <1>3, <2>1, <2>2, <2>5 DEF Governs
  <2> QED
    BY <2>4, <2>5
<1>10. OnlyGoverning'
  <2> SUFFICES ASSUME NEW i \in 2..(n + 1)
               PROVE  Governs(stack'[i].heading_text, pos)
    BY <1>1, <1>2, <1>6 DEF OnlyGoverning
  <2>1. CASE i = n + 1
    BY <2>1, <1>2, <1>3, <1>9
  <2>2. CASE i \in 2..n
    <3>1. /\ stack[i].heading_text \in Headings
          /\ Governs(stack[i].heading_text, pos - 1)
      BY <2>2 DEF Chain, RankOfHeading, StackIsTheGoverningHeadings, OnlyGoverning
    <3> QED
      BY <2>2, <3>1, <1>2, <1>4, <1>7, <1>9
  <2> QED
    BY <2>1, <2>2, <1>4
<1>11. AllGoverning'
  <2> SUFFICES ASSUME NEW h \in Headings, Governs(h, pos)
               PROVE  \E i \in 2..(n + 1) : stack'[i].heading_text = h
    BY <1>1, <1>2, <1>6 DEF AllGoverning
  <2>1. CASE h = pos
    <3>1. n + 1 \in 2..(n + 1)
      BY <1>1
    <3> QED
      BY <2>1, <3>1, <1>2
  <2>2. CASE h # pos
    <3>1. Governs(h, pos - 1) /\ doc[h].depth < doc[pos].depth
      BY <2>2, <1>9
    <3>2. doc[h].depth \in Nat /\ doc[pos].depth \in Nat
      BY <1>3, NodesAreTyped, DepthsAreRanks
    <3>3. \E i \in 2..n : stack[i].heading_text = h
      BY <3>1, <3>2, <1>3 DEF Chain, StackIsTheGoverningHeadings, AllGoverning
    <3>4. PICK i \in 2..n : stack[i].heading_text = h
      BY <3>3
    <3>5. i \in 1..n /\ i \in 2..(n + 1)
      BY <1>1
    <3> QED
      BY <3>4, <3>5, <1>2
  <2> QED
    BY <2>1, <2>2
<1>12. InOrder'
  <2> SUFFICES ASSUME NEW i \in 2..(n + 1), NEW j \in 2..(n + 1), i < j
               PROVE  stack'[i].heading_text < stack'[j].heading_text
    BY <1>2 DEF InOrder
  <2>1. i \in 2..n /\ i \in 1..n
    BY <1>1
  <2>2. CASE j = n + 1
    BY <2>1, <2>2, <1>2, <1>8
  <2>3. CASE j \in 2..n
    BY <2>1, <2>3, <1>2, <1>4 DEF Chain, StackIsTheGoverningHeadings, InOrder
  <2> QED
    BY <2>2, <2>3, <1>4
<1> QED
  BY <1>5, <1>10, <1>11, <1>12 DEF Chain, StackIsTheGoverningHeadings

LEMMA ChainNext == TypeOK /\ Chain /\ [LowerNext]_lower_vars => Chain'
<1> SUFFICES ASSUME TypeOK, Chain, [LowerNext]_lower_vars PROVE Chain'
  OBVIOUS
<1>1. SameHeadings(stack, stack, Len(stack))
  BY DEF SameHeadings
<1>2. ASSUME UNCHANGED <<doc, pos, stack>> PROVE Chain'
  BY <1>2 DEF Chain, RankOfHeading, StackIsTheGoverningHeadings, OnlyGoverning, AllGoverning,
              InOrder, Governs, Headings
<1>3. CASE esm
  BY <1>1, <1>3, ChainReads DEF esm, At, Advance
<1>4. CASE pop
  BY <1>4, ChainPops
<1>5. CASE heading
  BY <1>5, ChainPushes
<1>6. CASE flow
  BY <1>6, FlowStep, ChainReads DEF flow, At, Advance
<1>7. CASE prose
  BY <1>7, ProseStep, ChainReads DEF prose, At, Advance
<1>8. CASE rejected \/ lower_to_tsx \/ UNCHANGED lower_vars
  BY <1>2, <1>8 DEF rejected, lower_to_tsx, lower_vars
<1> QED
  BY <1>3, <1>4, <1>5, <1>6, <1>7, <1>8 DEF LowerNext

-----------------------------------------------------------------------------
(* What the sections hold.                                                 *)

Held ==
  /\ \A i \in DOMAIN stack : Holds(stack[i], SoFar(i)) /\ SubSections(stack[i]) \subseteq closed
  /\ \A sect \in closed : Holds(sect, DOMAIN doc) /\ SubSections(sect) \subseteq closed

LEMMA RanksAreNumbers ==
  ASSUME TypeOK, NEW j \in Headings
  PROVE  j \in Nat /\ doc[j].depth \in Nat
<1>1. doc[j].depth \in Depth /\ j \in Nat
  BY NodesAreTyped
<1> QED
  BY <1>1, DepthsAreRanks

\* The headings of the open sections, from the root on.
LEMMA HeadingsGrow ==
  ASSUME TypeOK, Chain
  PROVE  /\ stack[1].heading_text = 0
         /\ \A i \in 1..Len(stack) : stack[i].heading_text \in Nat
         /\ \A i \in 2..Len(stack) :
              /\ stack[i].heading_text \in Headings /\ 0 < stack[i].heading_text
              /\ stack[i].heading_text < pos /\ Governs(stack[i].heading_text, pos - 1)
              /\ stack[i].depth = doc[stack[i].heading_text].depth
         /\ \A i, j \in 1..Len(stack) : i < j => stack[i].heading_text < stack[j].heading_text
<1>1. stack[1].heading_text = 0
  BY DEF Chain, RankOfHeading
<1>2. ASSUME NEW i \in 2..Len(stack)
      PROVE  /\ stack[i].heading_text \in Headings /\ Governs(stack[i].heading_text, pos - 1)
             /\ stack[i].depth = doc[stack[i].heading_text].depth
  BY DEF Chain, RankOfHeading, StackIsTheGoverningHeadings, OnlyGoverning
<1>3. ASSUME NEW i \in 2..Len(stack)
      PROVE  /\ stack[i].heading_text \in Nat /\ 0 < stack[i].heading_text
             /\ stack[i].heading_text < pos
  <2>1. stack[i].heading_text <= pos - 1
    BY <1>2 DEF Governs
  <2> QED
    BY <1>2, <2>1, NodesAreTyped
<1>4. Len(stack) \in Nat \ {0} /\ \A i \in 1..Len(stack) : i = 1 \/ i \in 2..Len(stack)
  BY TopIsTyped
<1>5. \A i, j \in 1..Len(stack) : i < j => stack[i].heading_text < stack[j].heading_text
  <2> SUFFICES ASSUME NEW i \in 1..Len(stack), NEW j \in 1..Len(stack), i < j
               PROVE  stack[i].heading_text < stack[j].heading_text
    OBVIOUS
  <2>1. j \in 2..Len(stack)
    BY <1>4
  <2>2. CASE i = 1
    BY <1>1, <1>3, <2>1, <2>2
  <2>3. CASE i \in 2..Len(stack)
    BY <2>1, <2>3 DEF Chain, StackIsTheGoverningHeadings, InOrder
  <2> QED
    BY <1>4, <2>2, <2>3
<1> QED
  BY <1>1, <1>2, <1>3, <1>4, <1>5

\* The headings above the next node are those of the open sections, once those
\* it closes are closed.
LEMMA GoverningAreOpen ==
  ASSUME TypeOK, Chain, pos \in DOMAIN doc, doc[pos].kind # "heading" \/ heading,
         NEW g \in Headings
  PROVE  g < pos /\ Governs(g, pos) <=> \E i \in 2..Len(stack) : stack[i].heading_text = g
<1>1. /\ pos \in Nat /\ Len(doc) \in Nat /\ pos <= Len(doc) /\ g \in Nat
      /\ \A j \in Headings : j \in Nat /\ doc[j].depth \in Nat
  <2>1. \A j \in Headings : j \in Nat /\ doc[j].depth \in Nat
    BY RanksAreNumbers
  <2> QED
    BY <2>1, NodesAreTyped
<1>2. ASSUME g < pos, Governs(g, pos)
      PROVE  \E i \in 2..Len(stack) : stack[i].heading_text = g
  <2>1. Governs(g, pos - 1)
    BY <1>1, <1>2 DEF Governs
  <2>2. CASE doc[pos].kind = "heading"
    <3>1. pos \in Headings
      BY <2>2 DEF Headings
    <3>2. doc[pos].depth > doc[g].depth
      BY <1>1, <1>2, <3>1 DEF Governs
    <3> QED
      BY <1>1, <2>1, <3>1, <3>2 DEF Chain, StackIsTheGoverningHeadings, AllGoverning
  <2>3. CASE doc[pos].kind # "heading"
    BY <1>1, <2>1, <2>3 DEF Chain, StackIsTheGoverningHeadings, AllGoverning
  <2> QED
    BY <2>2, <2>3
<1>3. ASSUME NEW i \in 2..Len(stack), stack[i].heading_text = g
      PROVE  g < pos /\ Governs(g, pos)
  <2>1. g < pos /\ Governs(g, pos - 1)
    BY <1>3, HeadingsGrow
  <2>2. pos \in Headings => doc[g].depth < doc[pos].depth
    <3>1. doc[g].depth <= top.depth
      BY <1>3, TopIsDeepest
    <3>2. Len(stack) > 1 /\ top.depth \in Nat
      BY TopIsTyped, DepthsAreRanks DEF IsSection
    <3>3. pos \in Headings => heading
      BY DEF Headings
    <3>4. heading => ~ (top.depth >= doc[pos].depth)
      BY <3>2 DEF heading, closes
    <3> QED
      BY <1>1, <3>1, <3>2, <3>3, <3>4
  <2>3. \A j \in Headings : j <= pos <=> j = pos \/ j <= pos - 1
    BY <1>1
  <2> QED
    BY <1>1, <2>1, <2>2, <2>3 DEF Governs
<1> QED
  BY <1>2, <1>3

\* The next node goes into the section on top.
LEMMA NextIsUnderTop ==
  ASSUME TypeOK, Chain, pos \in DOMAIN doc, doc[pos].kind # "heading" \/ heading,
         NEW i \in 1..Len(stack)
  PROVE  Under(stack[i].heading_text, pos) <=> i = Len(stack)
<1> DEFINE n == Len(stack)
<1>1. n \in Nat \ {0} /\ pos \in Nat /\ \A k \in 1..n : k = 1 \/ k \in 2..n
  BY TopIsTyped, NodesAreTyped
<1>2. \A k \in 2..n : stack[k].heading_text \in Headings
  BY HeadingsGrow
<1>3. CASE i = n
  <2>1. stack[i].heading_text = 0 \/ (Governs(stack[i].heading_text, pos) /\ stack[i].heading_text < pos)
    <3>1. CASE i = 1
      BY <3>1, HeadingsGrow
    <3>2. CASE i \in 2..n
      BY <1>2, <3>2, GoverningAreOpen
    <3> QED
      BY <1>1, <3>1, <3>2
  <2>2. ASSUME NEW g \in Headings, g < pos, Governs(g, pos)
        PROVE  g <= stack[i].heading_text
    <3>1. PICK k \in 2..n : stack[k].heading_text = g
      BY <2>2, GoverningAreOpen
    <3>2. k = i \/ k < i
      BY <1>1, <1>3
    <3>3. k < i => stack[k].heading_text < stack[i].heading_text
      BY <1>1, HeadingsGrow
    <3>4. stack[k].heading_text \in Nat /\ stack[i].heading_text \in Nat
      BY <1>1, HeadingsGrow
    <3> QED
      BY <3>1, <3>2, <3>3, <3>4
  <2> QED
    BY <1>3, <2>1, <2>2 DEF Under
<1>4. CASE i < n
  <2>1. n \in 2..n
    BY <1>1, <1>4
  <2>2. stack[n].heading_text < pos /\ Governs(stack[n].heading_text, pos)
    BY <1>2, <2>1, GoverningAreOpen
  <2>3. stack[i].heading_text < stack[n].heading_text
    BY <1>1, <1>4, HeadingsGrow
  <2>4. stack[i].heading_text \in Nat /\ stack[n].heading_text \in Nat
    BY <1>1, HeadingsGrow
  <2> QED
    BY <1>2, <1>4, <2>1, <2>2, <2>3, <2>4 DEF Under
<1> QED
  BY <1>1, <1>3, <1>4

\* What is directly under the section on top has been read when it is closed.
LEMMA NothingMore ==
  ASSUME TypeOK, Chain, pop, NEW j \in DOMAIN doc, pos <= j
  PROVE  ~ Under(top.heading_text, j)
<1>1. /\ Len(stack) \in 2..Len(stack) /\ top = stack[Len(stack)]
      /\ pos \in Nat /\ Len(doc) \in Nat /\ j \in 1..Len(doc)
  BY TopIsTyped, NodesAreTyped DEF pop
<1> DEFINE h == top.heading_text
<1>2. /\ h \in Headings /\ 0 < h /\ h < pos /\ top.depth = doc[h].depth /\ h \in Nat
  BY <1>1, HeadingsGrow, NodesAreTyped
<1>3. doc[h].depth \in Nat /\ h # 0
  BY <1>2, RanksAreNumbers
<1>4. At("heading") /\ closes(doc[pos].depth)
  BY <1>1 DEF pop, Closing, AtEnd
<1>5. pos \in Headings /\ doc[pos].depth \in Nat /\ doc[h].depth >= doc[pos].depth
  <2>1. pos \in Headings /\ top.depth >= doc[pos].depth
    BY <1>4 DEF At, Headings, closes
  <2> QED
    BY <1>2, <2>1, NodesAreTyped, DepthsAreRanks
<1>6. ~ Governs(h, j)
  BY <1>1, <1>2, <1>3, <1>5 DEF Governs
<1> QED
  BY <1>3, <1>6 DEF Under

-----------------------------------------------------------------------------
\* A sequence that enumerates a set, and one element more.
LEMMA EnumeratesMore ==
  ASSUME NEW n \in Nat, NEW s, NEW t, NEW S, DOMAIN s = 1..n, DOMAIN t = 1..(n + 1),
         \A i \in 1..n : t[i] = s[i], Enumerates(s, S), \A y \in S : y < t[n + 1]
  PROVE  Enumerates(t, S \cup {t[n + 1]})
<1>1. \A i \in 1..(n + 1) : i = n + 1 \/ i \in 1..n
  OBVIOUS
<1>2. {s[i] : i \in 1..n} = S /\ \A i, j \in 1..n : i < j => s[i] < s[j]
  BY DEF Enumerates
<1>3. {t[i] : i \in 1..(n + 1)} = S \cup {t[n + 1]}
  <2>1. {t[i] : i \in 1..n} = {s[i] : i \in 1..n}
    OBVIOUS
  <2>2. {t[i] : i \in 1..(n + 1)} = {t[i] : i \in 1..n} \cup {t[n + 1]}
    BY <1>1
  <2> QED
    BY <1>2, <2>1, <2>2
<1>4. ASSUME NEW i \in 1..(n + 1), NEW j \in 1..(n + 1), i < j
      PROVE  t[i] < t[j]
  <2>1. i \in 1..n /\ t[i] \in S
    BY <1>2, <1>4
  <2> QED
    BY <1>1, <1>2, <1>4, <2>1
<1> QED
  BY <1>3, <1>4 DEF Enumerates

\* Nodes that are not directly under a section make no difference to it.
LEMMA HoldsWider ==
  ASSUME NEW sect, NEW nodes, NEW wider, Holds(sect, nodes), nodes \subseteq wider,
         \A j \in wider \ nodes :
           ~ Under(sect.heading_text, j) \/ doc[j].kind \notin {"prose", "flow", "heading"}
  PROVE  Holds(sect, wider)
<1>1. /\ Own(sect, {"prose"}, wider) = Own(sect, {"prose"}, nodes)
      /\ Own(sect, {"flow", "heading"}, wider) = Own(sect, {"flow", "heading"}, nodes)
  BY DEF Own
<1> QED
  BY <1>1 DEF Holds

LEMMA HoldsMoreProse ==
  ASSUME NEW sect, IsSection(sect), NEW nodes, NEW j \in Nat, Holds(sect, nodes),
         \A y \in nodes : y < j, doc[j].kind = "prose", Under(sect.heading_text, j),
         NEW new, new.prose_parts = Append(sect.prose_parts, j), new.children = sect.children,
         new.heading_text = sect.heading_text
  PROVE  Holds(new, nodes \cup {j}) /\ SubSections(new) = SubSections(sect)
<1>1. sect.prose_parts \in Seq(Nat)
  BY DEF IsSection
<1>2. /\ new.prose_parts = Append(sect.prose_parts, j) /\ new.children = sect.children
      /\ new.heading_text = sect.heading_text
  OBVIOUS
<1> DEFINE n == Len(sect.prose_parts)
<1>3. /\ n \in Nat /\ DOMAIN sect.prose_parts = 1..n /\ DOMAIN new.prose_parts = 1..(n + 1)
      /\ \A i \in 1..n : new.prose_parts[i] = sect.prose_parts[i]
      /\ new.prose_parts[n + 1] = j
  BY <1>1, <1>2, AppendProperties, LenProperties
<1> HIDE DEF n
<1>4. Own(new, {"prose"}, nodes \cup {j}) = Own(sect, {"prose"}, nodes) \cup {j}
  BY <1>2 DEF Own
<1>5. Own(new, {"flow", "heading"}, nodes \cup {j}) = Own(sect, {"flow", "heading"}, nodes)
  BY <1>2 DEF Own
<1>6. Enumerates(new.prose_parts, Own(new, {"prose"}, nodes \cup {j}))
  <2>1. Enumerates(sect.prose_parts, Own(sect, {"prose"}, nodes))
    BY DEF Holds
  <2>2. \A y \in Own(sect, {"prose"}, nodes) : y < new.prose_parts[n + 1]
    BY <1>3 DEF Own
  <2>3. Enumerates(new.prose_parts, Own(sect, {"prose"}, nodes) \cup {new.prose_parts[n + 1]})
    BY <1>3, <2>1, <2>2, EnumeratesMore
  <2> QED
    BY <1>3, <1>4, <2>3
<1>7. Places(new) = Places(sect)
  BY <1>2 DEF Places
<1> QED
  BY <1>2, <1>5, <1>6, <1>7 DEF Holds, SubSections

LEMMA HoldsMoreChild ==
  ASSUME NEW sect, IsSection(sect), IsSequence(sect.children), NEW nodes, Holds(sect, nodes),
         NEW child, NEW j, Place(child) = j,
         \A y \in Own(sect, {"flow", "heading"}, nodes) : y < j,
         doc[j].kind = IF child.child = "section" THEN "heading" ELSE "flow",
         Under(sect.heading_text, j),
         NEW new, new.children = Append(sect.children, child),
         new.prose_parts = sect.prose_parts, new.heading_text = sect.heading_text
  PROVE  /\ Holds(new, nodes \cup {j})
         /\ \A sub \in SubSections(new) :
              sub \in SubSections(sect) \/ (child.child = "section" /\ sub = child.section)
<1>1. /\ new.children = Append(sect.children, child) /\ new.prose_parts = sect.prose_parts
      /\ new.heading_text = sect.heading_text
  OBVIOUS
<1> DEFINE n == Len(sect.children)
<1>2. /\ n \in Nat /\ DOMAIN sect.children = 1..n /\ DOMAIN new.children = 1..(n + 1)
      /\ \A i \in 1..n : new.children[i] = sect.children[i]
      /\ new.children[n + 1] = child
  BY <1>1, SequenceMore
<1> HIDE DEF n
<1>3. \A i \in 1..(n + 1) : i = n + 1 \/ i \in 1..n
  BY <1>2
<1>4. Own(new, {"flow", "heading"}, nodes \cup {j}) = Own(sect, {"flow", "heading"}, nodes) \cup {j}
  BY <1>1 DEF Own
<1>5. Own(new, {"prose"}, nodes \cup {j}) = Own(sect, {"prose"}, nodes)
  BY <1>1 DEF Own
<1>6. /\ DOMAIN Places(sect) = 1..n /\ DOMAIN Places(new) = 1..(n + 1)
      /\ \A i \in 1..n : Places(new)[i] = Places(sect)[i]
      /\ Places(new)[n + 1] = j
  BY <1>2, <1>3 DEF Places
<1>7. Enumerates(Places(new), Own(new, {"flow", "heading"}, nodes \cup {j}))
  <2>1. Enumerates(Places(sect), Own(sect, {"flow", "heading"}, nodes))
    BY DEF Holds
  <2> DEFINE S == Own(sect, {"flow", "heading"}, nodes)
  <2>2. \A y \in S : y < Places(new)[n + 1]
    BY <1>6
  <2> HIDE DEF S
  <2>3. Enumerates(Places(sect), S)
    BY <2>1 DEF S
  <2>4. Enumerates(Places(new), S \cup {Places(new)[n + 1]})
    BY <1>2, <1>6, <2>2, <2>3, EnumeratesMore
  <2> QED
    BY <1>4, <1>6, <2>4 DEF S
<1>8. \A i \in 1..(n + 1) :
        doc[Places(new)[i]].kind = IF new.children[i].child = "section" THEN "heading" ELSE "flow"
  BY <1>2, <1>3, <1>6 DEF Holds
<1>9. Holds(new, nodes \cup {j})
  BY <1>1, <1>2, <1>5, <1>7, <1>8 DEF Holds
<1>10. \A sub \in SubSections(new) :
         sub \in SubSections(sect) \/ (child.child = "section" /\ sub = child.section)
  BY <1>2, <1>3 DEF SubSections
<1> QED
  BY <1>9, <1>10

LEMMA EmptySectionHolds ==
  ASSUME NEW depth, NEW h, NEW nodes,
         \A j \in nodes : ~ Under(h, j) \/ doc[j].kind \notin {"prose", "flow", "heading"}
  PROVE  Holds(Section(depth, h), nodes) /\ SubSections(Section(depth, h)) = {}
<1> DEFINE sect == Section(depth, h)
<1>1. sect.prose_parts = <<>> /\ sect.children = <<>> /\ sect.heading_text = h
  BY DEF Section
<1> HIDE DEF sect
<1>2. Own(sect, {"prose"}, nodes) = {} /\ Own(sect, {"flow", "heading"}, nodes) = {}
  BY <1>1 DEF Own
<1>3. DOMAIN <<>> = {}
  OBVIOUS
<1>4. Enumerates(sect.prose_parts, {}) /\ Enumerates(Places(sect), {})
  BY <1>1, <1>3 DEF Enumerates, Places
<1>5. Holds(sect, nodes) /\ SubSections(sect) = {}
  BY <1>1, <1>2, <1>3, <1>4 DEF Holds, SubSections
<1> QED
  BY <1>5 DEF sect

\* The nodes each open section has to hold.
LEMMA SoFarIs ==
  ASSUME TypeOK
  PROVE  /\ SoFar(Len(stack)) = 1..(pos - 1)
         /\ \A i \in 1..(Len(stack) - 1) : SoFar(i) = (1..(pos - 1)) \ {stack[i + 1].heading_text}
BY TopIsTyped DEF SoFar

\* What is held depends on no variable but the document.
LEMMA HoldsNext ==
  ASSUME UNCHANGED doc, NEW sect, NEW nodes
  PROVE  Holds(sect, nodes)' <=> Holds(sect, nodes)
<1>1. Headings' = Headings
  BY DEF Headings
<1>2. \A h, j : Governs(h, j)' <=> Governs(h, j)
  BY <1>1 DEF Governs
<1>3. \A h, j : Under(h, j)' <=> Under(h, j)
  BY <1>1, <1>2 DEF Under
<1>4. \A kinds : Own(sect, kinds, nodes)' = Own(sect, kinds, nodes)
  BY <1>3 DEF Own
<1> QED
  BY <1>4 DEF Holds

LEMMA HoldsThere ==
  ASSUME NEW i, NEW sect, NEW nodes, sect = stack'[i], nodes = SoFar(i)', Holds(sect, nodes)'
  PROVE  Holds(stack[i], SoFar(i))'
<1>1. Places(stack[i])' = Places(sect)'
  BY DEF Places, Place
<1>2. Own(stack[i], {"prose"}, SoFar(i))' = Own(sect, {"prose"}, nodes)'
  BY DEF Own, Under, Governs, Headings
<1>3. Own(stack[i], {"flow", "heading"}, SoFar(i))' = Own(sect, {"flow", "heading"}, nodes)'
  BY DEF Own, Under, Governs, Headings
<1> QED
  BY <1>1, <1>2, <1>3 DEF Holds, Enumerates

\* What a step has to show.
LEMMA HeldNext ==
  ASSUME UNCHANGED doc,
         \A i \in DOMAIN stack' : Holds(stack'[i], SoFar(i)') /\ SubSections(stack'[i]) \subseteq closed',
         \A sect \in closed' : Holds(sect, DOMAIN doc) /\ SubSections(sect) \subseteq closed'
  PROVE  Held'
<1>1. ASSUME NEW i \in DOMAIN stack'
      PROVE  Holds(stack[i], SoFar(i))' /\ (SubSections(stack[i]) \subseteq closed)'
  <2>1. PICK sect, nodes : sect = stack'[i] /\ nodes = SoFar(i)'
    OBVIOUS
  <2>2. Holds(sect, nodes)'
    BY <1>1, <2>1, HoldsNext
  <2>3. Holds(stack[i], SoFar(i))'
    BY <2>1, <2>2, HoldsThere
  <2>4. (SubSections(stack[i]) \subseteq closed)'
    BY <1>1 DEF SubSections
  <2> QED
    BY <2>3, <2>4
<1>2. ASSUME NEW sect \in closed'
      PROVE  Holds(sect, DOMAIN doc)' /\ (SubSections(sect) \subseteq closed)'
  <2>1. PICK nodes : nodes = DOMAIN doc'
    OBVIOUS
  <2>2. Holds(sect, nodes)'
    BY <1>2, <2>1, HoldsNext
  <2>3. Holds(sect, DOMAIN doc)'
    BY <2>1, <2>2 DEF Holds, Own, Places, Place, Enumerates
  <2>4. (SubSections(sect) \subseteq closed)'
    BY <1>2 DEF SubSections
  <2> QED
    BY <2>3, <2>4
<1> QED
  BY <1>1, <1>2 DEF Held

\* A step that reads a node into the section on top, or into none.
LEMMA HeldReads ==
  ASSUME TypeOK, Chain, Held, UNCHANGED <<doc, closed>>, pos' = pos + 1,
         pos \in DOMAIN doc, doc[pos].kind # "heading",
         NEW n \in Nat \ {0}, Len(stack) = n, DOMAIN stack = 1..n,
         Len(stack') = n, DOMAIN stack' = 1..n,
         SameHeadings(stack', stack, n), \A i \in 1..(n - 1) : stack'[i] = stack[i],
         Holds(stack'[n], SoFar(n) \cup {pos}), SubSections(stack'[n]) \subseteq closed
  PROVE  Held'
<1>1. /\ (1..(pos' - 1)) = (1..(pos - 1)) \cup {pos}
      /\ pos \notin 1..(pos - 1) /\ 1 <= pos /\ pos \in Nat
  BY NodesAreTyped
<1>2. \A i \in 1..(n - 1) : /\ i + 1 \in 2..n /\ i + 1 \in 1..n /\ i < n
                            /\ i \in 1..n /\ i # n /\ i \in 1..(n - 1)
  OBVIOUS
<1>3. ASSUME NEW i \in 1..(n - 1)
      PROVE  SoFar(i)' = SoFar(i) \cup {pos} /\ Holds(stack[i], SoFar(i) \cup {pos})
  <2>1. stack'[i + 1].heading_text = stack[i + 1].heading_text
    BY <1>2 DEF SameHeadings
  <2>2. stack[i + 1].heading_text < pos
    BY <1>2, HeadingsGrow
  <2>3. SoFar(i)' = (1..(pos' - 1)) \ {stack[i + 1].heading_text}
    BY <1>2, <2>1 DEF SoFar
  <2>4. SoFar(i) = (1..(pos - 1)) \ {stack[i + 1].heading_text}
    BY <1>2 DEF SoFar
  <2>5. Holds(stack[i], SoFar(i))
    BY <1>2 DEF Held
  <2>6. ~ Under(stack[i].heading_text, pos)
    BY <1>2, NextIsUnderTop
  <2>7. Holds(stack[i], SoFar(i) \cup {pos})
    BY <2>5, <2>6, HoldsWider
  <2>8. stack[i + 1].heading_text # pos
    BY <1>1, <2>2
  <2> QED
    BY <1>1, <2>3, <2>4, <2>7, <2>8
<1>4. SoFar(n)' = SoFar(n) \cup {pos}
  <2>1. SoFar(n)' = 1..(pos' - 1) /\ SoFar(n) = 1..(pos - 1)
    BY DEF SoFar
  <2> QED
    BY <1>1, <2>1
<1>5. ASSUME NEW i \in 1..n
      PROVE  Holds(stack'[i], SoFar(i)') /\ SubSections(stack'[i]) \subseteq closed'
  <2>1. CASE i = n
    <3>1. SoFar(i)' = SoFar(n) \cup {pos}
      BY <1>4, <2>1 DEF SoFar
    <3> QED
      BY <2>1, <3>1
  <2>2. CASE i \in 1..(n - 1)
    <3>1. stack'[i] = stack[i] /\ SubSections(stack[i]) \subseteq closed
      BY <1>2, <2>2 DEF Held
    <3>2. Holds(stack[i], SoFar(i)')
      BY <1>3, <2>2
    <3> QED
      BY <3>1, <3>2
  <2>3. i = n \/ i \in 1..(n - 1)
    OBVIOUS
  <2> QED
    BY <2>1, <2>2, <2>3
<1> QED
  BY <1>5, HeldNext DEF Held

LEMMA HeldFlow == TypeOK /\ Chain /\ Held /\ flow => Held'
<1> SUFFICES ASSUME TypeOK, Chain, Held, flow PROVE Held'
  OBVIOUS
<1> PICK n : n = Len(stack)
  OBVIOUS
<1> DEFINE new == [top EXCEPT !.children = Append(@, Verbatim(pos))]
<1>1. /\ n \in Nat \ {0} /\ DOMAIN stack = 1..n /\ top = stack[n]
      /\ IsSection(top) /\ IsSequence(top.children) /\ pos \in Nat
  BY TopIsTyped, NodesAreTyped
<1>2. /\ pos \in DOMAIN doc /\ doc[pos].kind = "flow" /\ pos' = pos + 1
      /\ UNCHANGED <<doc, closed>> /\ OnTop(new)
  BY DEF flow, At, Advance
<1>3. /\ DOMAIN stack' = 1..n /\ stack'[n] = new
      /\ \A i \in 1..(n - 1) : stack'[i] = stack[i]
  <2>1. stack = [i \in 1..n |-> stack[i]] /\ n \in 1..n /\ \A i \in 1..(n - 1) : i \in 1..n /\ i # n
    BY <1>1, TopIsTyped
  <2>2. stack' = [stack EXCEPT ![n] = new]
    BY <1>2 DEF OnTop
  <2> HIDE DEF new
  <2> QED
    BY <2>1, <2>2
<1>4. Place(Verbatim(pos)) = pos /\ Verbatim(pos).child = "verbatim"
  BY DEF Place, Verbatim
<1>5. Holds(top, SoFar(n)) /\ SubSections(top) \subseteq closed
  BY <1>1 DEF Held
<1>6. \A y \in Own(top, {"flow", "heading"}, SoFar(n)) : y < pos
  BY <1>1, SoFarIs DEF Own
<1>7. Under(top.heading_text, pos)
  BY <1>1, <1>2, NextIsUnderTop
<1>fields. /\ new.children = Append(top.children, Verbatim(pos)) /\ new.prose_parts = top.prose_parts
      /\ new.heading_text = top.heading_text
  BY <1>1 DEF IsSection
<1>kind. doc[pos].kind = IF Verbatim(pos).child = "section" THEN "heading" ELSE "flow"
  BY <1>2, <1>4
<1> HIDE DEF new
<1>8. /\ Holds(new, SoFar(n) \cup {pos})
      /\ \A sub \in SubSections(new) :
           sub \in SubSections(top)
           \/ (Verbatim(pos).child = "section" /\ sub = Verbatim(pos).section)
  BY <1>1, <1>4, <1>5, <1>6, <1>7, <1>fields, <1>kind, HoldsMoreChild
<1>9. SubSections(new) \subseteq closed
  BY <1>4, <1>5, <1>8
<1>10. Len(stack) = n /\ Len(stack') = n /\ SameHeadings(stack', stack, n)
  BY FlowStep
<1> QED
  BY <1>1, <1>2, <1>3, <1>8, <1>9, <1>10, HeldReads

LEMMA HeldProse == TypeOK /\ Chain /\ Held /\ prose => Held'
<1> SUFFICES ASSUME TypeOK, Chain, Held, prose PROVE Held'
  OBVIOUS
<1> PICK n : n = Len(stack)
  OBVIOUS
<1> DEFINE new == [top EXCEPT !.prose_parts = Append(@, pos)]
<1>1. /\ n \in Nat \ {0} /\ DOMAIN stack = 1..n /\ top = stack[n]
      /\ IsSection(top) /\ pos \in Nat
  BY TopIsTyped, NodesAreTyped
<1>2. /\ pos \in DOMAIN doc /\ doc[pos].kind = "prose" /\ pos' = pos + 1
      /\ UNCHANGED <<doc, closed>> /\ OnTop(new)
  BY DEF prose, At, Advance
<1>3. /\ DOMAIN stack' = 1..n /\ stack'[n] = new
      /\ \A i \in 1..(n - 1) : stack'[i] = stack[i]
  <2>1. stack = [i \in 1..n |-> stack[i]] /\ n \in 1..n /\ \A i \in 1..(n - 1) : i \in 1..n /\ i # n
    BY <1>1, TopIsTyped
  <2>2. stack' = [stack EXCEPT ![n] = new]
    BY <1>2 DEF OnTop
  <2> HIDE DEF new
  <2> QED
    BY <2>1, <2>2
<1>4. Holds(top, SoFar(n)) /\ SubSections(top) \subseteq closed
  BY <1>1 DEF Held
<1>5. \A y \in SoFar(n) : y < pos
  BY <1>1, SoFarIs
<1>6. Under(top.heading_text, pos)
  BY <1>1, <1>2, NextIsUnderTop
<1>fields. /\ new.prose_parts = Append(top.prose_parts, pos) /\ new.children = top.children
      /\ new.heading_text = top.heading_text
  BY <1>1 DEF IsSection
<1> HIDE DEF new
<1>7. Holds(new, SoFar(n) \cup {pos}) /\ SubSections(new) = SubSections(top)
  BY <1>1, <1>2, <1>4, <1>5, <1>6, <1>fields, HoldsMoreProse
<1>8. Len(stack) = n /\ Len(stack') = n /\ SameHeadings(stack', stack, n)
  BY ProseStep
<1> QED
  BY <1>1, <1>2, <1>3, <1>4, <1>7, <1>8, HeldReads

LEMMA HeldEsm == TypeOK /\ Chain /\ Held /\ esm => Held'
<1> SUFFICES ASSUME TypeOK, Chain, Held, esm PROVE Held'
  OBVIOUS
<1> PICK n : n = Len(stack)
  OBVIOUS
<1>1. n \in Nat \ {0} /\ DOMAIN stack = 1..n /\ n \in DOMAIN stack
  BY TopIsTyped
<1>2. /\ pos \in DOMAIN doc /\ doc[pos].kind = "esm" /\ pos' = pos + 1
      /\ UNCHANGED <<doc, stack, closed>>
  BY DEF esm, At, Advance
<1>3. Holds(stack[n], SoFar(n)) /\ SubSections(stack[n]) \subseteq closed
  BY <1>1 DEF Held
<1>4. Holds(stack[n], SoFar(n) \cup {pos})
  BY <1>2, <1>3, HoldsWider
<1>5. SameHeadings(stack', stack, n)
  BY <1>2 DEF SameHeadings
<1> QED
  BY <1>1, <1>2, <1>3, <1>4, <1>5, HeldReads

\* A section that is closed goes where its heading is.
LEMMA HeldPops == TypeOK /\ Chain /\ OpenAreNested /\ Held /\ pop => Held'
<1> SUFFICES ASSUME TypeOK, Chain, OpenAreNested, Held, pop PROVE Held'
  OBVIOUS
<1> PICK n, m, h : n = Len(stack) /\ m = n - 1 /\ h = top.heading_text
  OBVIOUS
<1> DEFINE new == [stack[m] EXCEPT !.children = Append(@, SubSection(top))]
<1>1. /\ n \in Nat /\ m \in 1..n /\ m \in Nat /\ n \in 2..n /\ DOMAIN stack = 1..n /\ top = stack[n]
      /\ UNCHANGED <<doc, pos>> /\ closed' = closed \cup {top} /\ n = m + 1 /\ pos \in Nat
  BY TopIsTyped, NodesAreTyped DEF pop
<1>2. /\ DOMAIN stack' = 1..m /\ stack'[m] = new /\ Len(stack') = m
      /\ \A i \in 1..(m - 1) : stack'[i] = stack[i]
  <2>1. SubSeq(stack, 1, m) = [i \in 1..m |-> stack[i]]
    BY <1>1, TopIsTyped
  <2>2. stack' = [SubSeq(stack, 1, m) EXCEPT ![m] = new]
    BY <1>1, <2>1 DEF pop
  <2>3. Len(stack') = m
    BY PopStep
  <2>4. m \in 1..m /\ \A i \in 1..(m - 1) : i \in 1..m /\ i # m
    BY <1>1
  <2> HIDE DEF new
  <2> QED
    BY <2>1, <2>2, <2>3, <2>4
<1>3. /\ IsSection(stack[m]) /\ IsSequence(stack[m].children)
      /\ Holds(stack[m], SoFar(m)) /\ SubSections(stack[m]) \subseteq closed
      /\ Holds(top, SoFar(n)) /\ SubSections(top) \subseteq closed
  BY <1>1 DEF TypeOK, Held
<1>4. /\ h \in Headings /\ h \in Nat /\ h < pos /\ 0 < h /\ Governs(h, pos - 1)
      /\ stack[m].heading_text \in Nat /\ stack[m].heading_text < h
  BY <1>1, HeadingsGrow
<1>5. Place(SubSection(top)) = h /\ SubSection(top).child = "section" /\ SubSection(top).section = top
  BY DEF Place, SubSection
<1>6. SoFar(n) = 1..(pos - 1) /\ SoFar(m) = (1..(pos - 1)) \ {h}
  BY <1>1, SoFarIs
<1>7. Under(stack[m].heading_text, h)
  BY <1>1 DEF OpenAreNested
<1>8. ASSUME NEW y \in Own(stack[m], {"flow", "heading"}, SoFar(m)) PROVE y < h
  <2>1. y \in 1..(pos - 1) /\ y # h /\ Under(stack[m].heading_text, y)
    BY <1>6 DEF Own
  <2>2. SUFFICES ASSUME h < y PROVE FALSE
    BY <1>1, <1>4, <2>1
  <2>3. Governs(h, y)
    BY <1>1, <1>4, <2>1, <2>2, RanksAreNumbers DEF Governs
  <2>4. h <= stack[m].heading_text
    BY <1>4, <2>1, <2>2, <2>3 DEF Under
  <2> QED
    BY <1>4, <2>4
<1>fields. /\ new.children = Append(stack[m].children, SubSection(top))
      /\ new.prose_parts = stack[m].prose_parts /\ new.heading_text = stack[m].heading_text
  BY <1>3 DEF IsSection
<1>placed. Under(stack[m].heading_text, h) /\ h \in Nat
  BY <1>4, <1>7
<1> HIDE DEF new
<1>9. /\ Holds(new, SoFar(m) \cup {h})
      /\ \A sub \in SubSections(new) :
           sub \in SubSections(stack[m])
           \/ (SubSection(top).child = "section" /\ sub = SubSection(top).section)
  <2>1. doc[h].kind = IF SubSection(top).child = "section" THEN "heading" ELSE "flow"
    BY <1>4, <1>5 DEF Headings
  <2>2. PICK sect, child, nodes : sect = stack[m] /\ child = SubSection(top) /\ nodes = SoFar(m)
    OBVIOUS
  <2>3. /\ IsSection(sect) /\ IsSequence(sect.children) /\ Holds(sect, nodes)
        /\ Place(child) = h /\ Under(sect.heading_text, h)
        /\ doc[h].kind = IF child.child = "section" THEN "heading" ELSE "flow"
        /\ new.children = Append(sect.children, child) /\ new.prose_parts = sect.prose_parts
        /\ new.heading_text = sect.heading_text
    BY <1>3, <1>5, <1>fields, <1>placed, <2>1, <2>2
  <2>4. \A y \in Own(sect, {"flow", "heading"}, nodes) : y < h
    BY <1>8, <2>2
  <2>5. /\ Holds(new, nodes \cup {h})
        /\ \A sub \in SubSections(new) :
             sub \in SubSections(sect) \/ (child.child = "section" /\ sub = child.section)
    BY <2>3, <2>4, HoldsMoreChild
  <2> QED
    BY <2>2, <2>5
<1>10. SubSections(new) \subseteq closed'
  BY <1>1, <1>3, <1>5, <1>9
<1>11. SoFar(m) \cup {h} = 1..(pos - 1)
  BY <1>1, <1>4, <1>6
<1>12. SoFar(m)' = 1..(pos - 1)
  <2>1. SoFar(m)' = (1..(pos' - 1)) \ (IF m < Len(stack') THEN {stack'[m + 1].heading_text} ELSE {})
    BY DEF SoFar
  <2>2. Len(stack') = m /\ pos' = pos /\ ~ (m < m)
    BY <1>1, <1>2
  <2> QED
    BY <2>1, <2>2
<1>13. \A i \in 1..(m - 1) : SoFar(i)' = SoFar(i)
  <2> SUFFICES ASSUME NEW i \in 1..(m - 1) PROVE SoFar(i)' = SoFar(i)
    OBVIOUS
  <2>1. i + 1 \in 1..m /\ i < m /\ i < n /\ (i + 1 = m \/ i + 1 \in 1..(m - 1))
    BY <1>1
  <2>2. stack'[i + 1].heading_text = stack[i + 1].heading_text
    BY <2>1, PopStep DEF SameHeadings
  <2> QED
    BY <1>1, <1>2, <2>1, <2>2 DEF SoFar
<1>14. \A i \in 1..m : Holds(stack'[i], SoFar(i)') /\ SubSections(stack'[i]) \subseteq closed'
  <2> SUFFICES ASSUME NEW i \in 1..m
               PROVE  Holds(stack'[i], SoFar(i)') /\ SubSections(stack'[i]) \subseteq closed'
    OBVIOUS
  <2>1. CASE i = m
    <3>1. SoFar(i)' = 1..(pos - 1)
      BY <1>12, <2>1 DEF SoFar
    <3> QED
      BY <1>2, <1>9, <1>10, <1>11, <2>1, <3>1
  <2>2. CASE i \in 1..(m - 1)
    <3>1. i \in DOMAIN stack /\ stack'[i] = stack[i] /\ SoFar(i)' = SoFar(i)
      BY <1>1, <1>2, <1>13, <2>2
    <3> QED
      BY <1>1, <3>1 DEF Held
  <2> QED
    BY <1>1, <2>1, <2>2
<1>15. Holds(top, DOMAIN doc)
  <2>1. DOMAIN doc = 1..Len(doc) /\ Len(doc) \in Nat /\ pos <= Len(doc) + 1
    BY NodesAreTyped
  <2>2. SoFar(n) \subseteq DOMAIN doc /\ \A j \in DOMAIN doc \ SoFar(n) : pos <= j
    BY <1>1, <1>6, <2>1
  <2> QED
    BY <1>3, <2>2, NothingMore, HoldsWider
<1>16. \A sect \in closed' : Holds(sect, DOMAIN doc) /\ SubSections(sect) \subseteq closed'
  BY <1>1, <1>3, <1>15 DEF Held
<1> QED
  BY <1>1, <1>2, <1>14, <1>16, HeldNext

LEMMA HeldPushes == TypeOK /\ Chain /\ Held /\ heading => Held'
<1> SUFFICES ASSUME TypeOK, Chain, Held, heading PROVE Held'
  OBVIOUS
<1> PICK n : n = Len(stack)
  OBVIOUS
<1> DEFINE new == Section(doc[pos].depth, pos)
<1>1. /\ n \in Nat \ {0} /\ DOMAIN stack = 1..n /\ pos \in Nat /\ 1 <= pos
      /\ pos \in DOMAIN doc /\ doc[pos].kind = "heading" /\ pos' = pos + 1
      /\ UNCHANGED <<doc, closed>>
  BY TopIsTyped, NodesAreTyped DEF heading, At, Advance
<1>2. /\ DOMAIN stack' = 1..(n + 1) /\ stack'[n + 1] = new /\ Len(stack') = n + 1
      /\ \A i \in 1..n : stack'[i] = stack[i]
  <2>1. stack' = Append(stack, new)
    BY DEF heading
  <2> QED
    BY <2>1, SequenceMore DEF TypeOK
<1>3. new.heading_text = pos
  BY DEF Section
<1>4. Holds(new, 1..pos) /\ SubSections(new) = {}
  <2>1. \A j \in 1..pos : ~ Under(pos, j)
    BY <1>1 DEF Under
  <2> QED
    BY <2>1, EmptySectionHolds
<1> HIDE DEF new
<1>5. SoFar(n + 1)' = 1..pos /\ SoFar(n)' = SoFar(n)
  <2>1. SoFar(n + 1)' = 1..(pos' - 1) /\ SoFar(n)' = (1..(pos' - 1)) \ {pos}
    <3>1. SoFar(n + 1)' = (1..(pos' - 1))
                           \ (IF n + 1 < Len(stack') THEN {stack'[(n + 1) + 1].heading_text} ELSE {})
      BY DEF SoFar
    <3>2. SoFar(n)' = (1..(pos' - 1)) \ (IF n < Len(stack') THEN {stack'[n + 1].heading_text} ELSE {})
      BY DEF SoFar
    <3>3. /\ Len(stack') = n + 1 /\ n < n + 1 /\ ~ (n + 1 < n + 1)
          /\ stack'[n + 1].heading_text = pos
      BY <1>1, <1>2, <1>3
    <3> QED
      BY <3>1, <3>2, <3>3
  <2>2. SoFar(n) = 1..(pos - 1)
    BY SoFarIs
  <2> QED
    BY <1>1, <2>1, <2>2
<1>6. ASSUME NEW i \in 1..(n - 1) PROVE SoFar(i)' = SoFar(i) \cup {pos}
  <2>1. i + 1 \in 1..n /\ i + 1 \in 2..n /\ i < n + 1 /\ i \in 1..n
    BY <1>1
  <2>2. SoFar(i)' = (1..(pos' - 1)) \ {stack[i + 1].heading_text}
    BY <1>2, <2>1 DEF SoFar
  <2>3. SoFar(i) = (1..(pos - 1)) \ {stack[i + 1].heading_text}
    BY SoFarIs
  <2>4. stack[i + 1].heading_text # pos
    BY <1>1, <2>1, HeadingsGrow
  <2> QED
    BY <1>1, <2>2, <2>3, <2>4
<1>7. ASSUME NEW i \in 1..(n - 1) PROVE Holds(stack[i], SoFar(i) \cup {pos})
  <2>1. Holds(stack[i], SoFar(i)) /\ ~ Under(stack[i].heading_text, pos)
    BY <1>1, NextIsUnderTop DEF Held
  <2> QED
    BY <2>1, HoldsWider
<1>8. \A i \in 1..(n + 1) : Holds(stack'[i], SoFar(i)') /\ SubSections(stack'[i]) \subseteq closed'
  <2> SUFFICES ASSUME NEW i \in 1..(n + 1)
               PROVE  Holds(stack'[i], SoFar(i)') /\ SubSections(stack'[i]) \subseteq closed'
    OBVIOUS
  <2>1. CASE i = n + 1
    <3>1. SoFar(i)' = 1..pos
      BY <1>5, <2>1 DEF SoFar
    <3> QED
      BY <1>2, <1>4, <2>1, <3>1
  <2>2. CASE i = n
    <3>1. n \in DOMAIN stack /\ stack'[n] = stack[n]
      BY <1>1, <1>2
    <3>2. SoFar(i)' = SoFar(i)
      BY <1>5, <2>2 DEF SoFar
    <3> QED
      BY <1>1, <2>2, <3>1, <3>2 DEF Held
  <2>3. CASE i \in 1..(n - 1)
    <3>1. i \in DOMAIN stack /\ stack'[i] = stack[i]
      BY <1>1, <1>2, <2>3
    <3> QED
      BY <1>1, <1>6, <1>7, <2>3, <3>1 DEF Held
  <2> QED
    BY <1>1, <2>1, <2>2, <2>3
<1> QED
  BY <1>1, <1>2, <1>8, HeldNext DEF Held

\* Each open section is directly under the one before.
LEMMA NestedNext ==
  TypeOK /\ Chain /\ OpenAreNested /\ [LowerNext]_lower_vars => OpenAreNested'
<1> SUFFICES ASSUME TypeOK, Chain, OpenAreNested, [LowerNext]_lower_vars PROVE OpenAreNested'
  OBVIOUS
<1>1. ASSUME UNCHANGED doc, NEW m \in Nat, m <= Len(stack), Len(stack') = m,
             SameHeadings(stack', stack, m)
      PROVE  OpenAreNested'
  <2> SUFFICES ASSUME NEW i \in 2..m
               PROVE  Under(stack'[i - 1].heading_text, stack'[i].heading_text)
    BY <1>1 DEF OpenAreNested, Under, Governs, Headings
  <2>1. i \in 1..m /\ i - 1 \in 1..m /\ i \in 2..Len(stack)
    BY <1>1, TopIsTyped
  <2>2. /\ stack'[i - 1].heading_text = stack[i - 1].heading_text
        /\ stack'[i].heading_text = stack[i].heading_text
    BY <1>1, <2>1 DEF SameHeadings
  <2>3. Under(stack[i - 1].heading_text, stack[i].heading_text)
    BY <2>1 DEF OpenAreNested
  <2> QED
    BY <2>2, <2>3
<1>2. Len(stack) \in Nat /\ SameHeadings(stack, stack, Len(stack))
  BY TopIsTyped DEF SameHeadings
<1>3. CASE UNCHANGED <<doc, stack>>
  BY <1>1, <1>2, <1>3
<1>4. CASE esm \/ rejected \/ lower_to_tsx \/ UNCHANGED lower_vars
  BY <1>3, <1>4 DEF esm, rejected, lower_to_tsx, lower_vars, Advance
<1>5. CASE pop
  <2> DEFINE m == Len(stack) - 1
  <2>1. m \in Nat /\ m <= Len(stack) /\ UNCHANGED doc
    BY <1>2, <1>5 DEF pop
  <2>2. Len(stack') = m /\ SameHeadings(stack', stack, m)
    BY <1>5, PopStep
  <2> HIDE DEF m
  <2> QED
    BY <1>1, <2>1, <2>2
<1>6. CASE flow
  BY <1>1, <1>2, <1>6, FlowStep DEF flow, Advance
<1>7. CASE prose
  BY <1>1, <1>2, <1>7, ProseStep DEF prose, Advance
<1>8. CASE heading
  <2> DEFINE n == Len(stack)
  <2>1. UNCHANGED doc /\ pos \in DOMAIN doc /\ n \in Nat \ {0}
    BY <1>8, TopIsTyped DEF heading, At, Advance
  <2>2. /\ Len(stack') = n + 1 /\ stack'[n + 1].heading_text = pos
        /\ \A i \in 1..n : stack'[i].heading_text = stack[i].heading_text
    BY <1>8, HeadingStep DEF SameHeadings
  <2> SUFFICES ASSUME NEW i \in 2..(n + 1)
               PROVE  Under(stack'[i - 1].heading_text, stack'[i].heading_text)
    BY <2>1, <2>2 DEF OpenAreNested, Under, Governs, Headings
  <2>3. CASE i = n + 1
    <3>1. i - 1 = n /\ n \in 1..n
      BY <2>1, <2>3
    <3>2. Under(stack[n].heading_text, pos)
      BY <1>8, <2>1, <3>1, NextIsUnderTop
    <3> QED
      BY <2>2, <2>3, <3>1, <3>2
  <2>4. CASE i \in 2..n
    <3>1. i \in 1..n /\ i - 1 \in 1..n
      BY <2>1, <2>4
    <3>2. Under(stack[i - 1].heading_text, stack[i].heading_text)
      BY <2>4 DEF OpenAreNested
    <3> QED
      BY <2>2, <3>1, <3>2
  <2> QED
    BY <2>1, <2>3, <2>4
<1> QED
  BY <1>4, <1>5, <1>6, <1>7, <1>8 DEF LowerNext

LEMMA HeldInit == LowerInit => Held /\ OpenAreNested
<1> SUFFICES ASSUME LowerInit PROVE Held /\ OpenAreNested
  OBVIOUS
<1>1. /\ DOMAIN stack = {1} /\ Len(stack) = 1 /\ stack[1] = Section(0, 0)
      /\ closed = {} /\ pos = 1
  BY DEF LowerInit
<1>2. SoFar(1) = {}
  BY <1>1 DEF SoFar
<1>3. Holds(Section(0, 0), {}) /\ SubSections(Section(0, 0)) = {}
  BY EmptySectionHolds
<1> QED
  BY <1>1, <1>2, <1>3 DEF Held, OpenAreNested

LEMMA LowerHeldNext ==
  TypeOK /\ Chain /\ OpenAreNested /\ Held /\ [LowerNext]_lower_vars => Held'
<1> SUFFICES ASSUME TypeOK, Chain, OpenAreNested, Held, [LowerNext]_lower_vars PROVE Held'
  OBVIOUS
<1>1. CASE UNCHANGED <<doc, stack, pos, closed>>
  BY <1>1, HeldNext DEF Held, SoFar
<1>2. CASE rejected \/ lower_to_tsx \/ UNCHANGED lower_vars
  BY <1>1, <1>2 DEF rejected, lower_to_tsx, lower_vars
<1> QED
  BY <1>2, HeldEsm, HeldPops, HeldPushes, HeldFlow, HeldProse DEF LowerNext

-----------------------------------------------------------------------------
\* The loop of build_root_section (lower.rs:222-294) keeps its variables in
\* their types, whatever the document.
THEOREM TypeCorrect == LowerSpec => []TypeOK
<1> QED
  BY TypeInit, TypeNext, PTL DEF LowerSpec

\* The inductive invariant: types, ranks, the governing headings, and what the
\* sections hold.
THEOREM Invariance == LowerSpec => []IInv
<1>1. IInv <=> TypeOK /\ Chain /\ OpenAreNested /\ Held
  BY DEF IInv, Chain, Held, SectionsHoldTheirOwn
<1>2. LowerInit => TypeOK /\ Chain /\ OpenAreNested /\ Held
  BY TypeInit, ChainInit, HeldInit
<1>3. TypeOK /\ Chain /\ OpenAreNested /\ Held /\ [LowerNext]_lower_vars =>
        (TypeOK /\ Chain /\ OpenAreNested /\ Held)'
  BY TypeNext, ChainNext, NestedNext, LowerHeldNext
<1> QED
  BY <1>1, <1>2, <1>3, PTL DEF LowerSpec

\* The sections that are open are those of the headings that govern what has
\* been read, for documents of any length and any ranks (lower.rs:227-251).
THEOREM SectionsFollowHeadings == LowerSpec => []StackIsTheGoverningHeadings
<1>1. IInv => StackIsTheGoverningHeadings
  BY DEF IInv, SectionsHoldTheirOwn
<1> QED
  BY <1>1, Invariance, PTL

\* Every section holds, in order and once, just what is written directly under
\* its heading, for documents of any length (lower.rs:222-294).
THEOREM NothingIsMisplaced == LowerSpec => []SectionsHoldTheirOwn
<1>1. IInv => SectionsHoldTheirOwn
  BY DEF IInv
<1> QED
  BY <1>1, Invariance, PTL

-----------------------------------------------------------------------------
(* MdxLower: a section is read in the order of the document.               *)

Flows == {j \in DOMAIN doc : doc[j].kind = "flow"}

\* A heading that governs a node, or the whole document.
Encloses(h, j) == h = 0 \/ Governs(h, j)

\* The child of a section in which a flow node is to be found, at any depth.
Leads(child, j) ==
  \/ Place(child) = j
  \/ child.child = "section" /\ Governs(Place(child), j)

ReadInOrder(sect) ==
  /\ \A j \in Flows :
       Encloses(sect.heading_text, j) <=> \E i \in DOMAIN sect.children : Leads(sect.children[i], j)
  /\ \A i, n \in DOMAIN sect.children : \A j, l \in Flows :
       i < n /\ Leads(sect.children[i], j) /\ Leads(sect.children[n], l) => j < l

\* The sections a document comes to, the root among them when all is read.
Complete == closed \cup (IF pos > Len(doc) /\ Len(stack) = 1 THEN {top} ELSE {})

\* Each flow node a heading governs is in one child of its section, itself or in
\* the section of the next heading around it, and children come in the order of
\* what is in them.  So whoever visits a section child by child, and the sections
\* in it likewise, meets each node once, in the order of the document, inside
\* the sections of all its headings and no others (compile_section).
SectionsReadInOrder == \A sect \in Complete : ReadInOrder(sect)

LEMMA SmallestOf ==
  ASSUME NEW S \in SUBSET Nat, S # {}
  PROVE  \E x \in S : \A y \in S : x <= y
<1>. DEFINE Less == OpToRel(<, Nat)
<1>1. IsWellFoundedOn(Less, Nat) /\ \A a, b \in Nat : a < b => <<a, b>> \in Less
  BY NatLessThanWellFounded DEF OpToRel
<1>2. PICK x \in S : \A y \in S : ~ (<<y, x>> \in Less)
  <2>1. IsWellFoundedOn(Less, Nat) /\ S \subseteq Nat /\ S # {}
    BY <1>1
  <2>. HIDE DEF Less
  <2>. QED  BY <2>1, WFMin, Zenon
<1>3. \A y \in S : ~ (y < x)
  BY <1>1, <1>2
<1>. QED  BY <1>3

\* Who governs a heading governs what the heading governs ...
LEMMA GovernsOn ==
  ASSUME TypeOK, NEW g, NEW h, NEW j \in Nat, Governs(g, h), Governs(h, j)
  PROVE  Governs(g, j)
<1>1. g \in Headings /\ h \in Headings /\ g <= h /\ h <= j
  BY DEF Governs
<1>2. g \in Nat /\ h \in Nat /\ g <= j /\ doc[g].depth \in Nat /\ doc[h].depth \in Nat
  BY <1>1, RanksAreNumbers
<1>3. ASSUME NEW k \in Headings, g < k, k <= j  PROVE doc[k].depth > doc[g].depth
  <2>1. k \in Nat /\ doc[k].depth \in Nat
    BY RanksAreNumbers
  <2>2. CASE k <= h
    BY <1>3, <2>2 DEF Governs
  <2>3. CASE h < k
    <3>1. doc[k].depth > doc[h].depth
      BY <1>3, <2>3 DEF Governs
    <3>2. g = h \/ doc[h].depth > doc[g].depth
      BY <1>1, <1>2 DEF Governs
    <3>. QED  BY <1>2, <2>1, <3>1, <3>2
  <2>. QED  BY <1>2, <2>1, <2>2, <2>3
<1>. QED  BY <1>1, <1>2, <1>3 DEF Governs

\* ... and what comes before that.
LEMMA GovernsLess ==
  ASSUME TypeOK, NEW h, NEW j \in Nat, NEW m \in Nat, Governs(h, j), h <= m, m <= j
  PROVE  Governs(h, m)
<1>1. \A k \in Headings : k \in Nat
  BY RanksAreNumbers
<1>. QED  BY <1>1 DEF Governs

\* Of the headings around a node, the next one after h is directly under h.
LEMMA NextAround ==
  ASSUME TypeOK, NEW j \in Flows, NEW h, Encloses(h, j), ~ Under(h, j)
  PROVE  \E g \in Headings : Governs(g, j) /\ Under(h, g)
<1>1. j \in Nat /\ j \notin Headings /\ \A g \in Headings : g \in Nat /\ 0 < g
  BY NodesAreTyped DEF Flows, Headings
<1>2. h \in Nat /\ (h # 0 => h \in Headings /\ h < j)
  BY <1>1 DEF Encloses, Governs
<1>. DEFINE G == {g \in Headings : g < j /\ Governs(g, j) /\ h < g}
<1>3. G \in SUBSET Nat /\ G # {}
  BY <1>1, <1>2 DEF Under, Encloses
<1>4. PICK g \in G : \A k \in G : g <= k
  <2>. HIDE DEF G
  <2>. QED  BY <1>3, SmallestOf
<1>5. g \in Headings /\ g \in Nat /\ g < j /\ Governs(g, j) /\ h < g
  BY <1>1, <1>4
<1>6. h = 0 \/ (Governs(h, g) /\ h < g)
  BY <1>1, <1>2, <1>5, GovernsLess DEF Encloses
<1>7. ASSUME NEW k \in Headings, k < g, Governs(k, g)  PROVE k <= h
  <2>1. Governs(k, j) /\ k < j /\ k \in Nat
    BY <1>1, <1>5, <1>7, GovernsOn
  <2>. QED  BY <1>2, <1>4, <1>5, <1>7, <2>1
<1>. QED  BY <1>5, <1>6, <1>7 DEF Under

\* What a section that holds all its own has where.
LEMMA ChildrenOf ==
  ASSUME TypeOK, NEW sect, Holds(sect, DOMAIN doc)
  PROVE  /\ \A i \in DOMAIN sect.children :
              LET p == Place(sect.children[i])
              IN  /\ p \in DOMAIN doc /\ Under(sect.heading_text, p)
                  /\ (sect.children[i].child = "section") <=> (p \in Headings)
                  /\ p \in Flows \cup Headings
         /\ \A j \in Flows \cup Headings : Under(sect.heading_text, j) =>
              \E i \in DOMAIN sect.children : Place(sect.children[i]) = j
         /\ \A i, n \in DOMAIN sect.children :
              i < n => Place(sect.children[i]) < Place(sect.children[n])
<1>. DEFINE P == Places(sect)
            O == Own(sect, {"flow", "heading"}, DOMAIN doc)
<1>1. /\ {P[i] : i \in DOMAIN P} = O
      /\ \A i, n \in DOMAIN P : i < n => P[i] < P[n]
  BY DEF Holds, Enumerates
<1>2. /\ DOMAIN P = DOMAIN sect.children
      /\ \A i \in DOMAIN sect.children : P[i] = Place(sect.children[i])
  BY DEF Places
<1>3. O = {j \in Flows \cup Headings : Under(sect.heading_text, j)}
  BY DEF Own, Flows, Headings
<1>4. \A i \in DOMAIN sect.children :
        doc[P[i]].kind = IF sect.children[i].child = "section" THEN "heading" ELSE "flow"
  BY DEF Holds
<1>. HIDE DEF P, O
<1>5. ASSUME NEW i \in DOMAIN sect.children
      PROVE  /\ P[i] \in Flows \cup Headings /\ P[i] \in DOMAIN doc
             /\ Under(sect.heading_text, P[i])
             /\ (sect.children[i].child = "section") <=> (P[i] \in Headings)
  <2>1. P[i] \in O
    BY <1>1, <1>2, <1>5
  <2>2. P[i] \in Flows \cup Headings /\ Under(sect.heading_text, P[i])
    BY <1>3, <2>1
  <2>3. P[i] \in DOMAIN doc
    BY <2>2 DEF Flows, Headings
  <2>. QED  BY <1>4, <2>2, <2>3 DEF Headings
<1>6. ASSUME NEW j \in Flows \cup Headings, Under(sect.heading_text, j)
      PROVE  \E i \in DOMAIN sect.children : P[i] = j
  BY <1>1, <1>2, <1>3, <1>6
<1>. QED  BY <1>1, <1>2, <1>5, <1>6

\* A section that holds its own is read in order.
LEMMA HeldIsReadInOrder ==
  ASSUME TypeOK, NEW sect, Holds(sect, DOMAIN doc)
  PROVE  ReadInOrder(sect)
<1>. DEFINE h == sect.heading_text
            c(i) == sect.children[i]
            p(i) == Place(sect.children[i])
<1>1. /\ \A j \in Flows : j \in Nat /\ j \notin Headings
      /\ \A g \in Headings : g \in Nat /\ 0 < g
      /\ \A j \in DOMAIN doc : j \in Nat
  BY NodesAreTyped DEF Flows, Headings
<1>2. ASSUME NEW j \in Flows, Encloses(h, j)
      PROVE  \E i \in DOMAIN sect.children : Leads(c(i), j)
  <2>1. CASE Under(h, j)
    BY <2>1, ChildrenOf DEF Leads
  <2>2. CASE ~ Under(h, j)
    <3>1. PICK g \in Headings : Governs(g, j) /\ Under(h, g)
      BY <1>2, <2>2, NextAround
    <3>2. PICK i \in DOMAIN sect.children : p(i) = g
      BY <3>1, ChildrenOf
    <3>3. c(i).child = "section"
      BY <3>1, <3>2, ChildrenOf
    <3>. QED  BY <3>1, <3>2, <3>3 DEF Leads
  <2>. QED  BY <2>1, <2>2
<1>3. ASSUME NEW j \in Flows, NEW i \in DOMAIN sect.children, Leads(c(i), j)
      PROVE  /\ p(i) = j \/ (p(i) \in Headings /\ Governs(p(i), j))
             /\ p(i) \in Nat /\ p(i) <= j /\ Under(h, p(i))
  <2>1. p(i) \in DOMAIN doc /\ Under(h, p(i))
    BY ChildrenOf
  <2>2. p(i) = j \/ (p(i) \in Headings /\ Governs(p(i), j))
    BY <1>3 DEF Leads, Governs
  <2>. QED  BY <1>1, <2>1, <2>2 DEF Governs
<1>4. ASSUME NEW j \in Flows, NEW i \in DOMAIN sect.children, Leads(c(i), j)
      PROVE  Encloses(h, j)
  <2>1. /\ p(i) = j \/ (p(i) \in Headings /\ Governs(p(i), j))
        /\ Under(h, p(i))
    BY <1>3, <1>4
  <2>2. h = 0 \/ Governs(h, p(i))
    BY <2>1 DEF Under
  <2>. QED  BY <1>1, <2>1, <2>2, GovernsOn DEF Encloses
<1>5. ASSUME NEW i \in DOMAIN sect.children, NEW n \in DOMAIN sect.children, i < n,
             NEW j \in Flows, NEW l \in Flows, Leads(c(i), j), Leads(c(n), l)
      PROVE  j < l
  <2>1. p(i) < p(n)
    BY <1>5, ChildrenOf
  <2>2. p(n) \in Nat /\ p(n) <= l /\ Under(h, p(n))
    BY <1>3, <1>5
  <2>3. /\ p(i) = j \/ (p(i) \in Headings /\ Governs(p(i), j))
        /\ p(i) \in Nat /\ p(i) <= j /\ Under(h, p(i))
    BY <1>3, <1>5
  <2>4. CASE p(i) = j
    BY <1>1, <2>1, <2>2, <2>4
  <2>5. CASE p(i) \in Headings /\ Governs(p(i), j)
    <3>. SUFFICES ASSUME p(n) <= j  PROVE FALSE
      BY <1>1, <2>2
    <3>1. Governs(p(i), p(n))
      BY <1>1, <2>1, <2>2, <2>3, <2>5, GovernsLess
    <3>2. p(i) <= h
      BY <2>1, <2>2, <2>5, <3>1 DEF Under
    <3>3. h = 0 \/ (h < p(i) /\ h \in Nat)
      BY <1>1, <2>3 DEF Under, Governs
    <3>. QED  BY <1>1, <2>3, <2>5, <3>2, <3>3
  <2>. QED  BY <2>3, <2>4, <2>5
<1>. QED  BY <1>2, <1>4, <1>5 DEF ReadInOrder

\* Whatever the document, each of its sections can be read in its order.
THEOREM DocumentsReadInOrder == LowerSpec => []SectionsReadInOrder
<1>1. IInv => SectionsReadInOrder
  <2>. SUFFICES ASSUME IInv, NEW sect \in Complete  PROVE ReadInOrder(sect)
    BY DEF SectionsReadInOrder
  <2>1. Holds(sect, DOMAIN doc)
    <3>1. CASE sect \in closed
      BY <3>1 DEF IInv, SectionsHoldTheirOwn
    <3>2. CASE sect = top /\ pos > Len(doc) /\ Len(stack) = 1
      <4>1. pos - 1 = Len(doc) /\ DOMAIN doc = 1..Len(doc)
        BY <3>2, NodesAreTyped DEF IInv
      <4>2. 1 \in DOMAIN stack /\ top = stack[1] /\ SoFar(1) = 1..(pos - 1)
        BY <3>2, SoFarIs, TopIsTyped DEF IInv, top
      <4>. QED  BY <3>2, <4>1, <4>2 DEF IInv, SectionsHoldTheirOwn
    <3>. QED  BY <3>1, <3>2 DEF Complete
  <2>. QED  BY <2>1, HeldIsReadInOrder DEF IInv
<1>. QED  BY <1>1, Invariance, PTL

\* What is left to do: a heading takes two steps, to open its section and to
\* close it, any other node one.
Remaining == 2 * (Len(doc) + 1 - pos) + Len(stack)

\* The loop of build_root_section ends, whatever the document, after at most two
\* steps for each of its nodes and one more: each step but the last leaves less.
EachStepLeavesLess ==
  [][ /\ phase = "lowering" /\ Remaining \in Nat
      /\ phase' = "lowering" => Remaining' < Remaining ]_lower_vars

\* Lowering any document comes to an end (build_root_section).
THEOREM LoweringEnds == LowerSpec => EachStepLeavesLess
<1>1. ASSUME TypeOK, [LowerNext]_lower_vars
      PROVE  [ /\ phase = "lowering" /\ Remaining \in Nat
               /\ phase' = "lowering" => Remaining' < Remaining ]_lower_vars
  <2>. SUFFICES ASSUME LowerNext
                PROVE  /\ phase = "lowering" /\ Remaining \in Nat
                       /\ phase' = "lowering" => Remaining' < Remaining
    BY <1>1
  <2>. DEFINE n == Len(stack)
              m == Len(doc)
  <2>1. n \in Nat \ {0} /\ m \in Nat /\ pos \in Nat /\ pos <= m + 1
    BY <1>1, TopIsTyped, NodesAreTyped
  <2>2. Remaining = 2 * (m + 1 - pos) + n /\ Remaining' = 2 * (Len(doc)' + 1 - pos') + Len(stack)'
    BY DEF Remaining
  <2>. HIDE DEF n, m
  <2>3. Remaining \in Nat
    BY <2>1, <2>2
  <2>4. CASE esm
    <3>1. phase = "lowering" /\ pos' = pos + 1 /\ Len(doc)' = m /\ Len(stack)' = n
      BY <2>4 DEF esm, At, Advance, n, m
    <3>. QED  BY <2>1, <2>2, <2>3, <3>1
  <2>5. CASE pop
    <3>1. phase = "lowering" /\ pos' = pos /\ Len(doc)' = m /\ Len(stack)' = n - 1
      BY <1>1, <2>5, PopStep DEF pop, Closing, At, AtEnd, n, m
    <3>. QED  BY <2>1, <2>2, <2>3, <3>1
  <2>6. CASE heading
    <3>1. phase = "lowering" /\ pos' = pos + 1 /\ Len(doc)' = m /\ Len(stack)' = n + 1
      BY <1>1, <2>6, HeadingStep DEF heading, At, Advance, n, m
    <3>. QED  BY <2>1, <2>2, <2>3, <3>1
  <2>7. CASE flow \/ prose
    <3>1. phase = "lowering" /\ pos' = pos + 1 /\ Len(doc)' = m /\ Len(stack)' = n
      BY <1>1, <2>7, FlowStep, ProseStep DEF flow, prose, At, Advance, n, m
    <3>. QED  BY <2>1, <2>2, <2>3, <3>1
  <2>8. CASE rejected \/ lower_to_tsx
    BY <2>3, <2>8 DEF rejected, lower_to_tsx, At, AtEnd
  <2>. QED  BY <2>4, <2>5, <2>6, <2>7, <2>8 DEF LowerNext
<1>. QED  BY <1>1, TypeCorrect, PTL DEF LowerSpec, EachStepLeavesLess
=============================================================================
