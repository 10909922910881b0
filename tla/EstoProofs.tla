------------------------------ MODULE EstoProofs ------------------------------
(***************************************************************************)
(* Proofs about the two modules of esto: FsScope, for any number of files  *)
(* and claims, any breaker and any number of faults and outside changes,   *)
(* and EstoWatch, for any number of changes and any counts a run reports.  *)
(*                                                                         *)
(* FsScope.  The invariant says what a pass knows of the directory: the    *)
(* breaker has looked at the claims the hooks act on (BreakerHolds), a     *)
(* leaf is a claimed file (LeavesAreClaimed), what was pruned is unclaimed *)
(* and, as long as nobody disturbs the pass, the files already visited     *)
(* have their leaf's content, the others the one they had (Undisturbed).   *)
(* A clean pass ends in a directory that is Stable: claims that look at it *)
(* again say what is there already.                                        *)
(***************************************************************************)
EXTENDS FsScope, EstoWatch, FiniteSetTheorems, TLAPS

-----------------------------------------------------------------------------
(* FsScope: what a pass knows.                                               *)

\* What the claims say of a directory that holds the files S, whenever it is
\* looked at.
Matches(S, c) ==
  CASE c.matcher = "all"  -> S
    [] c.matcher = "glob" -> c.files \cap S
    [] c.matcher = "name" -> IF c.content # Keep THEN c.files ELSE c.files \cap S

ContentsAt(claims, S, f) == {c.content : c \in {d \in claims : f \in Matches(S, d)}}

Agree(claims, S) == \A f \in File : \A c, d \in ContentsAt(claims, S, f) \ {Keep} : c = d

ClaimAt(claims, S) ==
  [f \in File |->
     IF ContentsAt(claims, S, f) = {} THEN None
     ELSE IF ContentsAt(claims, S, f) = {Keep} THEN Keep
     ELSE CHOOSE c \in ContentsAt(claims, S, f) : c # Keep]

\* A directory the claims have nothing to do in, or, if files that are new make
\* them contradict each other, do nothing in.
Stable(claims, D) ==
  Agree(claims, Held(D)) =>
    \/ \A f \in File : ClaimAt(claims, Held(D))[f] = None
    \/ \A f \in File : ClaimAt(claims, Held(D))[f] # Keep => D[f] = ClaimAt(claims, Held(D))[f]

Resolved == {"claimed", "ready", "hooks", "done"}

\* The parts of the inductive invariant.
BreakerHolds == phase \in Resolved => ~TooMany(claim_map)

LeavesAreClaimed ==
  phase \in {"ready", "hooks", "done"} =>
    \A f \in File : /\ (hashes[f] = None <=> claim_map[f] = None)
                    /\ (claim_map[f] \notin {None, Keep} => hashes[f] = claim_map[f])

PrunedAreUnclaimed ==
  /\ phase \in {"new", "seen", "claimed", "ready"} => pruned = {}
  /\ phase \in {"hooks", "done"} => \A f \in pruned : claim_map[f] = None

HooksHaveLeaves == phase = "hooks" => Held(hashes) # {}

\* What a pass knows that nobody disturbs.
Undisturbed ==
  ~disturbed =>
    /\ phase \in {"new", "seen", "claimed", "ready"} => dir = before
    /\ phase \in Resolved \cup {"seen"} => scope_rels = Held(before)
    /\ phase \in Resolved => claim_map = ClaimAt(script, scope_rels) /\ Agree(script, scope_rels)
    /\ phase \in {"ready", "hooks", "done"} =>
         \A f \in File : claim_map[f] = Keep => hashes[f] = before[f]
    /\ phase = "hooks" => store = before
    /\ phase = "hooks" /\ errors = 0 =>
         \A f \in File : dir[f] = IF f \in todo THEN before[f] ELSE hashes[f]
    /\ phase = "done" /\ errors = 0 => dir = hashes \/ (Held(hashes) = {} /\ dir = before)

SettledIsStable ==
  settled => /\ ~disturbed /\ Stable(script, dir)
             /\ phase # "idle" => dir = before /\ delta = 0

IInv ==
  /\ TypeOK /\ script \in Claims
  /\ BreakerHolds /\ LeavesAreClaimed /\ PrunedAreUnclaimed
  /\ HooksHaveLeaves /\ Undisturbed /\ SettledIsStable

-----------------------------------------------------------------------------
(* FsScope: what the claims say.                                             *)

LEMMA KeepIsSpecial == Keep \notin Content /\ Keep # None /\ None \notin Content /\ Blank \in Content
BY ContentsAreContents, NoneIsNoValue DEF Content

LEMMA ClaimsAreClaims == \A S \in Claims : S \subseteq Claim /\ IsFiniteSet(S)
<1>. SUFFICES ASSUME NEW S \in Claims PROVE S \subseteq Claim /\ IsFiniteSet(S)
  OBVIOUS
<1>1. CASE S = {}
  BY <1>1, FS_EmptySet
<1>2. ASSUME NEW c \in [1..MaxClaims -> Claim], S = {c[i] : i \in 1..MaxClaims}
      PROVE  S \subseteq Claim /\ IsFiniteSet(S)
  <2>1. IsFiniteSet(1..MaxClaims)
    BY BoundsAreNumbers, FS_Interval
  <2>2. c \in Surjection(1..MaxClaims, S)
    BY <1>2 DEF Surjection
  <2>. QED BY <1>2, <2>1, <2>2, FS_Surjection
<1>. QED BY <1>1, <1>2 DEF Claims

\* All contents of a file are contents of claims.
LEMMA ContentsAreFinite ==
  ASSUME script \in Claims, NEW S, S \subseteq {c.content : c \in script}
  PROVE  IsFiniteSet(S) /\ S \subseteq Content \cup {Keep}
<1>1. script \subseteq Claim /\ IsFiniteSet(script)
  BY ClaimsAreClaims
<1> DEFINE T == {c.content : c \in script}
           g == [c \in script |-> c.content]
<1>2. g \in Surjection(script, T)
  BY DEF Surjection
<1>3. IsFiniteSet(T)
  BY <1>1, <1>2, FS_Surjection
<1>4. T \subseteq Content \cup {Keep}
  BY <1>1 DEF Claim
<1>. QED BY <1>3, <1>4, FS_Subset

\* A pass whose snapshot is what is there now, and that finds no conflict.
LEMMA ClaimsOfSnapshot ==
  ASSUME scope_rels = Present
  PROVE  /\ claim_of = ClaimAt(script, scope_rels)
         /\ script \in Claims /\ ~Conflict => Agree(script, scope_rels)
<1>1. \A c : Matched(c) = Matches(scope_rels, c)
  BY DEF Matched, Matches
<1>2. \A f : Contents(f) = ContentsAt(script, scope_rels, f)
  BY <1>1 DEF Contents, ContentsAt
<1>3. claim_of = ClaimAt(script, scope_rels)
  <2>1. ASSUME NEW f \in File PROVE claim_of[f] = ClaimAt(script, scope_rels)[f]
    <3>1. Contents(f) = ContentsAt(script, scope_rels, f)
      BY <1>2
    <3>. QED BY <3>1 DEF claim_of, ClaimAt
  <2>. QED BY <2>1 DEF claim_of, ClaimAt
<1>4. ASSUME script \in Claims, ~Conflict, NEW f \in File,
             NEW c \in Contents(f) \ {Keep}, NEW d \in Contents(f) \ {Keep}, c # d
      PROVE  FALSE
  <2>1. IsFiniteSet(Contents(f) \ {Keep})
    BY <1>4, ContentsAreFinite DEF Contents
  <2>2. Cardinality({c, d}) = 2
    <3>1. {c, d} = {c} \cup {d} /\ d \notin {c}
      BY <1>4
    <3>2. IsFiniteSet({c}) /\ Cardinality({c}) = 1
      BY FS_Singleton
    <3>3. Cardinality({c} \cup {d}) = 2
      BY <3>1, <3>2, FS_AddElement
    <3>. QED BY <3>1, <3>3
  <2>3. Cardinality({c, d}) <= Cardinality(Contents(f) \ {Keep})
    BY <2>1, FS_Subset
  <2>4. Cardinality(Contents(f) \ {Keep}) \in Nat
    BY <2>1, FS_CardinalityType
  <2>. QED BY <1>4, <2>2, <2>3, <2>4 DEF Conflict
<1>. QED BY <1>2, <1>3, <1>4 DEF Agree

\* A claim is a content, or Keep for a file that is there.
LEMMA ClaimTypes ==
  ASSUME script \in Claims, NEW S \in SUBSET File, NEW f \in File
  PROVE  /\ ClaimAt(script, S)[f] \in Content \cup {Keep, None}
         /\ (ClaimAt(script, S)[f] = None <=> ContentsAt(script, S, f) = {})
         /\ (ClaimAt(script, S)[f] = Keep => f \in S)
<1>1. ContentsAt(script, S, f) \subseteq Content \cup {Keep}
  BY ContentsAreFinite DEF ContentsAt
<1>2. CASE ContentsAt(script, S, f) = {}
  BY <1>2, KeepIsSpecial DEF ClaimAt
<1>3. CASE ContentsAt(script, S, f) = {Keep}
  <2>1. PICK c \in script : f \in Matches(S, c) /\ c.content = Keep
    BY <1>3 DEF ContentsAt
  <2>2. c \in Claim
    BY ClaimsAreClaims
  <2>3. c.matcher \in {"all", "glob", "name"}
    BY <2>2 DEF Claim
  <2>4. f \in S
    BY <2>1, <2>3 DEF Matches
  <2>. QED BY <1>3, <2>4, KeepIsSpecial DEF ClaimAt
<1>4. CASE ContentsAt(script, S, f) # {} /\ ContentsAt(script, S, f) # {Keep}
  <2>1. \E c \in ContentsAt(script, S, f) : c # Keep
    BY <1>4
  <2>2. ClaimAt(script, S)[f] = CHOOSE c \in ContentsAt(script, S, f) : c # Keep
    BY <1>4 DEF ClaimAt
  <2>3. ClaimAt(script, S)[f] \in ContentsAt(script, S, f) /\ ClaimAt(script, S)[f] # Keep
    BY <2>1, <2>2
  <2>. QED BY <1>1, <1>4, <2>3, KeepIsSpecial
<1>. QED BY <1>2, <1>3, <1>4

\* Once the claimed files are there and the others are not, the same is claimed
\* again, unless the files that are new make the claims contradict each other.
LEMMA ClaimsStay ==
  ASSUME script \in Claims, NEW S \in SUBSET File, NEW T \in SUBSET File,
         Agree(script, S), Agree(script, T),
         \A f \in File : f \in T <=> ClaimAt(script, S)[f] # None,
         NEW f \in File
  PROVE  ClaimAt(script, T)[f] = ClaimAt(script, S)[f]
<1>0. script \subseteq Claim
  BY ClaimsAreClaims
<1>1. \A c \in script : c.matcher \in {"all", "glob", "name"}
  BY <1>0 DEF Claim
<1>2. f \in T <=> ContentsAt(script, S, f) # {}
  BY ClaimTypes
<1>3. CASE f \in S /\ f \in T
  <2>1. \A c \in script : f \in Matches(S, c) <=> f \in Matches(T, c)
    BY <1>1, <1>3 DEF Matches
  <2>2. ContentsAt(script, S, f) = ContentsAt(script, T, f)
    BY <2>1 DEF ContentsAt
  <2>. QED BY <2>2 DEF ClaimAt
<1>4. CASE f \notin T
  <2>1. \A c \in script : f \in Matches(T, c) => f \in Matches(S, c)
    BY <1>1, <1>4 DEF Matches
  <2>2. ContentsAt(script, T, f) = {} /\ ContentsAt(script, S, f) = {}
    BY <1>2, <1>4, <2>1 DEF ContentsAt
  <2>. QED BY <2>2 DEF ClaimAt
<1>5. CASE f \notin S /\ f \in T
  <2>1. \A c \in script : f \in Matches(S, c) => c.content # Keep /\ f \in Matches(T, c)
    BY <1>1, <1>5 DEF Matches
  <2>2. ContentsAt(script, S, f) \subseteq ContentsAt(script, T, f) /\ Keep \notin ContentsAt(script, S, f)
    BY <2>1 DEF ContentsAt
  <2>3. PICK c : c \in ContentsAt(script, S, f)
    BY <1>2, <1>5
  <2>4. c # Keep /\ c \in ContentsAt(script, T, f)
    BY <2>2, <2>3
  <2>5. \A d \in ContentsAt(script, S, f) : d # Keep => d = c
    BY <2>3, <2>4 DEF Agree
  <2>6. \A d \in ContentsAt(script, T, f) : d # Keep => d = c
    BY <2>4 DEF Agree
  <2>7. ClaimAt(script, S)[f] = CHOOSE d \in ContentsAt(script, S, f) : d # Keep
    BY <2>2, <2>3 DEF ClaimAt
  <2>8. ClaimAt(script, T)[f] = CHOOSE d \in ContentsAt(script, T, f) : d # Keep
    BY <2>4 DEF ClaimAt
  <2>. QED BY <2>3, <2>4, <2>5, <2>6, <2>7, <2>8
<1>. QED BY <1>3, <1>4, <1>5

\* Such a directory is stable.
LEMMA CleanIsStable ==
  ASSUME script \in Claims, NEW S \in SUBSET File, NEW E \in Store, Agree(script, S),
         \A f \in File :
           /\ (E[f] = None <=> ClaimAt(script, S)[f] = None)
           /\ (ClaimAt(script, S)[f] \notin {None, Keep} => E[f] = ClaimAt(script, S)[f])
  PROVE  Stable(script, E)
<1>. SUFFICES ASSUME Agree(script, Held(E)), NEW f \in File, ClaimAt(script, Held(E))[f] # Keep
              PROVE  E[f] = ClaimAt(script, Held(E))[f]
  BY DEF Stable
<1>1. Held(E) \in SUBSET File
  BY DEF Held, File
<1>2. \A g \in File : g \in Held(E) <=> ClaimAt(script, S)[g] # None
  BY DEF Held, File
<1>3. ClaimAt(script, Held(E))[f] = ClaimAt(script, S)[f]
  BY <1>1, <1>2, ClaimsStay
<1>. QED BY <1>3

-----------------------------------------------------------------------------
(* FsScope: types.                                                           *)

LEMMA InitIInv == Init => IInv
<1>. SUFFICES ASSUME Init PROVE IInv
  OBVIOUS
<1>1. script \subseteq Claim
  BY ClaimsAreClaims DEF Init
<1>2. TypeOK
  <2>1. MaxFaults \in 0..MaxFaults /\ MaxChanges \in 0..MaxChanges
    BY BoundsAreNumbers
  <2>2. Empty \in Store /\ Unclaimed \in [File -> Content \cup {Keep, None}]
    BY DEF Store, Empty, Unclaimed
  <2>. QED BY <1>1, <2>1, <2>2 DEF Init, TypeOK
<1>. QED BY <1>2 DEF Init, IInv, BreakerHolds, LeavesAreClaimed, PrunedAreUnclaimed,
                     HooksHaveLeaves, Undisturbed, SettledIsStable, Resolved

LEMMA ClaimsHaveTypes ==
  ASSUME script \in Claims
  PROVE  claim_of \in [File -> Content \cup {Keep, None}]
<1>1. ASSUME NEW f \in File PROVE claim_of[f] \in Content \cup {Keep, None}
  <2>1. Contents(f) \subseteq Content \cup {Keep}
    BY ContentsAreFinite DEF Contents
  <2>2. Contents(f) # {} /\ Contents(f) # {Keep} => \E c \in Contents(f) : c # Keep
    OBVIOUS
  <2>. QED BY <2>1, <2>2 DEF claim_of
<1>. QED BY <1>1 DEF claim_of

LEMMA LeavesHaveTypes ==
  ASSUME TypeOK
  PROVE  /\ [f \in File |-> leaf(f)] \in Store
         /\ \A f \in File : /\ (leaf(f) = None <=> claim_map[f] = None)
                           /\ (claim_map[f] \notin {None, Keep} => leaf(f) = claim_map[f])
BY KeepIsSpecial DEF TypeOK, leaf, Store, File, Content

LEMMA TypesAreKept == ASSUME IInv, [Next]_vars PROVE TypeOK' /\ script' = script
<1>. USE BoundsAreNumbers DEF IInv, TypeOK
<1>1. ASSUME NEW f \in File, NEW c \in Content \cup {None}, outsider(f, c)
      PROVE  TypeOK' /\ script' = script
  <2>1. changes' \in 0..MaxChanges
    BY <1>1 DEF outsider
  <2>2. dir' \in Store
    BY <1>1 DEF outsider, Store, File, Content
  <2>. QED BY <1>1, <2>1, <2>2 DEF outsider, evaluated, pass
<1>2. CASE begin
  BY <1>2 DEF begin, evaluated, bounds
<1>3. CASE snapshot
  BY <1>3 DEF snapshot, Goto, Present, Held, File, history, bounds
<1>4. CASE resolve
  BY <1>4, ClaimsHaveTypes DEF resolve, Goto, history, bounds
<1>5. CASE leaves
  BY <1>5, LeavesHaveTypes DEF leaves, Goto, history, bounds
<1>6. CASE observe
  BY <1>6 DEF observe, Goto, evaluated, history, bounds, Held, File, Fault
<1>7. CASE no_leaves
  BY <1>7 DEF no_leaves, Goto, evaluated, history, bounds
<1>8. ASSUME NEW f \in File, NEW c \in Content \cup {None}, Visit(f), Sh(f, c),
             pruned' \in SUBSET File
      PROVE  TypeOK' /\ script' = script
  BY <1>8 DEF Visit, Sh, Fault, evaluated, bounds, Store, File, Content
<1>9. ASSUME NEW f \in File, exit(f) PROVE TypeOK' /\ script' = script
  BY <1>8, <1>9 DEF exit
<1>10. ASSUME NEW f \in File, update(f) PROVE TypeOK' /\ script' = script
  <2>1. CASE store[f] = Want[f] \/ claim_map[f] = Keep
    BY <1>10, <2>1 DEF update, Visit, evaluated, bounds
  <2>2. CASE store[f] # Want[f] /\ claim_map[f] # Keep
    <3>1. claim_map[f] \in Content \cup {None}
      BY <2>2
    <3>. QED BY <1>8, <1>10, <2>2, <3>1 DEF update
  <2>. QED BY <2>1, <2>2
<1>11. ASSUME NEW f \in File, enter(f) PROVE TypeOK' /\ script' = script
  <2>1. (IF claim_map[f] = Keep THEN Blank ELSE claim_map[f]) \in Content \cup {None}
    BY KeepIsSpecial
  <2>. QED BY <1>8, <1>11, <2>1 DEF enter
<1>12. CASE kind_done
  BY <1>12 DEF kind_done, evaluated, history, bounds, Empty, Store
<1>13. CASE finish
  BY <1>13 DEF finish, evaluated, bounds
<1>14. CASE UNCHANGED vars
  BY <1>14 DEF vars, evaluated, pass, history, bounds
<1>. QED BY <1>1, <1>2, <1>3, <1>4, <1>5, <1>6, <1>7, <1>9, <1>10, <1>11, <1>12, <1>13, <1>14
         DEF Next

-----------------------------------------------------------------------------
(* FsScope: the steps of a pass.                                             *)

\* What is left to show of a step, once types and script are kept.
Rest ==
  /\ BreakerHolds /\ LeavesAreClaimed /\ PrunedAreUnclaimed
  /\ HooksHaveLeaves /\ Undisturbed /\ SettledIsStable

\* As long as the files in question are those of the snapshot.
LEMMA BreakerStays ==
  ASSUME UNCHANGED evaluated PROVE TooMany(claim_map)' <=> TooMany(claim_map)
BY DEF evaluated, TooMany, PruneCount

LEMMA OutsiderKeeps ==
  ASSUME IInv, NEW f \in File, NEW c \in Content \cup {None}, outsider(f, c)
  PROVE  Rest'
BY BreakerStays DEF IInv, Rest, outsider, evaluated, pass, BreakerHolds, LeavesAreClaimed,
                    PrunedAreUnclaimed, HooksHaveLeaves, Undisturbed, SettledIsStable

LEMMA BeginKeeps == ASSUME IInv, begin PROVE Rest'
BY DEF IInv, Rest, begin, evaluated, bounds, BreakerHolds, LeavesAreClaimed, Resolved,
       PrunedAreUnclaimed, HooksHaveLeaves, Undisturbed, SettledIsStable

LEMMA SnapshotKeeps == ASSUME IInv, snapshot PROVE Rest'
BY DEF IInv, Rest, snapshot, Goto, Present, history, BreakerHolds, LeavesAreClaimed, Resolved,
       PrunedAreUnclaimed, HooksHaveLeaves, Undisturbed, SettledIsStable

LEMMA ResolveKeeps == ASSUME IInv, resolve PROVE Rest'
<1>1. BreakerHolds'
  BY DEF resolve, Goto, BreakerHolds, Resolved, TooMany, PruneCount
<1>2. LeavesAreClaimed' /\ PrunedAreUnclaimed' /\ HooksHaveLeaves'
  BY DEF IInv, resolve, Goto, history, LeavesAreClaimed, PrunedAreUnclaimed, HooksHaveLeaves
<1>3. Undisturbed'
  <2>1. ~disturbed => scope_rels = Present
    BY DEF IInv, Undisturbed, resolve, Present
  <2>2. ~disturbed /\ ~Conflict => claim_of = ClaimAt(script, scope_rels) /\ Agree(script, scope_rels)
    BY <2>1, ClaimsOfSnapshot DEF IInv
  <2>. QED BY <2>2 DEF IInv, Undisturbed, resolve, Goto, history, Resolved
<1>4. SettledIsStable'
  BY DEF IInv, SettledIsStable, resolve, Goto, history
<1>. QED BY <1>1, <1>2, <1>3, <1>4 DEF Rest

LEMMA LeavesKeep == ASSUME IInv, leaves PROVE Rest'
<1>1. BreakerHolds'
  BY DEF IInv, leaves, Goto, BreakerHolds, Resolved, TooMany, PruneCount
<1>2. LeavesAreClaimed'
  <2>1. \A f \in File : hashes'[f] = leaf(f)
    BY DEF leaves
  <2>. QED BY <2>1, LeavesHaveTypes DEF IInv, leaves, LeavesAreClaimed
<1>3. PrunedAreUnclaimed' /\ HooksHaveLeaves'
  BY DEF IInv, leaves, Goto, history, PrunedAreUnclaimed, HooksHaveLeaves
<1>4. Undisturbed'
  <2>1. ASSUME ~disturbed, NEW f \in File, claim_map[f] = Keep
        PROVE  leaf(f) = before[f]
    <3>1. dir = before /\ scope_rels = Held(before) /\ claim_map = ClaimAt(script, scope_rels)
      BY <2>1 DEF IInv, Undisturbed, leaves, Resolved
    <3>2. scope_rels \in SUBSET File
      BY DEF IInv, TypeOK
    <3>3. f \in scope_rels
      BY <2>1, <3>1, <3>2, ClaimTypes DEF IInv
    <3>4. dir[f] # None
      BY <3>1, <3>3 DEF Held
    <3>. QED BY <2>1, <3>1, <3>4, KeepIsSpecial DEF leaf
  <2>. QED BY <2>1 DEF IInv, Undisturbed, leaves, Goto, history, Resolved
<1>5. SettledIsStable'
  BY DEF IInv, SettledIsStable, leaves, Goto, history
<1>. QED BY <1>1, <1>2, <1>3, <1>4, <1>5 DEF Rest

LEMMA ObserveKeeps == ASSUME IInv, observe PROVE Rest'
<1>1. BreakerHolds' /\ LeavesAreClaimed' /\ PrunedAreUnclaimed' /\ HooksHaveLeaves'
  BY BreakerStays DEF IInv, observe, Goto, evaluated, history, BreakerHolds, Resolved,
                      LeavesAreClaimed, PrunedAreUnclaimed, HooksHaveLeaves
<1>2. Undisturbed'
  <2>1. ASSUME phase' = "hooks", NEW f \in File, f \notin todo', ~disturbed
        PROVE  dir[f] = hashes[f]
    BY <2>1 DEF observe, Goto, Held, File
  <2>. QED BY <2>1 DEF IInv, Undisturbed, observe, Goto, evaluated, history, Resolved
<1>3. SettledIsStable'
  BY DEF IInv, SettledIsStable, observe, Goto, history
<1>. QED BY <1>1, <1>2, <1>3 DEF Rest

LEMMA NoLeavesKeep == ASSUME IInv, no_leaves PROVE Rest'
BY BreakerStays DEF IInv, Rest, no_leaves, Goto, evaluated, history, BreakerHolds, LeavesAreClaimed,
       Resolved, PrunedAreUnclaimed, HooksHaveLeaves, Undisturbed, SettledIsStable

LEMMA KindDoneKeeps == ASSUME IInv, kind_done PROVE Rest'
<1>1. BreakerHolds' /\ LeavesAreClaimed' /\ PrunedAreUnclaimed' /\ HooksHaveLeaves'
  BY BreakerStays DEF IInv, kind_done, evaluated, history, BreakerHolds, Resolved,
                      LeavesAreClaimed, PrunedAreUnclaimed, HooksHaveLeaves
<1>2. Undisturbed'
  <2>1. ASSUME ~disturbed, errors = 0 PROVE dir = hashes
    <3>1. \A f \in File : dir[f] = hashes[f]
      BY <2>1 DEF IInv, Undisturbed, kind_done
    <3>. QED BY <3>1 DEF IInv, TypeOK, Store, File
  <2>. QED BY <2>1 DEF IInv, Undisturbed, kind_done, evaluated, history, Resolved
<1>3. SettledIsStable'
  BY DEF IInv, SettledIsStable, kind_done, history
<1>. QED BY <1>1, <1>2, <1>3 DEF Rest

LEMMA FinishKeeps == ASSUME IInv, finish PROVE Rest'
<1>1. BreakerHolds' /\ LeavesAreClaimed' /\ PrunedAreUnclaimed' /\ HooksHaveLeaves' /\ Undisturbed'
  BY DEF IInv, finish, evaluated, bounds, BreakerHolds, Resolved, LeavesAreClaimed,
         PrunedAreUnclaimed, HooksHaveLeaves, Undisturbed
<1>2. ASSUME errors = 0, ~disturbed PROVE Stable(script, dir)
  <2>1. /\ scope_rels = Held(before) /\ claim_map = ClaimAt(script, scope_rels)
        /\ Agree(script, scope_rels)
    BY <1>2 DEF IInv, Undisturbed, finish, Resolved
  <2>2. CASE Held(hashes) = {} /\ dir = before
    <3>1. \A f \in File : claim_map[f] = None
      BY <2>2 DEF IInv, LeavesAreClaimed, finish, Held, File
    <3>. QED BY <2>1, <2>2, <3>1 DEF Stable
  <2>3. CASE dir = hashes
    <3>1. scope_rels \in SUBSET File /\ dir \in Store
      BY DEF IInv, TypeOK
    <3>2. \A f \in File : /\ (dir[f] = None <=> claim_map[f] = None)
                         /\ (claim_map[f] \notin {None, Keep} => dir[f] = claim_map[f])
      BY <2>3 DEF IInv, LeavesAreClaimed, finish
    <3>. QED BY <2>1, <3>1, <3>2, CleanIsStable DEF IInv
  <2>. QED BY <1>2, <2>2, <2>3 DEF IInv, Undisturbed, finish
<1>3. SettledIsStable'
  BY <1>2 DEF SettledIsStable, finish
<1>. QED BY <1>1, <1>3 DEF Rest

\* The steps of a unit's hooks.
Hook(f) == exit(f) \/ update(f) \/ enter(f)

LEMMA HooksVisit ==
  ASSUME NEW f \in File, Hook(f)
  PROVE  /\ phase = "hooks" /\ f \in todo /\ todo' = todo \ {f}
         /\ UNCHANGED <<script, evaluated, phase, store, before, disturbed, settled>>
<1>1. Visit(f)
  BY DEF Hook, exit, update, enter
<1>2. f \in todo
  BY <1>1 DEF Visit, NextUp, Exits, Updates
<1>. QED BY <1>1, <1>2 DEF Visit

\* In a pass nobody disturbs, a hook that does not fail gives a file its leaf.
LEMMA HookWritesLeaf ==
  ASSUME IInv, ~disturbed, NEW f \in File, Hook(f), errors' = 0
  PROVE  /\ errors = 0
         /\ \A g \in File : dir'[g] = IF g = f THEN hashes[f] ELSE dir[g]
<1>1. phase = "hooks" /\ f \in todo
  BY HooksVisit
<1>2. TypeOK /\ dir \in [File -> Content \cup {None}]
  BY DEF IInv, TypeOK, Store, File, Content
<1>3. /\ store[f] = before[f]
      /\ (claim_map[f] = Keep => hashes[f] = before[f])
      /\ (errors = 0 => dir[f] = before[f])
  BY <1>1 DEF IInv, Undisturbed
<1>4. /\ (hashes[f] = None <=> claim_map[f] = None)
      /\ (claim_map[f] \notin {None, Keep} => hashes[f] = claim_map[f])
  BY <1>1 DEF IInv, LeavesAreClaimed
<1>5. ASSUME Sh(f, hashes[f])
      PROVE  errors = 0 /\ \A g \in File : dir'[g] = IF g = f THEN hashes[f] ELSE dir[g]
  BY <1>2, <1>5 DEF Sh, TypeOK
<1>6. CASE exit(f)
  <2>1. hashes[f] = None
    BY <1>6 DEF exit, Exits, exit_keys, Held, Want, File
  <2>. QED BY <1>5, <1>6, <2>1 DEF exit
<1>7. CASE update(f)
  <2>1. hashes[f] # None
    BY <1>7 DEF update, Updates, update_keys, Held, Want, File
  <2>2. CASE store[f] = hashes[f]
    BY <1>3, <1>7, <2>2 DEF update, Want
  <2>3. CASE store[f] # hashes[f]
    <3>1. claim_map[f] \notin {Keep, None}
      BY <1>3, <1>4, <2>1, <2>3
    <3>. QED BY <1>4, <1>5, <1>7, <2>3, <3>1 DEF update, Want
  <2>. QED BY <2>2, <2>3
<1>8. CASE enter(f)
  <2>1. hashes[f] # None /\ store[f] = None
    BY <1>8 DEF enter, enter_keys, Held, Want, File
  <2>2. claim_map[f] \notin {Keep, None}
    BY <1>3, <1>4, <2>1
  <2>. QED BY <1>4, <1>5, <1>8, <2>2 DEF enter
<1>. QED BY <1>6, <1>7, <1>8 DEF Hook

\* After a clean pass there is nothing left for a hook to do.
LEMMA SettledHooksDoNothing ==
  ASSUME IInv, settled, NEW f \in File, Hook(f)
  PROVE  dir' = dir /\ delta' = delta
<1>1. phase = "hooks" /\ TypeOK /\ script \in Claims
  BY HooksVisit DEF IInv
<1>2. /\ ~disturbed /\ Stable(script, dir) /\ dir = before /\ store = before
  BY <1>1 DEF IInv, SettledIsStable, Undisturbed
<1>3. /\ claim_map = ClaimAt(script, Held(dir)) /\ Agree(script, Held(dir))
      /\ (claim_map[f] = Keep => hashes[f] = store[f])
  BY <1>1, <1>2 DEF IInv, Undisturbed, Resolved
<1>4. \A g \in File : /\ (hashes[g] = None <=> claim_map[g] = None)
                     /\ (claim_map[g] \notin {None, Keep} => hashes[g] = claim_map[g])
  BY <1>1 DEF IInv, LeavesAreClaimed
<1>5. \E g \in File : claim_map[g] # None
  BY <1>1, <1>4 DEF IInv, HooksHaveLeaves, Held, File
<1>6. claim_map[f] # Keep => store[f] = claim_map[f]
  BY <1>2, <1>3, <1>5 DEF Stable
<1>7. store[f] = hashes[f]
  BY <1>3, <1>4, <1>6
<1>8. ~exit(f) /\ ~enter(f)
  BY <1>7 DEF exit, enter, Exits, exit_keys, enter_keys, Held, Want, File
<1>. QED BY <1>7, <1>8 DEF Hook, update, Want

LEMMA HooksKeep == ASSUME IInv, NEW f \in File, Hook(f) PROVE Rest'
<1>0. /\ phase = "hooks" /\ f \in todo /\ todo' = todo \ {f}
      /\ UNCHANGED <<script, evaluated, phase, store, before, disturbed, settled>>
  BY HooksVisit
<1>1. BreakerHolds' /\ LeavesAreClaimed' /\ HooksHaveLeaves'
  BY <1>0, BreakerStays DEF IInv, evaluated, BreakerHolds, LeavesAreClaimed, HooksHaveLeaves
<1>2. PrunedAreUnclaimed'
  <2>1. CASE exit(f)
    <3>1. hashes[f] = None
      BY <2>1 DEF exit, Exits, exit_keys, Held, Want, File
    <3>2. claim_map[f] = None
      BY <1>0, <3>1 DEF IInv, LeavesAreClaimed
    <3>. QED BY <1>0, <2>1, <3>2 DEF IInv, exit, evaluated, PrunedAreUnclaimed
  <2>2. CASE update(f) \/ enter(f)
    BY <1>0, <2>2 DEF IInv, update, enter, evaluated, PrunedAreUnclaimed
  <2>. QED BY <2>1, <2>2 DEF Hook
<1>3. Undisturbed'
  <2>1. ASSUME ~disturbed, errors' = 0, NEW g \in File
        PROVE  dir'[g] = IF g \in todo' THEN before[g] ELSE hashes[g]
    <3>1. errors = 0 /\ dir'[g] = IF g = f THEN hashes[f] ELSE dir[g]
      BY <2>1, HookWritesLeaf
    <3>2. dir[g] = IF g \in todo THEN before[g] ELSE hashes[g]
      BY <1>0, <2>1, <3>1 DEF IInv, Undisturbed
    <3>. QED BY <1>0, <3>1, <3>2
  <2>. QED BY <1>0, <2>1 DEF IInv, Undisturbed, evaluated, Resolved
<1>4. SettledIsStable'
  BY <1>0, SettledHooksDoNothing DEF IInv, SettledIsStable
<1>. QED BY <1>1, <1>2, <1>3, <1>4 DEF Rest

LEMMA NextIInv == IInv /\ [Next]_vars => IInv'
<1>. SUFFICES ASSUME IInv, [Next]_vars PROVE Rest'
  BY TypesAreKept DEF IInv, Rest
<1>1. CASE UNCHANGED vars
  BY <1>1 DEF IInv, Rest, vars, evaluated, pass, history, BreakerHolds, TooMany, PruneCount,
              LeavesAreClaimed, PrunedAreUnclaimed, HooksHaveLeaves, Undisturbed, SettledIsStable
<1>. QED BY <1>1, OutsiderKeeps, BeginKeeps, SnapshotKeeps, ResolveKeeps, LeavesKeep,
            ObserveKeeps, NoLeavesKeep, KindDoneKeeps, FinishKeeps, HooksKeep DEF Next, Hook

-----------------------------------------------------------------------------
(* FsScope: the theorems.                                                    *)

THEOREM Invariance == Spec => []IInv
BY InitIInv, NextIInv, PTL DEF Spec

\* Every variable keeps its type.
THEOREM TypeCorrect == Spec => []TypeOK
BY Invariance, PTL DEF IInv

\* At most PRUNE_MAX_ABS files of a folder's snapshot, and at most half of them,
\* are removed by a pass, whatever somebody else does to the directory.
THEOREM BreakerBounds == Spec => []SnapshotPrunesAreBounded
<1>1. IInv => SnapshotPrunesAreBounded
  <2> DEFINE gone == pruned \cap scope_rels
             unclaimed == {f \in scope_rels : claim_map[f] = None}
  <2>. SUFFICES ASSUME IInv, phase \in {"hooks", "done"}
                PROVE  /\ Cardinality(gone) <= PruneMaxAbs
                       /\ 2 * Cardinality(gone) <= Cardinality(scope_rels)
    BY DEF SnapshotPrunesAreBounded
  <2>1. gone \subseteq unclaimed
    BY DEF IInv, PrunedAreUnclaimed
  <2>2. IsFiniteSet(scope_rels)
    BY FilesAreFinite, FS_Subset DEF IInv, TypeOK
  <2>3. IsFiniteSet(unclaimed) /\ Cardinality(unclaimed) \in Nat
    BY <2>2, FS_Subset, FS_CardinalityType
  <2>4. /\ Cardinality(gone) \in Nat /\ Cardinality(scope_rels) \in Nat
        /\ Cardinality(gone) <= Cardinality(unclaimed)
        /\ Cardinality(gone) <= Cardinality(scope_rels)
    BY <2>1, <2>2, <2>3, FS_Subset, FS_CardinalityType
  <2>5. /\ Cardinality(unclaimed) <= PruneMaxAbs
        /\ (scope_rels # {} => 2 * Cardinality(unclaimed) <= Cardinality(scope_rels))
    <3>1. ~TooMany(claim_map)
      BY DEF IInv, BreakerHolds, Resolved
    <3>. QED BY <2>3, <2>4, <3>1, BreakerIsNumber DEF TooMany, PruneCount
  <2>6. scope_rels = {} => Cardinality(gone) = 0
    BY <2>1, FS_EmptySet
  <2>. QED BY <2>3, <2>4, <2>5, <2>6, BreakerIsNumber
<1>. QED BY <1>1, Invariance, PTL

\* The pass after a clean one runs no hook.
THEOREM SettledRunsNoHook == Spec => []SettledPassDoesNothing
<1>1. IInv => SettledPassDoesNothing
  BY DEF IInv, SettledIsStable, SettledPassDoesNothing
<1>. QED BY <1>1, Invariance, PTL

\* A file claimed as it is, and there when the unit observed, is written by no
\* step but somebody else's; of one absent then nothing is said, as it is entered.
THEOREM KeepsAreKept == Spec => KeptFilesAreLeftAlone
<1>1. ASSUME IInv, [Next]_vars, NEW f \in File,
             phase = "hooks", changes' = changes, claim_map[f] = Keep, store[f] # None
      PROVE  dir'[f] = dir[f]
  <2>0. TypeOK /\ hashes[f] # None
    BY <1>1, KeepIsSpecial DEF IInv, LeavesAreClaimed
  <2>1. ASSUME NEW g \in File, NEW c \in Content \cup {None}, outsider(g, c) PROVE FALSE
    BY <1>1, <2>0, <2>1, BoundsAreNumbers DEF TypeOK, outsider
  <2>2. ASSUME NEW g \in File, exit(g) PROVE dir'[f] = dir[f]
    <3>1. g # f
      BY <2>0, <2>2 DEF exit, Exits, exit_keys, Held, Want, File
    <3>. QED BY <2>0, <2>2, <3>1 DEF exit, Sh, TypeOK, Store, File
  <2>3. ASSUME NEW g \in File, update(g) PROVE dir'[f] = dir[f]
    BY <1>1, <2>0, <2>3 DEF update, Sh, TypeOK, Store, File
  <2>4. ASSUME NEW g \in File, enter(g) PROVE dir'[f] = dir[f]
    <3>1. g # f
      BY <1>1, <2>4 DEF enter, enter_keys, Held, Want, File
    <3>. QED BY <2>0, <2>4, <3>1 DEF enter, Sh, TypeOK, Store, File
  <2>5. CASE begin \/ snapshot \/ resolve \/ leaves \/ observe \/ no_leaves \/ kind_done \/ finish
    BY <2>5 DEF begin, snapshot, resolve, leaves, observe, no_leaves, kind_done, finish
  <2>6. CASE UNCHANGED vars
    BY <2>6 DEF vars
  <2>. QED BY <1>1, <2>1, <2>2, <2>3, <2>4, <2>5, <2>6 DEF Next
<1>2. IInv /\ [Next]_vars =>
        [ \A f \in File :
            /\ phase = "hooks" /\ changes' = changes
            /\ claim_map[f] = Keep /\ store[f] # None
            => dir'[f] = dir[f] ]_vars
  BY <1>1
<1>. QED BY <1>2, Invariance, PTL DEF Spec, KeptFilesAreLeftAlone

\* A pass in which no hook failed and that nobody disturbed leaves the folder as
\* its claims want it.
THEOREM CleanConverges == Spec => CleanPassConverges
<1>1. ASSUME IInv, [Next]_vars, Clean, Held(hashes) # {}, NEW f \in File
      PROVE  dir[f] = IF claim_map[f] = Keep THEN before[f] ELSE claim_map[f]
  <2>1. phase = "done" /\ errors = 0 /\ ~disturbed
    <3>1. phase = "done" /\ phase' = "idle" /\ settled'
      BY <1>1 DEF Clean, Finishes
    <3>2. finish \/ \E g \in File, c \in Content \cup {None} : outsider(g, c)
      BY <1>1, <3>1, HooksVisit DEF Next, Hook, vars, pass, begin, snapshot, resolve, leaves,
         observe, no_leaves, kind_done
    <3>. QED BY <3>1, <3>2 DEF finish, outsider
  <2>2. dir = hashes
    BY <1>1, <2>1 DEF IInv, Undisturbed
  <2>3. claim_map[f] = Keep => hashes[f] = before[f]
    BY <1>1, <2>1 DEF IInv, Undisturbed
  <2>4. /\ (hashes[f] = None <=> claim_map[f] = None)
        /\ (claim_map[f] \notin {None, Keep} => hashes[f] = claim_map[f])
    BY <1>1, <2>1 DEF IInv, LeavesAreClaimed
  <2>. QED BY <2>2, <2>3, <2>4
<1>2. IInv /\ [Next]_vars =>
        [ Clean /\ Held(hashes) # {} =>
            \A f \in File : dir[f] = IF claim_map[f] = Keep THEN before[f] ELSE claim_map[f] ]_vars
  BY <1>1
<1>. QED BY <1>2, Invariance, PTL DEF Spec, CleanPassConverges

-----------------------------------------------------------------------------
(* EstoWatch.  No change of a watched file is forgotten by the loop: that is *)
(* inductive together with the types.                                        *)

WatchIInv == WatchTypeOK /\ UnseenIsOnItsWay

LEMMA WatchInitIInv == WatchInit => WatchIInv
BY CountsAreNumbers, WatchBoundsAreNumbers DEF WatchInit, MayLose, WatchIInv, WatchTypeOK, UnseenIsOnItsWay

LEMMA ExitCodeIsNumber ==
  ASSUME NEW s \in [delta : Nat, errors : Nat]
  PROVE  exit_code(s) \in Nat /\ exited_with(exit_code(s)) \in 0..255
<1>1. exit_code(s) \in Nat
  BY DEF exit_code
<1>2. \A n \in Nat : n % 256 \in 0..255
  OBVIOUS
<1>. QED  BY <1>1, <1>2 DEF exited_with

LEMMA WatchTypesAreKept == WatchTypeOK /\ [WatchNext]_watch_vars => WatchTypeOK'
<1>. SUFFICES ASSUME WatchTypeOK, [WatchNext]_watch_vars
              PROVE  WatchTypeOK'
  OBVIOUS
<1>. USE WatchBoundsAreNumbers DEF WatchTypeOK, MayLose
<1>1. CASE change
  BY <1>1 DEF change, loop
<1>2. CASE notify
  BY <1>2 DEF notify, loop
<1>3. CASE watch
  BY <1>3 DEF watch, watcher
<1>4. CASE run_read
  BY <1>4 DEF run_read
<1>5. CASE run_end
  <2>1. stats' \in [delta : Nat, errors : Nat]
    BY <1>5, CountsAreNumbers DEF run_end
  <2>2. status' \in 0..255
    BY <1>5, <2>1, ExitCodeIsNumber DEF run_end
  <2>. QED  BY <1>5, <2>1, <2>2 DEF run_end, watcher
<1>6. CASE recv
  BY <1>6 DEF recv
<1>7. CASE drain
  BY <1>7 DEF drain
<1>8. CASE UNCHANGED watch_vars
  BY <1>8 DEF watch_vars, watcher, loop
<1>. QED  BY <1>1, <1>2, <1>3, <1>4, <1>5, <1>6, <1>7, <1>8 DEF WatchNext, Loop

LEMMA WatchNextIInv == WatchIInv /\ [WatchNext]_watch_vars => WatchIInv'
<1>. SUFFICES ASSUME WatchTypeOK, UnseenIsOnItsWay, [WatchNext]_watch_vars
              PROVE  UnseenIsOnItsWay'
  BY WatchTypesAreKept DEF WatchIInv
<1>. USE WatchBoundsAreNumbers DEF WatchTypeOK, UnseenIsOnItsWay, MayLose
<1>1. CASE change
  BY <1>1 DEF change, loop
<1>2. CASE notify
  BY <1>2 DEF notify, loop
<1>3. CASE watch
  BY <1>3 DEF watch, watcher
<1>4. CASE run_read
  \* The script has read the latest version.
  BY <1>4 DEF run_read
<1>5. CASE run_end
  BY <1>5 DEF run_end, watcher
<1>6. CASE recv
  BY <1>6 DEF recv
<1>7. CASE drain
  BY <1>7 DEF drain
<1>8. CASE UNCHANGED watch_vars
  BY <1>8 DEF watch_vars, watcher, loop
<1>. QED  BY <1>1, <1>2, <1>3, <1>4, <1>5, <1>6, <1>7, <1>8 DEF WatchNext, Loop

\* Every variable keeps its type, and the exit status fits in eight bits.
THEOREM WatchTypeCorrect == WatchSpec => []WatchTypeOK
<1>1. WatchInit => WatchTypeOK
  BY WatchInitIInv DEF WatchIInv
<1>. QED  BY <1>1, WatchTypesAreKept, PTL DEF WatchSpec

\* No wakeup is lost: while a change is unread, an event is under way or a run
\* that will read it is.
THEOREM NoLostWakeup == WatchSpec => []UnseenIsOnItsWay
<1>1. WatchIInv => UnseenIsOnItsWay
  BY DEF WatchIInv
<1>. QED  BY <1>1, WatchInitIInv, WatchNextIInv, PTL DEF WatchSpec
=============================================================================
