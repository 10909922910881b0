------------------------------- MODULE FsScope -------------------------------
(***************************************************************************)
(* `<Folder name=...>` of esto/fs (optative-esto/src/builtins/fs.rs): a    *)
(* script claims files of a directory, with a content or as they are, and  *)
(* a run prunes the files of the directory nobody claims.  Two circuit     *)
(* breakers keep a script whose claims went wrong from pruning too much.   *)
(*                                                                         *)
(* A pass looks at the directory several times: when the script is         *)
(* evaluated (a snapshot, the globs, the hash of files claimed as they     *)
(* are), when the unit observes, and in its hooks.  Somebody else may      *)
(* change files in between.                                                *)
(*                                                                         *)
(* A hash is the content it is the hash of.  The set's three loops are     *)
(* those of module OptativeSet.                                            *)
(***************************************************************************)
EXTENDS KeyedStore, FiniteSets

CONSTANTS
  Blank,        \* the empty content
  Keep,         \* the content of a claim that gives none
  PruneMaxAbs,  \* PRUNE_MAX_ABS
  MaxClaims,    \* bound: claims of the folder
  MaxFaults,    \* bound: hooks and observations that fail
  MaxChanges    \* bound: changes by somebody else

\* The keys are the files, the values their contents.
File == Key
Content == Value

ASSUME ContentsAreContents == Blank \in Content /\ Keep \notin Content \cup {None}
ASSUME FilesAreFinite == IsFiniteSet(File)
ASSUME BreakerIsNumber == PruneMaxAbs \in Nat
ASSUME BoundsAreNumbers == {MaxClaims, MaxFaults, MaxChanges} \subseteq Nat

\* <File/>, <File glob=.../>, <File name=.../>: what it matches, and a content.
Claim ==
       [matcher : {"all"}, files : {{}}, content : Content \cup {Keep}]
  \cup [matcher : {"glob", "name"}, files : {{f} : f \in File}, content : Content \cup {Keep}]

\* What extract_claims finds in the folder's children, however nested.
Claims == {{}} \cup {{c[i] : i \in 1..MaxClaims} : c \in [1..MaxClaims -> Claim]}

VARIABLES
  dir,       \* the files on disk
  script,    \* the claims of the folder
  scope_rels,\* the snapshot
  claim_map, \* the content claimed of a file, None if unclaimed
  hashes,    \* the hash the leaf of a file wants, None if it has no leaf
  phase,     \* "idle", "new", "seen", "claimed", "ready", "hooks" or "done"
  store,     \* what the unit observed
  todo,      \* keys no loop of its set has visited
  errors,    \* hooks of this pass that failed
  delta,     \* hooks of this pass
  before,    \* history: the files when the pass began
  pruned,    \* history: files this pass has removed
  disturbed, \* history: has somebody else changed a file during the pass?
  settled,   \* history: has nothing happened since a clean pass?
  faults, changes

evaluated == <<scope_rels, claim_map, hashes>>
pass      == <<phase, store, todo, errors, delta>>
history   == <<before, pruned, disturbed, settled>>
bounds    == <<faults, changes>>
vars      == <<dir, script, evaluated, pass, history, bounds>>

Unclaimed == [f \in File |-> None]

Init ==
  /\ dir \in Store
  /\ script \in Claims
  /\ scope_rels = {} /\ claim_map = Unclaimed /\ hashes = Empty
  /\ phase = "idle" /\ store = Empty /\ todo = {} /\ errors = 0 /\ delta = 0
  /\ before = dir /\ pruned = {} /\ disturbed = FALSE /\ settled = FALSE
  /\ faults = MaxFaults /\ changes = MaxChanges

Fault == faults > 0 /\ faults' = faults - 1 /\ UNCHANGED changes

-----------------------------------------------------------------------------
(* Somebody else, and the beginning of a pass.                             *)

outsider(f, c) ==
  /\ changes > 0 /\ changes' = changes - 1
  /\ dir[f] # c /\ dir' = [dir EXCEPT ![f] = c]
  /\ disturbed' = TRUE /\ settled' = FALSE
  /\ UNCHANGED <<script, evaluated, pass, before, pruned, faults>>

begin ==
  /\ phase = "idle" /\ phase' = "new"
  /\ errors' = 0 /\ delta' = 0
  /\ before' = dir /\ pruned' = {} /\ disturbed' = FALSE
  /\ UNCHANGED <<dir, script, evaluated, store, todo, settled, bounds>>

\* An error thrown while the script is evaluated ends the run.
Goto(throws, next) ==
  /\ phase' = IF throws THEN "idle" ELSE next
  /\ UNCHANGED <<store, todo, errors, delta>>

-----------------------------------------------------------------------------
(* scope_supervise.                                                        *)

\* glob_filter: what is no directory.
Present == Held(dir)

\* The snapshot, and the render prop that makes the claims; no claims on a
\* scope that is not empty is an error.
snapshot ==
  /\ phase = "new"
  /\ scope_rels' = Present
  /\ Goto(Present # {} /\ script = {}, "seen")
  /\ UNCHANGED <<dir, script, claim_map, hashes, history, bounds>>

\* What a claim matches: `all` looks at the snapshot, a glob at the directory,
\* a name that is not in the snapshot matches if the claim gives a content.
Matched(c) ==
  CASE c.matcher = "all"  -> scope_rels
    [] c.matcher = "glob" -> c.files \cap Present
    [] c.matcher = "name" -> IF c.content # Keep THEN c.files ELSE c.files \cap scope_rels

Contents(f) == {c.content : c \in {d \in script : f \in Matched(d)}}
Conflict    == \E f \in File : Cardinality(Contents(f) \ {Keep}) > 1

claim_of ==
  [f \in File |->
     IF Contents(f) = {} THEN None
     ELSE IF Contents(f) = {Keep} THEN Keep
     ELSE CHOOSE c \in Contents(f) : c # Keep]

PruneCount(claims) == Cardinality({f \in scope_rels : claims[f] = None})

\* Mutant: the breaker compares with the files claimed, not the files there.
TooMany_of_claimed(claims) ==
  \/ PruneCount(claims) > PruneMaxAbs
  \/ scope_rels # {} /\ PruneCount(claims) > 2 * Cardinality(Held(claims))

\* PRUNE_MAX_ABS, and PRUNE_MAX_PCT: one half.
TooMany(claims) ==
  \/ PruneCount(claims) > PruneMaxAbs
  \/ scope_rels # {} /\ 2 * PruneCount(claims) > Cardinality(scope_rels)

\* Two claims with different contents for a file, or too many files to prune,
\* are errors.
resolve ==
  /\ phase = "seen"
  /\ claim_map' = claim_of
  /\ Goto(Conflict \/ TooMany(claim_of), "claimed")
  /\ UNCHANGED <<dir, script, scope_rels, hashes, history, bounds>>

\* Mutant: a file claimed as it is gets no leaf.
leaf_if_content(f) ==
  IF claim_map[f] \in {None, Keep} THEN None ELSE claim_map[f]

\* Mutant: a file claimed as it is wants the hash of nothing.
leaf_blank(f) ==
  IF claim_map[f] = Keep THEN Blank ELSE claim_map[f]

\* The hash of the claimed content, or of the file as it is on disk; a file that
\* is no longer there counts as empty.
leaf(f) ==
  CASE claim_map[f] = None -> None
    [] claim_map[f] = Keep -> IF dir[f] = None THEN Blank ELSE dir[f]
    [] OTHER -> claim_map[f]

leaves ==
  /\ phase = "claimed"
  /\ hashes' = [f \in File |-> leaf(f)]
  /\ Goto(FALSE, "ready")
  /\ UNCHANGED <<dir, script, scope_rels, claim_map, history, bounds>>

-----------------------------------------------------------------------------
(* The managed-file unit of a folder.                                      *)

\* observe: the files there now, and their hashes.  A file that cannot be read
\* ends the run.
observe ==
  /\ phase = "ready" /\ Held(hashes) # {}
  /\ \/ /\ phase' = "hooks" /\ store' = dir
        /\ todo' = Held(dir) \cup Held(hashes)
        /\ UNCHANGED <<errors, delta, bounds>>
     \/ Fault /\ Goto(TRUE, "hooks")
  /\ UNCHANGED <<dir, script, evaluated, history>>

\* The leaves are grouped by kind: a folder without leaves has no kind to
\* reconcile, and its files are left alone.
no_leaves ==
  /\ phase = "ready" /\ Held(hashes) = {}
  /\ Goto(FALSE, "done")
  /\ UNCHANGED <<dir, script, evaluated, history, bounds>>

Want    == hashes
Exits   == todo \cap exit_keys(store, Want)
Updates == todo \cap update_keys(store, Want)
NextUp  == IF Exits # {} THEN Exits ELSE IF Updates # {} THEN Updates ELSE todo

Visit(f) ==
  /\ phase = "hooks" /\ f \in NextUp
  /\ todo' = todo \ {f}
  /\ UNCHANGED <<script, evaluated, phase, store, before, disturbed, settled>>

\* A hook's shell command writes the file, or fails and does nothing.
Sh(f, c) ==
  /\ delta' = delta + 1
  /\ \/ dir' = [dir EXCEPT ![f] = c] /\ UNCHANGED <<errors, bounds>>
     \/ Fault /\ errors' = errors + 1 /\ UNCHANGED dir

\* rm -f.
exit(f) ==
  /\ Visit(f) /\ f \in Exits
  /\ Sh(f, None)
  /\ pruned' = pruned \cup {f}

\* Mutant: a file claimed as it is gets written.
update_keeps(f) ==
  /\ Visit(f) /\ f \in Updates
  /\ IF store[f] = Want[f]
     THEN UNCHANGED <<dir, errors, delta, bounds>>
     ELSE Sh(f, IF claim_map[f] = Keep THEN Blank ELSE claim_map[f])
  /\ UNCHANGED pruned

\* A file whose hash differs; one claimed as it is stays as it is.
update(f) ==
  /\ Visit(f) /\ f \in Updates
  /\ IF store[f] = Want[f]
     THEN UNCHANGED <<dir, errors, delta, bounds>>
     ELSE IF claim_map[f] = Keep
          THEN delta' = delta + 1 /\ UNCHANGED <<dir, errors, bounds>>
          ELSE Sh(f, claim_map[f])
  /\ UNCHANGED pruned

\* printf > file: what has no content is written empty.
enter(f) ==
  /\ Visit(f) /\ f \in enter_keys(store, Want)
  /\ Sh(f, IF claim_map[f] = Keep THEN Blank ELSE claim_map[f])
  /\ UNCHANGED pruned

kind_done ==
  /\ phase = "hooks" /\ todo = {}
  /\ phase' = "done" /\ store' = Empty
  /\ UNCHANGED <<dir, script, evaluated, todo, errors, delta, history, bounds>>

\* The pass is a clean one if no hook failed and nobody disturbed it.
finish ==
  /\ phase = "done" /\ phase' = "idle"
  /\ settled' = (errors = 0 /\ ~disturbed)
  /\ UNCHANGED <<dir, script, evaluated, store, todo, errors, delta, before, pruned,
                 disturbed, bounds>>

-----------------------------------------------------------------------------
Next ==
  \/ \E f \in File, c \in Content \cup {None} : outsider(f, c)
  \/ begin \/ snapshot \/ resolve \/ leaves \/ observe \/ no_leaves
  \/ kind_done \/ finish
  \/ \E f \in File : exit(f) \/ update(f) \/ enter(f)

Spec == Init /\ [][Next]_vars

-----------------------------------------------------------------------------
(* Properties.                                                             *)

\* The values the variables take.
TypeOK ==
  /\ dir \in Store /\ script \subseteq Claim
  /\ scope_rels \in SUBSET File /\ hashes \in Store
  /\ claim_map \in [File -> Content \cup {Keep, None}]
  /\ phase \in {"idle", "new", "seen", "claimed", "ready", "hooks", "done"}
  /\ store \in Store /\ todo \subseteq File
  /\ errors \in Nat /\ delta \in Nat /\ settled \in BOOLEAN /\ pruned \in SUBSET File
  /\ faults \in 0..MaxFaults /\ changes \in 0..MaxChanges

\* The breakers hold for the files they have looked at: whatever happens to the
\* directory during the pass, at most PRUNE_MAX_ABS files of the snapshot,
\* and at most half of them, are removed.
SnapshotPrunesAreBounded ==
  LET gone == pruned \cap scope_rels
  IN  phase \in {"hooks", "done"} =>
        /\ Cardinality(gone) <= PruneMaxAbs
        /\ 2 * Cardinality(gone) <= Cardinality(scope_rels)

\* A file that is claimed as it is keeps what somebody wrote to it, if it was
\* there when the unit observed.  (One that was absent then is entered, fs.rs:77:
\* written empty, also if somebody has put it back meanwhile.)
KeptFilesAreLeftAlone ==
  [][ \A f \in File :
        /\ phase = "hooks" /\ changes' = changes
        /\ claim_map[f] = Keep /\ store[f] # None
        => dir'[f] = dir[f] ]_vars

Finishes == phase = "done" /\ phase' = "idle"
Clean    == Finishes /\ settled'

\* A clean pass leaves a folder as its claims want it: the contents given, the
\* files claimed as they are untouched, and nothing else.
CleanPassConverges ==
  [][ Clean /\ Held(hashes) # {} =>
        \A f \in File : dir[f] = IF claim_map[f] = Keep THEN before[f] ELSE claim_map[f] ]_vars

\* The pass after a clean one runs no hook: a dry run would exit with 0.
SettledPassDoesNothing == settled /\ phase = "hooks" => delta = 0
=============================================================================
