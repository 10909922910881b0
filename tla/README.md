# A TLA+ verification of optative and esto

This directory holds TLA+ models of the Rust workspace beside it (`src/`), the
TLC configurations that model-check them on small instances, and theorems about
them that the TLA+ proof system TLAPS checks for every value of the constants.
`PROJECT.json` is the index: components, runs, the source lines each definition
stands for, mutants, findings, hazards and theorems.

## The system

*optative* is a library for desired-state reconciliation. Its owner says which
items should exist; the library compares that with what it tracks and runs
lifecycle hooks (`enter`, `reconcile_self`, `exit`) for the difference. The rest
of the workspace uses that one loop: a set kept in a file, a pool of child
processes with a supervisor, and *esto*, a command that evaluates a script and
reconciles the items it declares, once (`esto run`), whenever something changes
(`esto watch`), or for the files of a folder (`esto/fs`).

| part | source | state it keeps | operations |
|---|---|---|---|
| `OptativeSet` | `optative/src/lib.rs` | the tracked map `store` | `reconcile` (three loops), `get_mut`, `iter_mut`, seeding |
| `Reconcile` | `optative/src/reconcile.rs` | none: the contract | one call |
| `OptativeJsonSet` | `optative/src/json_set.rs` | an inner set, its jsonl file, `<file>.new.<pid>` siblings, `persist_error` | `open`, `reconcile`, persist |
| `ProcessSource` | `optative-process-pool/src/process.rs` | `ProcessState`: child, restart count, next respawn, props sent; a stdin thread with a channel; a process group | `enter`, `reconcile_self`, `exit` |
| output of processes | `process.rs`, `lib.rs` of the pool | a thread and a pipe per generation of a child, one channel to the owner | `spawn_process`, the stdout thread, `stream` |
| `ProcessSupervisor` | `supervisor.rs`, `resource.rs` | the pool, a cache of resolved specs with their temporary files | `reconcile`, `shutdown_all`, drop |
| `ProcessPool` | `optative-process-pool/src/lib.rs` | an `OptativeSet` of processes | `reconcile`, `stream`, drop (derived) |
| `optative-derive` | `optative-derive/src/lib.rs` | none | `Ephemeral`, `lifecycle_trace` |
| script engine, runs | `optative-script/src/engine.rs` | state files; per run `ReconcileCtx` and `RunStats` | `eval_and_reconcile`, `reconcile_kind`, the hooks of `JsLeaf` and `JsLeafJson` |
| script engine, prompt tasks | `engine.rs` | `.esto/context/<hash>`, task files named after keys | `emit_task`, `persist_context` |
| script engine, tree | `engine.rs`, `runtime.rs` | none | `h`, `Fragment`, `Context`, `reduce` |
| JSX transform, module loading | `jsx.rs`, `loader.rs` | none | `transform`, `resolve` |
| MDX lowering | `optative-script-mdx/src/lower.rs` | the scanner's mode and the modes around it; a stack of open sections | `esm_statement_is_complete`, `lower_to_tsx` |
| `esto watch` | `optative-esto/src/watch.rs`, `lib.rs` | an mpsc channel, the exit status | the notify callback, `recv`, drain, `run_file` |
| `esto/fs` | `optative-esto/src/builtins/fs.rs` | the directory | `<Folder name>`: snapshot, claims, breakers, the managed-file unit |
| command line, types, registry | `main.rs`, `types.rs`, `registry.rs` | none | thin bindings |

How they interact. The supervisor resolves specs and calls the pool; the pool is
a set, and the set calls the hooks of each `ProcessSource`. The engine evaluates
a script, groups the items it declares by kind, and reconciles one kind after
the other with an `OptativeSet` seeded by `observe()` or an `OptativeJsonSet`;
the hooks call the script's functions, which may answer with a prompt: then the
run leaves a task file for an agent, with the texts of the surrounding Contexts
in files of their own. `esto/fs` declares such a kind for the
files of a folder. `esto watch` runs the engine again and again. Shared between
concurrent actors are: the jsonl file (several processes, no lock), the channel
to a child's stdin thread, the channel on which the stdout threads of all
children end up, the channel of the file watcher, the directory (other
programs), the task files (an agent), and the child processes themselves, which
die when they like.

### What is hard in it, and what makes it correct

| part | hard behaviour | what must hold |
|---|---|---|
| set | hash order, repeated keys, hooks that fail after the entry was taken out | one hook per key, exactly those of the diff, exits before enters; a lost item is reported; calling again repairs |
| json set | crash between hooks and rename, two processes, a sibling removed by another opener | the file is always one complete map; it is wrong only about items touched by an unfinished call |
| child | crash loops, delays measured from several clocks, SIGTERM ignored, props raced by death | respawns are spaced; `exit` passes over nobody in the group, and who obeys SIGTERM does not stay; a wanted child comes back; the last props reach a child that reads |
| output | threads of a dead child and of the next one on one channel, full pipes, lines that are no text | lines of a generation arrive in order and once; nobody waits on a full pipe for ever |
| supervisor | the cache against the pool, two passes, errors thrown away, temporary files deleted early | the cache describes what runs; changed specs restart, unchanged ones do not; no failure is lost |
| engine | limits, dry runs, failing hooks, world changing during a run | counters add up; the limit is kept; the state file is right where nothing went wrong; a clean run converges |
| prompt tasks | runs cut off between two files, task files shared by several keys, an agent that comes when it likes | a task refers to texts that are there; what is recorded is asked for, in hand or done |
| watch | a change during a drain or a run, errors of the watcher | no lost wakeup; no endless runs, if the script does not read what it watches |
| documents | headings of any ranks close several sections at once; prose counts for units above it | each unit comes out once, in order, under the texts of its headings and no others; a statement is not cut where something is open |
| fs | the directory changes between snapshot and hooks | prunes stay within the breaker; kept files are not written; a second pass does nothing |

`PROJECT.json` lists the hazards one by one at their lines, with the properties
that would catch them.

## The modules

| module | models | extends / uses |
|---|---|---|
| `KeyedStore` | maps from keys to values, `dedup_by_key`, and the three key sets of the diff | |
| `Reconcile` | abstract: a call of `reconcile` as one step, from the map before it and the hooks that fail to the map after it | `KeyedStore` |
| `OptativeSet` | detailed: a call hook by hook | `KeyedStore`, refines `Reconcile` |
| `DurableMap` | abstract: a map that outlives its process, saved in one step or not at all | `KeyedStore` |
| `JsonSet` | the set kept in a file, several processes | `KeyedStore`, refines `DurableMap` |
| `ProcessChild` | one managed process, in time | |
| `ProcessOutput` | what the generations of a process print, from the pipe to the owner | |
| `Supervision` | abstract: processes as a map from identities to what a spec says, replaced during a call | `KeyedStore` |
| `Supervisor` | specs, cache and pool; a pass of the pool is one step | `KeyedStore`, refines `Supervision` |
| `ScriptRun` | runs of the engine over several kinds | `KeyedStore` |
| `PromptTask` | hooks that answer with a prompt: task and Context files, and the agent | `KeyedStore` |
| `EstoWatch` | the watch loop, its notify thread and the exit status | |
| `EsmScan` | the scanner that finds the end of an import or export | |
| `MdxLower` | the headings of a document nest it into sections | |
| `ScriptTree` | JSX values: `h`, flattening, `reduce`; recursive operators | |
| `MdxScript` | a document from its text to its leaves | `EsmScan`, `MdxLower`, `ScriptTree` |
| `FsScope` | a supervised folder | `KeyedStore` |
| `*Proofs` | theorems about the module of that name; `EstoProofs` about `FsScope` and `EstoWatch`, `MdxProofs` about `EsmScan` and `MdxLower`, `PoolProofs` about `ProcessOutput` and `Supervisor` | those modules, `TLAPS` |
| `MC*` | the instances for TLC | that module |

Definitions carry the names of the code where it has one; `PROJECT.json` maps
each to its lines. In each module an operator whose comment begins with *Mutant*
is a plausible bug: put in place of the definition it resembles, it breaks one of
the properties, which shows that the property can fail. The specification never
uses it.

**KeyedStore, Reconcile, OptativeSet.** `store`, `new_map`, `errors` are the
code's variables; `phase` is the loop that runs and `pending` the keys it has
collected and not visited. `exit_removed`, `update_existing` and `enter_new` are
one visit of their loops, with success and failure as alternatives;
`start_updates` and `start_enters` collect the keys of the next loop, and
`return_errors` ends the call. Any pending key may be next, because the code
iterates over a `HashMap`. Between calls the owner may start a new one or change
a state it holds. A failed update may leave any value in the state it was lent.
`live` is the world as the hooks leave it.

**JsonSet.** A step is as small as what another process or a crash can come
between: one listing of the directory, one removal, loading, one hook, the
beginning and the end of a write, one rename. `write_begin` leaves a torn
sibling; `write_end` completes it; `rename` moves it over the file. `stop` may
come at any moment and forgets everything in memory. An entry stands for its
JSON text. `touched`, `astray` and `orphans` are history: keys with a hook whose
result is not on disk, because the call is going on, or because it never ended,
or because the exit hook itself failed.

Its user sees less, and `DurableMap` says what: the map saved last, and of each
process the map it holds, what it was asked for, and whether it was told that a
save failed. Opening finds the last map saved; entries become what was asked for
one at a time; then the whole map is saved in one step, or the caller is told.
There are no siblings in it and nothing is torn. `JsonSet` implements it
(`ImplementsDurableMap`): cleaning up happens before the map is open and shows
nothing (`clearing` is `down`), the hooks of a call are its `applying`, the first
step of a write its `Settle`, and of the steps from there on (`saving`) the
rename alone is its `Save`.

**ProcessChild.** Time is discrete, one tick being 200 ms, and only differences
are kept: `age` since the spawn, `respawn_in` until `next_respawn_at`, `grace`
until the deadline of `exit`. `enter`, `reconcile_self` (`backing_off`,
`respawn`, `send_props`) and the four steps of `exit` are the hooks. Between any
two of them the clock ticks, the child dies, forks, stops reading its stdin or
goes on (`listen`), and the stdin thread writes an event or gives up (`write`,
`give_up`). A member of `SpawnTimes` is how long a spawn takes between the moment
the code reads the time, from which the delay counts, and the moment it stores
`spawned_at`. `killpg` only sends (`exit_term`, `exit_kill`): a grandchild that the
signal will end is `doomed` and ends in a step of its own (`grandchild_ends`), often
after `exit` has returned, which waits for the child alone. `restart_count` is not
told apart from `LastAttempt` on, where `respawn_backoff` has become constant.

**ProcessOutput.** Generations of one process, each with a pipe, a thread that
reads it and the processes that hold its other end: the child, and perhaps a
helper it started. `print` waits while the pipe is full; `forward` is the thread's loop: it
takes a line and sends it with nothing to tell its generation by, or ends, at the
end of the pipe, at a line that is no UTF-8, or when the receiver is gone. Ending
closes the pipe, and who prints on may die of it. Between `exit` and `exited` the
owner waits for the child and receives nothing.

**Supervisor.** `states` is the cache, `new_states`, `resolved` and
`needs_restart` the locals of a call. `resolve_next` takes the next spec,
removes its cache entry, and reuses or resolves it; `first_pass` leaves out the
changed ones and throws its errors away; `second_pass` drives the whole list,
keeps its errors and replaces the cache. A temporary file exists as long as a
cache entry holds its handle (`Files`). `PoolPass` is what a pass of the pool may
do, given which spawns fail and which crashed children are still backing off; it
drives towards a map, and `wanted` is the map the set collects from the list
(`dedup_by_key`).
Lists may name an identity more than once.

Its owner sees less, and `Supervision` says what: two maps, of what the last list
wants and of what runs, and the identities the errors name. While a call is going
on a process may be left as it is, stopped if it is not what is wanted, or started
as wanted where there is none; when the call returns the maps agree except where an
error says so. `Supervisor` implements it (`ImplementsSupervision`): the resolved
specs and the two passes are steps within the call, a crash changes nothing of what
a process was started with. Nothing is promised of the content of an identity once
a list has named it twice.

**ScriptRun.** `start` is the evaluation, which gives the kinds that have
leaves; `reconcile_kind` sets a kind up (observes the world or loads the file),
or fails and ends the run; `exit`, `update`, `enter` are the engine's hooks:
over the limit they count and say Ok; else they count, dispatch the user's
function and report; a dry run dispatches nothing. `persist` writes the file of
a filed kind. The user's function may fail before or after its work; turning an
item into its entry may fail as well. The world may drift and the script be
edited.

**PromptTask.** A run here is that of `ScriptRun` with other hooks:
`hook` is the beginning of one, `ref` and `write_ref` see to the files of the
Contexts one after the other, `create_task` and `write_task` write the task, and
`persist` saves what the set then holds. A file is empty once created (`Torn`)
until it is written; at each of these steps the run may fail or be killed. `Safe` gives the file name of a key, and
several keys may have one. The agent (`take`, `work`) is not part of the
repository.

**EstoWatch.** `change` is a change of a watched file, `notify` the callback,
which sends an event or, with an error, nothing. `watch`, `recv`, `drain`,
`run_read`, `run_end` are the main thread. Versions count changes, so that a run
can be said to have read one. The callback sends for whatever notify reports,
which on Linux includes that a file is opened: a script that reads what is watched
(`reads_watched`) may therefore add events in `run_read`.

**EsmScan, MdxLower, ScriptTree, MdxScript.** `EsmScan` reads a statement
character by character as the scanner does, where a character is one of those it
tells apart: `mode` is the innermost mode, `resume` those around it. `open`
is what JavaScript would say is open, kept beside it. A document is then
the sequence of top-level
nodes the markdown parser returns. Each turn of the loops of
`build_root_section` is an action named for the node, `pop` being one turn of
either `while`; `stack` holds sections with their children nested in them, as in
the code, and a text is the position of its node; `closed` is history, the sections that
have been closed. Paragraphs that look like a
forgotten export, and documents that import `Context` themselves and use it, are
refused as in the code. The program that results is not written out:
`compile_root` and `compile_section` give the value it evaluates to, built by
`h_fn`, and `collect_leaves` reduces it. `rejected` nodes are those the code
refuses (JSX amid prose or a heading, a statement without `export`). In
`MdxScript` the statement is scanned first, then the document is read, lowered
and collected.

**FsScope.** `snapshot`, `resolve` and `leaves` are the three looks
`scope_supervise` takes at the directory; `observe`, `exit`, `update`, `enter`
the managed-file unit; `outsider` another program. A hash is the content.

## What is checked

Every run is listed in `PROJECT.json`; all finish with two workers within five
minutes, most in less than two.

| run | instance | shows |
|---|---|---|
| `set` | 3 keys, 2 values, lists of up to 3 items, 2 failing hooks, 2 changes of mind | in every order of the hash map the hooks dispatched are those of the diff (`HooksFollowTheDiff`), nothing that leaves is still held when something new is entered (`NeverOldAndNew`), an item lost by a failed exit is in the errors (`NoSilentOrphan`), a call is a step of `Reconcile` (`ImplementsReconcile`), and calls repair failures (`Converges`) |
| `json` | 2 keys, 2 values; one process with 2 faults, 2 crashes and 2 edits, or two processes with 1 of each | alone, after a call without persist error, the file is the map in memory, and it is wrong only about items of calls that never reached the disk; with two, siblings, torn writes and leftovers come to a map that outlives its process (`ImplementsDurableMap`), and the file comes to be the desired map (`FileConverges`) |
| `child` | the code's durations (initial 1, reset 5, ceiling 25, a shortened grace of 1 tick), spawns that take no time or 25 ticks, grandchildren that obey or ignore SIGTERM, 2 props, 3 changes of mind, 1 failing call | five spawns never fall within a second (`SpawnsAreSpaced`), whatever the measured uptime does to the count; props are on their way or heard while the stdin thread lives (`SentPropsAreOnTheirWay`); when `exit` returns, who is left of the group is ending, ignores SIGTERM or was started after it (`ExitReachesTheGroup`), and no other stays (`NoOrphanStays`); a wanted child runs again, and `exit` always returns (`KeepsRunning`); a child that reads hears the last props (`PropsArrive`) |
| `supervisor` | 2 identities, 2 versions, lists of 2 with repeats, 2 failures, 2 changes of mind, any crashes | for identities that no list has named twice: the cache describes the pool, temporary files vanish only under a restart, the list comes to run, and each call is one of `Supervision`: changed specs restart, unchanged ones are not touched. For all: what is not running is named by an error |
| `script` | one observed and one filed kind, 2 keys, 2 values, limits 0, 1 and none, dry and real runs, 1 fault, 1 edit or drift | every item is counted once; at most `limit` hooks run and none is skipped before; the file is right about every item except those a failure or a limit touched; a clean run leaves what is declared; limited runs of an observed kind converge |
| `tasks` | one observed and one filed kind, 2 keys that share a task file, 2 nested Contexts, 1 fault or kill, 2 edits | a task refers to Contexts that are written (`ReferencesHold`); what a state file records is asked for, in hand or done (`RecordedWorkIsAskedFor`); items of an observed kind get done, however often their task was overwritten (`ObservedGetDone`) |
| `output` | 2 generations of up to 3 lines, pipes of 2, a helper that outlives its child | what is received of a generation is a beginning of what it printed, in order and without repeats (`LinesComeInOrder`); what was printed arrives, or its pipe is closed, and nobody waits on a full pipe for ever (`OutputArrives`) |
| `watch` | with and without interval, dry or not, the script reading what is watched or not, 3 changes, 2 lost | no lost wakeup (`UnseenIsOnItsWay`), every change is read while the process lives (`ChangesAreRead`); without an interval the loop comes to rest, unless the script reads what is watched (`RunsComeToRest`) |
| `folder` | one folder, 3 files, 2 contents, any two claims, breaker 1, 1 fault, 1 outside change | breakers hold for the snapshot, kept files are left alone, clean passes converge and the next does nothing |
| `mdx` | statements nested up to 5 deep, in brackets, quotes, templates and comments; all documents of up to 5 nodes: headings of 3 ranks, prose, imports, refused nodes, five kinds of JSX | a blank line ends a statement when nothing but a comment is open, and not when a bracket, quote or template is, unless an open `${` is inside it (`EndsWhatIsClosed`); the open sections are those of the headings that govern what was read, and every section holds, in order and once, what is directly under its heading (`SectionsHoldTheirOwn`); a document that runs has exactly its units, in order, each under the texts of its headings (`UnitsKeepTheirPlace`, which computes them from positions alone, without sections) |

Why the bounds are enough. The loops of the set treat keys independently, so
three keys cover one key in each loop, and two in one loop with a third in
another; two values tell changed from unchanged. Two processes, or a process and
a crash, are all that one file or one sibling can be contended by, and the
removal of siblings is one file at a time. Two generations overlap in each way
two can, and three lines do not fit a pipe of two. Two keys with one task file,
in each of two kinds, are the least that can overwrite each other within a kind
and across. A statement nested five deep has a bracket in a template in a
bracket, with something open within. The restarts of a child are
counted up to the one from which the delay stays the same, as time is not bounded
and a spawn may eat up its own delay. Two events that a run's reads add are enough
for one to be drained and one to fire the next run (`MaxUnsent`). Three changes of a watched file
cover one before, one during and one after a drain. Three files make a scope
where half is allowed and two thirds is not. Five nodes
make a heading that closes two sections, with a unit and prose after it. Limits 0 and 1 with two keys make
the limit bite at the first and the second hook. Counters of failures, crashes
and edits are budgets (`Max...`), decremented by the guards.

A cfg says `CHECK_DEADLOCK FALSE` only for `Supervisor` (a dropped supervisor
does nothing more), `EstoWatch` (a process that has exited), `MdxScript` (a
document is read once) and `ProcessOutput` (when all has been printed and
received).

### Fairness

* `OptativeSet`, `Supervisor`: the steps of a call go on (a sequential loop), and
  the owner keeps calling `reconcile` with what it last wanted, which is how the
  library is meant to be driven (a tick loop, the next run). Hooks return.
* `JsonSet`: each process goes on, is started again and reconciles again.
* `ProcessChild`: time passes, the owner keeps reconciling, a write to a child that
  goes on reading returns, and who has been sent a signal that ends it ends (the
  child itself after SIGKILL; a grandchild after SIGKILL, or after SIGTERM if it
  obeys). Nothing else is assumed: a child need never die, nor obey SIGTERM, nor
  read, and a write to one that does not read may block for ever.
* `ScriptRun`: a run goes on, and there is always another one.
* `EstoWatch`: the notify thread and the main thread are scheduled; a run ends.
* `PromptTask`: runs go on and come again; the agent ends what it has begun, and
  gets to each task file time and again.
* `ProcessOutput`: the threads are scheduled, `exit` returns (its grace period is
  bounded), and an owner that listens gets to receiving time and again.

These are weak fairness of steps with which nothing competes, with two
exceptions that are strong: the agent's taking of a task, since a run may be
rewriting the file whenever the agent looks, and the owner's receiving, since it
is off and on inside `exit`. Both are assumptions on the user of the code, of
which anything weaker would say that it stays away for ever.

### Disagreements between the code and what is said of it

Two runs expect a violation, each of one property that a text of the
repository states and the code does not keep:

* `script_limit` (`LimitedItemsAreDoneLater`): over `--limit`, `enter` and `exit`
  of a kind with a state file do nothing and say Ok, so the file records the item
  as done (or gone), and no later run does it. `engine.rs:348-351` says limited
  items are counted "so a limited run is never mistaken for a converged one".
* `watch_exit` (`EveryTriggerReruns`): a run that counts an error ends the
  process, also inside `esto watch`, whose loop ignores the result of a run.

Others were met while modelling. The models contain the behaviour, with the
exception noted; no run is spent on it:

* `supervisor.rs:84`: a list that names an identity twice takes the cache entry
  out at the first mention, so the second is judged as new: the old process goes
  on with a spec nobody asked for, and its temporary file is deleted. This is why
  the properties of `Supervisor` speak of identities named once (`Single`).
* `supervisor.rs:143-147` says a dropped supervisor abandons its processes. Its
  pool derives `Ephemeral`, whose `Drop` exits them (`drop`).
* `process.rs:242`: uptime is measured when the owner next looks, so time spent
  waiting counts as uptime, and a child that crashed at once may restart the
  sequence. `process.rs:23-26` says it has to have stayed up.
* `process.rs:19-29`: delays are said to double up to a ceiling of 5 s, and only a
  child that stayed up to start over. For the same reason a child that crashes at
  once, and is looked at when its delay is over, has an "uptime" of 1.6 s at its
  fifth crash and starts over: the later delays are reached only if spawns take
  long. (Nothing is checked of how far delays escalate.)
* `process.rs:265`: props are recorded as sent although the stdin thread may have
  given up; they are not sent again until they change or the child is respawned.
  (`SentPropsAreOnTheirWay` and `PropsArrive` speak of a thread that lives.)
* `watch.rs:26-28`: the callback sends for whatever notify reports, on Linux also for
  opening a file. A script that reads what it watches may so fire its next run,
  without end; `main.rs:38` speaks of triggers. (`RunsComeToRest` is about scripts
  that do not.)
* `process.rs:277-279` says the group is signalled before the child is reaped;
  `reconcile_self` may have reaped it before.
* `json_set.rs:66-67` says `open` discards leftovers of crashed writes; it
  discards the sibling of a live writer as well, whose rename then fails.
* `lib.rs:643-646`, a test's comment, says a failed hook leaves the entry in
  place or absent; a failed `exit` has removed it (`lib.rs:155`).
* `engine.rs:1183`: a kind whose last item has left the script is not reconciled
  at all, so that its items are never exited (`kinds_of`).
* `lib.rs:33` of esto: the exit status keeps eight bits, so a dry run with 256
  items to do reports success; `tests/cli.rs:53-57` wants the count.
* `lower.rs:141`: in a document without headings and prose, an `{expression}`
  becomes an item of an array with its braces, where it is an object or a syntax
  error; `lower.rs:1-2` says the result can be transformed unchanged. In
  `MdxScript` such a document fails (`in_array`).
* `lower.rs:347-349` says a statement ends where it is free of any unclosed
  string, template literal, or bracket. An open `${` does not keep it from ending, and
  the template around it is cut (`EndsWhatIsClosed` leaves that case out).
* `lower.rs`, `looks_like_forgotten_export`: a paragraph that begins with
  `async function` is taken for prose, where `function` is refused.
* `engine.rs:177`: a Context file that exists is taken for written. One that an
  earlier run left empty stays so, and later tasks refer to it
  (`ReferencesHold` leaves out such `spoiled` texts).
* `engine.rs`, `emit_task`: a task depends on its item's entry only, so an edit of
  a surrounding Context does not ask again; and a task whose item has become
  unwanted, or right by itself, is never retracted.
* `lib.rs:25` of the pool declares a kind of stream for stderr; nothing is ever sent
  with it, as those lines go to the log (`process.rs:109`). And the last line of a child that was cut off by its death passes for
  a whole line.
* `builtins.rs:46-58`: copying a unit with `{...base}` copies its identity of
  kind, so that the copies' items are reconciled as one kind; `tags.rs:7` has it
  unique. (Not in the model.)
* `fs.rs:78`: the glob of a folder reaches into folders inside it. A file the
  inner folder prunes and the outer one claims with `<File/>` is created again,
  empty; `fs.rs:254` says "Add <File/> to keep all". (Not in the model, which has
  one folder.)
* `fs.rs:326`: the breaker counts files of the snapshot; those that appear before
  `observe` are pruned uncounted.

## What is proved

TLAPS proves the following for every value of the constants (any sets of keys,
values and props, any bounds), from the named assumptions of the modules only.

`OptativeSetProofs` (assumes the bounds are numbers): types; the safety
properties of run `set`, and two more that need no run of their own
(`OneHookPerKey`, `TrackedIsLive`); that `dedup_by_key`, which is defined by
the last position of a key, is what the code's loop of insertions does
(`CollectsByInserting`; that there is a last position is shown by well-founded
induction); and the refinement of `Reconcile` (`desired`, `before` and the returned errors are
its `wanted`, `tracked` and `reported`; `return_errors` is its `Pass`). `IInv` is the
inductive invariant. `HooksFollowTheDiff` is not inductive: it speaks of the end
of a call only. `Progress` says, loop by loop, which of the three key sets have
been visited, `Settlement` what each key looks like before its visit, after a
successful one, and after a failed one. With `Progress` a key visited now is new
to the log, hence `OneHookPerKey`; at the end nothing is left over, hence the
diff; `Settlement` at the end is the postcondition of `Reconcile!Pass`, and every
other step maps to a stutter.

`ProcessChildProofs` (assumes `PropsDistinct`, `Durations`, `GrandchildKinds`, and
`ThreeDelaysOutlastReset`: seven initial delays, which are the first three together,
are at least the reset uptime, and four are within the ceiling, as 200 ms, 1 s and
5 s are; nothing is assumed of how long a spawn takes). `GroupIsSignalled` says whom
each stage of `exit` has signalled, and gives `ExitReachesTheGroup`.
`SpawnsAreSpaced` rests on `SpawnsAddUp`: a count that starts over is preceded by a
gap of a reset uptime, and from the end of one spawn to the next respawn but two
there are the delays in between, gone by or still to wait (`Apart`). The delay that
begins with a spawn is not counted, as a long spawn may eat it up; this is why it
takes five spawns, and not four.

`EstoProofs` (assumes finitely many files, that the markers are no contents, and
that counts and bounds are numbers). For `FsScope`, all that run `folder` checks,
whatever the breaker, the claims, the faults and the outside changes:
`SnapshotPrunesAreBounded`, `SettledPassDoesNothing`, `KeptFilesAreLeftAlone` and
`CleanPassConverges`. The invariant says what a pass knows of the directory. The
breaker has looked at the very claims the hooks act on (`BreakerHolds`), a leaf is
a claimed file (`LeavesAreClaimed`), and as long as nobody disturbs the pass, the
files it has visited have the content of their leaf, the others the one they had
(`Undisturbed`). A clean pass ends in a directory that is `Stable`: looked at
again, the claims say what is there already, unless files that are new make them
contradict each other, and then no hook runs (`ClaimsStay`, `CleanIsStable`).
For `EstoWatch`: types (the exit
status fits in eight bits) and `UnseenIsOnItsWay`, which is inductive with them. `KeptFilesAreLeftAlone` leaves out a file that was
absent when the world was observed: it is entered, empty (`fs.rs:77`).

`MdxProofs` (assumes that ranks are positive numbers). For `EsmScan`,
`EndsWhatIsClosed`, for statements of any length and any nesting. The scanner
keeps modes and `open` what they stand for, so the invariant relates the two:
from the mark of a mode, which is the quote or the `${` it was entered by, to that
of the next there are just its brackets, and a comment comes last (`Laid`,
`OpenIsKnown`). For `MdxLower`, types, the governing headings and
`SectionsHoldTheirOwn`, for documents of any length. `RankOfHeading` makes the
governing headings inductive: a section has the rank of its heading, so that the
ranks of the open sections grow, and a heading that leaves the top open leaves all
open. What a section holds needs `OpenAreNested`, that each open section is
directly under the one before, for it to be the right child when it is closed.
The argument is that the next node is directly under the section on top and under
no other (`NextIsUnderTop`), and after a heading that closes a section nothing is
under it (`NothingMore`). From what sections hold follows how they are read
(`SectionsReadInOrder`): each flow node a heading governs is in one child of its
section, itself or in the section of the next heading around it (`NextAround`, the
first after it that governs the node, found by well-founded induction), and children
come in the order of what is in them. The loop over the nodes ends, as each step
leaves less to do (`EachStepLeavesLess`).

`JsonSetProofs` (assumes finitely many processes): the file's content is one
complete map (`FileIsReplacedWhole`, by `WrittenIsWhole` and `OnlyRunningTouch`:
which stage of a write a sibling shows, and that only its running process writes
it); and for a process alone, `MemoryIsRight` and `FileIsRight` say key by key what
memory and file know of the world, except for the keys with a hook whose result is
not on disk. The refinement of `DurableMap`, for any number of processes, needs two
facts more. `BlankUntilOpen`: a process that is still cleaning up has nothing to
show, so that a crash there is a stutter.
`UnaskedIsAhead`: an entry that was not asked for and is still there has its exit
ahead, so that the map a write begins with holds nothing unasked, whatever failed.
That a rename is a `Save` of the map the process holds, and not of another's or of
half of one, is `WrittenIsWhole`.

`PoolProofs` (assumes the markers are no values, sizes are positive and bounds are
numbers). For `ProcessOutput`, types and `LinesComeInOrder`, whatever the sizes:
what is received, on the channel, in the pipe and not printed yet are one sequence
cut in four (`TakenIsPrinted`, `ChannelIsInOrder`), except that a reader which gave
up stopped at a line that is no UTF-8 or at a receiver that was gone
(`ClosedIsDone`). For `Supervisor`: for lists with repeats,
which the supervisor does judge wrongly, the argument speaks of identities
named once. `VisitedAreJudged` and `UnvisitedAreAsBefore` split the list by
what `resolve_next` has seen; `PoolIsCached` relates the pool to the cache the
next pass goes by; `VisitedAreCachedOrReported` keeps failures from being lost.
With them follow the safety properties of run `supervisor`, and that a process
whose spec did not change is not stopped (`UnchangedSurvive`). The refinement of
`Supervision` takes one fact more, that whom a call has cached or reported its list
names (`SeenAreAsked`); its core is `PassTouches`: what a pass starts is as asked,
for its spec was judged by the only item that names it, and what a pass stops was
asked otherwise, for an unchanged spec is in the new cache and in neither pass left
out. Last, the model takes a pass of the pool, which is an `OptativeSet`, for one
step. `PassesKeepTheContract` backs that: as to who is in the map, both passes do
only what `Reconcile` lets a call do (`Settles`), and `OptativeSet` implements
`Reconcile`.

`ScriptRunProofs` (assumes finitely many keys, as the counters are compared with
cardinalities): `ItemsAddUp` counts the visited keys loop by loop, `LimitIsKept`
relates the count of dispatched hooks to the limit, `StoreIsRight` and
`SavedIsRight` say what the set and the files know of the world,
`DoneKindsConverge` and `KindConverges` what a clean run has brought about so
far. Of dry runs, `DryRunCountsTheDifference`: `esto run --dry-run` exits with what
it counted as entered, updated and exited, and that, with what the limit skipped,
is the number of items that are not as declared, as long as nothing else changes
the world meanwhile. `DoneAreCounted` says so of the kinds the run has done, and
`KindIsCounted` of the items it has visited of the kind it is at.

`PromptTaskProofs` (for any number of Contexts around an item, and any sharing of
names): `ContextsAreWhole` and `ContextsAreSeenTo` say which Contexts of the item
in hand are on disk, and `TaskIsTorn`, `SentIsWritten`, `RestIsSaved` where the
record of each item stands while the run goes on.

Only model-checked: `UnitsKeepTheirPlace`, the reduction of a document to its
units. `ScriptTree` evaluates trees by recursion, which this prover cannot do for
trees of any depth. That the tree it is given has every node in its place, and that
visiting it in the order of its children meets every unit once, in the order of the
document and inside all its headings, is proved (`SectionsHoldTheirOwn`,
`SectionsReadInOrder`); what is left to the run is that `compile_section`, `h_fn`
and `reduce` are such a visit. And every liveness property, as this prover's temporal
reasoning covers neither fairness nor ENABLED: `Converges` (`OptativeSet` and
`Supervisor`), `FileConverges`, `KeepsRunning`, `NoOrphanStays`, `PropsArrive`, `ObservedConverge`,
`ObservedGetDone`, `OutputArrives`, `ChangesAreRead` and `RunsComeToRest`.

## What is not modelled

* The markdown parser, frontmatter (no caller in the workspace), the positions of
  errors.
* Folders inside each other (`esto/fs`).
* The JSX transform (a call of a compiler), module resolution, argument parsing,
  generated types, the registry: strings in, strings out, no state.
* The stderr thread of a child (the loop of the stdout thread with a log in place
  of the channel), `expand_tilde`, `lifecycle_trace` (spans around hooks).
* Evaluation of the script and its promises, and the helpers of `builtins.rs`
  (single calls of the system: run a command, read a file).
* The error path of `JSON.parse` in the engine's hooks (`engine.rs:642`, 666): what
  it parses was written by `JSON.stringify`, in this run or, through the state
  file, in an earlier one.
* The trigger `git-commit` where `.git/refs/heads` is not there: it is passed over
  without a word (`watch.rs:42-47`), and nothing is watched for it.
* The enumerating `File`, `Folder` and `GitRepo` tags, which keep nothing.

Abstractions worth knowing: JSON text is the entry it encodes, and a torn file
never parses; a hook is one step, except that of `exit` of a process; a spec
names one temporary file; the globs of one folder are evaluated at one moment;
`PRUNE_MAX_ABS` is small; what an observed kind reports is the world at that
moment.

## Plan

Written in this order, the most depended upon first: `KeyedStore`, `Reconcile`,
`OptativeSet` and its proofs; `JsonSet`; `ProcessChild` and its proofs;
`Supervisor`, whose pool is the contract of `Reconcile` applied to processes;
`ScriptRun`, which repeats the three loops around the engine's hooks;
`EstoWatch` and its proofs; `FsScope`; `MdxLower` and its proofs, `ScriptTree`,
`MdxScript`; then `PromptTask`, `ProcessOutput`, `EsmScan`, and the proofs of
`PromptTask`, `JsonSet`, `ScriptRun` and `Supervisor`; last those of `FsScope`,
`EsmScan`, `ProcessOutput`, and of what sections hold; `Supervision`, which
`Supervisor` implements, and `DurableMap`, which `JsonSet` implements; and the
proofs of how sections are read, of what dry runs count, and that passes of the
pool are calls of a set.

Left:

1. folders inside each other, once the code says which of them owns a file;
2. `UnitsKeepTheirPlace` for every document: from `SectionsReadInOrder`, with the
   value of a tree of sections given by a function of its depth, in a prover that
   does induction over data.
