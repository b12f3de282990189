# A TLA+ verification project for Agent Workspace Guard

Agent Workspace Guard lets an agent work on a disposable copy of a workspace and
has a broker carry the result over: it computes a plan, a policy decides it, a
human may have to approve it, and a commit renames the changed entries into the
real workspace while what was there before goes to a quarantine, from which it
can be restored. This directory models that broker, checks the models with TLC
and proves their central properties with TLAPS. All paths
below are relative to the repository; `broker.py` and the like are files of
`src/agent_workspace_guard/`.

## 1. Inventory of the system

| Component | State it keeps | Operations |
|---|---|---|
| broker protocol (`broker.py` 104-391, 548-563) | `transactions/*/transaction.json`, `baseline.json`, worktrees; `plans/`, `approvals/`, `commits/`; `locks/` | begin, environment, discard, plan, approve, commit, restore |
| commit engine (`broker.py` 393-546, 565-612, 870-935) | the live workspace, `quarantine/<commit>`, `apply/<commit>`, the commit record used as a journal | the loops of commit, rollback and restore under the workspace lock |
| manifests (`manifest.py`) | none | scan_tree, diff_manifests, operation_roots, verify_manifest |
| policy (`policy.py`) | none | evaluate, fingerprint |
| audit log (`audit.py`) | `audit.jsonl`, one RLock per AuditLog object | append, verify |
| signing key (`crypto.py`) | `secret.key` | load or create, sign, verify |
| utilities (`util.py`), records (`models.py`) | none | atomic_write_json, copy_entry, fsync_directory; (de)serialisation |
| shell gate (`shell_gate.py`), command line (`cli.py`), scripts | none | string classification, argument parsing, packaging |

How they interact. A *caller* (a thread, or a process: each command of the CLI is
one) calls the broker. The broker shares with other brokers the state root (the
records, the lock files, the key, the audit log) and with everybody the live
workspace; with the agent it shares the worktree. There are no messages or
callbacks: all interaction is through the file system. Each record is loaded
once, at the beginning of a call; commit and restore then take a lock file with
`O_EXCL`, scan the trees again, and work. `discard`, `begin` and `plan` take no
lock. Every event is appended to the audit log, at the end of the call.

What is hard about it: calls that interleave between the load of a record and
the lock; the agent and editors writing the trees meanwhile; a process that dies,
an interrupt (`KeyboardInterrupt` is not an `Exception`) or an I/O error between
any two disk writes; a journal that must stay ahead of the renames; rollback and
restore that can fail themselves; two expiries; collapsing a tree difference into
renames that work in order. PROJECT.json lists each hazard at its line.

What makes each component correct, in one line each: the *engine* never destroys
the only copy of an original entry, and its record never says what is not so; the
*protocol* touches the workspace only while it is the tree that was reviewed (or
committed), with the authority the policy asks for, once; the *diff and roots*
are enough to make the planned tree and no more; the *policy* lets nothing
through unseen but pure additions, no mass deletion and no link whose names leave; the
*audit log* keeps what it has acknowledged; all brokers use one *key*.

## 2. Modules

| Module | Models | Shape |
|---|---|---|
| `CommitEngine` | the critical section, for one commit id | one action per disk write, rename or scan |
| `AtomicCommit` | what a commit promises, with none of its steps | abstract specification |
| `CommitRefinement` | how `CommitEngine` implements `AtomicCommit` | refinement mapping |
| `PowerLoss` | `CommitEngine` on a machine that loses unsynced writes | adds a disk to its steps |
| `WorkspaceGuard` | all calls of the broker, by several callers | a call is cut where it reads or writes shared state |
| `TreeChanges` | manifest.py and policy.py as operators on trees | pure definitions |
| `TreeCommit` | one transaction on real trees with whole-subtree renames | state machine over `TreeChanges` |
| `TreeCopy` | scan, copy, scan again, one system call at a time | state machine |
| `StateRoot` | crypto.py and audit.py, shared by several brokers | state machine |
| `MC...` | instances for TLC | constants |
| `..._proofs` | TLAPS proofs about the module of that name; `CommitLedger_proofs` is about the audit events of `CommitEngine` and what editors wrote beside it | |

The three broker models look at the same code at three grains. `WorkspaceGuard`
has every call and several callers but takes the inside of the critical section
in two steps. `CommitEngine` has the inside with every intermediate state, for
one commit, over operations that are independent paths. `TreeCommit` has the
trees that make these paths independent (no root lies inside another), without
faults of the journal. All three take a scan, and `begin`'s copy, for one step;
`TreeCopy` is why they may: what the broker accepts after its walks was the tree
at one moment.

### CommitEngine

`live`, `worktree`, `apply`, `quarantine` and `displaced` are the trees; the path of
operation *i* is *i*, and path 0 stands for everything the plan leaves alone.
`record` is the `CommitRecord` in memory, `disk` the one in the file: they differ
between a rename and the save after it, which is the point of the model. `pc` and
`cur` are the program counter and the loop variable. The actions follow `broker.py`
line by line: `JournalMove` (483-491), `MoveBackup` (492-494), `JournalMoved`
(495-497), `JournalInstall`, `Install`, `JournalInstalled` (499-507), `Verify`,
`Finish` (509-517), then the bookkeeping (528-545), the rollback (870-915) and
restore (548-612). Each action has the ways it can raise: the broker's own
exceptions (`Raise`), and an I/O error (`IOError`), with the effect of the call done
or not where the code allows both (`atomic_write_json` replaces the file and then
fsyncs the directory; `fsync_directory` follows a rename). `Unwind` is Python's
exception flow: into the except clause of commit with or without a bound `record`,
or straight to the lock's finally clause. `Unlock` is the finally clause of the
lock, whose `unlink` may raise too, which leaves the file (`left`). `Interrupt` is a
`KeyboardInterrupt`, `Crash` the death of the process: the lock file stays. `Agent`
writes the worktree at any time before the rescan; `Editor` writes content at the
paths of `EditorPaths` at any time (`QuietEditor`: only while no operation runs).
`faulted`, `mine` and `left` are history variables.

`displaced` stands for `_failed_new` and `_restore_current`, which in the code are
directories among the backups. Paths here are numbers, and no operation has the
path of such a directory; what `BaselineRecoverable`, `JournalAhead` and
`SettledMeansBaseline` say is so for workspaces without an operation root inside
one of these names. `TreeCommit` has both directories inside the quarantine, and
`Reversible` is about a root of that name.

### AtomicCommit and CommitRefinement

`AtomicCommit` has one variable for the tree the record stands for and one for
what the record says: *pending*, *applied*, *reverted* or *repair*. `Apply` and
`Revert` change the whole tree at one instant; `Touch` takes the paths somebody
else wrote out of the promise. `CommitRefinement` maps the status on disk to that
state, and to the tree: under *committed*, the result, read from the workspace or
from what a restore has moved aside; under *pending* and *repair*, the baseline
that can be recovered from workspace and quarantine; under *reverted*, the
workspace as it is. That a half-done loop shows nothing of itself through this
mapping is what `ImplementsAtomicCommit` says.

### PowerLoss

The same steps, with a record of what a power loss could undo: `past` has the
places an operation's entries were at before renames no directory sync has
followed, `dirty` the payloads that `copy_entry` wrote (it never syncs),
`older` and `shaky` the records a save replaced whose own directory sync raised.
`Track` accompanies every step and forgets at `Fsync`; `PowerLoss` undoes any part
of it, root by root, and stops the broker. A rename inside the one file system
commit insists on is taken for atomic.

### WorkspaceGuard

`calls[c]` is the call that caller *c* has under way: where it is, and what it has
loaded. `PlanLoad`, `CommitLoad`, `RestoreLoad`, `DiscardLoad` are the loads before
the lock; `Acquire` is `_workspace_lock`; `CommitCheck` and `CommitRescan` are the
scans under it. `CommitMove` is the loop, stopped anywhere: any number of its
operations done and the next one perhaps moved aside. `CommitInstall` ends in the
planned tree, in the baseline (rollback), or, when the rollback fails, with some
operations stuck as they were or moved aside. `RestoreMove` stops at any path.
`Abort` is an exception no clause undoes, `Crash` keeps the lock file.
`DiscardSave` and `PlanTx` write back the object that was loaded, as the code does. Each caller has
its own policy; `Evaluate` is a parameter, since only its being deterministic
matters here (`TreeChanges` has the real one).

### TreeChanges and TreeCommit

A path is a sequence of names, names are numbers (for the sorting order), a tree
is a function on paths closed under parents. `WithSlash` orders the names with a
slash after them: `operation_roots` sorts whole path strings, in which `a.b/c`
comes before `a/c` (`Key`, `Precedes`). `Diff`, `ChangeKind`,
`OperationRoots`, `Evaluate` are `diff_manifests`, `operation_roots` and
`GuardPolicy.evaluate`; `Scan` and `Copy` differ exactly where `scan_tree` and
`copytree(ignore_patterns)` differ, and `Copyable` says when the copy does not raise
over a special file. `OperationRoots` is the loop of the code, over
the changes in sorted order (`InOrder`), one change at a time (`Select`);
`Topmost` says without a loop what it is for, and belongs to the properties. The
target of a link is likewise followed component by component (`Follow`, `Walk`), by
its names, as `_unsafe_symlink_reason` does. Where the system goes is another
matter, since it follows a link it meets before it goes up: `Hop` is one name of
that way, `Escapes` whether it leaves the workspace within `Hops` of them.
`TreeCommit` runs a transaction with them: `MoveBackup`, `Install`, `TakeBack`
rename subtrees with `Place` and `Cut`, including the directories that
`mkdir(parents=True)` makes; `Raise` may stop a commit before any of its steps.
`Fits` and `Replaces` are when `mkdir` and `os.rename` raise (`Blocked`): a rename
replaces an empty directory by a directory, and a file by a file.

### TreeCopy

A tree is made of cells: the names in a directory, the kind and mode of an entry,
the content of a file. One system call reads one cell. A walk (`scan_tree`,
`copytree`, `copy_entry`) is the set of cells it has still to read, in any order
that reads a name before its entry and an entry before its content; the
depth-first order of the code is one of them. `begin` and `commit` make three walks:
scan, copy, scan. `Accepts` is what they then compare. `Write` is the owner of the
tree (an editor, or the agent) at any time: an entry is created, written, given
another mode, removed, replaced, or renamed. `past` and `repeated` are history
variables: whether a cell came back to a value it had lost.

### StateRoot

`keyFile` is absent, empty or a key; a broker opens the state root through
`CreateKey`/`WriteKey`/`SyncKey` or `LoadKey`, then `OpenLog`. A row of the log has
the hash it was chained to, the key it was signed with, and its form: a whole
line, a row without its newline (which still parses), or a torn one. An append is
`AppendVerify` (the lock is taken, the file read) and then a write that succeeds,
stops short or fails. Locks are per broker: nothing keeps two brokers apart, so
the properties carry the condition that they did not append at once, as the
module's header in `audit.py` asks.

## 3. Runs and what they show

| Run | Module, bounds | Result |
|---|---|---|
| `engine` | CommitEngine, 2 operations, 2 contents (symmetric), editors at path 2, everything else on | holds, 970 000 states |
| `engine_live` | `LiveSpec`: no crash or interrupt, an editor that stays away from running operations | holds, 680 000 states |
| `power_loss` | PowerLoss, 2 operations, 2 contents (symmetric), no editor | holds, 940 000 states |
| `guard` | WorkspaceGuard, 2 callers, 1 transaction, 1 plan, 2 commits, 2 results, 1 edit, clock stopped | holds, 620 000 states |
| `guard_time` | 2 policies, 1 commit, clock to 2, plan lifetime 2, token lifetime 1 | holds, 1.4 million states |
| `tree_commit` | 259 workspaces of up to depth 3, each with 873 results, 7 names of every class, 6 hops | holds, 1.1 million states |
| `tree_copy` | two files, one of them in a directory, 2 contents, every initial tree, 2 writes | holds, 3 million states |
| `state_root` | 2 brokers, 2 + 1 threads, 2 keys, 4 rows | holds, 290 000 states |
| `restore_hybrid` | CommitEngine, `LiveSpec` | `StatusTracksTree` violated |
| `plan_consumed_twice` | WorkspaceGuard, 2 commits, no editor | `PlanConsumedOnce` violated |
| `committed_tx_lost` | WorkspaceGuard, 1 commit, no editor | `CommittedRetained` violated |
| `links_through_links` | TreeCommit as in `tree_commit` | `LinksNeverLeave` violated |

Properties of the engine: `BaselineRecoverable` (the original entry of a path is
always in the workspace or the quarantine, and one knows where from the plan
alone), `JournalAhead`, `SettledMeansBaseline`, `CommittedMeansStaged`,
`AuditTruthful`, `ImplementsAtomicCommit`, `KeepsUserEntry` (what an editor wrote
while no operation ran is never lost; what it writes during one can be, a race
the documents disclaim), and the liveness properties. `LockReleased` exempts one
thing: the unlink of the lock file itself may raise. All but
`KeepsUserEntry` are about paths no editor has written, where one could have.
With a power loss, `BaselineRecoverable` and `JournalAhead` as they stand and
`CommittedInPlace` (a record that says committed stands for the planned names).
`SettledMeansBaseline` does not survive one, and is not claimed: the rollback
saves rolled_back with a sync, after renames without one.
Properties of the protocol: `Exclusive`, `NoLostUpdate`, `ExactOutcome`,
`Authorized`. Properties of the trees: `RenamesLand` (no rename misses its source
or its parent), `RootsSuffice`, `RootsAreTopmost`, `Reversible`, `AutomaticKeepsAll`, `NoMassLoss`,
`LinksStayInside` (if no link leads out of the workspace and targets go up at their
start only, no link leads out after a commit, through whatever other links),
`RefusesUncopied` (as far as names and kinds go, `begin` refuses a workspace that
holds still exactly when the copy cannot have what the scan sees: an excluded
name below the top, or a special file); and of the walks over them
`AcceptedIsSnapshot` and `QuietIsAccepted`. The former excludes values that come
back: with them it does not hold (a file changed and changed back between its
reads), which is a limit of scanning twice. Properties of the state root: `OneKey`,
`SoundChain`, `AckedStays` (which say nothing once two brokers have appended at
once; the fork that makes is what the header of `audit.py` asks a deployment to
prevent). The comment above each states it in words.

The four violations are disagreements between the code and what its documents or
messages say; PROJECT.json quotes the lines. In short:

* A restore that an I/O error stops midway leaves a hybrid tree under records that
  say committed; nothing was journaled, and restore refuses to run again.
* A commit that loaded its plan before another commit of it, and a restore of that,
  went through commits the consumed plan a second time.
* A discard that loaded its transaction before a commit went through removes a
  committed transaction; a plan that did puts it back to planned.
* The policy reads the names of a link's target only: `d/a -> ..` and `d/b -> a/..`
  are both let through (with approval), and `d/b` leads out of the workspace.

Three more places where the code does less than one may expect have no run of
their own; the properties that hold say so, or keep away from them:

* An I/O error in the bookkeeping after the record says committed (528-531) leaves
  the plan pending; restore then refuses the commit, although its quarantine is
  complete. `FaithfulCommitCompletes` exempts I/O errors.
* A rollback sets the new entry aside under `_failed_new` among the backups. Where a
  directory of that name was to become a file, the file lands inside the backup
  of the directory and returns with it, under a record that says rolled_back.
  `Reversible` exempts the tree after a `Collision`, which the instance reaches.
* A plan call that loaded its transaction before a commit finished saves it as
  planned again. `CommittedRetained` is about what a discard does; after such a
  plan, a discard need not even race.

### Why the bounds are enough

Two operations give every position in the loops (first, last, before and after
`cur`), and all four kinds of an operation appear in `Init` (entry before or not,
entry after or not, the pair both absent excepted); a third adds no new relation
between two operations. The proofs below cover any number. Two contents tell
"the same" from "another"; data is only compared. In `WorkspaceGuard` two callers
are enough for every pair of calls to race, and one transaction and plan for each
race over a record; two commits of that plan are what `NoLostUpdate` and
`PlanConsumedOnce` need. A clock of 0..2 has the instants before, at and after
each expiry. `TreeCommit` enumerates trees rather than bounding a run: files,
directories with two modes, links and special files that turn into each other at
depth 1 to 3, excluded, protected, sensitive, script-like and colliding names, with
thresholds of the policy small enough to be met on both sides, links that only
together lead out, and two directories a slash reorders. Six hops end every way
through the links of the instance or find it outside. In `StateRoot` two
keys and four rows let a row follow a torn, a bare and a forked one. In `TreeCopy` two
writes let a file move from where a walk has been to where it has not, and
the directory holds a file so that a name, an entry and a content can each be
the one that changes; more writes add nothing the proof does not cover. In
`PowerLoss` no editor writes, since its writes are not the broker's to sync.

Deadlock is not checked: callers may stop calling, and every bound ends a run.

### Fairness

Two specifications have fairness. `LiveSpec` of `CommitEngine` has weak fairness of
`Running`, the steps of a call under way; `Spec` of `TreeCopy` that of `Broker`, the
steps of its one call. A call is straight-line code of one thread that the
scheduler runs; nothing in it waits (the lock is tried once, before it). No
fairness is assumed of the agent, of editors, of the caller, or of I/O succeeding:
the properties allow a fault instead of progress (`LockReleased` only that of the
unlink), and `QuietIsAccepted` a write. In `LiveSpec` the process neither dies nor is
interrupted, since then the lock file, or the prepared record, does stay for
ever (no code recovers them), and the editor keeps away from running operations.

## 4. What is proved

Everything below holds for every value of the constants, under the assumptions
named in the modules (`NOps` is a positive number, sets that must differ differ,
bounds are numbers, the trees of `TreeCommit` finite). Every invariant and every
action property the passing runs check is a theorem. None of these invariants is
inductive; each module of proofs has one that is (`IInv`, in `PowerLoss_proofs`
`PowerInv`), which TLC checked on the instance of the run before it was proved,
with the three facts `Init => IInv`, `IInv /\ [Next]_vars => IInv'` and
`IInv => Inv`. An action property follows from a step that starts in `IInv`.

### The critical section (`CommitEngine_proofs`)

For any number of operations, any contents and any paths editors write, with
crashes, interrupts, I/O errors, agent and editors: `TypeCorrect`,
`BaselineIsRecoverable`, `JournalIsAhead`, `SettledIsBaseline`, `CommittedIsStaged`.
(A plan without changes has no operations; its commit renames nothing.)

`BaselineRecoverable` says where an entry can be found; that a step keeps it
depends on what the flags of the record say about the tree at each program
counter. The inductive invariant therefore is

* `TypeOK`, and `PlanInv`: the plan changes exactly the operation roots;
* `RecordInv`, about the record only: which flags are set in which part of the
  loops (`FlagsInv`), which statuses each part can meet (`StatusInv`), that memory
  is never behind the file (`PhaseInv`), and that an operation whose rename is next
  or done is journaled as begun (`AheadInv`);
* `OpInv(i)` for each operation *i* at a path no editor wrote: at each program
  counter its entry is *fresh* (baseline in place, nothing in quarantine), *kept*
  (baseline in quarantine, result or nothing in place), or in between, depending
  on whether *i* lies before, at or after `cur`;
* `JournalAhead` and `SettledMeansBaseline` themselves.

Operations do not interfere, so `OpNext` proves one step for one operation. All of
it but the last item is `CoreInv`, which `PowerLoss` keeps too.

### The commit is atomic (`CommitRefinement_proofs`)

`CommitIsAtomic`: `Spec => ImplementsAtomicCommit`. `IInv` says where the originals are;
`RInv` adds where the results are while the record on disk says committed: in place
or moved aside, depending on the label and on `cur` (`ResultInv`), nothing moved aside
before a restore (`NoneDisplaced`), and full flags in memory when the save of the
committed record raised after it had replaced the file (`FlagsAfter`). A step that
keeps the status keeps the abstract tree at every path; the statuses turn only as
`Turns` says, the save of the committed record maps to `Apply`, those of rolled_back and
restored to `Revert`, that of rollback_failed to `Repair`; editors map to `Touch`.

### The audit log of a commit (`CommitLedger_proofs`)

`AuditIsTruthful`: `Spec => []AuditTruthful`. `SavedInOrder` orders the three files
record, plan and transaction; `SavedBefore` says which of them is on disk when the
broker is about to save or log the next thing.

### Beside editors (`CommitLedger_proofs`)

`UserEntriesAreKept`: `LiveSpec => []KeepsUserEntry`, for editors that keep away from
running operations (the proof uses no fairness). Commit goes ahead only after its
scan found the baseline, so what an editor wrote at an operation's path is that
baseline while entries move, and `OpInv` says where it is (`FoundInv`; no quarantine
is in use before, `NoneMoved`). Restore goes ahead only over the planned tree, so it
moves the result aside and puts nothing over anything (`RestoreInv`).

### A machine that loses power (`PowerLoss_proofs`)

`BaselineOutlivesPower`, `JournalOutlivesPower`, `CommittedOutlivesPower`:
`PowerSpec => []BaselineRecoverable`, and the same of `JournalAhead` and
`CommittedInPlace`. A loss of power picks a placement of each operation's entries
and a record, independently; so `SoundInv` asks at every instant that each pair of
a placement and a record it may pick is sound: the original in one of its places,
the journal naming what is not the original's, no result of a committed record
gone. Why that is kept: the loop syncs every rename but its last (`LoopSynced`),
so a record saved after it meets few placements; a record that may come back
names every operation the broker may still move back (`OlderInv`); a save that
raised leads to the rollback or ends the call (`OlderWhen`); and while there may
be no record at all nothing has moved (`NothingMoved`). After the loss nothing is
unsynced, and the broker does not go on (`SettledInv`).

### The trees (`TreeCommit_proofs`)

For any finite workspaces and results, any names, exclusions and limits:
`TypeCorrect`, `RenamesAlwaysLand`, `RootsAlwaysSuffice`, `RootsAlwaysTopmost`,
`ReturnsWhole`, `AllowedKeepsAll`, `DeniesMassLoss`, `CommitsKeepLinksInside`,
`RefusalsAreUncopied`, from one inductive invariant (`Inductive`). Trees are compared
entry by entry: `Here(t, p)` is the entry of `t` at `p`, if any, as a set, and one lemma
says what each operator does to it (`HereOf`, `PlaceHere`).

* *The roots.* `LoopIsTopmost`: the loop selects the topmost changes, in order, since
  the topmost change above another is shorter and so comes first. `TopmostCovers`:
  they lie outside each other, and two trees differ only inside them. `Shape` is
  what the renames need of that: the regions of the roots are disjoint, each lies
  below directories of the original that no root covers, and outside of them the
  baseline is the planned manifest.
* *The workspace* (`LiveInv`). Where no root covers a path (`Free`) the workspace is
  the original, excluded names included. In the region of root *i* it is, by the
  flags of *i*, the original, nothing or the planned tree; once *i* is taken back,
  the original (`RootInv`). `FlagsInv` ties the flags to the loop variable.
* *The stores.* `ApplyInv`: a payload is whole until it is installed. `QuarantineInv`:
  a backup is whole until it returns, and everything else in the quarantine is a
  directory on the way to one or belongs to what is set aside; with it
  `NeverBlocked` shows that no rename of a rollback or restore raises.
* *Failures* (`FailureInv`). Only a root with the name of the directory that entries
  are set aside in makes such a step fail; under a `Collision` nothing is claimed of
  the workspace but that it is a tree.

`AllowedKeepsAll` follows since a plan without approval only adds, so no root
covers an entry; `DeniesMassLoss` since what a commit takes away is deleted in the
plan that was judged. `RefusalsAreUncopied`: the copy differs from the tree exactly
in the entries `Uncopied` names (`CopyDiffers`).

*Links* (`CommitsKeepLinksInside`, for any number of hops). A link is in the plan, and
then the policy's walk along its names did not leave: `SafeLink` turns that into a
count of the steps up, and `SafeIsTame` into their being fewer than the names of
the path, as they come first. Or the link was there before, and did not lead out:
`StayingIsTame` follows it up to the same bound. Where all links are tame, a way
never has more steps up before it than directories above it (`Calm`): going up
uses both, a name leaves no step up behind, and a link that is met brings its own
(`HopStaysCalm`, `NoEscape`). The bound is lost only for links deeper than the
system follows names.

The other arguments about loops are inductions too, over the loop of
`operation_roots`, over a target, over the hops of a way and over the depth of a
path: each takes the least number at which its
claim fails (`NatMin`), which needs no operator as a parameter. `IInv` quantifies
over all paths; TLC checked it for the paths of the instance.

### The protocol (`WorkspaceGuard_proofs`)

For any callers, transactions, plans, commits, paths, policies and clock:
`TypeCorrect`, `LockExcludes`, `NoUpdateIsLost`, `CommitsAreAuthorized`, `OutcomeIsExact`.
What a call has loaded is never read again, so the invariant says what of it stays
true: what it names is there (`Named`), the tree is still what it has seen under the
lock (`Sees`; this is where `Exclusive` is needed, and that editors keep away while
the lock file exists), and the authority it was let in with stands (`Licensed`, with
`RecordsInv` for the records of earlier commits).

### The state root (`StateRoot_proofs`)

For any brokers, threads, keys and rows: `TypeCorrect`, `KeyIsOne`, `ChainIsSound`,
`AckedRowsStay`. The invariant adds who makes the key while its file is empty
(`MakingInv`), that one thread of all brokers appends unless brokers have been
appending at once (`HolderInv`), that what was cut short is known to be (`CutInv`),
and that what a thread has verified is still so when it writes (`VerifiedInv`).

### Scan, copy, scan (`TreeCopy_proofs`)

`DoubleCollect`: `Spec => []AcceptedIsSnapshot`, for any tree, any order of the
reads and any number of writes. The argument: what the first walk read and what
the third read is the same value; it was read before and after the moment the
first walk ended; a cell that had another value in between has lost and regained
it, which `repeated` records. The copy reads between the two scans, and so agrees
with them, compared or not; that it reads no cell the scans have not read is
`ClosedInv` and `CopyInv`. `TypeCorrect`: the owner's writes leave a tree, and the
walks hold values of its cells.

### Only model-checked

The liveness properties: `LockReleased`, `FaithfulCommitCompletes`,
`PreparedSettles`, `RestoreCompletes` and `QuietIsAccepted`. The prover has no
reasoning about fairness here. And the four violations, which are TLC's.

What recursive functions compute is proved where a theorem needs it (the loop of
`operation_roots`, the walk along a target, the way through links). The sum of `AddedBytes` is left
opaque: the theorems hold whatever it is, since what the policy lets through
unseen must be additions in any case.

## 5. What is not modelled, and why

* The shell gate, the command line and the scripts: stateless string work around
  single calls.
* Identity, signature and format checks of the records: the state root is written
  by brokers only, so in every state modelled these checks succeed; that HMAC and
  SHA-256 behave ideally is assumed. Limits of the scan (entries, bytes, mounts)
  and filesystem identity fail closed before anything is written.
* Of the disk: the data of payload files after a power loss (`copy_entry` never
  syncs it, so nothing can be promised of it), the log and the key file, renames
  that are on disk on one side only.
* The wall clock stepping back: the models' clock only advances, and no document
  promises an expiry under one that does not.
* `allow_mass_delete`: the policy's default, off, is modelled.
* What an editor writes at a destination between the check and the rename of a
  running operation: it can be overwritten, and no property says otherwise.
* Limits of link following beside the number of hops, and links into what the scan
  leaves out (the policy denies new ones).
* Release packaging and the repository's own manifest (`scripts/`): run by hand, by
  one developer, and no part of the broker.
* Editors delete nothing in the models, and `CommitEngine` follows one commit id
  (ids are random and directories are per id).
* Several workspaces, several state roots.

## 6. Plan

Done, in this order:

1. `CommitEngine`: the critical section, with its first theorems.
2. `WorkspaceGuard`: concurrent calls over shared records.
3. `TreeChanges`, `TreeCommit`: the algorithms and why operations are independent.
4. `StateRoot`: key and audit log.
5. The disagreements as runs.
6. `AtomicCommit`, and `CommitEngine` shown and proved to implement it.
7. `PowerLoss`: durability of the renames and saves.
8. `TreeCopy`: why one-step scans are sound, checked and proved.
9. Theorems about `WorkspaceGuard`, `StateRoot`, the audit events of a commit and
   the entries of editors beside it.

10. Theorems about `PowerLoss`, type correctness of `TreeCopy`.
11. Theorems about `TreeChanges` and `TreeCommit`: every invariant of the run.

Left:

12. An abstract specification of one transaction on trees (the workspace turns from
    the original into the planned tree and back) that `TreeCommit` implements.
13. The parts of liveness that are safety: no step of a running call but a fault
    leads away from its end.
