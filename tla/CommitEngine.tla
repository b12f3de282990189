---------------------------- MODULE CommitEngine ----------------------------
(* The critical section of the broker: what WorkspaceGuard.commit,           *)
(* WorkspaceGuard._rollback_failed_commit and WorkspaceGuard.restore do to   *)
(* the live workspace, the quarantine, the apply directory and the journal   *)
(* (the commit record on disk) while they hold the workspace lock.           *)
(*                                                                           *)
(* A behaviour follows one commit id: one commit that gets past the record   *)
(* it creates, any number of earlier refused attempts, and any number of     *)
(* restores of it.  Every write to disk, every rename and every scan is a    *)
(* step of its own, so that the broker may die, be interrupted or meet an    *)
(* I/O error between any two of them.                                        *)
(*                                                                           *)
(* Trees map a path to its entry.  Paths 1..NOps are the operation roots of  *)
(* the plan, in the order of record.operations; path 0 stands for the rest   *)
(* of the workspace.  Digests are collision free, so comparing two digests   *)
(* is comparing two trees.                                                   *)
EXTENDS Naturals, FiniteSets

CONSTANTS
    NOps,       \* number of operation roots of the plan
    Content,    \* the contents an entry can have
    NoEntry,    \* nothing at that path
    EditorPaths \* the paths of the workspace that editors write

ASSUME NOpsAssumption == NOps \in Nat \ {0}
ASSUME NoEntryAssumption == NoEntry \notin Content

Op == 1 .. NOps
Path == 0 .. NOps
ASSUME EditorPathsAssumption == EditorPaths \subseteq Path

Entry == Content \cup {NoEntry}
Tree == [Path -> Entry]
Store == [Op -> Entry]
EmptyStore == [i \in Op |-> NoEntry]

VARIABLES
    base,        \* the baseline tree, bound by digest in transaction and plan
    staged,      \* the tree the plan was made (and approved) for
    live,        \* the real workspace
    worktree,    \* the disposable worktree of the transaction
    apply,       \* apply/<commit_id>
    quarantine,  \* quarantine/<commit_id>
    displaced,   \* its _failed_new and _restore_current directories, which no
                 \* operation's path meets here (TreeCommit has the collision)
    record,      \* the CommitRecord object in the broker's memory
    disk,        \* commits/<commit_id>.json
    planState,   \* state in plans/<plan_id>.json
    txState,     \* state in transactions/<tx_id>/transaction.json
    audit,       \* the events of this commit in audit.jsonl
    lock,        \* the workspace lock file exists
    pc,          \* where the holder of the lock is
    cur,         \* the operation the current loop is at
    failed,      \* rollback_errors is not empty
    faulted,     \* history: some I/O call has raised
    mine,        \* history: what an editor last wrote at each path
    left         \* history: the unlink of the lock file has raised

planned == <<base, staged>>
stores == <<apply, quarantine, displaced>>
trees == <<live, worktree, stores>>
ledger == <<planState, txState, audit>>
control == <<pc, cur, failed>>
history == <<faulted, mine, left>>
vars == <<planned, trees, record, disk, ledger, lock, control, history>>

Phase == {"pending", "moving_backup", "backup_moved", "installing",
          "installed", "complete", "rolled_back", "restored"}
Status == {"prepared", "committed", "rolled_back", "rollback_failed",
           "restored"}
Record == [status : Status \cup {"none"}, phase : [Op -> Phase],
           moved : [Op -> BOOLEAN], installed : [Op -> BOOLEAN]]
NoRecord == [status |-> "none", phase |-> [i \in Op |-> "pending"],
             moved |-> [i \in Op |-> FALSE],
             installed |-> [i \in Op |-> FALSE]]

WithStatus(r, s) == [r EXCEPT !.status = s]
WithPhase(r, i, p) == [r EXCEPT !.phase[i] = p]
WithMoved(r, i) == [r EXCEPT !.moved[i] = TRUE]
WithInstalled(r, i) == [r EXCEPT !.installed[i] = TRUE]
\* Mutant: the phase gets the name of the status.
CompletedAsStatus(r) == [r EXCEPT !.status = "committed",
                                  !.phase = [i \in Op |-> "committed"]]
Completed(r) == [r EXCEPT !.status = "committed",
                          !.phase = [i \in Op |-> "complete"]]

Staging == {"stage", "rescan"}
Applying == {"prepare", "moving", "move", "moved", "installing", "install",
             "installed", "verify", "finish"}
Bookkeeping == {"clear", "save_plan", "save_tx", "audit"}
Undoing == {"undo_new", "undo_backup", "undo_save", "undo_verify",
            "undo_audit"}
Restoring == {"r_check", "r_displace", "r_return", "r_verify", "r_save",
              "r_audit"}
Label == {"idle", "check", "cleanup", "unlock"}
            \cup Staging \cup Applying \cup Bookkeeping \cup Undoing
            \cup Restoring

(* The plan is any set of NOps changed roots; the workspace still is the     *)
(* baseline and the worktree the planned result.                             *)
Init ==
    /\ base \in Tree
    /\ staged \in {t \in Tree : \A p \in Path : t[p] = base[p] <=> p = 0}
    /\ live = base
    /\ worktree = staged
    /\ apply = EmptyStore
    /\ quarantine = EmptyStore
    /\ displaced = EmptyStore
    /\ record = NoRecord
    /\ disk = NoRecord
    /\ planState = "pending"
    /\ txState = "planned"
    /\ audit = {}
    /\ lock = FALSE
    /\ pc = "idle"
    /\ cur = 1
    /\ failed = FALSE
    /\ faulted = FALSE
    /\ mine = [p \in Path |-> NoEntry]
    /\ left = FALSE

----------------------------------------------------------------------------
(* Control flow.                                                             *)

Goto(label) == pc' = label /\ UNCHANGED <<cur, failed, history>>
GotoOp(label, i) == pc' = label /\ cur' = i /\ UNCHANGED <<failed, history>>

\* Head of the loop over record.operations, for operation i.
NextOp(i) ==
    IF i > NOps THEN Goto("verify")
    ELSE GotoOp(IF base[i] # NoEntry THEN "moving" ELSE "installing", i)

\* Mutant: the loop stops one operation short.
PrevOpShort(i, head, done) ==
    IF i <= 2 THEN pc' = done /\ UNCHANGED cur ELSE pc' = head /\ cur' = i - 1

\* Head of the two loops over reversed(record.operations), after operation i.
PrevOp(i, head, done) ==
    IF i = 1 THEN pc' = done /\ UNCHANGED cur ELSE pc' = head /\ cur' = i - 1

\* An exception: the except clause of commit tells the two cases apart by
\* whether `record` is bound; elsewhere only the lock is released.
Unwind ==
    /\ \/ pc \in Staging /\ pc' = "cleanup" /\ UNCHANGED cur
       \/ pc \in Applying /\ pc' = "undo_new" /\ cur' = NOps
       \/ pc \notin Staging \cup Applying /\ pc' = "unlock" /\ UNCHANGED cur
    /\ UNCHANGED failed

\* The broker raises, or an I/O call does.
Raise == Unwind /\ UNCHANGED history
IOError == Unwind /\ faulted' = TRUE /\ UNCHANGED <<mine, left>>

\* _save_commit replaces the file, or raises before or after the replacement
\* (the fsync of the directory comes last).
SaveCommit(r) == record' = r /\ disk' = r
SaveFails(r) == record' = r /\ disk' \in {disk, r} /\ IOError

----------------------------------------------------------------------------
(* commit, from the lock to the journal.                                     *)

\* The lock is taken with O_EXCL; a caller that finds it is refused.  The
\* checks on plan and transaction made before are the guard here (module
\* WorkspaceGuard separates them).  One journaled attempt per behaviour: a
\* later attempt would have a commit id, and directories, of its own.
CommitBegin ==
    /\ pc = "idle" /\ ~lock
    /\ planState = "pending" /\ txState = "planned"
    /\ disk = NoRecord
    /\ lock' = TRUE
    /\ Goto("check")
    /\ UNCHANGED <<planned, trees, record, disk, ledger>>

\* Mutant: the live workspace is not scanned again under the lock.
CommitCheckUnscanned ==
    /\ pc = "check"
    /\ \/ worktree = staged /\ GotoOp("stage", 1)
       \/ worktree # staged /\ Raise
    /\ UNCHANGED <<planned, trees, record, disk, ledger, lock>>

\* The scans under the lock, StalePlan if a digest moved.
CommitCheck ==
    /\ pc = "check"
    /\ \/ live = base /\ worktree = staged /\ GotoOp("stage", 1)
       \/ ~(live = base /\ worktree = staged) /\ Raise
       \/ IOError
    /\ UNCHANGED <<planned, trees, record, disk, ledger, lock>>

\* copy_entry of one root into apply/<commit_id>; nothing to copy for a removal.
StagePayload ==
    LET next == IF cur = NOps THEN Goto("rescan")
                ELSE GotoOp("stage", cur + 1)
        there == staged[cur] # NoEntry
    IN
    /\ pc = "stage"
    /\ \/ /\ there /\ worktree[cur] # NoEntry
          /\ apply' = [apply EXCEPT ![cur] = worktree[cur]]
          /\ next
       \/ there /\ worktree[cur] = NoEntry /\ Raise /\ UNCHANGED apply
       \/ ~there /\ next /\ UNCHANGED apply
       \/ IOError /\ UNCHANGED apply
    /\ UNCHANGED <<planned, live, worktree, quarantine, displaced, record,
                   disk, ledger, lock>>

Rescan ==
    /\ pc = "rescan"
    /\ \/ worktree = staged /\ Goto("prepare")
       \/ worktree # staged /\ Raise
       \/ IOError
    /\ UNCHANGED <<planned, trees, record, disk, ledger, lock>>

\* No record yet: apply and quarantine directories are removed, or left behind.
Cleanup ==
    /\ pc = "cleanup"
    /\ \/ apply' = EmptyStore /\ Goto("unlock")
       \/ UNCHANGED apply /\ IOError
    /\ UNCHANGED <<planned, live, worktree, quarantine, displaced, record,
                   disk, ledger, lock>>

Prepare ==
    /\ pc = "prepare"
    /\ \/ SaveCommit(WithStatus(NoRecord, "prepared")) /\ NextOp(1)
       \/ SaveFails(WithStatus(NoRecord, "prepared"))
    /\ UNCHANGED <<planned, trees, ledger, lock>>

----------------------------------------------------------------------------
(* commit, the loop over the operations.                                     *)

\* Mutant: the phase changes in memory only.
JournalMoveUnsaved ==
    /\ pc = "moving"
    /\ record' = WithPhase(record, cur, "moving_backup")
    /\ Goto("move")
    /\ UNCHANGED <<planned, trees, disk, ledger, lock>>

\* The target must be there; making its parent in the quarantine may fail.
JournalMove ==
    /\ pc = "moving"
    /\ \/ /\ live[cur] = NoEntry
          /\ Raise /\ UNCHANGED <<record, disk>>
       \/ IOError /\ UNCHANGED <<record, disk>>
       \/ /\ live[cur] # NoEntry
          /\ SaveCommit(WithPhase(record, cur, "moving_backup"))
          /\ Goto("move")
       \/ /\ live[cur] # NoEntry
          /\ SaveFails(WithPhase(record, cur, "moving_backup"))
    /\ UNCHANGED <<planned, trees, ledger, lock>>

\* os.rename(destination, backup)
MoveBackup ==
    /\ pc = "move"
    /\ \/ /\ live[cur] # NoEntry
          /\ quarantine' = [quarantine EXCEPT ![cur] = live[cur]]
          /\ live' = [live EXCEPT ![cur] = NoEntry]
          /\ record' = WithMoved(WithPhase(record, cur, "backup_moved"), cur)
          /\ Goto("moved")
       \/ IOError /\ UNCHANGED <<live, quarantine, record>>
    /\ UNCHANGED <<planned, worktree, apply, displaced, disk, ledger, lock>>

\* Mutant: an entry that was moved aside is never replaced.
JournalMovedOnly ==
    /\ pc = "moved"
    /\ SaveCommit(record) /\ NextOp(cur + 1)
    /\ UNCHANGED <<planned, trees, ledger, lock>>

JournalMoved ==
    /\ pc = "moved"
    /\ \/ /\ SaveCommit(record)
          /\ IF staged[cur] # NoEntry THEN Goto("installing")
             ELSE NextOp(cur + 1)
       \/ SaveFails(record)
    /\ UNCHANGED <<planned, trees, ledger, lock>>

JournalInstall ==
    /\ pc = "installing"
    /\ \/ SaveCommit(WithPhase(record, cur, "installing")) /\ Goto("install")
       \/ IOError /\ UNCHANGED <<record, disk>>
       \/ SaveFails(WithPhase(record, cur, "installing"))
    /\ UNCHANGED <<planned, trees, ledger, lock>>

\* os.rename(staged_path, destination) replaces whatever is there.
Install ==
    /\ pc = "install"
    /\ \/ /\ live' = [live EXCEPT ![cur] = apply[cur]]
          /\ apply' = [apply EXCEPT ![cur] = NoEntry]
          /\ record' = WithInstalled(WithPhase(record, cur, "installed"), cur)
          /\ Goto("installed")
       \/ IOError /\ UNCHANGED <<live, apply, record>>
    /\ UNCHANGED <<planned, worktree, quarantine, displaced, disk, ledger,
                   lock>>

JournalInstalled ==
    /\ pc = "installed"
    /\ \/ SaveCommit(record) /\ NextOp(cur + 1)
       \/ SaveFails(record)
    /\ UNCHANGED <<planned, trees, ledger, lock>>

\* Mutant: the result is not compared with the plan.
VerifyNothing ==
    /\ pc = "verify" /\ Goto("finish")
    /\ UNCHANGED <<planned, trees, record, disk, ledger, lock>>

Verify ==
    /\ pc = "verify"
    /\ \/ live = staged /\ Goto("finish")
       \/ live # staged /\ Raise
       \/ IOError
    /\ UNCHANGED <<planned, trees, record, disk, ledger, lock>>

Finish ==
    /\ pc = "finish"
    /\ \/ SaveCommit(Completed(record)) /\ Goto("clear")
       \/ SaveFails(Completed(record))
    /\ UNCHANGED <<planned, trees, ledger, lock>>

----------------------------------------------------------------------------
(* commit, the bookkeeping after the record says committed: an exception     *)
(* here is outside the try block and undoes nothing.                         *)

ClearApply ==
    /\ pc = "clear"
    /\ \/ apply' = EmptyStore /\ Goto("save_plan")
       \/ UNCHANGED apply /\ IOError
    /\ UNCHANGED <<planned, live, worktree, quarantine, displaced, record,
                   disk, ledger, lock>>

\* Mutant: the event is logged before the transaction is saved.
SavePlanThenAudit ==
    /\ pc = "save_plan"
    /\ planState' = "committed" /\ Goto("audit")
    /\ UNCHANGED <<planned, trees, record, disk, txState, audit, lock>>

SavePlan ==
    /\ pc = "save_plan"
    /\ \/ planState' = "committed" /\ Goto("save_tx")
       \/ planState' \in {planState, "committed"} /\ IOError
    /\ UNCHANGED <<planned, trees, record, disk, txState, audit, lock>>

SaveTx ==
    /\ pc = "save_tx"
    /\ \/ txState' = "committed" /\ Goto("audit")
       \/ txState' \in {txState, "committed"} /\ IOError
    /\ UNCHANGED <<planned, trees, record, disk, planState, audit, lock>>

\* AuditLog.append: the line is written before the fsync that may raise.
Append(event) ==
    \/ audit' = audit \cup {event} /\ Goto("unlock")
    \/ audit' \in {audit, audit \cup {event}} /\ IOError

AuditCommit ==
    /\ pc = "audit"
    /\ Append("commit_completed")
    /\ UNCHANGED <<planned, trees, record, disk, planState, txState, lock>>

----------------------------------------------------------------------------
(* _rollback_failed_commit.  An OSError of one operation is collected in     *)
(* rollback_errors and the loop goes on.                                     *)

UndoFailed(done) ==
    /\ failed' = TRUE /\ faulted' = TRUE /\ UNCHANGED <<mine, left>>
    /\ PrevOp(cur, "undo_new", done)

\* Mutant: whatever is there is taken for the installed entry.
UndoNewUnchecked ==
    /\ pc = "undo_new"
    /\ displaced' = [displaced EXCEPT ![cur] = live[cur]]
    /\ live' = [live EXCEPT ![cur] = NoEntry]
    /\ Goto("undo_backup")
    /\ UNCHANGED <<planned, worktree, apply, quarantine, record, disk, ledger,
                   lock>>

UndoNew ==
    /\ pc = "undo_new"
    /\ \/ /\ record.installed[cur] /\ live[cur] # NoEntry
          /\ displaced' = [displaced EXCEPT ![cur] = live[cur]]
          /\ live' = [live EXCEPT ![cur] = NoEntry]
          /\ Goto("undo_backup")
       \/ /\ ~(record.installed[cur] /\ live[cur] # NoEntry)
          /\ Goto("undo_backup") /\ UNCHANGED <<live, displaced>>
       \/ UndoFailed("undo_save") /\ UNCHANGED <<live, displaced>>
    /\ UNCHANGED <<planned, worktree, apply, quarantine, record, disk, ledger,
                   lock>>

UndoBackup ==
    LET next == /\ record' = WithPhase(record, cur, "rolled_back")
                /\ PrevOp(cur, "undo_new", "undo_save")
                /\ UNCHANGED <<failed, history>>
    IN
    /\ pc = "undo_backup"
    /\ \/ /\ record.moved[cur] /\ quarantine[cur] # NoEntry
          /\ live' = [live EXCEPT ![cur] = quarantine[cur]]
          /\ quarantine' = [quarantine EXCEPT ![cur] = NoEntry]
          /\ next
       \/ /\ ~(record.moved[cur] /\ quarantine[cur] # NoEntry)
          /\ next /\ UNCHANGED <<live, quarantine>>
       \/ UndoFailed("undo_save") /\ UNCHANGED <<live, quarantine, record>>
    /\ UNCHANGED <<planned, worktree, apply, displaced, disk, ledger, lock>>

\* Mutant: the collected errors are forgotten.
UndoSaveForgetful ==
    /\ pc = "undo_save"
    /\ SaveCommit(WithStatus(record, "rolled_back"))
    /\ Goto(IF failed THEN "undo_audit" ELSE "undo_verify")
    /\ UNCHANGED <<planned, trees, ledger, lock>>

UndoSave ==
    LET undone == WithStatus(record, IF failed THEN "rollback_failed"
                                     ELSE "rolled_back")
    IN
    /\ pc = "undo_save"
    /\ \/ /\ SaveCommit(undone)
          /\ Goto(IF failed THEN "undo_audit" ELSE "undo_verify")
       \/ SaveFails(undone)
    /\ UNCHANGED <<planned, trees, ledger, lock>>

UndoVerify ==
    /\ pc = "undo_verify"
    /\ \/ /\ pc' = "undo_audit" /\ failed' = (live # base)
          /\ UNCHANGED <<cur, history>>
       \/ IOError
    /\ UNCHANGED <<planned, trees, record, disk, ledger, lock>>

UndoAudit ==
    /\ pc = "undo_audit"
    /\ Append("commit_failed")
    /\ UNCHANGED <<planned, trees, record, disk, planState, txState, lock>>

----------------------------------------------------------------------------
(* restore.                                                                  *)

RestoreBegin ==
    /\ pc = "idle" /\ ~lock
    /\ disk.status = "committed" /\ planState = "committed"
    /\ record' = disk
    /\ lock' = TRUE
    /\ Goto("r_check")
    /\ UNCHANGED <<planned, trees, disk, ledger>>

RestoreCheck ==
    /\ pc = "r_check"
    /\ \/ live = staged /\ GotoOp("r_displace", NOps)
       \/ live # staged /\ Raise
       \/ IOError
    /\ UNCHANGED <<planned, trees, record, disk, ledger, lock>>

\* Mutant: only entries that had a backup are moved aside.
RestoreDisplaceReplaced ==
    /\ pc = "r_displace"
    /\ IF record.installed[cur] /\ record.moved[cur]
       THEN /\ displaced' = [displaced EXCEPT ![cur] = live[cur]]
            /\ live' = [live EXCEPT ![cur] = NoEntry]
       ELSE UNCHANGED <<live, displaced>>
    /\ Goto("r_return")
    /\ UNCHANGED <<planned, worktree, apply, quarantine, record, disk, ledger,
                   lock>>

\* Mutant: the committed entry is unlinked.
RestoreDisplaceUnlinks ==
    /\ pc = "r_displace"
    /\ IF record.installed[cur]
       THEN live' = [live EXCEPT ![cur] = NoEntry] ELSE UNCHANGED live
    /\ Goto("r_return")
    /\ UNCHANGED <<planned, worktree, stores, record, disk, ledger, lock>>

\* An entry that is to be handled and has disappeared raises; so may a rename,
\* before its effect, and the fsync, after it.
RestoreDisplace ==
    /\ pc = "r_displace"
    /\ \/ /\ record.installed[cur] /\ live[cur] # NoEntry
          /\ displaced' = [displaced EXCEPT ![cur] = live[cur]]
          /\ live' = [live EXCEPT ![cur] = NoEntry]
          /\ \/ Goto("r_return")
             \/ IOError
       \/ /\ record.installed[cur] /\ live[cur] = NoEntry
          /\ Raise /\ UNCHANGED <<live, displaced>>
       \/ /\ ~record.installed[cur]
          /\ Goto("r_return") /\ UNCHANGED <<live, displaced>>
       \/ IOError /\ UNCHANGED <<live, displaced>>
    /\ UNCHANGED <<planned, worktree, apply, quarantine, record, disk, ledger,
                   lock>>

RestoreReturn ==
    LET next == /\ record' = WithPhase(record, cur, "restored")
                /\ PrevOp(cur, "r_displace", "r_verify")
                /\ UNCHANGED <<failed, history>>
    IN
    /\ pc = "r_return"
    /\ \/ /\ record.moved[cur] /\ quarantine[cur] # NoEntry
          /\ live' = [live EXCEPT ![cur] = quarantine[cur]]
          /\ quarantine' = [quarantine EXCEPT ![cur] = NoEntry]
          /\ \/ next
             \/ IOError /\ UNCHANGED record
       \/ /\ record.moved[cur] /\ quarantine[cur] = NoEntry
          /\ Raise /\ UNCHANGED <<live, quarantine, record>>
       \/ /\ ~record.moved[cur]
          /\ next /\ UNCHANGED <<live, quarantine>>
       \/ IOError /\ UNCHANGED <<live, quarantine, record>>
    /\ UNCHANGED <<planned, worktree, apply, displaced, disk, ledger, lock>>

RestoreVerify ==
    /\ pc = "r_verify"
    /\ \/ live = base /\ Goto("r_save")
       \/ live # base /\ Raise
       \/ IOError
    /\ UNCHANGED <<planned, trees, record, disk, ledger, lock>>

RestoreSave ==
    /\ pc = "r_save"
    /\ \/ SaveCommit(WithStatus(record, "restored")) /\ Goto("r_audit")
       \/ SaveFails(WithStatus(record, "restored"))
    /\ UNCHANGED <<planned, trees, ledger, lock>>

RestoreAudit ==
    /\ pc = "r_audit"
    /\ Append("commit_restored")
    /\ UNCHANGED <<planned, trees, record, disk, planState, txState, lock>>

----------------------------------------------------------------------------
(* Leaving the critical section, and what goes on around it.                 *)

Forget == record' = NoRecord /\ pc' = "idle" /\ cur' = 1 /\ failed' = FALSE

\* Mutant: the lock file is not removed.
UnlockLeavingFile ==
    /\ pc = "unlock" /\ Forget
    /\ UNCHANGED <<planned, trees, disk, ledger, lock, history>>

\* The finally clause of _workspace_lock: a lock file that is gone already is
\* no error, any other error of unlink leaves it.
Unlock ==
    /\ pc = "unlock"
    /\ \/ lock' = FALSE /\ UNCHANGED history
       \/ faulted' = TRUE /\ left' = TRUE /\ UNCHANGED <<lock, mine>>
    /\ Forget
    /\ UNCHANGED <<planned, trees, disk, ledger>>

\* KeyboardInterrupt is no Exception: neither except clause of commit runs,
\* the lock is released all the same.
Interrupt ==
    /\ pc \notin {"idle", "unlock"}
    /\ Goto("unlock")
    /\ UNCHANGED <<planned, trees, record, disk, ledger, lock>>

\* The process dies: the lock file stays, and nothing in the broker removes it.
Crash ==
    /\ pc # "idle"
    /\ Forget
    /\ UNCHANGED <<planned, trees, disk, ledger, lock, history>>

\* The agent writes its worktree whenever it likes.  No step reads the
\* worktree after the rescan, so later writes are left out.
Agent ==
    /\ disk = NoRecord /\ pc \in {"idle", "check"} \cup Staging
    /\ \E p \in Path, e \in Entry :
           worktree' = [worktree EXCEPT ![p] = e]
    /\ UNCHANGED <<planned, live, stores, record, disk, ledger, lock, control,
                   history>>

\* Somebody writes the live workspace without the broker.
Editor ==
    /\ \E p \in EditorPaths, e \in Content :
           /\ live' = [live EXCEPT ![p] = e]
           /\ mine' = [mine EXCEPT ![p] = e]
    /\ UNCHANGED <<planned, worktree, stores, record, disk, ledger, lock,
                   control, faulted, left>>

Commit ==
    \/ CommitBegin \/ CommitCheck \/ StagePayload \/ Rescan \/ Cleanup
    \/ Prepare \/ JournalMove \/ MoveBackup \/ JournalMoved
    \/ JournalInstall \/ Install \/ JournalInstalled \/ Verify \/ Finish
    \/ ClearApply \/ SavePlan \/ SaveTx \/ AuditCommit

Rollback == UndoNew \/ UndoBackup \/ UndoSave \/ UndoVerify \/ UndoAudit

Restore ==
    \/ RestoreBegin \/ RestoreCheck \/ RestoreDisplace \/ RestoreReturn
    \/ RestoreVerify \/ RestoreSave \/ RestoreAudit

Broker == Commit \/ Rollback \/ Restore \/ Unlock

Next == Broker \/ Agent \/ Interrupt \/ Crash

\* Editors write the workspace at any time.
Spec == Init /\ [][Next \/ Editor]_vars

\* Editors keep away from a broker operation that is under way.
QuietEditor == pc = "idle" /\ ~lock /\ Editor

\* Every step of a call that is under way is taken by the thread that made it;
\* making a call is up to the caller, and the process neither dies nor is
\* interrupted.
Running == Broker /\ pc # "idle"
LiveSpec == Init /\ [][Broker \/ Agent \/ QuietEditor]_vars /\ WF_vars(Running)

----------------------------------------------------------------------------
(* Properties.                                                               *)

\* Every variable has its type; in particular a broker with nothing to do
\* holds no record in memory.
TypeOK ==
    /\ base \in Tree /\ staged \in Tree /\ live \in Tree /\ worktree \in Tree
    /\ apply \in Store /\ quarantine \in Store /\ displaced \in Store
    /\ record \in Record /\ disk \in Record
    /\ planState \in {"pending", "committed"}
    /\ txState \in {"planned", "committed"}
    /\ audit \subseteq {"commit_completed", "commit_failed", "commit_restored"}
    /\ lock \in BOOLEAN /\ pc \in Label /\ cur \in Op
    /\ failed \in BOOLEAN /\ faulted \in BOOLEAN /\ mine \in Tree
    /\ left \in BOOLEAN

\* No editor has written path p.
Untouched(p) == mine[p] = NoEntry

\* What an operator would put back at path p, knowing only the plan (which
\* roots are new), the quarantine directory and the workspace.
Recovered(p) ==
    IF p \in Op /\ base[p] = NoEntry THEN NoEntry
    ELSE IF p \in Op /\ quarantine[p] # NoEntry THEN quarantine[p]
    ELSE live[p]

\* At every instant, whatever died, was interrupted or raised before and
\* whatever editors did at other paths, the baseline entry of a path can be
\* found in the workspace or the quarantine of the commit: neither commit nor
\* its rollback nor restore ever destroys the only copy of an original entry.
BaselineRecoverable == \A p \in Path : Untouched(p) => Recovered(p) = base[p]

\* The journal is ahead of the workspace: at every instant an entry of the
\* workspace that is not the baseline's belongs to an operation the record on
\* disk names as begun, so a dead broker's half-done work can be found.
JournalAhead ==
    \A p \in Path : Untouched(p) /\ live[p] # base[p] =>
                        p \in Op /\ disk.phase[p] # "pending"

\* A record that says rolled back or restored is the truth for every path no
\* editor wrote (rollback saves that status before it scans).
SettledMeansBaseline ==
    disk.status \in {"rolled_back", "restored"} =>
        \A p \in Path : Untouched(p) => live[p] = base[p]

\* The record turns to committed only over the planned tree, whatever the
\* agent did to the worktree while its payload was copied.
CommittedMeansStaged ==
    [][disk.status # "committed" /\ disk'.status = "committed" =>
           \A p \in Path : Untouched(p) => live'[p] = staged[p]]_vars

\* The audit log never claims what the records deny: completed only after
\* record, plan and transaction are committed, failed only for a commit that
\* never finished its bookkeeping, restored only once the record says so.
AuditTruthful ==
    /\ "commit_completed" \in audit =>
           /\ disk.status \in {"committed", "restored"}
           /\ planState = "committed" /\ txState = "committed"
    /\ "commit_failed" \in audit =>
           /\ disk.status \in {"rolled_back", "rollback_failed"}
           /\ planState = "pending" /\ txState = "planned"
    /\ "commit_restored" \in audit => disk.status = "restored"

\* With an editor that stays away from running operations, neither commit nor
\* rollback nor restore loses what it last wrote: the entry is in the workspace, in the
\* quarantine or among the displaced entries.
KeepsUserEntry ==
    \A p \in Path : mine[p] # NoEntry =>
        mine[p] \in {live[p]} \cup
            (IF p \in Op THEN {quarantine[p], displaced[p]} ELSE {})

\* A broker whose process survives gives the lock back, whichever calls of the
\* operation raise; only the unlink of the lock file itself may not.
LockReleased == lock ~> ~lock \/ left

\* A commit that has staged the planned payload ends with record, plan,
\* transaction and audit log agreeing, unless an I/O call raises.
FaithfulCommitCompletes ==
    (pc = "prepare" /\ \A i \in Op : apply[i] = staged[i])
        ~> faulted \/ (planState = "committed" /\ "commit_completed" \in audit)

\* A journaled commit that does not go through is taken back entirely, unless
\* an I/O call raises.
PreparedSettles ==
    disk.status = "prepared"
        ~> faulted \/ disk.status = "committed" \/ (disk.status = "rolled_back"
                                                       /\ live = base)

\* A restore of a workspace that still is the committed tree brings the
\* baseline back, unless an I/O call raises.
RestoreCompletes ==
    (pc = "r_check" /\ live = staged)
        ~> faulted \/ (disk.status = "restored" /\ live = base)

\* RFC 5.8: restore "journals the operation"; the checklist asks for "never an
\* untracked hybrid".  While nobody works on it, a commit whose record, plan
\* and transaction all say committed is what the workspace holds.
StatusTracksTree ==
    /\ disk.status = "committed" /\ planState = "committed"
    /\ txState = "committed" /\ ~lock
    => \A p \in Path : Untouched(p) => live[p] = staged[p]
=============================================================================
