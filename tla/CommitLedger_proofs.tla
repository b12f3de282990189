------------------------ MODULE CommitLedger_proofs -------------------------
(* What stands around the critical section.  The audit log against the       *)
(* records: the record of the commit on disk, the plan and the transaction   *)
(* are three files, saved one after another with failures in between, and no *)
(* event contradicts any of them.  And the editors: what one of them wrote   *)
(* is not lost.                                                              *)
EXTENDS CommitRefinement_proofs

\* The plan is committed after the record, the transaction after the plan.
SavedInOrder ==
    /\ planState = "committed" => disk.status \in {"committed", "restored"}
    /\ txState = "committed" => planState = "committed"

\* What the broker has saved when it is about to save or log the next thing.
SavedBefore ==
    /\ pc \in Bookkeeping => disk.status = "committed"
    /\ pc \in {"save_tx", "audit"} => planState = "committed"
    /\ pc = "audit" => txState = "committed"
    /\ pc \in Undoing => planState = "pending"
    /\ pc \in {"undo_verify", "undo_audit"} =>
           disk.status \in {"rolled_back", "rollback_failed"}
    /\ pc = "r_audit" => disk.status = "restored"

LedgerInv == IInv /\ SavedInOrder /\ SavedBefore /\ AuditTruthful

LEMMA LedgerInit == Init => LedgerInv
  BY IInvInit, NoRecordFacts
     DEF Init, LedgerInv, SavedInOrder, SavedBefore, AuditTruthful,
         Bookkeeping, Undoing

\* A record is taken back only by the rollback.
LEMMA TakenBack ==
    ASSUME IInv, [Next \/ Editor]_vars, disk'.status # disk.status,
           disk.status = "committed", pc # "undo_save"
    PROVE  disk'.status = "restored" /\ pc = "r_save"
  <1> USE DEF IInv, CoreInv, TypeOK, RecordInv, StatusInv, Applying, Undoing, Restoring,
              Staging, history
  <1>1. CASE RestoreSave
    BY <1>1, FieldFacts, NameFacts
       DEF RestoreSave, SaveCommit, SaveFails, Goto, IOError
  <1>2. CASE Commit
    BY <1>2
       DEF Commit, CommitBegin, CommitCheck, StagePayload, Rescan, Cleanup,
           Prepare, JournalMove, MoveBackup, JournalMoved, JournalInstall,
           Install, JournalInstalled, Verify, Finish, ClearApply, SavePlan,
           SaveTx, AuditCommit, NoRecord
  <1>3. CASE Rollback
    BY <1>3 DEF Rollback, UndoNew, UndoBackup, UndoSave, UndoVerify, UndoAudit
  <1>4. CASE ~RestoreSave /\ Restore
    BY <1>4
       DEF Restore, RestoreBegin, RestoreCheck, RestoreDisplace, RestoreReturn,
           RestoreVerify, RestoreAudit
  <1>5. CASE Unlock \/ Interrupt \/ Crash \/ Agent \/ Editor \/ UNCHANGED vars
    BY <1>5 DEF Unlock, Interrupt, Crash, Agent, Editor, vars
  <1>6. QED
    BY <1>1, <1>2, <1>3, <1>4, <1>5 DEF Next, Broker

\* Steps that write neither plan, transaction nor log.
LEMMA LedgerKept ==
    ASSUME LedgerInv, [Next \/ Editor]_vars, UNCHANGED ledger
    PROVE  SavedInOrder' /\ AuditTruthful'
  <1> USE DEF LedgerInv, SavedInOrder, ledger
  <1>1. planState = "committed" => disk'.status \in {"committed", "restored"}
    <2>1. planState = "committed" => pc # "undo_save"
      BY DEF SavedBefore, Undoing
    <2>2. disk.status = "restored" => disk'.status = "restored"
      BY StatusStep DEF Turns, IInv
    <2>3. QED
      BY <2>1, <2>2, TakenBack
  <1>2. disk.status \in {"rolled_back", "rollback_failed"} =>
            disk'.status = disk.status
    BY StatusStep DEF Turns, IInv
  <1>3. disk.status = "restored" => disk'.status = disk.status
    BY StatusStep DEF Turns, IInv
  <1>4. QED
    BY <1>1, <1>2, <1>3 DEF AuditTruthful

LEMMA LedgerNext == LedgerInv /\ [Next \/ Editor]_vars => LedgerInv'
  <1> SUFFICES ASSUME LedgerInv, [Next \/ Editor]_vars PROVE LedgerInv'
    OBVIOUS
  <1>1. IInv /\ IInv' /\ TypeOK
    BY IInvNext DEF LedgerInv, IInv, CoreInv
  <1> USE DEF LedgerInv, SavedBefore, Bookkeeping, Undoing, Applying, Staging,
              TypeOK
  <1>2. CASE CommitBegin \/ CommitCheck \/ StagePayload \/ Rescan \/ Cleanup
            \/ Unlock \/ Interrupt \/ Crash
    <2>1. pc' \in {"check", "stage", "cleanup", "rescan", "prepare", "unlock",
                   "idle"}
      BY <1>2
         DEF CommitBegin, CommitCheck, StagePayload, Rescan, Cleanup, Unlock,
             Interrupt, Crash, Goto, GotoOp, Raise, IOError, Unwind, Forget
    <2>2. UNCHANGED ledger
      BY <1>2
         DEF CommitBegin, CommitCheck, StagePayload, Rescan, Cleanup, Unlock,
             Interrupt, Crash, ledger
    <2>3. QED
      BY <1>1, <2>1, <2>2, LedgerKept
  <1>3. CASE Prepare \/ JournalMove \/ MoveBackup \/ JournalMoved
            \/ JournalInstall \/ Install \/ JournalInstalled \/ Verify
    <2>1. pc' \in Applying \cup {"undo_new"}
      BY <1>3
         DEF Prepare, JournalMove, MoveBackup, JournalMoved, JournalInstall,
             Install, JournalInstalled, Verify, SaveFails, NextOp, Goto,
             GotoOp, Raise, IOError, Unwind
    <2>2. pc \in Applying /\ UNCHANGED ledger
      BY <1>3
         DEF Prepare, JournalMove, MoveBackup, JournalMoved, JournalInstall,
             Install, JournalInstalled, Verify, ledger
    <2>3. planState = "pending"
      BY <1>1, <2>2 DEF IInv, CoreInv, RecordInv, StatusInv, SavedInOrder
    <2>4. QED
      BY <1>1, <2>1, <2>2, <2>3, LedgerKept DEF ledger
  <1>4. CASE Finish
    <2>1. planState = "pending" /\ UNCHANGED ledger
      BY <1>1, <1>4 DEF Finish, IInv, CoreInv, RecordInv, StatusInv, SavedInOrder, ledger
    <2>2. Completed(record).status = "committed"
      BY <1>1 DEF Completed, Record
    <2>3. \/ pc' = "clear" /\ disk'.status = "committed"
          \/ pc' = "undo_new"
      BY <1>4, <2>2 DEF Finish, SaveCommit, SaveFails, Goto, IOError, Unwind
    <2>4. QED
      BY <1>1, <2>1, <2>3, LedgerKept DEF ledger
  <1>5. CASE ClearApply
    <2>1. /\ pc = "clear" /\ pc' \in {"save_plan", "unlock"}
          /\ UNCHANGED disk /\ UNCHANGED ledger
      BY <1>5 DEF ClearApply, Goto, IOError, Unwind, ledger
    <2>2. QED
      BY <1>1, <2>1, LedgerKept
  <1>6. CASE SavePlan
    <2>1. /\ pc = "save_plan" /\ UNCHANGED <<disk, txState, audit>>
          /\ planState' \in {planState, "committed"}
          /\ \/ pc' = "save_tx" /\ planState' = "committed"
             \/ pc' = "unlock"
      BY <1>6 DEF SavePlan, Goto, IOError, Unwind
    <2>2. QED
      BY <1>1, <2>1 DEF SavedInOrder, AuditTruthful
  <1>7. CASE SaveTx
    <2>1. /\ pc = "save_tx" /\ UNCHANGED <<disk, planState, audit>>
          /\ txState' \in {txState, "committed"}
          /\ \/ pc' = "audit" /\ txState' = "committed"
             \/ pc' = "unlock"
      BY <1>7 DEF SaveTx, Goto, IOError, Unwind
    <2>2. QED
      BY <1>1, <2>1 DEF SavedInOrder, AuditTruthful
  <1>8. CASE AuditCommit \/ UndoAudit \/ RestoreAudit
    <2>1. /\ UNCHANGED <<disk, planState, txState>> /\ pc' = "unlock"
          /\ \E e \in {"commit_completed", "commit_failed", "commit_restored"} :
                 /\ audit' \in {audit, audit \cup {e}}
                 /\ e = "commit_completed" => pc = "audit"
                 /\ e = "commit_failed" => pc = "undo_audit"
                 /\ e = "commit_restored" => pc = "r_audit"
      BY <1>8
         DEF AuditCommit, UndoAudit, RestoreAudit, Append, Goto, IOError,
             Unwind
    <2>2. SavedInOrder'
      BY <2>1 DEF SavedInOrder
    <2>3. AuditTruthful'
      BY <1>1, <2>1 DEF AuditTruthful, SavedInOrder
    <2>4. QED
      BY <1>1, <2>1, <2>2, <2>3
  <1>9. CASE UndoNew \/ UndoBackup
    <2>1. /\ pc \in Undoing /\ UNCHANGED ledger
          /\ pc' \in {"undo_new", "undo_backup", "undo_save"}
      BY <1>9 DEF UndoNew, UndoBackup, UndoFailed, PrevOp, Goto, ledger
    <2>2. QED
      BY <1>1, <2>1, LedgerKept DEF ledger
  <1>10. CASE UndoSave
    <2>1. /\ pc \in Undoing /\ UNCHANGED ledger
          /\ \/ /\ pc' \in {"undo_verify", "undo_audit"}
                /\ disk'.status \in {"rolled_back", "rollback_failed"}
             \/ pc' = "unlock"
      BY <1>1, <1>10, FieldFacts, NameFacts
         DEF UndoSave, SaveCommit, SaveFails, Goto, IOError, Unwind, ledger
    <2>2. QED
      BY <1>1, <2>1, LedgerKept DEF ledger
  <1>11. CASE UndoVerify
    <2>1. /\ pc = "undo_verify" /\ pc' \in {"undo_audit", "unlock"}
          /\ UNCHANGED ledger /\ UNCHANGED disk
      BY <1>11 DEF UndoVerify, IOError, Unwind, ledger
    <2>2. QED
      BY <1>1, <2>1, LedgerKept DEF ledger
  <1>12. CASE RestoreBegin \/ RestoreCheck \/ RestoreDisplace \/ RestoreReturn
             \/ RestoreVerify
    <2>1. pc' \in {"r_check", "r_displace", "r_return", "r_verify", "r_save",
                   "unlock"}
      BY <1>12
         DEF RestoreBegin, RestoreCheck, RestoreDisplace, RestoreReturn,
             RestoreVerify, Goto, GotoOp, PrevOp, Raise, IOError, Unwind
    <2>2. UNCHANGED ledger
      BY <1>12
         DEF RestoreBegin, RestoreCheck, RestoreDisplace, RestoreReturn,
             RestoreVerify, ledger
    <2>3. QED
      BY <1>1, <2>1, <2>2, LedgerKept
  <1>13. CASE RestoreSave
    <2>1. /\ UNCHANGED ledger
          /\ \/ pc' = "r_audit" /\ disk'.status = "restored"
             \/ pc' = "unlock"
      BY <1>1, <1>13, FieldFacts, NameFacts
         DEF RestoreSave, SaveCommit, SaveFails, Goto, IOError, Unwind, ledger
    <2>2. QED
      BY <1>1, <2>1, LedgerKept
  <1>14. CASE Agent \/ Editor \/ UNCHANGED vars
    <2>1. UNCHANGED <<disk, pc>> /\ UNCHANGED ledger
      BY <1>14 DEF Agent, Editor, vars, control
    <2>2. QED
      BY <1>1, <2>1, LedgerKept DEF ledger
  <1>15. QED
    BY <1>2, <1>3, <1>4, <1>5, <1>6, <1>7, <1>8, <1>9, <1>10, <1>11, <1>12,
       <1>13, <1>14
       DEF Next, Broker, Commit, Rollback, Restore

\* The audit log of a commit never claims what its record, plan or transaction
\* on disk denies, through every crash, interrupt and I/O error.
THEOREM AuditIsTruthful == Spec => []AuditTruthful
  <1>1. LedgerInv => AuditTruthful
    BY DEF LedgerInv
  <1>2. QED
    BY <1>1, LedgerInit, LedgerNext, PTL DEF Spec

----------------------------------------------------------------------------
(* Beside editors that keep away from running operations, no commit, rollback *)
(* or restore loses what one of them wrote.                                  *)

\* From the scan that found the baseline to the end of commit or of its
\* rollback.
Committing == Staging \cup Applying \cup Undoing

\* What an editor wrote at a path is somewhere.
Somewhere(p) ==
    mine[p] # NoEntry =>
        mine[p] \in {live[p]} \cup
            (IF p \in Op THEN {quarantine[p], displaced[p]} ELSE {})

\* Nothing is in the quarantine before a record is saved.
NoneMoved == disk.status = "none" => quarantine = EmptyStore

\* Commit goes ahead only where what an editor wrote is the baseline.  The
\* operation is then as good as one at a path nobody wrote.
FoundInv ==
    pc \in Committing => \A i \in Op :
        mine[i] # NoEntry => mine[i] = base[i] /\ OpInv(i)

\* Restore goes ahead only over the planned tree: what it moves aside is the
\* result, and what it puts back replaces nothing.
RestoreInv ==
    /\ pc \in Restoring => planState = "committed"
    /\ pc = "r_displace" => \A i \in Op : i <= cur => live[i] = staged[i]
    /\ pc = "r_return" => /\ live[cur] = NoEntry
                          /\ \A i \in Op : i < cur => live[i] = staged[i]
    /\ planState = "committed" \/ pc \in {"clear", "save_plan"} =>
           \A i \in Op : displaced[i] \in {NoEntry, staged[i]}

EInv ==
    /\ RInv /\ LedgerInv
    /\ NoneMoved /\ FoundInv /\ RestoreInv
    /\ \A p \in Path : Somewhere(p)

LiveNext == Broker \/ Agent \/ QuietEditor

LEMMA EInvInit == Init => EInv
  <1> SUFFICES ASSUME Init PROVE EInv
    OBVIOUS
  <1>1. RInv /\ LedgerInv
    BY RInvInit, LedgerInit
  <1>2. QED
    BY <1>1, NoEntryAssumption
       DEF Init, EInv, NoneMoved, FoundInv, RestoreInv, Somewhere, Committing,
           Staging, Applying, Undoing, Restoring

\* The broker's steps write no editor's entry; where they move one, and how
\* they come into the part of commit that does.
LEMMA BrokerStep ==
    ASSUME TypeOK, Broker \/ Agent
    PROVE  /\ mine' = mine
           /\ live'[0] = live[0]
           /\ pc \notin Committing /\ ~RestoreDisplace /\ ~RestoreReturn =>
                  UNCHANGED <<live, quarantine, displaced>>
           /\ pc' \in Committing => pc \in Committing \/ CommitCheck
  <1> USE OpFacts
      DEF TypeOK, Committing, Staging, Applying, Undoing, history, trees,
          stores, Goto, GotoOp, Raise, IOError, Unwind
  <1>1. CASE CommitBegin \/ CommitCheck \/ StagePayload \/ Rescan \/ Cleanup
    BY <1>1 DEF CommitBegin, CommitCheck, StagePayload, Rescan, Cleanup
  <1>2. CASE Prepare \/ JournalMove \/ JournalMoved \/ JournalInstall
            \/ JournalInstalled \/ Verify \/ Finish
    BY <1>2
       DEF Prepare, JournalMove, JournalMoved, JournalInstall,
           JournalInstalled, Verify, Finish, SaveCommit, SaveFails, NextOp
  <1>3. CASE MoveBackup \/ Install
    BY <1>3 DEF MoveBackup, Install, Tree
  <1>4. CASE ClearApply \/ SavePlan \/ SaveTx \/ AuditCommit
    BY <1>4 DEF ClearApply, SavePlan, SaveTx, AuditCommit, Append
  <1>5. CASE UndoNew \/ UndoBackup
    BY <1>5 DEF UndoNew, UndoBackup, UndoFailed, PrevOp, Tree
  <1>6. CASE UndoSave \/ UndoVerify \/ UndoAudit
    BY <1>6 DEF UndoSave, UndoVerify, UndoAudit, SaveCommit, SaveFails, Append
  <1>7. CASE RestoreBegin \/ RestoreCheck \/ RestoreVerify \/ RestoreSave
            \/ RestoreAudit
    BY <1>7
       DEF RestoreBegin, RestoreCheck, RestoreVerify, RestoreSave,
           RestoreAudit, SaveCommit, SaveFails, Append
  <1>8. CASE RestoreDisplace \/ RestoreReturn
    BY <1>8 DEF RestoreDisplace, RestoreReturn, PrevOp, Tree
  <1>9. CASE Unlock \/ Agent
    BY <1>9 DEF Unlock, Agent, Forget, control
  <1>10. QED
    BY <1>1, <1>2, <1>3, <1>4, <1>5, <1>6, <1>7, <1>8, <1>9
       DEF Broker, Commit, Rollback, Restore

LEMMA NoneMovedNext ==
    ASSUME IInv, NoneMoved, LiveNext
    PROVE  NoneMoved'
  <1>1. disk'.status = "none" => disk.status = "none"
    BY StatusStep DEF Turns, IInv, LiveNext, QuietEditor, Next
  <1>2. SUFFICES ASSUME disk.status = "none" PROVE quarantine' = quarantine
    BY <1>1 DEF NoneMoved
  <1> USE <1>2 DEF IInv, CoreInv, TypeOK, RecordInv, StatusInv, Applying, Restoring,
                   trees, stores
  <1>3. CASE UndoBackup
    BY <1>3 DEF UndoBackup, FlagsInv, FlagsClear
  <1>4. CASE MoveBackup
    BY <1>4 DEF MoveBackup
  <1>5. CASE RestoreReturn
    BY <1>5 DEF RestoreReturn
  <1>6. CASE Commit /\ ~MoveBackup
    BY <1>6
       DEF Commit, CommitBegin, CommitCheck, StagePayload, Rescan, Cleanup,
           Prepare, JournalMove, JournalMoved, JournalInstall, Install,
           JournalInstalled, Verify, Finish, ClearApply, SavePlan, SaveTx,
           AuditCommit
  <1>7. CASE (Rollback /\ ~UndoBackup) \/ (Restore /\ ~RestoreReturn)
    BY <1>7
       DEF Rollback, UndoNew, UndoSave, UndoVerify, UndoAudit, Restore,
           RestoreBegin, RestoreCheck, RestoreDisplace, RestoreVerify,
           RestoreSave, RestoreAudit
  <1>8. CASE Unlock \/ Agent \/ QuietEditor
    BY <1>8 DEF Unlock, Agent, QuietEditor, Editor
  <1>9. QED
    BY <1>3, <1>4, <1>5, <1>6, <1>7, <1>8 DEF LiveNext, Broker

LEMMA FoundNext ==
    ASSUME EInv, Broker \/ Agent
    PROVE  FoundInv'
  <1>1. /\ TypeOK /\ TypeOK' /\ PlanInv /\ RecordInv /\ RecordInv'
        /\ [Next \/ Editor]_vars
    BY IInvNext DEF EInv, RInv, IInv, CoreInv, Next
  <1>2. mine' = mine /\ base' = base
    BY <1>1, BrokerStep, PlannedUnchanged DEF planned
  <1>3. SUFFICES ASSUME pc' \in Committing, NEW i \in Op, mine[i] # NoEntry
                 PROVE  mine[i] = base[i] /\ OpInv(i)'
    BY <1>2 DEF FoundInv
  <1>4. CASE pc \in Committing
    <2>1. mine[i] = base[i] /\ OpInv(i)
      BY <1>3, <1>4 DEF EInv, FoundInv
    <2>2. [Next \/ (Editor /\ live'[i] = live[i])]_vars
      BY DEF Next
    <2>3. QED
      BY <1>1, <2>1, <2>2, OpStep
  <1>5. CASE pc \notin Committing
    <2>1. CommitCheck
      BY <1>1, <1>3, <1>5, BrokerStep
    <2>2. /\ pc = "check" /\ pc' = "stage" /\ live = base
          /\ UNCHANGED <<live, quarantine, record, disk>>
      BY <1>3, <2>1
         DEF CommitCheck, trees, stores, Goto, GotoOp, Raise, IOError, Unwind,
             Committing, Staging, Applying, Undoing
    <2>3. /\ disk.status = "none" /\ disk' = disk
          /\ FlagsClear(i) /\ FlagsClear(i)'
          /\ quarantine[i] = NoEntry /\ displaced[i] = NoEntry
      BY <1>1, <2>2
         DEF RecordInv, StatusInv, FlagsInv, FlagsClear, EInv, NoneMoved, RInv,
             NoneDisplaced, EmptyStore
    <2>4. mine[i] = base[i]
      BY <1>3, <2>2, <2>3, OpFacts DEF EInv, Somewhere
    <2>5. OpInv(i)'
      BY <1>2, <2>2, <2>3 DEF OpInv, Safe, Fresh, FlagsClear
    <2>6. QED
      BY <2>4, <2>5
  <1>6. QED
    BY <1>4, <1>5

LEMMA RestoreNext ==
    ASSUME EInv, Broker \/ Agent
    PROVE  RestoreInv'
  <1>1. /\ TypeOK /\ TypeOK' /\ [Next \/ Editor]_vars /\ UNCHANGED planned
        /\ RecordInv /\ RestoreInv /\ SavedBefore /\ NoneDisplaced
    BY IInvNext, PlannedUnchanged DEF EInv, RInv, LedgerInv, IInv, CoreInv, Next
  <1> USE <1>1, OpFacts
      DEF TypeOK, RestoreInv, SavedBefore, Undoing, Applying, Staging, Restoring,
          planned, trees, stores, ledger, Goto, GotoOp, Raise, IOError, Unwind
  <1>2. CASE CommitBegin \/ CommitCheck \/ StagePayload \/ Rescan \/ Cleanup
    BY <1>2 DEF CommitBegin, CommitCheck, StagePayload, Rescan, Cleanup
  <1>3. CASE Prepare \/ JournalMove \/ JournalMoved \/ JournalInstall
            \/ JournalInstalled \/ Verify
    BY <1>3
       DEF Prepare, JournalMove, JournalMoved, JournalInstall,
           JournalInstalled, Verify, SaveCommit, SaveFails, NextOp
  <1>4. CASE MoveBackup \/ Install
    BY <1>4 DEF MoveBackup, Install
  <1>5. CASE Finish
    BY <1>5 DEF Finish, SaveCommit, SaveFails, NoneDisplaced, EmptyStore
  <1>6. CASE ClearApply \/ SavePlan \/ SaveTx \/ AuditCommit
    BY <1>6 DEF ClearApply, SavePlan, SaveTx, AuditCommit, Append
  <1>7. CASE UndoNew \/ UndoBackup
    BY <1>7 DEF UndoNew, UndoBackup, UndoFailed, PrevOp
  <1>8. CASE UndoSave \/ UndoVerify \/ UndoAudit
    BY <1>8 DEF UndoSave, UndoVerify, UndoAudit, SaveCommit, SaveFails, Append
  <1>9. CASE RestoreBegin \/ RestoreVerify \/ RestoreSave \/ RestoreAudit
    BY <1>9
       DEF RestoreBegin, RestoreVerify, RestoreSave, RestoreAudit, SaveCommit,
           SaveFails, Append
  <1>10. CASE RestoreCheck
    BY <1>10 DEF RestoreCheck
  <1>11. CASE RestoreDisplace
    <2>1. /\ pc = "r_displace" /\ live[cur] = staged[cur]
          /\ record.installed[cur] <=> staged[cur] # NoEntry
      BY <1>11 DEF RestoreDisplace, RecordInv, FlagsInv, FlagsDone, Restoring
    <2>2. \A i \in Op : i < cur => live'[i] = staged[i]
      BY <1>11 DEF RestoreDisplace, Tree
    <2>3. pc' = "r_return" => live'[cur] = NoEntry
      BY <1>11, <2>1 DEF RestoreDisplace, Tree
    <2>4. \A i \in Op : displaced'[i] \in {displaced[i], staged[i]}
      BY <1>11, <2>1 DEF RestoreDisplace, Store
    <2>5. /\ UNCHANGED <<cur, staged, planState>>
          /\ pc' \in {"r_return", "unlock"}
      BY <1>11 DEF RestoreDisplace
    <2>6. QED
      BY <2>1, <2>2, <2>3, <2>4, <2>5
  <1>12. CASE RestoreReturn
    <2>1. /\ pc = "r_return" /\ pc' \in {"r_displace", "r_verify", "unlock"}
          /\ pc' = "r_displace" => cur' = cur - 1
          /\ UNCHANGED <<staged, displaced, planState>>
      BY <1>12 DEF RestoreReturn, PrevOp
    <2>2. \A i \in Op : i < cur => live'[i] = staged[i]
      BY <1>12 DEF RestoreReturn, Tree
    <2>3. pc' = "r_displace" => \A i \in Op : i <= cur' => i < cur
      BY <2>1 DEF Op
    <2>4. QED
      BY <2>1, <2>2, <2>3
  <1>13. CASE Unlock \/ Agent
    BY <1>13 DEF Unlock, Agent, Forget, control
  <1>14. QED
    BY <1>2, <1>3, <1>4, <1>5, <1>6, <1>7, <1>8, <1>9, <1>10, <1>11, <1>12,
       <1>13 DEF Broker, Commit, Rollback, Restore

LEMMA SomewhereNext ==
    ASSUME EInv, Broker \/ Agent, NEW p \in Path
    PROVE  Somewhere(p)'
  <1>1. /\ TypeOK /\ TypeOK' /\ PlanInv /\ RecordInv /\ RecordInv'
        /\ RestoreInv /\ SavedInOrder /\ Somewhere(p)
    BY IInvNext DEF EInv, RInv, LedgerInv, IInv, CoreInv, Next
  <1>2. /\ mine' = mine /\ live'[0] = live[0] /\ base' = base
        /\ pc \notin Committing /\ ~RestoreDisplace /\ ~RestoreReturn =>
               UNCHANGED <<live, quarantine, displaced>>
    BY <1>1, BrokerStep, PlannedUnchanged DEF planned, Next
  <1>3. SUFFICES ASSUME mine[p] # NoEntry PROVE Somewhere(p)'
    BY <1>2 DEF Somewhere
  <1>4. CASE p \notin Op
    BY <1>1, <1>2, <1>3, <1>4, OpFacts DEF Somewhere
  <1>5. CASE p \in Op /\ pc \in Committing
    <2>1. mine[p] = base[p] /\ OpInv(p)
      BY <1>3, <1>5 DEF EInv, FoundInv
    <2>2. [Next \/ (Editor /\ live'[p] = live[p])]_vars
      BY DEF Next
    <2>3. Safe(p)'
      BY <1>1, <1>5, <2>1, <2>2, OpStep DEF OpInv
    <2>4. QED
      BY <1>2, <1>5, <2>1, <2>3 DEF Safe, Somewhere
  <1>6. CASE p \in Op /\ RestoreDisplace
    <2>1. pc = "r_displace" /\ live[cur] = staged[cur]
      BY <1>1, <1>6, OpFacts DEF RestoreDisplace, RestoreInv, TypeOK, Op
    <2>2. displaced[p] \in {NoEntry, staged[p]}
      BY <1>1, <1>6, <2>1 DEF RestoreInv, Restoring
    <2>3. QED
      BY <1>1, <1>2, <1>3, <1>6, <2>1, <2>2, OpFacts
         DEF RestoreDisplace, Somewhere, TypeOK, Tree, Store
  <1>7. CASE p \in Op /\ RestoreReturn
    BY <1>1, <1>2, <1>3, <1>7, OpFacts
       DEF RestoreReturn, RestoreInv, Somewhere, TypeOK, Tree, Store
  <1>8. CASE p \in Op /\ pc \notin Committing /\ ~RestoreDisplace
             /\ ~RestoreReturn
    BY <1>1, <1>2, <1>8 DEF Somewhere
  <1>9. QED
    BY <1>4, <1>5, <1>6, <1>7, <1>8

\* An editor finds no call under way: what it overwrites is an entry of its
\* own or one nobody wrote, and no step of the broker relied on it.
LEMMA EditorNext ==
    ASSUME EInv, QuietEditor
    PROVE  FoundInv' /\ RestoreInv' /\ \A p \in Path : Somewhere(p)'
  <1>1. /\ pc = "idle"
        /\ UNCHANGED <<planned, stores, ledger, pc>>
        /\ TypeOK
    BY DEF QuietEditor, Editor, control, ledger, EInv, RInv, IInv, CoreInv
  <1>2. FoundInv' /\ RestoreInv'
    BY <1>1
       DEF EInv, FoundInv, RestoreInv, Committing, Staging, Applying, Undoing,
           Restoring, planned, stores, ledger
  <1>3. PICK q \in Path, e \in Content :
            /\ live' = [live EXCEPT ![q] = e]
            /\ mine' = [mine EXCEPT ![q] = e]
    BY EditorPathsAssumption DEF QuietEditor, Editor
  <1>4. ASSUME NEW p \in Path PROVE Somewhere(p)'
    BY <1>1, <1>3, <1>4 DEF EInv, Somewhere, TypeOK, Tree, stores
  <1>5. QED
    BY <1>2, <1>4

LEMMA EInvNext == EInv /\ [LiveNext]_vars => EInv'
  <1> SUFFICES ASSUME EInv, [LiveNext]_vars PROVE EInv'
    OBVIOUS
  <1>1. RInv' /\ LedgerInv'
    BY RInvNext, LedgerNext DEF EInv, LiveNext, QuietEditor, Next
  <1>2. CASE LiveNext
    <2>1. NoneMoved'
      BY <1>2, NoneMovedNext DEF EInv, RInv
    <2>2. FoundInv' /\ RestoreInv' /\ \A p \in Path : Somewhere(p)'
      BY <1>2, FoundNext, RestoreNext, SomewhereNext, EditorNext DEF LiveNext
    <2>3. QED
      BY <1>1, <2>1, <2>2 DEF EInv
  <1>3. CASE UNCHANGED vars
    BY <1>1, <1>3
       DEF EInv, NoneMoved, FoundInv, RestoreInv, Somewhere, OpInv, Safe, Fresh,
           Kept, FlagsClear, FlagsDone, vars, planned, trees, stores, ledger,
           control, history
  <1>4. QED
    BY <1>2, <1>3

\* Whatever the size of the plan, beside editors that keep away from running
\* operations neither commit nor rollback nor restore loses what an editor
\* last wrote.
THEOREM UserEntriesAreKept == LiveSpec => []KeepsUserEntry
  <1>1. Init => EInv
    BY EInvInit
  <1>2. EInv /\ [Broker \/ Agent \/ QuietEditor]_vars => EInv'
    BY EInvNext DEF LiveNext
  <1>3. EInv => KeepsUserEntry
    BY DEF EInv, Somewhere, KeepsUserEntry
  <1>4. QED
    BY <1>1, <1>2, <1>3, PTL DEF LiveSpec
=============================================================================
