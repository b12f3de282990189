-------------------------- MODULE PowerLoss_proofs --------------------------
(* What a power loss cannot take: theorems about PowerLoss, for every plan,  *)
(* every set of contents and every set of paths that editors write.          *)
EXTENDS PowerLoss, CommitRefinement_proofs

----------------------------------------------------------------------------
(* The inductive invariant.  The machine may come back with any record and,  *)
(* root by root, any placement that no sync has settled; each pair of them   *)
(* must be sound at every instant.                                           *)

\* Operation i may be found in placement q under record r: the original is in
\* the one place or in the other, the journal names what is not the
\* original's, and under a committed record no result has gone.
Sound(q, r, i) ==
    /\ \/ q.quarantine = base[i]
       \/ q.quarantine = NoEntry /\ q.live = base[i]
    /\ q.live # base[i] => r.phase[i] # "pending"
    /\ r.status = "committed" /\ staged[i] # NoEntry =>
           q.displaced # NoEntry \/ q.live # NoEntry

Placements(i) == past[i] \cup {Placement[i]}
Records == older \cup {disk}

SoundInv ==
    \A i \in Op : Untouched(i) =>
        \A q \in Placements(i), r \in Records : Sound(q, r, i)

\* A record that may come back is one a save has written, and it names the
\* operations the broker would move back.
OlderInv ==
    \A r \in older :
        /\ r.status = "none" => r = NoRecord
        /\ r.status = "committed" =>
               /\ \A i \in Op : FlagsDone(r, i)
               /\ disk.status \in {"rolled_back", "rollback_failed",
                                   "restored"}
        /\ \A i \in Op : \/ r.moved[i] \/ r.installed[i]
                         \/ record.moved[i] \/ record.installed[i]
                       => r.phase[i] # "pending"

\* A save that raised is followed by the rollback or by nothing: in particular
\* no restore starts under a committed record that may not be there tomorrow.
OlderWhen ==
    /\ older # {} =>
           /\ disk.status # "none"
           /\ pc \in {"undo_new", "undo_backup", "undo_save", "unlock", "idle"}
           /\ disk.status = "committed" => planState = "pending"
    /\ pc \in {"check"} \cup Staging \cup Applying \cup Undoing =>
           planState = "pending"

\* While the machine may come back without a record, nothing has moved.
NothingMoved ==
    NoRecord \in Records =>
        \A i \in Op :
            /\ Untouched(i) => /\ past[i] = {}
                               /\ live[i] = base[i] /\ quarantine[i] = NoEntry
            /\ \A q \in Placements(i) : q.displaced = NoEntry

\* The loop over the operations has synced every rename but its last.
LoopSynced ==
    pc \in Applying =>
        \A i \in Op : Untouched(i) =>
            past[i] = {} \/ (pc \in {"moved", "installed"} /\ i = cur)

Where == [live : Entry, quarantine : Entry, displaced : Entry]
UnsyncedType == past \in [Op -> SUBSET Where] /\ older \subseteq Record

\* The result of an operation, as far as its name goes.
Named(i) == IF staged[i] = NoEntry THEN {NoEntry} ELSE Content

EngineInv ==
    /\ CoreInv /\ NoneDisplaced /\ FlagsAfter
    /\ \A i \in Op : Untouched(i) => ResultIn(i, Named(i))

PowerInv ==
    /\ EngineInv /\ UnsyncedType
    /\ SoundInv /\ OlderInv /\ OlderWhen /\ NothingMoved /\ LoopSynced

----------------------------------------------------------------------------
(* What the steps of the critical section do to records and placements.      *)

LEMMA PlacementAt ==
    \A i \in Op :
        /\ Placement[i] = [live |-> live[i], quarantine |-> quarantine[i],
                           displaced |-> displaced[i]]
        /\ Placement'[i] = [live |-> live'[i], quarantine |-> quarantine'[i],
                            displaced |-> displaced'[i]]
  BY DEF Placement

LEMMA PlacementFields ==
    \A i \in Op : /\ Placement[i].live = live[i]
                  /\ Placement[i].quarantine = quarantine[i]
                  /\ Placement[i].displaced = displaced[i]
                  /\ Placement'[i].live = live'[i]
                  /\ Placement'[i].quarantine = quarantine'[i]
                  /\ Placement'[i].displaced = displaced'[i]
  BY DEF Placement

LEMMA TrackFacts ==
    ASSUME Track
    PROVE  /\ \A i \in Op : past'[i] \subseteq past[i] \cup {Placement[i]}
           /\ \A i \in Op : Placement'[i] = Placement[i] =>
                                past'[i] \subseteq past[i]
           /\ \A i \in Op : i = cur /\ Fsync => past'[i] = {}
           /\ older' \subseteq older \cup {disk}
           /\ disk' = disk => older' = older
           /\ disk' # disk /\ ~CutShort => older' = {}
  BY DEF Track

\* A save of the record: where it is made and how it ends.
LEMMA SaveStep ==
    ASSUME CoreInv, [Next \/ Editor]_vars, disk' # disk
    PROVE  /\ pc \in Applying \cup {"undo_save", "r_save"}
           /\ UNCHANGED trees
           /\ planState' = planState
           /\ \A i \in Op : record'.moved[i] => record.moved[i]
           /\ \A i \in Op : record'.installed[i] => record.installed[i]
           /\ pc \notin Applying => disk'.status \in
                  {"rolled_back", "rollback_failed", "restored"}
           /\ CutShort => /\ pc' \in {"undo_new", "unlock"}
                          /\ pc \in Applying <=> pc' = "undo_new"
  <1> USE DEF CoreInv, TypeOK, Applying, CutShort, ledger
  <1>1. CASE Prepare
    <2>1. /\ pc = "prepare" /\ UNCHANGED trees /\ UNCHANGED ledger
          /\ pc' \in {"moving", "installing", "verify", "undo_new"}
      BY <1>1 DEF Prepare, SaveFails, NextOp, Goto, GotoOp, IOError, Unwind,
                  Staging
    <2>2. record' = WithStatus(NoRecord, "prepared")
      BY <1>1 DEF Prepare, SaveCommit, SaveFails
    <2>3. QED
      BY <2>1, <2>2, PreparedFields
  <1>2. CASE JournalMove \/ JournalInstall
    <2>1. /\ pc \in {"moving", "installing"}
          /\ UNCHANGED trees /\ UNCHANGED ledger
          /\ pc' \in {"move", "install", "undo_new"}
          /\ \E p \in {"moving_backup", "installing"} :
                 record' = WithPhase(record, cur, p)
      BY <1>2 DEF JournalMove, JournalInstall, SaveCommit, SaveFails, Goto,
                  Raise, IOError, Unwind, Staging
    <2>2. QED
      BY <2>1, PhaseFields, NameFacts
  <1>3. CASE JournalMoved \/ JournalInstalled
    BY <1>3 DEF JournalMoved, JournalInstalled, SaveCommit, SaveFails, NextOp,
                Goto, GotoOp, IOError, Unwind, Staging
  <1>4. CASE Finish
    <2>1. /\ pc = "finish" /\ UNCHANGED trees /\ UNCHANGED ledger
          /\ pc' \in {"clear", "undo_new"}
          /\ record' = Completed(record)
      BY <1>4 DEF Finish, SaveCommit, SaveFails, Goto, IOError, Unwind, Staging
    <2>2. QED
      BY <2>1, FieldFacts
  <1>5. CASE UndoSave \/ RestoreSave
    <2>1. /\ pc \in {"undo_save", "r_save"}
          /\ UNCHANGED trees /\ UNCHANGED ledger
          /\ pc' \in {"undo_verify", "undo_audit", "r_audit", "unlock"}
          /\ \E s \in {"rolled_back", "rollback_failed", "restored"} :
                 record' = WithStatus(record, s)
          /\ disk' \in {disk, record'}
      BY <1>5 DEF UndoSave, RestoreSave, SaveCommit, SaveFails, Goto, IOError,
                  Unwind, Staging
    <2>2. QED
      BY <2>1, FieldFacts, NameFacts
  <1>6. CASE CommitBegin \/ CommitCheck \/ StagePayload \/ Rescan \/ Cleanup
            \/ MoveBackup \/ Install \/ Verify \/ ClearApply \/ SavePlan \/
            SaveTx \/ AuditCommit \/ UndoNew \/ UndoBackup \/ UndoVerify \/
            UndoAudit \/ RestoreBegin \/ RestoreCheck \/ RestoreDisplace \/
            RestoreReturn \/ RestoreVerify \/ RestoreAudit \/ Unlock \/
            Interrupt \/ Crash \/ Agent \/ Editor \/ UNCHANGED vars
    BY <1>6 DEF CommitBegin, CommitCheck, StagePayload, Rescan, Cleanup,
           MoveBackup, Install, Verify, ClearApply, SavePlan, SaveTx,
           AuditCommit, UndoNew, UndoBackup, UndoVerify, UndoAudit,
           RestoreBegin, RestoreCheck, RestoreDisplace, RestoreReturn,
           RestoreVerify, RestoreAudit, Unlock, Interrupt, Crash, Agent,
           Editor, vars
  <1>7. QED
    BY <1>1, <1>2, <1>3, <1>4, <1>5, <1>6
       DEF Next, Broker, Commit, Rollback, Restore

\* An operation named as begun stays named.
LEMMA PhaseKept ==
    ASSUME CoreInv, [Next \/ Editor]_vars, NEW i \in Op,
           disk.phase[i] # "pending"
    PROVE  disk'.phase[i] # "pending"
  <1> USE DEF CoreInv, TypeOK, RecordInv, PhaseInv, Applying, Undoing, Restoring
  <1>1. CASE Prepare
    BY <1>1, NoRecordFacts DEF Prepare, StatusInv, FlagsInv, Staging
  <1>2. CASE JournalMove \/ JournalInstall
    <2>1. \/ disk' = disk
          \/ /\ disk' = record'
             /\ \E p \in {"moving_backup", "installing"} :
                    record' = WithPhase(record, cur, p)
             /\ pc \in {"moving", "installing"}
      BY <1>2 DEF JournalMove, JournalInstall, SaveCommit, SaveFails
    <2>2. QED
      BY <2>1, PhaseFields, NameFacts
  <1>3. CASE JournalMoved \/ JournalInstalled
    BY <1>3 DEF JournalMoved, JournalInstalled, SaveCommit, SaveFails
  <1>4. CASE Finish
    BY <1>4, FieldFacts DEF Finish, SaveCommit, SaveFails
  <1>5. CASE UndoSave \/ RestoreSave
    <2>1. \/ disk' = disk
          \/ /\ pc \in {"undo_save", "r_save"}
             /\ \E s \in {"rolled_back", "rollback_failed", "restored"} :
                    disk' = WithStatus(record, s)
      BY <1>5 DEF UndoSave, RestoreSave, SaveCommit, SaveFails
    <2>2. QED
      BY <2>1, FieldFacts, NameFacts
  <1>6. CASE ~(Prepare \/ JournalMove \/ JournalInstall \/ JournalMoved
               \/ JournalInstalled \/ Finish \/ UndoSave \/ RestoreSave)
    <2>1. disk' = disk
      BY <1>6
         DEF Next, Broker, Commit, Rollback, Restore, CommitBegin, CommitCheck,
             StagePayload, Rescan, Cleanup, MoveBackup, Install, Verify,
             ClearApply, SavePlan, SaveTx, AuditCommit, UndoNew, UndoBackup,
             UndoVerify, UndoAudit, RestoreBegin, RestoreCheck,
             RestoreDisplace, RestoreReturn, RestoreVerify, RestoreAudit,
             Unlock, Interrupt, Crash, Agent, Editor, vars
    <2>2. QED
      BY <2>1
  <1>7. QED
    BY <1>1, <1>2, <1>3, <1>4, <1>5, <1>6

\* The renames, and what each needs.
LEMMA RenameStep ==
    ASSUME TypeOK, [Next \/ Editor]_vars, NEW i \in Op, Untouched(i)',
           Placement'[i] # Placement[i]
    PROVE  /\ i = cur /\ disk' = disk
           /\ \/ MoveBackup /\ pc = "move"
              \/ Install /\ pc = "install"
              \/ UndoNew /\ pc = "undo_new" /\ record.installed[i]
              \/ UndoBackup /\ pc = "undo_backup" /\ record.moved[i]
              \/ RestoreDisplace /\ pc = "r_displace"
              \/ RestoreReturn /\ pc = "r_return"
  <1>1. \/ live'[i] # live[i] \/ quarantine'[i] # quarantine[i]
        \/ displaced'[i] # displaced[i]
    BY PlacementAt
  <1> USE OpFacts DEF TypeOK, trees, stores
  <1>2. CASE MoveBackup \/ Install \/ RestoreDisplace \/ RestoreReturn
    BY <1>1, <1>2 DEF MoveBackup, Install, RestoreDisplace, RestoreReturn, Tree,
                      Store
  <1>3. CASE UndoNew \/ UndoBackup
    BY <1>1, <1>3 DEF UndoNew, UndoBackup, Tree, Store
  <1>4. CASE Editor
    BY <1>1, <1>4, NoEntryAssumption, EditorPathsAssumption
       DEF Editor, Untouched, Tree
  <1>5. CASE CommitBegin \/ CommitCheck \/ StagePayload \/ Rescan \/ Cleanup
            \/ Prepare \/ JournalMove \/ JournalMoved \/ JournalInstall
            \/ JournalInstalled \/ Verify \/ Finish \/ ClearApply \/ SavePlan
            \/ SaveTx \/ AuditCommit \/ UndoSave \/ UndoVerify \/ UndoAudit
            \/ RestoreBegin \/ RestoreCheck \/ RestoreVerify \/ RestoreSave
            \/ RestoreAudit \/ Unlock \/ Interrupt \/ Crash \/ Agent
            \/ UNCHANGED vars
    BY <1>1, <1>5
       DEF CommitBegin, CommitCheck, StagePayload, Rescan, Cleanup, Prepare,
           JournalMove, JournalMoved, JournalInstall, JournalInstalled, Verify,
           Finish, ClearApply, SavePlan, SaveTx, AuditCommit, UndoSave,
           UndoVerify, UndoAudit, RestoreBegin, RestoreCheck, RestoreVerify,
           RestoreSave, RestoreAudit, Unlock, Interrupt, Crash, Agent, vars
  <1>6. QED
    BY <1>2, <1>3, <1>4, <1>5 DEF Next, Broker, Commit, Rollback, Restore

\* The flags in memory come from renames, or from the disk.
LEMMA FlagStep ==
    ASSUME CoreInv, [Next \/ Editor]_vars, ~RestoreBegin,
           pc \notin {"move", "install"}, NEW i \in Op
    PROVE  /\ record'.moved[i] => record.moved[i]
           /\ record'.installed[i] => record.installed[i]
  <1> USE DEF CoreInv, TypeOK
  <1>1. CASE disk' # disk
    BY <1>1, SaveStep
  <1>2. CASE Prepare \/ Unlock \/ Crash
    BY <1>2, PreparedFields, NoRecordFacts
       DEF Prepare, SaveCommit, SaveFails, Unlock, Crash, Forget
  <1>3. CASE JournalMove \/ JournalInstall \/ UndoBackup \/ RestoreReturn
    <2>1. \/ record' = record
          \/ \E p \in {"moving_backup", "installing", "rolled_back",
                       "restored"} : record' = WithPhase(record, cur, p)
      BY <1>3
         DEF JournalMove, JournalInstall, UndoBackup, RestoreReturn, SaveCommit,
             SaveFails
    <2>2. QED
      BY <2>1, PhaseFields, NameFacts
  <1>4. CASE Finish \/ UndoSave \/ RestoreSave
    <2>1. \/ record' = Completed(record)
          \/ \E s \in {"rolled_back", "rollback_failed", "restored"} :
                 record' = WithStatus(record, s)
      BY <1>4 DEF Finish, UndoSave, RestoreSave, SaveCommit, SaveFails
    <2>2. QED
      BY <2>1, FieldFacts, NameFacts
  <1>5. CASE CommitBegin \/ CommitCheck \/ StagePayload \/ Rescan \/ Cleanup
            \/ MoveBackup \/ JournalMoved \/ Install \/ JournalInstalled
            \/ Verify \/ ClearApply \/ SavePlan \/ SaveTx \/ AuditCommit
            \/ UndoNew \/ UndoVerify \/ UndoAudit \/ RestoreCheck
            \/ RestoreDisplace \/ RestoreVerify \/ RestoreAudit \/ Interrupt
            \/ Agent \/ Editor \/ UNCHANGED vars
    BY <1>5
       DEF CommitBegin, CommitCheck, StagePayload, Rescan, Cleanup, MoveBackup,
           JournalMoved, Install, JournalInstalled, Verify, ClearApply,
           SavePlan, SaveTx, AuditCommit, UndoNew, UndoVerify, UndoAudit,
           RestoreCheck, RestoreDisplace, RestoreVerify, RestoreAudit,
           Interrupt, Agent, Editor, SaveCommit, SaveFails, vars
  <1>6. QED
    BY <1>2, <1>3, <1>4, <1>5 DEF Next, Broker, Commit, Rollback, Restore

\* Where the broker goes from the rollback, the unlocking or its next call.
LEMMA QuietStep ==
    ASSUME CoreInv, [Next \/ Editor]_vars, ~CommitBegin, ~RestoreBegin,
           pc \in {"undo_new", "undo_backup", "undo_save", "unlock", "idle"}
    PROVE  /\ \/ pc' \in {"undo_new", "undo_backup", "undo_save", "unlock",
                         "idle"}
              \/ disk' # disk /\ ~CutShort
           /\ planState' = planState
  <1> USE DEF CoreInv, TypeOK, RecordInv, StatusInv, Staging, Applying, Restoring
  <1>1. CASE UndoNew \/ UndoBackup
    BY <1>1 DEF UndoNew, UndoBackup, UndoFailed, PrevOp, Goto, ledger
  <1>2. CASE UndoSave
    <2>1. \/ pc' = "unlock"
          \/ /\ pc' \in {"undo_audit", "undo_verify"}
             /\ \E s \in {"rolled_back", "rollback_failed"} :
                   disk' = WithStatus(record, s)
      BY <1>2 DEF UndoSave, SaveCommit, SaveFails, Goto, IOError, Unwind
    <2>2. pc = "undo_save" /\ UNCHANGED ledger
      BY <1>2 DEF UndoSave
    <2>3. CASE pc' = "unlock"
      BY <2>2, <2>3 DEF ledger
    <2>4. CASE pc' \in {"undo_audit", "undo_verify"}
      <3>1. disk' # disk
        BY <2>1, <2>2, <2>4, FieldFacts, NameFacts
      <3>2. ~CutShort
        BY <2>2, <2>4 DEF CutShort
      <3>3. QED
        BY <2>2, <3>1, <3>2 DEF ledger
    <2>5. QED
      BY <2>1, <2>3, <2>4
  <1>3. CASE Unlock \/ Interrupt \/ Crash \/ Agent \/ Editor \/ UNCHANGED vars
    BY <1>3 DEF Unlock, Interrupt, Crash, Agent, Editor, Goto, Forget, ledger,
                vars, control
  <1>4. CASE CommitCheck \/ StagePayload \/ Rescan \/ Cleanup \/ Prepare
            \/ JournalMove \/ MoveBackup \/ JournalMoved \/ JournalInstall
            \/ Install \/ JournalInstalled \/ Verify \/ Finish \/ ClearApply
            \/ SavePlan \/ SaveTx \/ AuditCommit \/ UndoVerify \/ UndoAudit
            \/ RestoreCheck \/ RestoreDisplace \/ RestoreReturn
            \/ RestoreVerify \/ RestoreSave \/ RestoreAudit
    BY <1>4
       DEF CommitCheck, StagePayload, Rescan, Cleanup, Prepare, JournalMove,
           MoveBackup, JournalMoved, JournalInstall, Install, JournalInstalled,
           Verify, Finish, ClearApply, SavePlan, SaveTx, AuditCommit,
           UndoVerify, UndoAudit, RestoreCheck, RestoreDisplace, RestoreReturn,
           RestoreVerify, RestoreSave, RestoreAudit
  <1>5. QED
    BY <1>1, <1>2, <1>3, <1>4 DEF Next, Broker, Commit, Rollback, Restore

\* A plan is pending until commit has done all the rest.
LEMMA PendingStep ==
    ASSUME TypeOK, [Next \/ Editor]_vars,
           pc \in {"check"} \cup Staging \cup Applying \cup Undoing =>
               planState = "pending",
           pc' \in {"check"} \cup Staging \cup Applying \cup Undoing
    PROVE  planState' = "pending"
  <1> USE DEF TypeOK, Staging, Applying, Undoing, ledger, Goto, GotoOp, Raise,
              IOError, Unwind
  <1>1. CASE CommitBegin \/ CommitCheck \/ StagePayload \/ Rescan \/ Cleanup
            \/ Unlock \/ Interrupt \/ Crash \/ Agent \/ Editor
            \/ UNCHANGED vars
    BY <1>1 DEF CommitBegin, CommitCheck, StagePayload, Rescan, Cleanup, Unlock,
                Interrupt, Crash, Agent, Editor, Forget, control, vars
  <1>2. CASE Prepare \/ JournalMove \/ MoveBackup \/ JournalMoved
            \/ JournalInstall \/ Install \/ JournalInstalled \/ Verify
            \/ Finish
    BY <1>2 DEF Prepare, JournalMove, MoveBackup, JournalMoved, JournalInstall,
                Install, JournalInstalled, Verify, Finish
  <1>3. CASE ClearApply \/ SavePlan \/ SaveTx \/ AuditCommit
    BY <1>3 DEF ClearApply, SavePlan, SaveTx, AuditCommit, Append
  <1>4. CASE UndoNew \/ UndoBackup \/ UndoSave \/ UndoVerify \/ UndoAudit
    BY <1>4 DEF UndoNew, UndoBackup, UndoSave, UndoVerify, UndoAudit
  <1>5. CASE RestoreBegin \/ RestoreCheck \/ RestoreDisplace \/ RestoreReturn
            \/ RestoreVerify \/ RestoreSave \/ RestoreAudit
    BY <1>5 DEF RestoreBegin, RestoreCheck, RestoreDisplace, RestoreReturn,
                RestoreVerify, RestoreSave, RestoreAudit, SaveCommit, SaveFails,
                PrevOp, Append
  <1>6. QED
    BY <1>1, <1>2, <1>3, <1>4, <1>5
       DEF Next, Broker, Commit, Rollback, Restore

\* How the loop over the operations goes on.
LEMMA LoopStep ==
    ASSUME TypeOK, [Next \/ Editor]_vars, pc' \in Applying
    PROVE  \/ pc' = pc /\ cur' = cur
           \/ pc = "rescan" /\ pc' = "prepare"
           \/ pc = "move" /\ pc' = "moved" /\ cur' = cur
           \/ pc = "install" /\ pc' = "installed" /\ cur' = cur
           \/ pc \in {"moved", "installed"} /\ ~CutShort
           \/ pc \in Applying \ {"move", "install", "moved", "installed"}
  <1> USE DEF TypeOK, Staging, Applying, Goto, GotoOp, Raise, IOError, Unwind,
              CutShort
  <1>1. CASE CommitBegin \/ CommitCheck \/ StagePayload \/ Rescan \/ Cleanup
            \/ Unlock \/ Interrupt \/ Crash \/ Agent \/ Editor
            \/ UNCHANGED vars
    BY <1>1 DEF CommitBegin, CommitCheck, StagePayload, Rescan, Cleanup, Unlock,
                Interrupt, Crash, Agent, Editor, Forget, control, vars
  <1>2. CASE Prepare \/ JournalMove \/ JournalInstall \/ Verify \/ Finish
    BY <1>2 DEF Prepare, JournalMove, JournalInstall, Verify, Finish
  <1>3. CASE MoveBackup \/ Install
    BY <1>3 DEF MoveBackup, Install
  <1>4. CASE JournalMoved \/ JournalInstalled
    BY <1>4 DEF JournalMoved, JournalInstalled, SaveFails, NextOp
  <1>5. CASE ClearApply \/ SavePlan \/ SaveTx \/ AuditCommit
    BY <1>5 DEF ClearApply, SavePlan, SaveTx, AuditCommit, Append
  <1>6. CASE UndoNew \/ UndoBackup \/ UndoSave \/ UndoVerify \/ UndoAudit
    BY <1>6 DEF UndoNew, UndoBackup, UndoSave, UndoVerify, UndoAudit, UndoFailed,
                PrevOp, SaveFails, Append
  <1>7. CASE RestoreBegin \/ RestoreCheck \/ RestoreDisplace \/ RestoreReturn
            \/ RestoreVerify \/ RestoreSave \/ RestoreAudit
    BY <1>7 DEF RestoreBegin, RestoreCheck, RestoreDisplace, RestoreReturn,
                RestoreVerify, RestoreSave, RestoreAudit, SaveCommit, SaveFails,
                PrevOp, Append
  <1>8. QED
    BY <1>1, <1>2, <1>3, <1>4, <1>5, <1>6, <1>7
       DEF Next, Broker, Commit, Rollback, Restore

----------------------------------------------------------------------------
(* A step of the broker, the agent or an editor.                             *)

\* PowerInv, with the step taken and the engine's own part of the conclusion.
Stepping ==
    /\ PowerInv /\ (Next \/ Editor) /\ Track
    /\ EngineInv' /\ \A i \in Op : Untouched(i)' => Untouched(i)

LEMMA EngineNext == EngineInv /\ (Next \/ Editor) => EngineInv'
  <1> SUFFICES ASSUME EngineInv, Next \/ Editor PROVE EngineInv'
    OBVIOUS
  <1>1. /\ CoreInv /\ CoreInv' /\ TypeOK /\ TypeOK'
    BY CoreNext DEF EngineInv, CoreInv
  <1>2. NoneDisplaced' /\ FlagsAfter'
    BY <1>1, NoneDisplacedNext, FlagsAfterNext DEF EngineInv
  <1>3. ASSUME NEW i \in Op, Untouched(i)' PROVE ResultIn(i, Named(i))'
    <2>1. Untouched(i) /\ ResultIn(i, Named(i))
      BY <1>1, <1>3, UntouchedBefore, OpFacts DEF EngineInv
    <2>2. PICK E : E = Named(i)
      OBVIOUS
    <2>3. staged[i] \in E /\ (NoEntry \in E => staged[i] = NoEntry)
      BY <1>1, <2>2, OpFacts, NoEntryAssumption DEF TypeOK, Tree, Entry, Named
    <2>4. ResultIn(i, E)'
      <3>1. ResultIn(i, E)
        BY <2>1, <2>2
      <3>2. NoneDisplaced /\ FlagsAfter
        BY DEF EngineInv
      <3>3. QED
        BY <1>1, <1>3, <2>1, <2>3, <3>1, <3>2, ResultNext
    <2>5. E = Named(i)'
      BY <2>2, PlannedUnchanged DEF Named, planned
    <2>6. QED
      BY <2>4, <2>5 DEF ResultIn, Aside
  <1>4. QED
    BY <1>1, <1>2, <1>3 DEF EngineInv, Untouched

LEMMA UnsyncedTypeNext ==
    ASSUME Stepping
    PROVE  UnsyncedType'
  <1>1. \A i \in Op : Placement[i] \in Where
    <2>1. \A i \in Op : /\ live[i] \in Entry /\ quarantine[i] \in Entry
                       /\ displaced[i] \in Entry
      BY OpFacts
         DEF Stepping, PowerInv, EngineInv, CoreInv, TypeOK, Tree, Store
    <2>2. QED
      BY <2>1 DEF Placement, Where
  <1>2. \A i \in Op : past'[i] \subseteq Where
    BY <1>1, TrackFacts DEF Stepping, PowerInv, UnsyncedType
  <1>3. past' \in [Op -> SUBSET Where]
    BY <1>2 DEF Stepping, Track
  <1>4. older' \subseteq Record
    BY TrackFacts
       DEF Stepping, PowerInv, EngineInv, CoreInv, TypeOK, UnsyncedType
  <1>5. QED
    BY <1>3, <1>4 DEF UnsyncedType

\* An older record stays older, or the one on disk becomes it.
LEMMA OlderStep ==
    ASSUME Stepping, NEW r \in older'
    PROVE  \/ r \in older /\ pc \in {"undo_new", "undo_backup", "undo_save",
                                    "unlock", "idle"}
                          /\ ~CommitBegin /\ ~RestoreBegin
           \/ r = disk /\ disk' # disk /\ CutShort
  <1>1. CASE r \in older
    <2>1. ~CommitBegin /\ ~RestoreBegin
      BY <1>1, NoRecordFacts
         DEF Stepping, PowerInv, OlderWhen, CommitBegin, RestoreBegin
    <2>2. QED
      BY <1>1, <2>1 DEF Stepping, PowerInv, OlderWhen
  <1>2. CASE r \notin older
    BY <1>2, TrackFacts DEF Stepping
  <1>3. QED
    BY <1>1, <1>2

LEMMA OlderNext ==
    ASSUME Stepping
    PROVE  OlderInv'
  <1> SUFFICES ASSUME NEW r \in older'
               PROVE  /\ r.status = "none" => r = NoRecord
                      /\ r.status = "committed" =>
                             /\ \A i \in Op : FlagsDone(r, i)'
                             /\ disk'.status \in {"rolled_back",
                                                 "rollback_failed", "restored"}
                      /\ \A i \in Op : \/ r.moved[i] \/ r.installed[i]
                                       \/ record'.moved[i]
                                       \/ record'.installed[i]
                                     => r.phase[i] # "pending"
    BY DEF OlderInv, FlagsDone
  <1>1. /\ CoreInv /\ [Next \/ Editor]_vars /\ UNCHANGED planned
        /\ RecordInv /\ OlderInv
    BY PlannedUnchanged DEF Stepping, PowerInv, EngineInv, CoreInv
  <1>2. CASE /\ r \in older /\ ~CommitBegin /\ ~RestoreBegin
             /\ pc \in {"undo_new", "undo_backup", "undo_save", "unlock",
                        "idle"}
    <2>1. \A i \in Op : /\ record'.moved[i] => record.moved[i]
                        /\ record'.installed[i] => record.installed[i]
      BY <1>1, <1>2, FlagStep
    <2>2. r.status = "committed" => disk' = disk
      <3>1. disk.status \in {"rolled_back", "rollback_failed", "restored"} =>
                pc \in {"unlock", "idle"}
        BY <1>1, <1>2 DEF RecordInv, StatusInv
      <3>2. QED
        BY <1>1, <1>2, <3>1, SaveStep DEF OlderInv, Applying
    <2>3. QED
      BY <1>1, <1>2, <2>1, <2>2 DEF OlderInv, FlagsDone, planned
  <1>3. CASE r = disk /\ disk' # disk /\ CutShort
    <2>1. /\ \A i \in Op : /\ record'.moved[i] => record.moved[i]
                           /\ record'.installed[i] => record.installed[i]
          /\ pc \in Applying \cup {"undo_save", "r_save"}
      BY <1>1, <1>3, SaveStep
    <2>2. disk.status = "committed" =>
              disk'.status \in {"rolled_back", "rollback_failed", "restored"}
      BY <1>1, <1>3, SaveStep DEF RecordInv, StatusInv
    <2>3. QED
      BY <1>1, <1>3, <2>1, <2>2
         DEF RecordInv, FlagsInv, AheadInv, FlagsDone, planned
  <1>4. QED
    BY <1>2, <1>3, OlderStep

LEMMA OlderWhenNext ==
    ASSUME Stepping
    PROVE  OlderWhen'
  <1>1. /\ CoreInv /\ TypeOK /\ RecordInv /\ OlderWhen /\ RecordInv'
        /\ [Next \/ Editor]_vars
    BY DEF Stepping, PowerInv, EngineInv, CoreInv
  <1>2. pc' \in {"check"} \cup Staging \cup Applying \cup Undoing =>
            planState' = "pending"
    BY <1>1, PendingStep DEF OlderWhen
  <1>3. ASSUME NEW r \in older'
        PROVE  /\ disk'.status # "none"
               /\ pc' \in {"undo_new", "undo_backup", "undo_save", "unlock",
                           "idle"}
               /\ disk'.status = "committed" => planState' = "pending"
    <2>1. disk.status # "none" => disk'.status # "none"
      BY <1>1, StatusStep DEF Turns
    <2>2. CASE /\ r \in older /\ ~CommitBegin /\ ~RestoreBegin
               /\ pc \in {"undo_new", "undo_backup", "undo_save", "unlock",
                          "idle"}
      <3>1. ~(disk' # disk /\ ~CutShort)
        BY TrackFacts DEF Stepping
      <3>2. /\ planState' = planState
            /\ pc' \in {"undo_new", "undo_backup", "undo_save", "unlock",
                        "idle"}
        BY <1>1, <2>2, <3>1, QuietStep
      <3>3. disk'.status = "committed" => disk.status = "committed"
        BY <1>1, <2>2, StatusStep DEF Finish
      <3>4. QED
        BY <1>1, <2>1, <2>2, <3>2, <3>3 DEF OlderWhen
    <2>3. CASE r = disk /\ disk' # disk /\ CutShort
      <3>1. /\ pc' \in {"undo_new", "unlock"} /\ planState' = planState
            /\ pc \in Applying \cup {"undo_save", "r_save"}
        BY <1>1, <2>3, SaveStep
      <3>2. disk'.status # "none"
        BY <1>1, <2>1, <2>3 DEF RecordInv, FlagsInv
      <3>3. disk'.status = "committed" => planState' = "pending"
        BY <1>1, <2>3, <3>1, SaveStep DEF OlderWhen
      <3>4. QED
        BY <3>1, <3>2, <3>3
    <2>4. QED
      BY <2>2, <2>3, OlderStep
  <1>4. QED
    BY <1>2, <1>3 DEF OlderWhen

\* While no record may be what the machine finds, no rename is made.
LEMMA NothingRenamed ==
    ASSUME Stepping, NoRecord \in Records'
    PROVE  /\ NoRecord \in Records
           /\ displaced' = displaced
           /\ \A i \in Op : Untouched(i)' => Placement'[i] = Placement[i]
  <1>1. /\ CoreInv /\ TypeOK /\ RecordInv /\ OlderWhen /\ OlderInv
        /\ [Next \/ Editor]_vars
    BY DEF Stepping, PowerInv, EngineInv, CoreInv
  <1>2. NoRecord \in Records
    <2>1. CASE NoRecord = disk'
      <3>1. disk.status = "none"
        BY <1>1, <2>1, StatusStep, NoRecordFacts DEF Turns
      <3>2. QED
        BY <1>1, <3>1 DEF RecordInv, FlagsInv, Records
    <2>2. CASE NoRecord \in older'
      BY <2>2, TrackFacts DEF Stepping, Records
    <2>3. QED
      BY <2>1, <2>2 DEF Records
  <1>3. \A i \in Op : FlagsClear(i)
    BY <1>1, <1>2, NoRecordFacts
       DEF OlderInv, Records, RecordInv, FlagsInv, FlagsClear
  <1>4. pc \notin {"move", "install", "r_displace", "r_return"}
    BY <1>1, <1>2, NoRecordFacts
       DEF OlderWhen, Records, RecordInv, StatusInv, Applying, Restoring
  <1>5. displaced' = displaced
    <2>1. CASE UndoNew
      BY <1>1, <1>3, <2>1 DEF UndoNew, FlagsClear, TypeOK
    <2>2. CASE RestoreDisplace
      BY <1>4, <2>2 DEF RestoreDisplace
    <2>3. CASE Commit \/ (Rollback /\ ~UndoNew)
      BY <2>3
         DEF Commit, Rollback, CommitBegin, CommitCheck, StagePayload, Rescan,
             Cleanup, Prepare, JournalMove, MoveBackup, JournalMoved,
             JournalInstall, Install, JournalInstalled, Verify, Finish,
             ClearApply, SavePlan, SaveTx, AuditCommit, UndoBackup, UndoSave,
             UndoVerify, UndoAudit, trees, stores
    <2>4. CASE (Restore /\ ~RestoreDisplace) \/ Unlock \/ Interrupt \/ Crash
               \/ Agent \/ Editor
      BY <2>4
         DEF Restore, RestoreBegin, RestoreCheck, RestoreReturn, RestoreVerify,
             RestoreSave, RestoreAudit, Unlock, Interrupt, Crash, Agent,
             Editor, trees, stores
    <2>5. QED
      BY <2>1, <2>2, <2>3, <2>4 DEF Stepping, Next, Broker
  <1>6. ASSUME NEW i \in Op, Untouched(i)', Placement'[i] # Placement[i]
        PROVE  FALSE
    BY <1>1, <1>3, <1>4, <1>6, RenameStep DEF FlagsClear
  <1>7. QED
    BY <1>2, <1>5, <1>6

LEMMA NothingMovedNext ==
    ASSUME Stepping
    PROVE  NothingMoved'
  <1> SUFFICES ASSUME NoRecord \in Records', NEW i \in Op
               PROVE  /\ Untouched(i)' =>
                             /\ past'[i] = {} /\ live'[i] = base'[i]
                             /\ quarantine'[i] = NoEntry
                      /\ \A q \in Placements(i)' : q.displaced = NoEntry
    BY DEF NothingMoved, Untouched
  <1>1. /\ NoRecord \in Records /\ displaced' = displaced
        /\ Untouched(i)' => Placement'[i] = Placement[i]
        /\ base' = base /\ [Next \/ Editor]_vars
    BY NothingRenamed, PlannedUnchanged DEF Stepping, planned
  <1>2. /\ Untouched(i) => /\ past[i] = {} /\ live[i] = base[i]
                           /\ quarantine[i] = NoEntry
        /\ \A q \in Placements(i) : q.displaced = NoEntry
    BY <1>1 DEF Stepping, PowerInv, NothingMoved
  <1>3. ASSUME Untouched(i)'
        PROVE  /\ past'[i] = {} /\ live'[i] = base'[i]
               /\ quarantine'[i] = NoEntry
    <2>1. past'[i] = {}
      BY <1>1, <1>2, <1>3, TrackFacts DEF Stepping
    <2>2. /\ past[i] = {} /\ live[i] = base[i] /\ quarantine[i] = NoEntry
          /\ live'[i] = live[i] /\ quarantine'[i] = quarantine[i]
      BY <1>1, <1>2, <1>3, PlacementFields DEF Stepping
    <2>3. QED
      BY <1>1, <2>1, <2>2
  <1>4. ASSUME NEW q \in Placements(i)' PROVE q.displaced = NoEntry
    <2>1. displaced[i] = NoEntry
      BY <1>2, PlacementFields DEF Placements
    <2>2. CASE q = Placement'[i]
      BY <1>1, <2>1, <2>2, PlacementFields
    <2>3. CASE q \in past'[i]
      BY <1>2, <2>3, TrackFacts DEF Stepping, Placements
    <2>4. QED
      BY <1>4, <2>2, <2>3 DEF Placements
  <1>5. QED
    BY <1>3, <1>4

LEMMA LoopSyncedNext ==
    ASSUME Stepping
    PROVE  LoopSynced'
  <1> SUFFICES ASSUME pc' \in Applying, NEW i \in Op, Untouched(i)',
                      ~(pc' \in {"moved", "installed"} /\ i = cur')
               PROVE  past'[i] = {}
    BY DEF LoopSynced, Untouched
  <1>1. /\ TypeOK /\ [Next \/ Editor]_vars /\ RecordInv /\ Untouched(i)
        /\ LoopSynced /\ NothingMoved
    BY DEF Stepping, PowerInv, EngineInv, CoreInv
  <1>2. Placement'[i] = Placement[i] \/ i = cur
    BY <1>1, RenameStep
  <1>3. pc \notin {"move", "install"} /\ pc \in Applying \cup {"rescan"} =>
            Placement'[i] = Placement[i]
    BY <1>1, RenameStep DEF Applying
  <1>4. Placement'[i] = Placement[i] => past'[i] \subseteq past[i]
    BY TrackFacts DEF Stepping
  <1>5. CASE pc = "rescan"
    <2>1. past[i] = {}
      BY <1>1, <1>5
         DEF RecordInv, StatusInv, FlagsInv, Staging, NothingMoved, Records
    <2>2. QED
      BY <1>3, <1>4, <1>5, <2>1
  <1>6. CASE pc \in {"moved", "installed"} /\ ~CutShort
    <2>1. i = cur => past'[i] = {}
      BY <1>6, TrackFacts DEF Stepping, Fsync
    <2>2. i # cur => past[i] = {}
      BY <1>1, <1>6 DEF LoopSynced, Applying
    <2>3. QED
      BY <1>2, <1>4, <2>1, <2>2
  <1>7. CASE pc' = pc /\ cur' = cur
    <2>1. past[i] = {}
      BY <1>1, <1>7 DEF LoopSynced
    <2>2. Placement'[i] = Placement[i]
      <3>1. CASE pc \in {"move", "install"}
        BY <1>1, <1>7, <3>1, RenameStep
           DEF MoveBackup, Install, Goto, IOError, Unwind, Staging, Applying
      <3>2. QED
        BY <1>3, <1>7, <3>1
    <2>3. QED
      BY <1>4, <2>1, <2>2
  <1>8. CASE \/ pc = "move" /\ pc' = "moved" /\ cur' = cur
             \/ pc = "install" /\ pc' = "installed" /\ cur' = cur
    BY <1>1, <1>2, <1>4, <1>8 DEF LoopSynced, Applying
  <1>9. CASE pc \in Applying \ {"move", "install", "moved", "installed"}
    BY <1>1, <1>3, <1>4, <1>9 DEF LoopSynced
  <1>10. QED
    BY <1>1, <1>5, <1>6, <1>7, <1>8, <1>9, LoopStep

\* Where the entries of an operation are is sound under the record on disk.
SoundHere == \A i \in Op : Untouched(i) => Sound(Placement[i], disk, i)

LEMMA SoundNow == EngineInv => SoundHere
  <1> SUFFICES ASSUME EngineInv, NEW i \in Op, Untouched(i)
               PROVE  Sound(Placement[i], disk, i)
    BY DEF SoundHere
  <1>1. /\ OpInv(i) /\ ResultIn(i, Named(i)) /\ JournalAhead /\ i \in Path
        /\ disk.status = "committed" /\ staged[i] # NoEntry =>
               displaced[i] # NoEntry \/ live[i] # NoEntry
    BY OpFacts, NoEntryAssumption
       DEF EngineInv, CoreInv, ResultIn, Redone, Named
  <1>2. /\ \/ quarantine[i] = base[i]
           \/ quarantine[i] = NoEntry /\ live[i] = base[i]
        /\ live[i] # base[i] => disk.phase[i] # "pending"
    BY <1>1 DEF OpInv, Safe, JournalAhead
  <1>3. QED
    BY <1>1, <1>2, PlacementFields DEF Sound

LEMMA SoundNext ==
    ASSUME Stepping
    PROVE  SoundInv'
  <1>1. /\ CoreInv /\ TypeOK /\ RecordInv /\ SoundInv /\ OlderInv /\ OlderWhen
        /\ LoopSynced /\ [Next \/ Editor]_vars /\ UNCHANGED <<base, staged>>
    BY PlannedUnchanged DEF Stepping, PowerInv, EngineInv, CoreInv, planned
  <1> SUFFICES ASSUME NEW i \in Op, Untouched(i)', NEW q \in Placements(i)',
                      NEW r \in Records'
               PROVE  Sound(q, r, i)'
    BY DEF SoundInv, Untouched
  <1>2. Untouched(i)
    BY DEF Stepping
  <1>3. q \in Placements(i) \/ q = Placement'[i]
    BY TrackFacts DEF Stepping, Placements
  <1>4. r \in Records \/ r = disk'
    BY TrackFacts DEF Stepping, Records
  <1>s. SoundHere'
    <2>1. EngineInv' => SoundHere'
      BY SoundNow, PTL
    <2>2. QED
      BY <2>1 DEF Stepping
  <1>5. CASE q = Placement'[i] /\ r = disk'
    BY <1>s, <1>5 DEF SoundHere, Sound, Untouched
  <1>6. CASE q \in Placements(i) /\ r \in Records
    BY <1>1, <1>2, <1>6 DEF SoundInv, Sound
  <1>7. CASE q \in Placements(i) /\ q # Placement'[i] /\ r = disk'
    <2>1. Sound(q, disk, i)
      BY <1>1, <1>2, <1>7 DEF SoundInv, Records
    <2>2. q.live # base[i] => disk'.phase[i] # "pending"
      BY <1>1, <2>1, PhaseKept DEF Sound
    <2>3. disk'.status = "committed" => disk.status = "committed"
      <3>1. SUFFICES ASSUME Finish PROVE FALSE
        BY <1>1, StatusStep
      <3>2. pc = "finish" /\ Placement'[i] = Placement[i]
        BY <3>1 DEF Finish, trees, stores, Placement
      <3>3. past[i] = {}
        BY <1>1, <1>2, <3>2 DEF LoopSynced, Applying
      <3>4. QED
        BY <1>7, <3>2, <3>3 DEF Placements
    <2>4. QED
      BY <1>1, <1>7, <2>1, <2>2, <2>3 DEF Sound
  <1>8. CASE q = Placement'[i] /\ q \notin Placements(i) /\ r # disk'
    <2>1. Placement'[i] # Placement[i]
      BY <1>8 DEF Placements
    <2>2. disk' = disk /\ i = cur
      BY <1>1, <2>1, RenameStep
    <2>3. r \in older
      BY <1>4, <1>8, <2>2 DEF Records
    <2>4. /\ pc \in {"undo_new", "undo_backup"}
          /\ record.installed[i] \/ record.moved[i]
      BY <1>1, <2>1, <2>3, RenameStep DEF OlderWhen
    <2>5. r.phase[i] # "pending" /\ r.status # "committed"
      BY <1>1, <2>3, <2>4 DEF OlderInv, RecordInv, StatusInv
    <2>6. QED
      BY <1>s, <1>8, <2>5 DEF SoundHere, Sound, Untouched
  <1>9. QED
    BY <1>3, <1>4, <1>5, <1>6, <1>7, <1>8

LEMMA PowerStep == PowerInv /\ (Next \/ Editor) /\ Track => PowerInv'
  <1> SUFFICES ASSUME PowerInv, Next \/ Editor, Track PROVE PowerInv'
    OBVIOUS
  <1>1. EngineInv'
    BY EngineNext DEF PowerInv
  <1>2. \A i \in Op : Untouched(i)' => Untouched(i)
    BY UntouchedBefore, OpFacts DEF PowerInv, EngineInv, CoreInv
  <1>3. Stepping
    BY <1>1, <1>2 DEF Stepping
  <1>4. QED
    BY <1>1, <1>3, UnsyncedTypeNext, SoundNext, OlderNext, OlderWhenNext,
       NothingMovedNext, LoopSyncedNext
       DEF PowerInv

----------------------------------------------------------------------------
(* The machine stops and starts again.                                       *)

\* What comes back: a record, and for every operation a placement whose
\* payload may be junk.
Junked(i, e, f) == f = e \/ (e = staged[i] /\ e # NoEntry /\ f \in Content)

LEMMA LossFacts ==
    ASSUME PowerInv, PowerLoss
    PROVE  /\ UNCHANGED <<base, staged, mine, audit>>
           /\ TypeOK'
           /\ pc' = "idle" /\ record' = NoRecord
           /\ disk' \in Records
           /\ \A i \in Op : \E q \in Placements(i) :
                  /\ quarantine'[i] = q.quarantine
                  /\ Junked(i, q.live, live'[i])
                  /\ Junked(i, q.displaced, displaced'[i])
           /\ live'[0] = live[0]
           /\ \A i \in Op : past'[i] = {}
           /\ past' = [i \in Op |-> {}] /\ older' = {}
  <1>1. TypeOK /\ UnsyncedType
    BY DEF PowerInv, EngineInv, CoreInv
  <1>2. PICK torn \in SUBSET dirty, junk \in Content,
             found \in [Op -> UNION {past[i] \cup {Placement[i]} : i \in Op}] :
            /\ \A i \in Op : found[i] \in past[i] \cup {Placement[i]}
            /\ live' = [p \in Path |->
                           IF p \in Op
                           THEN IF /\ p \in torn /\ found[p].live = staged[p]
                                   /\ found[p].live # NoEntry
                                THEN junk ELSE found[p].live
                           ELSE live[p]]
            /\ quarantine' = [i \in Op |-> found[i].quarantine]
            /\ displaced' = [i \in Op |->
                               IF /\ i \in torn /\ found[i].displaced = staged[i]
                                  /\ found[i].displaced # NoEntry
                               THEN junk ELSE found[i].displaced]
            /\ apply' = [i \in Op |->
                           IF /\ i \in torn /\ apply[i] = staged[i]
                              /\ apply[i] # NoEntry
                           THEN junk ELSE apply[i]]
    BY ZenonT(20) DEF PowerLoss
  <1>3. /\ UNCHANGED <<base, staged, worktree, audit, faulted, mine, left>>
        /\ pc' = "idle" /\ record' = NoRecord /\ cur' = 1 /\ failed' = FALSE
        /\ disk' \in {disk} \cup older
        /\ planState' \in {planState, "pending"}
        /\ txState' \in {txState, "planned"} /\ lock' \in BOOLEAN
        /\ past' = [i \in Op |-> {}] /\ older' = {}
    BY <1>1 DEF PowerLoss, Forget, planned, history, TypeOK
  <1>4. \A i \in Op : /\ found[i] \in Placements(i)
                     /\ found[i].live \in Entry
                     /\ found[i].quarantine \in Entry
                     /\ found[i].displaced \in Entry
    <2>1. \A i \in Op : Placements(i) \subseteq Where
      BY <1>1, OpFacts
         DEF Placements, Placement, UnsyncedType, TypeOK, Tree, Store, Where
    <2>2. QED
      BY <1>2, <2>1 DEF Placements, Where
  <1>5. /\ live' \in Tree /\ quarantine' \in Store /\ displaced' \in Store
        /\ apply' \in Store
    BY <1>1, <1>2, <1>4 DEF TypeOK, Tree, Store, Entry
  <1>6. TypeOK'
    BY <1>1, <1>3, <1>5, OpFacts, LabelFacts, RecordFacts
       DEF TypeOK, UnsyncedType
  <1>7. \A i \in Op : /\ quarantine'[i] = found[i].quarantine
                     /\ Junked(i, found[i].live, live'[i])
                     /\ Junked(i, found[i].displaced, displaced'[i])
    BY <1>2, OpFacts DEF Junked
  <1>8. live'[0] = live[0]
    BY <1>2, OpFacts
  <1>9. QED
    BY <1>3, <1>4, <1>6, <1>7, <1>8 DEF Records

LEMMA LossKeepsEngine ==
    ASSUME PowerInv, PowerLoss
    PROVE  EngineInv'
  <1>1. /\ TypeOK /\ TypeOK' /\ PlanInv /\ RecordInv /\ OlderInv /\ OlderWhen
        /\ JournalAhead /\ NothingMoved /\ SoundInv /\ UnsyncedType
    BY LossFacts DEF PowerInv, EngineInv, CoreInv
  <1>2. /\ UNCHANGED <<base, staged, mine>>
        /\ pc' = "idle" /\ record' = NoRecord /\ disk' \in Records
    BY LossFacts
  <1>3. PlanInv'
    BY <1>1, <1>2 DEF PlanInv
  <1>4. RecordInv'
    <2>1. /\ disk'.status = "none" => disk' = NoRecord
          /\ disk'.status = "committed" => \A i \in Op : FlagsDone(disk', i)
          /\ \A i \in Op : disk'.moved[i] \/ disk'.installed[i] =>
                               disk'.phase[i] # "pending"
      BY <1>1, <1>2 DEF Records, OlderInv, RecordInv, FlagsInv, AheadInv
    <2>2. QED
      BY <1>2, <2>1, NoRecordFacts
         DEF RecordInv, FlagsInv, StatusInv, PhaseInv, AheadInv, FlagsClear,
             FlagsDone, Staging, Applying, Undoing, Restoring
  <1>5. ASSUME NEW i \in Op
        PROVE  disk'.status = "none" =>
                   /\ displaced'[i] = NoEntry
                   /\ Untouched(i) =>
                          live'[i] = base[i] /\ quarantine'[i] = NoEntry
    <2>1. SUFFICES ASSUME disk'.status = "none"
                   PROVE  /\ displaced'[i] = NoEntry
                          /\ Untouched(i) => /\ live'[i] = base[i]
                                             /\ quarantine'[i] = NoEntry
      OBVIOUS
    <2>2. NoRecord \in Records
      BY <1>1, <1>2, <2>1 DEF Records, OlderInv, RecordInv, FlagsInv
    <2>3. PICK q \in Placements(i) :
              /\ quarantine'[i] = q.quarantine
              /\ Junked(i, q.live, live'[i])
              /\ Junked(i, q.displaced, displaced'[i])
      BY LossFacts
    <2>4. displaced'[i] = NoEntry
      BY <1>1, <2>2, <2>3 DEF NothingMoved, Junked
    <2>5. ASSUME Untouched(i)
          PROVE  live'[i] = base[i] /\ quarantine'[i] = NoEntry
      <3>1. /\ q = Placement[i] /\ live[i] = base[i]
            /\ quarantine[i] = NoEntry
        BY <1>1, <2>2, <2>5 DEF NothingMoved, Placements
      <3>2. base[i] # staged[i]
        BY <1>1, OpFacts DEF PlanInv
      <3>3. QED
        BY <2>3, <3>1, <3>2, PlacementFields DEF Junked
    <2>6. QED
      BY <2>4, <2>5
  <1>6. ASSUME NEW i \in Op, Untouched(i)
        PROVE  /\ Safe(i)'
               /\ live'[i] # base[i] => disk'.phase[i] # "pending"
               /\ disk'.status = "committed" => Redone(i)' \in Named(i)
    <2>1. PICK q \in Placements(i) :
              /\ quarantine'[i] = q.quarantine
              /\ Junked(i, q.live, live'[i])
              /\ Junked(i, q.displaced, displaced'[i])
      BY LossFacts
    <2>2. Sound(q, disk', i)
      BY <1>1, <1>2, <1>6 DEF SoundInv
    <2>3. base[i] # staged[i] /\ i \in Path
      BY <1>1, OpFacts DEF PlanInv
    <2>4. q.live = base[i] => live'[i] = base[i]
      BY <2>1, <2>3 DEF Junked
    <2>5. Safe(i)'
      BY <1>2, <2>1, <2>2, <2>4 DEF Sound, Safe
    <2>6. live'[i] # base[i] => disk'.phase[i] # "pending"
      BY <2>2, <2>4 DEF Sound
    <2>7. ASSUME disk'.status = "committed", staged[i] # NoEntry
          PROVE  Redone(i)' \in Content
      <3>1. q.displaced # NoEntry \/ q.live # NoEntry
        BY <2>2, <2>7 DEF Sound
      <3>2. displaced'[i] # NoEntry \/ live'[i] # NoEntry
        BY <2>1, <3>1, NoEntryAssumption DEF Junked
      <3>3. live'[i] \in Entry /\ displaced'[i] \in Entry
        BY <1>1, <2>3 DEF TypeOK, Tree, Store
      <3>4. QED
        BY <1>2, <2>7, <3>2, <3>3 DEF Redone, Entry
    <2>8. QED
      BY <1>2, <2>5, <2>6, <2>7 DEF Redone, Named
  <1>7. ASSUME NEW i \in Op, Untouched(i)' PROVE OpInv(i)'
    <2>1. Untouched(i)
      BY <1>2, <1>7 DEF Untouched
    <2>2. Safe(i)' /\ (disk'.status = "none" => Fresh(i)')
      BY <1>2, <1>5, <1>6, <2>1, NoRecordFacts DEF Fresh, FlagsClear
    <2>3. QED
      BY <1>2, <2>2 DEF OpInv
  <1>8. JournalAhead'
    <2> SUFFICES ASSUME NEW p \in Path, Untouched(p), live'[p] # base[p]
                 PROVE  p \in Op /\ disk'.phase[p] # "pending"
      BY <1>2 DEF JournalAhead, Untouched
    <2>1. p \in Op
      <3>1. CASE p = 0
        BY <1>1, <3>1, LossFacts, OpFacts DEF JournalAhead
      <3>2. QED
        BY <3>1, OpFacts
    <2>2. QED
      BY <1>6, <2>1
  <1>9. NoneDisplaced'
    BY <1>1, <1>2, <1>5 DEF NoneDisplaced, Applying, TypeOK, Store, EmptyStore
  <1>10. FlagsAfter'
    BY <1>2 DEF FlagsAfter
  <1>11. ASSUME NEW i \in Op, Untouched(i)' PROVE ResultIn(i, Named(i))'
    BY <1>2, <1>6, <1>11 DEF ResultIn, Named, Untouched
  <1>12. QED
    BY <1>1, <1>3, <1>4, <1>7, <1>8, <1>9, <1>10, <1>11
       DEF EngineInv, CoreInv, Untouched

\* Once the machine is back there is one record and one placement again.
LEMMA Settled ==
    ASSUME EngineInv, pc = "idle", past = [i \in Op |-> {}], older = {}
    PROVE  /\ UnsyncedType /\ SoundInv /\ OlderInv /\ LoopSynced
           /\ NothingMoved /\ OlderWhen
  <1>1. UnsyncedType /\ OlderInv /\ OlderWhen /\ LoopSynced
    BY DEF UnsyncedType, OlderInv, OlderWhen, LoopSynced, Staging, Applying,
           Undoing
  <1>2. \A i \in Op : Placements(i) = {Placement[i]} /\ Records = {disk}
    BY DEF Placements, Records
  <1>3. SoundInv
    BY <1>2, SoundNow DEF SoundInv, SoundHere
  <1>4. NothingMoved
    <2> SUFFICES ASSUME NoRecord = disk, NEW i \in Op
                 PROVE  /\ Untouched(i) =>
                               /\ past[i] = {} /\ live[i] = base[i]
                               /\ quarantine[i] = NoEntry
                        /\ Placement[i].displaced = NoEntry
      BY <1>2 DEF NothingMoved
    <2>1. disk.status = "none"
      BY NoRecordFacts
    <2>2. displaced[i] = NoEntry
      BY <2>1 DEF EngineInv, NoneDisplaced, EmptyStore
    <2>3. Untouched(i) => live[i] = base[i] /\ quarantine[i] = NoEntry
      BY <2>1 DEF EngineInv, CoreInv, OpInv, Fresh
    <2>4. QED
      BY <2>2, <2>3, PlacementFields
  <1>5. QED
    BY <1>1, <1>3, <1>4

SettledInv == EngineInv /\ pc = "idle" /\ past = [i \in Op |-> {}] /\ older = {}

LEMMA SettledIsInv == SettledInv => PowerInv
  BY Settled DEF SettledInv, PowerInv

LEMMA PowerInvInit == PowerInit => PowerInv
  <1> SUFFICES ASSUME PowerInit PROVE PowerInv
    OBVIOUS
  <1>1. Init
    BY DEF PowerInit
  <1>2. EngineInv
    BY <1>1, RInvInit, NoRecordFacts
       DEF RInv, IInv, EngineInv, ResultIn, Init
  <1>3. QED
    BY <1>2, SettledIsInv DEF SettledInv, PowerInit, Init

LEMMA PowerInvNext == PowerInv /\ [PowerNext]_powerVars => PowerInv'
  <1> SUFFICES ASSUME PowerInv, [PowerNext]_powerVars PROVE PowerInv'
    OBVIOUS
  <1>1. CASE (Next \/ Editor) /\ Track
    BY <1>1, PowerStep
  <1>2. CASE PowerLoss
    <2>1. SettledInv'
      BY <1>2, LossKeepsEngine, LossFacts DEF SettledInv
    <2>2. SettledInv' => PowerInv'
      BY SettledIsInv, PTL
    <2>3. QED
      BY <2>1, <2>2
  <1>3. CASE UNCHANGED powerVars
    <2>1. UNCHANGED vars /\ UNCHANGED <<past, older>>
      BY <1>3 DEF powerVars, unsynced
    <2>2. CoreInv'
      BY <2>1, CoreNext DEF PowerInv, EngineInv
    <2>3. QED
      BY <2>1, <2>2
         DEF PowerInv, EngineInv, NoneDisplaced, FlagsAfter, FlagsDone,
             ResultIn, Redone, Named, Aside, UnsyncedType, SoundInv, Sound,
             OlderInv, OlderWhen, NothingMoved, LoopSynced, Placements, Records,
             Placement, Untouched, vars, planned, trees, stores, ledger,
             control, history
  <1>4. QED
    BY <1>1, <1>2, <1>3 DEF PowerNext

LEMMA PowerInductive == PowerSpec => []PowerInv
  BY PowerInvInit, PowerInvNext, PTL DEF PowerSpec

\* Even when the power fails, at any instant and any number of times, the
\* baseline entry of a path no editor wrote is in the workspace or in the
\* quarantine.
THEOREM BaselineOutlivesPower == PowerSpec => []BaselineRecoverable
  <1>1. PowerInv => BaselineRecoverable
    BY CoreRecoverable DEF PowerInv, EngineInv
  <1>2. QED
    BY <1>1, PowerInductive, PTL

\* The record the machine comes back with names every operation whose entry is
\* not the baseline's.
THEOREM JournalOutlivesPower == PowerSpec => []JournalAhead
  <1>1. PowerInv => JournalAhead
    BY DEF PowerInv, EngineInv, CoreInv
  <1>2. QED
    BY <1>1, PowerInductive, PTL

\* A record that says committed after a power loss stands for a workspace with
\* the planned result's names.
THEOREM CommittedOutlivesPower == PowerSpec => []CommittedInPlace
  <1>1. PowerInv => CommittedInPlace
    <2> SUFFICES ASSUME PowerInv, disk.status = "committed",
                        NEW i \in Op, Untouched(i)
                 PROVE  Redone(i) = NoEntry <=> staged[i] = NoEntry
      BY DEF CommittedInPlace
    <2>1. Redone(i) \in Named(i)
      BY DEF PowerInv, EngineInv, ResultIn
    <2>2. QED
      BY <2>1, NoEntryAssumption DEF Named
  <1>2. QED
    BY <1>1, PowerInductive, PTL
=============================================================================
