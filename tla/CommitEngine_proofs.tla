------------------------- MODULE CommitEngine_proofs -------------------------
(* Theorems about CommitEngine, for every plan, every set of contents and    *)
(* every set of paths that editors write.                                    *)
EXTENDS CommitEngine, TLAPS

----------------------------------------------------------------------------
(* The inductive invariant.  What holds of an operation depends on how far   *)
(* the loop over record.operations has come; pathwise statements are made    *)
(* of the paths no editor wrote.                                             *)

\* The operation's flags in the record are as the planned change requires.
FlagsDone(r, i) ==
    /\ r.moved[i] <=> base[i] # NoEntry
    /\ r.installed[i] <=> staged[i] # NoEntry

FlagsClear(i) == ~record.moved[i] /\ ~record.installed[i]

\* Not begun.
Fresh(i) == FlagsClear(i) /\ live[i] = base[i] /\ quarantine[i] = NoEntry

\* The original is in the quarantine, and what is live was installed.
Kept(i) ==
    /\ quarantine[i] = base[i]
    /\ record.moved[i] <=> base[i] # NoEntry
    /\ record.installed[i] \/ live[i] = NoEntry

\* The original is in the one place or in the other.
Safe(i) ==
    \/ quarantine[i] = base[i]
    \/ quarantine[i] = NoEntry /\ live[i] = base[i]

\* Where the flags of every operation stand, editors or not.
FlagsInv ==
    /\ disk.status = "none" => disk = NoRecord /\ \A i \in Op : FlagsClear(i)
    /\ disk.status = "committed" => \A i \in Op : FlagsDone(disk, i)
    /\ pc \in {"moving", "move", "moved", "installing", "install",
               "installed"} =>
           \A i \in Op : /\ i < cur => FlagsDone(record, i)
                         /\ i > cur => FlagsClear(i)
    /\ pc \in {"moving", "move"} => FlagsClear(cur) /\ base[cur] # NoEntry
    /\ pc = "moved" => record.moved[cur] /\ base[cur] # NoEntry
    /\ pc \in {"installing", "install"} => staged[cur] # NoEntry
    /\ pc \in {"moved", "installing", "install"} =>
           /\ record.moved[cur] <=> base[cur] # NoEntry
           /\ ~record.installed[cur]
    /\ pc = "installed" => FlagsDone(record, cur)
    /\ pc \in {"verify", "finish"} \cup Restoring =>
           \A i \in Op : FlagsDone(record, i)

\* Which statuses each part of the critical section can meet.
StatusInv ==
    /\ pc \in {"check", "cleanup", "prepare"} \cup Staging =>
           disk.status = "none"
    /\ pc \in Applying \ {"prepare"} =>
           disk.status = "prepared" /\ record.status = "prepared"
    /\ pc \in {"undo_new", "undo_backup", "undo_save"} =>
           disk.status \in {"none", "prepared", "committed"}
    /\ pc \in Restoring \ {"r_audit"} => disk.status = "committed"
    /\ pc \in Undoing => record.status # "none"

\* The record in memory never takes a begun operation for a pending one.
PhaseInv ==
    pc \in (Applying \ {"prepare"}) \cup Undoing \cup Restoring =>
        \A i \in Op : disk.phase[i] # "pending" => record.phase[i] # "pending"

\* An operation whose rename is next or done is journaled as begun.
AheadInv ==
    /\ pc \in {"move", "moved", "install", "installed"} =>
           disk.phase[cur] # "pending"
    /\ \A i \in Op : \/ record.moved[i] \/ record.installed[i]
                     \/ disk.moved[i] \/ disk.installed[i]
                   => disk.phase[i] # "pending"

RecordInv == FlagsInv /\ StatusInv /\ PhaseInv /\ AheadInv

\* Where the entries of operation i are.
OpInv(i) ==
    /\ Safe(i)
    /\ disk.status = "none" => Fresh(i)
    /\ pc \in {"moving", "move", "moved", "installing", "install",
               "installed"} =>
           /\ i < cur => Kept(i)
           /\ i > cur => Fresh(i)
    /\ pc \in {"moving", "move"} /\ i = cur => Fresh(i)
    /\ pc \in {"moved", "installing", "install"} /\ i = cur =>
           Kept(i) /\ live[i] = NoEntry
    /\ pc = "installed" /\ i = cur => Kept(i)
    /\ pc \in {"verify", "finish"} => Kept(i)
    /\ pc = "finish" => live[i] = staged[i]
    /\ pc = "undo_new" /\ i <= cur => Fresh(i) \/ Kept(i)
    /\ pc = "undo_backup" /\ i < cur => Fresh(i) \/ Kept(i)
    /\ pc = "undo_backup" /\ i = cur =>
           Fresh(i) \/ (Kept(i) /\ live[i] = NoEntry)
    /\ pc \in {"undo_new", "undo_backup"} /\ i > cur /\ ~failed =>
           live[i] = base[i]
    /\ pc = "undo_save" /\ ~failed => live[i] = base[i]
    /\ pc = "r_displace" /\ i <= cur => Kept(i)
    /\ pc = "r_return" /\ i < cur => Kept(i)
    /\ pc = "r_return" /\ i = cur => Kept(i) /\ live[i] = NoEntry
    /\ pc = "r_save" => live[i] = base[i]

PlanInv == \A p \in Path : staged[p] = base[p] <=> p = 0

\* What holds even after a power loss (module PowerLoss_proofs).
CoreInv ==
    /\ TypeOK
    /\ PlanInv
    /\ RecordInv
    /\ \A i \in Op : Untouched(i) => OpInv(i)
    /\ JournalAhead

IInv == CoreInv /\ SettledMeansBaseline

----------------------------------------------------------------------------
(* Types.                                                                    *)

LEMMA OpFacts ==
    /\ 1 \in Op /\ NOps \in Op /\ Op \subseteq Path /\ Op \subseteq Nat
    /\ 0 \in Path /\ Path = Op \cup {0} /\ 0 \notin Op
    /\ \A i \in Op : i # NOps => i + 1 \in Op
    /\ \A i \in Op : i # 1 => i - 1 \in Op
  BY NOpsAssumption, SMT DEF Op, Path

LEMMA LastOp == ASSUME NEW i \in Op, i + 1 > NOps PROVE i = NOps
  BY NOpsAssumption DEF Op

LEMMA OpOrder == \A i, j \in Op : (i < j + 1 <=> i <= j) /\ i <= NOps
  BY NOpsAssumption DEF Op

LEMMA OpSplit == \A i, j \in Op : i <= j => i < j \/ i = j
  BY SMT DEF Op

LEMMA TreeFacts ==
    /\ NoEntry \in Entry /\ Content \subseteq Entry
    /\ \A t \in Tree, p \in Path : t[p] \in Entry
    /\ \A t \in Tree, p \in Path, e \in Entry : [t EXCEPT ![p] = e] \in Tree
    /\ \A t \in Store, i \in Op : t[i] \in Entry
    /\ \A t \in Store, i \in Op, e \in Entry : [t EXCEPT ![i] = e] \in Store
    /\ EmptyStore \in Store
  BY DEF Entry, Tree, Store, EmptyStore

LEMMA RecordFacts ==
    /\ NoRecord \in Record
    /\ \A r \in Record, s \in Status : WithStatus(r, s) \in Record
    /\ \A r \in Record, i \in Op, p \in Phase : WithPhase(r, i, p) \in Record
    /\ \A r \in Record, i \in Op : WithMoved(r, i) \in Record
    /\ \A r \in Record, i \in Op : WithInstalled(r, i) \in Record
    /\ \A r \in Record : Completed(r) \in Record
  BY DEF Record, NoRecord, WithStatus, WithPhase, WithMoved, WithInstalled,
         Completed, Phase, Status

LEMMA LabelFacts ==
    /\ "idle" \in Label /\ "check" \in Label /\ "cleanup" \in Label
    /\ "unlock" \in Label /\ "stage" \in Label /\ "rescan" \in Label
    /\ "prepare" \in Label /\ "moving" \in Label /\ "move" \in Label
    /\ "moved" \in Label /\ "installing" \in Label /\ "install" \in Label
    /\ "installed" \in Label /\ "verify" \in Label /\ "finish" \in Label
    /\ "clear" \in Label /\ "save_plan" \in Label /\ "save_tx" \in Label
    /\ "audit" \in Label /\ "undo_new" \in Label /\ "undo_backup" \in Label
    /\ "undo_save" \in Label /\ "undo_verify" \in Label
    /\ "undo_audit" \in Label /\ "r_check" \in Label /\ "r_displace" \in Label
    /\ "r_return" \in Label /\ "r_verify" \in Label /\ "r_save" \in Label
    /\ "r_audit" \in Label
  BY DEF Label, Staging, Applying, Bookkeeping, Undoing, Restoring

LEMMA NameFacts ==
    /\ "prepared" \in Status /\ "committed" \in Status
    /\ "rolled_back" \in Status /\ "rollback_failed" \in Status
    /\ "restored" \in Status
    /\ "moving_backup" \in Phase /\ "backup_moved" \in Phase
    /\ "installing" \in Phase /\ "installed" \in Phase
    /\ "rolled_back" \in Phase /\ "restored" \in Phase
  BY DEF Status, Phase

LEMMA InitType == Init => TypeOK
  <1> SUFFICES ASSUME Init PROVE TypeOK
    OBVIOUS
  <1>1. base \in Tree /\ staged \in Tree /\ mine \in Tree
    BY TreeFacts DEF Init, Tree
  <1>2. QED
    BY <1>1, OpFacts, TreeFacts, RecordFacts, LabelFacts DEF Init, TypeOK

\* The part of TypeOK that the control-flow operators speak of.
ControlType ==
    /\ pc \in Label /\ cur \in Op
    /\ failed \in BOOLEAN /\ faulted \in BOOLEAN /\ mine \in Tree
    /\ left \in BOOLEAN

LEMMA GotoType ==
    ASSUME ControlType, NEW l \in Label, Goto(l)
    PROVE  ControlType'
  BY DEF ControlType, Goto, history

LEMMA GotoOpType ==
    ASSUME ControlType, NEW l \in Label, NEW i \in Op, GotoOp(l, i)
    PROVE  ControlType'
  BY DEF ControlType, GotoOp, history

LEMMA NextOpType ==
    ASSUME ControlType, NEW i \in Nat \ {0}, NextOp(i)
    PROVE  ControlType'
  <1>1. CASE i > NOps
    BY <1>1, GotoType, LabelFacts DEF NextOp
  <1>2. CASE ~(i > NOps)
    BY <1>2, GotoOpType, LabelFacts, NOpsAssumption DEF NextOp, Op
  <1>3. QED
    BY <1>1, <1>2

LEMMA LeaveType ==
    ASSUME ControlType, IOError \/ Raise
    PROVE  ControlType'
  BY OpFacts, LabelFacts DEF ControlType, Raise, IOError, Unwind, history

LEMMA PrevOpType ==
    ASSUME ControlType, NEW h \in Label, NEW d \in Label, PrevOp(cur, h, d)
    PROVE  pc' \in Label /\ cur' \in Op
  BY OpFacts DEF ControlType, PrevOp

LEMMA NextType == TypeOK /\ [Next \/ Editor]_vars => TypeOK'
  <1> SUFFICES ASSUME TypeOK, [Next \/ Editor]_vars PROVE TypeOK'
    OBVIOUS
  <1>c. ControlType
    BY DEF TypeOK, ControlType
  <1> USE <1>c DEF TypeOK, ControlType, planned, trees, stores, ledger, control,
                   history
  <1>1. CASE CommitBegin
    BY <1>1, LabelFacts, GotoType
       DEF CommitBegin
  <1>2. CASE CommitCheck
    BY <1>2, LabelFacts, OpFacts, GotoOpType, LeaveType
       DEF CommitCheck
  <1>3. CASE StagePayload
    <2>1. apply' \in Store
      BY <1>3, OpFacts DEF StagePayload, Store, Tree
    <2>2. ControlType'
      BY <1>3, LabelFacts, OpFacts, GotoType, GotoOpType, LeaveType DEF StagePayload
    <2>3. QED
      BY <1>3, <2>1, <2>2 DEF StagePayload
  <1>4. CASE Rescan
    BY <1>4, LabelFacts, GotoType, LeaveType
       DEF Rescan
  <1>5. CASE Cleanup
    BY <1>5, LabelFacts, TreeFacts, GotoType, LeaveType
       DEF Cleanup
  <1>6. CASE Prepare
    <2>1. ControlType'
      <3>1. 1 \in Nat \ {0}
        OBVIOUS
      <3>2. QED
        BY <1>6, <3>1, NextOpType, LeaveType DEF Prepare, SaveFails
    <2>2. record' \in Record /\ disk' \in Record
      BY <1>6, NameFacts, RecordFacts DEF Prepare, SaveCommit, SaveFails
    <2>3. QED
      BY <1>6, <2>1, <2>2 DEF Prepare
  <1>7. CASE JournalMove
    BY <1>7, LabelFacts, NameFacts, RecordFacts, GotoType, LeaveType
       DEF JournalMove, SaveCommit, SaveFails
  <1>8. CASE MoveBackup
    <2>1. ControlType'
      BY <1>8, LabelFacts, GotoType, LeaveType DEF MoveBackup
    <2>2. record' \in Record
      <3>1. WithPhase(record, cur, "backup_moved") \in Record
        BY NameFacts, RecordFacts
      <3>2. WithMoved(WithPhase(record, cur, "backup_moved"), cur) \in Record
        BY <3>1, RecordFacts
      <3>3. QED
        BY <1>8, <3>2 DEF MoveBackup
    <2>3. live' \in Tree /\ quarantine' \in Store
      BY <1>8, OpFacts, TreeFacts DEF MoveBackup, Tree, Store
    <2>4. QED
      BY <1>8, <2>1, <2>2, <2>3 DEF MoveBackup
  <1>9. CASE JournalMoved
    BY <1>9, LabelFacts, OpFacts, GotoType, NextOpType, LeaveType
       DEF JournalMoved, SaveCommit, SaveFails
  <1>10. CASE JournalInstall
    BY <1>10, LabelFacts, NameFacts, RecordFacts, GotoType, LeaveType
       DEF JournalInstall, SaveCommit, SaveFails
  <1>11. CASE Install
    <2>1. ControlType'
      BY <1>11, LabelFacts, GotoType, LeaveType DEF Install
    <2>2. record' \in Record
      <3>1. WithPhase(record, cur, "installed") \in Record
        BY NameFacts, RecordFacts
      <3>2. WithInstalled(WithPhase(record, cur, "installed"), cur) \in Record
        BY <3>1, RecordFacts
      <3>3. QED
        BY <1>11, <3>2 DEF Install
    <2>3. live' \in Tree /\ apply' \in Store
      BY <1>11, OpFacts, TreeFacts DEF Install, Tree, Store
    <2>4. QED
      BY <1>11, <2>1, <2>2, <2>3 DEF Install
  <1>12. CASE JournalInstalled
    BY <1>12, OpFacts, NextOpType, LeaveType
       DEF JournalInstalled, SaveCommit, SaveFails
  <1>13. CASE Verify
    BY <1>13, LabelFacts, GotoType, LeaveType
       DEF Verify
  <1>14. CASE Finish
    <2>1. ControlType'
      BY <1>14, LabelFacts, GotoType, LeaveType DEF Finish, SaveFails
    <2>2. record' \in Record /\ disk' \in Record
      BY <1>14, NameFacts, RecordFacts
         DEF Finish, SaveCommit, SaveFails
    <2>3. QED
      BY <1>14, <2>1, <2>2 DEF Finish
  <1>15. CASE ClearApply
    BY <1>15, LabelFacts, TreeFacts, GotoType, LeaveType
       DEF ClearApply
  <1>16. CASE SavePlan
    BY <1>16, LabelFacts, GotoType, LeaveType
       DEF SavePlan
  <1>17. CASE SaveTx
    BY <1>17, LabelFacts, GotoType, LeaveType
       DEF SaveTx
  <1>18. CASE AuditCommit
    BY <1>18, LabelFacts, GotoType, LeaveType
       DEF AuditCommit, Append
  <1>19. CASE UndoNew
    <2>1. ControlType'
      BY <1>19, LabelFacts, OpFacts, GotoType, PrevOpType DEF UndoNew, UndoFailed
    <2>2. live' \in Tree /\ displaced' \in Store
      BY <1>19, OpFacts, TreeFacts DEF UndoNew, Tree, Store
    <2>3. QED
      BY <1>19, <2>1, <2>2 DEF UndoNew
  <1>20. CASE UndoBackup
    <2>1. ControlType'
      BY <1>20, LabelFacts, PrevOpType DEF UndoBackup, UndoFailed
    <2>2. record' \in Record
      BY <1>20, NameFacts, RecordFacts DEF UndoBackup
    <2>3. live' \in Tree /\ quarantine' \in Store
      BY <1>20, OpFacts, TreeFacts DEF UndoBackup, Tree, Store
    <2>4. QED
      BY <1>20, <2>1, <2>2, <2>3 DEF UndoBackup
  <1>21. CASE UndoSave
    BY <1>21, LabelFacts, NameFacts, RecordFacts, GotoType, LeaveType
       DEF UndoSave, SaveCommit, SaveFails
  <1>22. CASE UndoVerify
    BY <1>22, LabelFacts, LeaveType
       DEF UndoVerify
  <1>23. CASE UndoAudit
    BY <1>23, LabelFacts, GotoType, LeaveType
       DEF UndoAudit, Append
  <1>24. CASE RestoreBegin
    BY <1>24, LabelFacts, GotoType
       DEF RestoreBegin
  <1>25. CASE RestoreCheck
    BY <1>25, LabelFacts, OpFacts, GotoOpType, LeaveType
       DEF RestoreCheck
  <1>26. CASE RestoreDisplace
    BY <1>26, LabelFacts, OpFacts, TreeFacts, GotoType, LeaveType
       DEF RestoreDisplace
  <1>27. CASE RestoreReturn
    <2>1. ControlType'
      BY <1>27, LabelFacts, PrevOpType, LeaveType DEF RestoreReturn
    <2>2. record' \in Record
      BY <1>27, NameFacts, RecordFacts DEF RestoreReturn
    <2>3. live' \in Tree /\ quarantine' \in Store
      BY <1>27, OpFacts, TreeFacts DEF RestoreReturn, Tree, Store
    <2>4. QED
      BY <1>27, <2>1, <2>2, <2>3 DEF RestoreReturn
  <1>28. CASE RestoreVerify
    BY <1>28, LabelFacts, GotoType, LeaveType
       DEF RestoreVerify
  <1>29. CASE RestoreSave
    BY <1>29, LabelFacts, NameFacts, RecordFacts, GotoType, LeaveType
       DEF RestoreSave, SaveCommit, SaveFails
  <1>30. CASE RestoreAudit
    BY <1>30, LabelFacts, GotoType, LeaveType
       DEF RestoreAudit, Append
  <1>31. CASE Unlock
    BY <1>31, LabelFacts, OpFacts, RecordFacts
       DEF Unlock, Forget
  <1>32. CASE Interrupt
    BY <1>32, LabelFacts, GotoType
       DEF Interrupt
  <1>33. CASE Crash
    BY <1>33, LabelFacts, OpFacts, RecordFacts
       DEF Crash, Forget
  <1>34. CASE Agent
    BY <1>34
       DEF Agent, Tree, Store, Entry
  <1>35. CASE Editor
    BY <1>35, EditorPathsAssumption
       DEF Editor, Tree, Store, Entry
  <1>36. CASE UNCHANGED vars
    BY <1>36 DEF vars
  <1>37. QED
    BY <1>1, <1>2, <1>3, <1>4, <1>5, <1>6, <1>7, <1>8, <1>9, <1>10, <1>11,
       <1>12, <1>13, <1>14, <1>15, <1>16, <1>17, <1>18, <1>19, <1>20, <1>21,
       <1>22, <1>23, <1>24, <1>25, <1>26, <1>27, <1>28, <1>29, <1>30, <1>31,
       <1>32, <1>33, <1>34, <1>35, <1>36
       DEF Next, Broker, Commit, Rollback, Restore

\* Every variable keeps its type.
THEOREM TypeCorrect == Spec => []TypeOK
  <1>1. Init => TypeOK
    BY InitType
  <1>2. TypeOK /\ [Next \/ Editor]_vars => TypeOK'
    BY NextType
  <1>3. QED
    BY <1>1, <1>2, PTL DEF Spec

----------------------------------------------------------------------------
(* The record: flags, phases and statuses.                                   *)

LEMMA FieldFacts ==
    ASSUME NEW r \in Record, NEW i \in Op
    PROVE  /\ \A s \in Status :
                  /\ WithStatus(r, s).status = s
                  /\ WithStatus(r, s).phase = r.phase
                  /\ WithStatus(r, s).moved = r.moved
                  /\ WithStatus(r, s).installed = r.installed
           /\ \A p \in Phase :
                  /\ WithPhase(r, i, p).status = r.status
                  /\ \A j \in Op : WithPhase(r, i, p).phase[j] =
                                       IF j = i THEN p ELSE r.phase[j]
                  /\ WithPhase(r, i, p).moved = r.moved
                  /\ WithPhase(r, i, p).installed = r.installed
           /\ WithMoved(r, i).status = r.status
           /\ WithMoved(r, i).phase = r.phase
           /\ \A j \in Op : WithMoved(r, i).moved[j] = (j = i \/ r.moved[j])
           /\ WithMoved(r, i).installed = r.installed
           /\ WithInstalled(r, i).status = r.status
           /\ WithInstalled(r, i).phase = r.phase
           /\ WithInstalled(r, i).moved = r.moved
           /\ \A j \in Op : WithInstalled(r, i).installed[j] =
                                (j = i \/ r.installed[j])
           /\ Completed(r).status = "committed"
           /\ \A j \in Op : Completed(r).phase[j] = "complete"
           /\ Completed(r).moved = r.moved
           /\ Completed(r).installed = r.installed
  BY DEF Record, WithStatus, WithPhase, WithMoved, WithInstalled, Completed

LEMMA NoRecordFacts ==
    /\ NoRecord.status = "none"
    /\ \A i \in Op : NoRecord.phase[i] = "pending"
    /\ \A i \in Op : ~NoRecord.moved[i] /\ ~NoRecord.installed[i]
  BY DEF NoRecord

\* What the assignments to the record object leave in its fields.
LEMMA PhaseFields ==
    ASSUME TypeOK, NEW p \in Phase, record' = WithPhase(record, cur, p)
    PROVE  /\ record'.status = record.status
           /\ record'.moved = record.moved
           /\ record'.installed = record.installed
           /\ \A i \in Op : record'.phase[i] =
                             IF i = cur THEN p ELSE record.phase[i]
  BY FieldFacts DEF TypeOK

LEMMA MovedFields ==
    ASSUME TypeOK,
           record' = WithMoved(WithPhase(record, cur, "backup_moved"), cur)
    PROVE  /\ record'.status = record.status
           /\ \A i \in Op : record'.moved[i] = (i = cur \/ record.moved[i])
           /\ record'.installed = record.installed
           /\ \A i \in Op : record'.phase[i] =
                             IF i = cur THEN "backup_moved" ELSE record.phase[i]
  <1> DEFINE r == WithPhase(record, cur, "backup_moved")
  <1>1. r \in Record
    BY NameFacts, RecordFacts DEF TypeOK
  <1>2. /\ r.status = record.status /\ r.moved = record.moved
        /\ r.installed = record.installed
        /\ \A i \in Op : r.phase[i] =
                          IF i = cur THEN "backup_moved" ELSE record.phase[i]
    BY FieldFacts, NameFacts DEF TypeOK
  <1>3. record' = WithMoved(r, cur)
    OBVIOUS
  <1> HIDE DEF r
  <1>4. QED
    BY <1>1, <1>2, <1>3, FieldFacts DEF TypeOK

LEMMA InstalledFields ==
    ASSUME TypeOK,
           record' = WithInstalled(WithPhase(record, cur, "installed"), cur)
    PROVE  /\ record'.status = record.status
           /\ \A i \in Op :
                  record'.installed[i] = (i = cur \/ record.installed[i])
           /\ record'.moved = record.moved
           /\ \A i \in Op : record'.phase[i] =
                             IF i = cur THEN "installed" ELSE record.phase[i]
  <1> DEFINE r == WithPhase(record, cur, "installed")
  <1>1. r \in Record
    BY NameFacts, RecordFacts DEF TypeOK
  <1>2. /\ r.status = record.status /\ r.moved = record.moved
        /\ r.installed = record.installed
        /\ \A i \in Op : r.phase[i] =
                          IF i = cur THEN "installed" ELSE record.phase[i]
    BY FieldFacts, NameFacts DEF TypeOK
  <1>3. record' = WithInstalled(r, cur)
    OBVIOUS
  <1> HIDE DEF r
  <1>4. QED
    BY <1>1, <1>2, <1>3, FieldFacts DEF TypeOK

LEMMA PreparedFields ==
    LET r == WithStatus(NoRecord, "prepared")
    IN  /\ r.status = "prepared"
        /\ \A i \in Op : r.phase[i] = "pending"
        /\ \A i \in Op : ~r.moved[i] /\ ~r.installed[i]
  <1>1. /\ WithStatus(NoRecord, "prepared").status = "prepared"
        /\ WithStatus(NoRecord, "prepared").phase = NoRecord.phase
        /\ WithStatus(NoRecord, "prepared").moved = NoRecord.moved
        /\ WithStatus(NoRecord, "prepared").installed = NoRecord.installed
    BY FieldFacts, NameFacts, RecordFacts, OpFacts
  <1>2. QED
    BY <1>1, NoRecordFacts

LEMMA RecordInit == Init => RecordInv
  BY NoRecordFacts, OpFacts
     DEF Init, RecordInv, FlagsInv, StatusInv, PhaseInv, AheadInv, FlagsClear,
         Staging, Applying, Undoing, Restoring

LEMMA RecordNext ==
    ASSUME TypeOK, TypeOK', PlanInv, RecordInv, [Next \/ Editor]_vars
    PROVE  RecordInv'
  <1> USE OpFacts
      DEF TypeOK, RecordInv, FlagsInv, StatusInv, PhaseInv, AheadInv,
          FlagsClear, FlagsDone, Staging, Applying, Undoing, Restoring,
          planned, ledger, Goto, GotoOp, Unwind, Raise, IOError, history
  <1>1. CASE CommitBegin
    BY <1>1, NoRecordFacts DEF CommitBegin
  <1>2. CASE CommitCheck
    BY <1>2 DEF CommitCheck
  <1>3. CASE StagePayload
    BY <1>3 DEF StagePayload
  <1>4. CASE Rescan
    BY <1>4 DEF Rescan
  <1>5. CASE Cleanup
    BY <1>5 DEF Cleanup
  <1>6. CASE Prepare
    <2>1. /\ record'.status = "prepared"
          /\ \A i \in Op : record'.phase[i] = "pending"
          /\ \A i \in Op : ~record'.moved[i] /\ ~record'.installed[i]
      BY <1>6, PreparedFields
         DEF Prepare, SaveCommit, SaveFails
    <2>2. FlagsInv'
      BY <1>6, <2>1, NoRecordFacts DEF Prepare, NextOp, PlanInv, SaveCommit, SaveFails
    <2>3. StatusInv'
      BY <1>6, <2>1, NoRecordFacts DEF Prepare, NextOp, PlanInv, SaveCommit, SaveFails
    <2>4. PhaseInv'
      BY <1>6, <2>1, NoRecordFacts DEF Prepare, NextOp, PlanInv, SaveCommit, SaveFails
    <2>5. AheadInv'
      BY <1>6, <2>1, NoRecordFacts DEF Prepare, NextOp, PlanInv, SaveCommit, SaveFails
    <2>6. QED
      BY <2>2, <2>3, <2>4, <2>5
  <1>7. CASE JournalMove
    <2>a. CASE UNCHANGED <<record, disk>> /\ (Raise \/ IOError)
      BY <1>7, <2>a DEF JournalMove
    <2>b. CASE record' = WithPhase(record, cur, "moving_backup")
      <3>1. /\ record'.status = record.status
          /\ record'.moved = record.moved
          /\ record'.installed = record.installed
          /\ \A i \in Op : record'.phase[i] =
                            IF i = cur THEN "moving_backup" ELSE record.phase[i]
        BY <2>b, PhaseFields, NameFacts
      <3>2. QED
        BY <1>7, <2>b, <3>1 DEF JournalMove, SaveCommit, SaveFails
    <2>c. QED
      BY <1>7, <2>a, <2>b DEF JournalMove, SaveCommit, SaveFails
  <1>8. CASE MoveBackup
    <2>a. CASE UNCHANGED record /\ IOError
      BY <1>8, <2>a DEF MoveBackup
    <2>b. CASE /\ record' = WithMoved(WithPhase(record, cur, "backup_moved"),
                                      cur)
               /\ Goto("moved")
      <3>1. /\ record'.status = record.status
            /\ \A i \in Op : record'.moved[i] = (i = cur \/ record.moved[i])
            /\ record'.installed = record.installed
            /\ \A i \in Op : record'.phase[i] =
                              IF i = cur THEN "backup_moved" ELSE record.phase[i]
        BY <2>b, MovedFields
      <3>2. /\ pc = "move" /\ pc' = "moved" /\ cur' = cur
            /\ base' = base /\ staged' = staged /\ disk' = disk
        BY <1>8, <2>b DEF MoveBackup
      <3>3. QED
        BY <3>1, <3>2
    <2>c. QED
      BY <1>8, <2>a, <2>b DEF MoveBackup
  <1>9. CASE JournalMoved
    <2>1. record' = record /\ disk' \in {disk, record}
      BY <1>9 DEF JournalMoved, SaveCommit, SaveFails
    <2>2. FlagsInv'
      <3>a. CASE SaveFails(record)
        BY <1>9, <2>1, <3>a DEF JournalMoved, SaveFails
      <3>b. CASE SaveCommit(record) /\ staged[cur] # NoEntry
        BY <1>9, <2>1, <3>b DEF JournalMoved, SaveCommit, SaveFails
      <3>c. CASE SaveCommit(record) /\ staged[cur] = NoEntry /\ NextOp(cur + 1)
        <4>1. \A i \in Op : i < cur + 1 => FlagsDone(record, i)
          BY <1>9, <3>c DEF JournalMoved
        <4>2. CASE cur + 1 > NOps
          <5>1. \A i \in Op : FlagsDone(record, i)
            BY <4>1, <4>2, LastOp, OpOrder
          <5>2. pc' = "verify"
            BY <3>c, <4>2 DEF NextOp
          <5>3. QED
            BY <1>9, <2>1, <3>c, <5>1, <5>2 DEF JournalMoved
        <4>3. CASE ~(cur + 1 > NOps)
          BY <1>9, <2>1, <3>c, <4>1, <4>3 DEF NextOp, PlanInv, JournalMoved
        <4>4. QED
          BY <4>2, <4>3
      <3>d. QED
        BY <1>9, <3>a, <3>b, <3>c DEF JournalMoved
    <2>3. StatusInv'
      BY <1>9, <2>1 DEF JournalMoved, NextOp, PlanInv, SaveCommit, SaveFails
    <2>4. PhaseInv'
      BY <1>9, <2>1 DEF JournalMoved, NextOp, PlanInv, SaveCommit, SaveFails
    <2>5. AheadInv'
      BY <1>9, <2>1 DEF JournalMoved, NextOp, PlanInv, SaveCommit, SaveFails
    <2>6. QED
      BY <2>2, <2>3, <2>4, <2>5
  <1>10. CASE JournalInstall
    <2>a. CASE UNCHANGED <<record, disk>> /\ IOError
      BY <1>10, <2>a DEF JournalInstall
    <2>b. CASE record' = WithPhase(record, cur, "installing")
      <3>1. /\ record'.status = record.status
            /\ record'.moved = record.moved
            /\ record'.installed = record.installed
            /\ \A i \in Op : record'.phase[i] =
                              IF i = cur THEN "installing" ELSE record.phase[i]
        BY <2>b, PhaseFields, NameFacts
      <3>2. FlagsInv'
        BY <1>10, <2>b, <3>1 DEF JournalInstall, SaveCommit, SaveFails
      <3>3. StatusInv'
        BY <1>10, <2>b, <3>1 DEF JournalInstall, SaveCommit, SaveFails
      <3>4. PhaseInv'
        BY <1>10, <2>b, <3>1 DEF JournalInstall, SaveCommit, SaveFails
      <3>5. AheadInv'
        BY <1>10, <2>b, <3>1 DEF JournalInstall, SaveCommit, SaveFails
      <3>6. QED
        BY <3>2, <3>3, <3>4, <3>5
    <2>c. QED
      BY <1>10, <2>a, <2>b DEF JournalInstall, SaveCommit, SaveFails
  <1>11. CASE Install
    <2>a. CASE UNCHANGED record /\ IOError
      BY <1>11, <2>a DEF Install
    <2>b. CASE /\ record' = WithInstalled(WithPhase(record, cur, "installed"),
                                          cur)
               /\ Goto("installed")
      <3>1. /\ record'.status = record.status
            /\ \A i \in Op :
                   record'.installed[i] = (i = cur \/ record.installed[i])
            /\ record'.moved = record.moved
            /\ \A i \in Op : record'.phase[i] =
                              IF i = cur THEN "installed" ELSE record.phase[i]
        BY <2>b, InstalledFields
      <3>2. /\ pc = "install" /\ pc' = "installed" /\ cur' = cur
            /\ base' = base /\ staged' = staged /\ disk' = disk
        BY <1>11, <2>b DEF Install
      <3>3. FlagsInv'
        BY <3>1, <3>2
      <3>4. StatusInv'
        BY <3>1, <3>2
      <3>5. PhaseInv'
        BY <3>1, <3>2
      <3>6. AheadInv'
        BY <3>1, <3>2
      <3>7. QED
        BY <3>3, <3>4, <3>5, <3>6
    <2>c. QED
      BY <1>11, <2>a, <2>b DEF Install
  <1>12. CASE JournalInstalled
    <2>1. record' = record /\ disk' \in {disk, record}
      BY <1>12 DEF JournalInstalled, SaveCommit, SaveFails
    <2>2. FlagsInv'
      <3>a. CASE SaveFails(record)
        BY <1>12, <2>1, <3>a DEF JournalInstalled, SaveFails
      <3>c. CASE SaveCommit(record) /\ NextOp(cur + 1)
        <4>1. \A i \in Op : i < cur + 1 => FlagsDone(record, i)
          BY <1>12, <3>c DEF JournalInstalled
        <4>2. CASE cur + 1 > NOps
          <5>1. \A i \in Op : FlagsDone(record, i)
            BY <4>1, <4>2, LastOp, OpOrder
          <5>2. pc' = "verify"
            BY <3>c, <4>2 DEF NextOp
          <5>3. QED
            BY <1>12, <2>1, <3>c, <5>1, <5>2 DEF JournalInstalled
        <4>3. CASE ~(cur + 1 > NOps)
          BY <1>12, <2>1, <3>c, <4>1, <4>3 DEF NextOp, PlanInv, JournalInstalled
        <4>4. QED
          BY <4>2, <4>3
      <3>d. QED
        BY <1>12, <3>a, <3>c DEF JournalInstalled
    <2>3. StatusInv'
      BY <1>12, <2>1 DEF JournalInstalled, NextOp, PlanInv, SaveCommit, SaveFails
    <2>4. PhaseInv'
      BY <1>12, <2>1 DEF JournalInstalled, NextOp, PlanInv, SaveCommit, SaveFails
    <2>5. AheadInv'
      BY <1>12, <2>1 DEF JournalInstalled, NextOp, PlanInv, SaveCommit, SaveFails
    <2>6. QED
      BY <2>2, <2>3, <2>4, <2>5
  <1>13. CASE Verify
    BY <1>13 DEF Verify
  <1>14. CASE Finish
    <2>1. /\ record'.status = "committed"
          /\ \A i \in Op : record'.phase[i] = "complete"
          /\ record'.moved = record.moved
          /\ record'.installed = record.installed
          /\ disk' \in {disk, record'}
      BY <1>14, FieldFacts DEF Finish, SaveCommit, SaveFails
    <2>2. /\ UNCHANGED <<base, staged>> /\ pc = "finish"
          /\ pc' = "clear" \/ (pc' = "undo_new" /\ cur' = NOps)
      BY <1>14 DEF Finish, SaveCommit, SaveFails
    <2>3. QED
      BY <2>1, <2>2
  <1>15. CASE ClearApply
    BY <1>15 DEF ClearApply
  <1>16. CASE SavePlan
    BY <1>16 DEF SavePlan
  <1>17. CASE SaveTx
    BY <1>17 DEF SaveTx
  <1>18. CASE AuditCommit
    BY <1>18 DEF AuditCommit, Append
  <1>19. CASE UndoNew
    BY <1>19 DEF UndoNew, PrevOp, UndoFailed
  <1>20. CASE UndoBackup
    <2>a. CASE UNCHANGED record /\ UndoFailed("undo_save")
      BY <1>20, <2>a DEF UndoBackup, UndoFailed, PrevOp
    <2>b. CASE record' = WithPhase(record, cur, "rolled_back")
      <3>1. /\ record'.status = record.status
          /\ record'.moved = record.moved
          /\ record'.installed = record.installed
          /\ \A i \in Op : record'.phase[i] =
                            IF i = cur THEN "rolled_back" ELSE record.phase[i]
        BY <2>b, PhaseFields, NameFacts
      <3>2. QED
        BY <1>20, <2>b, <3>1 DEF UndoBackup, UndoFailed, PrevOp
    <2>c. QED
      BY <1>20, <2>a, <2>b DEF UndoBackup
  <1>21. CASE UndoSave
    <2>1. /\ record'.status \in {"rolled_back", "rollback_failed"}
          /\ record'.phase = record.phase
          /\ record'.moved = record.moved
          /\ record'.installed = record.installed
      BY <1>21, FieldFacts, NameFacts DEF UndoSave, SaveCommit, SaveFails
    <2>2. FlagsInv'
      BY <1>21, <2>1 DEF UndoSave, SaveCommit, SaveFails
    <2>3. StatusInv'
      BY <1>21, <2>1 DEF UndoSave, SaveCommit, SaveFails
    <2>4. PhaseInv'
      BY <1>21, <2>1 DEF UndoSave, SaveCommit, SaveFails
    <2>5. AheadInv'
      BY <1>21, <2>1 DEF UndoSave, SaveCommit, SaveFails
    <2>6. QED
      BY <2>2, <2>3, <2>4, <2>5
  <1>22. CASE UndoVerify
    BY <1>22 DEF UndoVerify
  <1>23. CASE UndoAudit
    BY <1>23 DEF UndoAudit, Append
  <1>24. CASE RestoreBegin
    BY <1>24 DEF RestoreBegin
  <1>25. CASE RestoreCheck
    BY <1>25 DEF RestoreCheck
  <1>26. CASE RestoreDisplace
    BY <1>26 DEF RestoreDisplace
  <1>27. CASE RestoreReturn
    <2>a. CASE UNCHANGED record
      BY <1>27, <2>a DEF RestoreReturn, PrevOp
    <2>b. CASE record' = WithPhase(record, cur, "restored")
      <3>1. /\ record'.status = record.status
          /\ record'.moved = record.moved
          /\ record'.installed = record.installed
          /\ \A i \in Op : record'.phase[i] =
                            IF i = cur THEN "restored" ELSE record.phase[i]
        BY <2>b, PhaseFields, NameFacts
      <3>2. QED
        BY <1>27, <2>b, <3>1 DEF RestoreReturn, PrevOp
    <2>c. QED
      BY <1>27, <2>a, <2>b DEF RestoreReturn
  <1>28. CASE RestoreVerify
    BY <1>28 DEF RestoreVerify
  <1>29. CASE RestoreSave
    <2>1. /\ record'.status = "restored"
          /\ record'.phase = record.phase
          /\ record'.moved = record.moved
          /\ record'.installed = record.installed
      BY <1>29, FieldFacts, NameFacts DEF RestoreSave, SaveCommit, SaveFails
    <2>2. FlagsInv'
      BY <1>29, <2>1 DEF RestoreSave, SaveCommit, SaveFails
    <2>3. StatusInv'
      BY <1>29, <2>1 DEF RestoreSave, SaveCommit, SaveFails
    <2>4. PhaseInv'
      BY <1>29, <2>1 DEF RestoreSave, SaveCommit, SaveFails
    <2>5. AheadInv'
      BY <1>29, <2>1 DEF RestoreSave, SaveCommit, SaveFails
    <2>6. QED
      BY <2>2, <2>3, <2>4, <2>5
  <1>30. CASE RestoreAudit
    BY <1>30 DEF RestoreAudit, Append
  <1>31. CASE Unlock
    BY <1>31, NoRecordFacts DEF Unlock, Forget
  <1>32. CASE Interrupt
    BY <1>32 DEF Interrupt
  <1>33. CASE Crash
    BY <1>33, NoRecordFacts DEF Crash, Forget
  <1>34. CASE Agent
    BY <1>34 DEF Agent, control
  <1>35. CASE Editor
    BY <1>35 DEF Editor, control
  <1>36. CASE UNCHANGED vars
    BY <1>36 DEF vars, control
  <1>37. QED
    BY <1>1, <1>2, <1>3, <1>4, <1>5, <1>6, <1>7, <1>8, <1>9, <1>10, <1>11,
       <1>12, <1>13, <1>14, <1>15, <1>16, <1>17, <1>18, <1>19, <1>20, <1>21,
       <1>22, <1>23, <1>24, <1>25, <1>26, <1>27, <1>28, <1>29, <1>30, <1>31,
       <1>32, <1>33, <1>34, <1>35, <1>36
       DEF Next, Broker, Commit, Rollback, Restore

----------------------------------------------------------------------------
(* The entries of one operation.                                             *)

LEMMA OpInit ==
    ASSUME Init, NEW i \in Op
    PROVE  OpInv(i)
  BY OpFacts, NoRecordFacts
     DEF Init, OpInv, Safe, Fresh, FlagsClear, EmptyStore

\* A path no editor has written after a step had none write it before.
LEMMA UntouchedBefore ==
    ASSUME TypeOK, [Next \/ Editor]_vars, NEW p \in Path, Untouched(p)'
    PROVE  Untouched(p)
  <1>1. CASE Editor
    BY <1>1, NoEntryAssumption, EditorPathsAssumption
       DEF Editor, Untouched, TypeOK, Tree
  <1>2. CASE mine' = mine
    BY <1>2 DEF Untouched
  <1>3. Commit => mine' = mine
    BY DEF Commit, CommitBegin, CommitCheck, StagePayload, Rescan, Cleanup,
           Prepare, JournalMove, MoveBackup, JournalMoved, JournalInstall,
           Install, JournalInstalled, Verify, Finish, ClearApply, SavePlan,
           SaveTx, AuditCommit, SaveCommit, SaveFails, NextOp, Goto, GotoOp,
           Raise, IOError, Append, history
  <1>4. Rollback => mine' = mine
    BY DEF Rollback, UndoNew, UndoBackup, UndoSave, UndoVerify, UndoAudit,
           UndoFailed, SaveCommit, SaveFails, Goto, IOError, Append, history
  <1>5. Restore => mine' = mine
    BY DEF Restore, RestoreBegin, RestoreCheck, RestoreDisplace,
           RestoreReturn, RestoreVerify, RestoreSave, RestoreAudit, SaveCommit,
           SaveFails, Goto, GotoOp, Raise, IOError, Append, history
  <1>6. Unlock \/ Interrupt \/ Crash \/ Agent \/ UNCHANGED vars
            => mine' = mine
    BY DEF Unlock, Interrupt, Crash, Agent, Goto, history, vars
  <1>7. QED
    BY <1>1, <1>2, <1>3, <1>4, <1>5, <1>6 DEF Next, Broker

\* No step disturbs an operation unless an editor writes its path with it.
LEMMA OpStep ==
    ASSUME TypeOK, TypeOK', PlanInv, RecordInv, RecordInv', NEW i \in Op,
           OpInv(i), [Next \/ (Editor /\ live'[i] = live[i])]_vars
    PROVE  OpInv(i)'
  <1>b. i <= NOps
    BY OpOrder
  <1> USE OpFacts, <1>b
      DEF TypeOK, RecordInv, FlagsInv, StatusInv, FlagsClear, FlagsDone,
          OpInv, Safe, Fresh, Kept, Staging, Applying, Undoing, Restoring,
          planned, trees, stores, Goto, GotoOp, Unwind, Raise, IOError
  <1>1. CASE CommitBegin
    BY <1>1, NoRecordFacts
       DEF CommitBegin
  <1>2. CASE CommitCheck
    BY <1>2
       DEF CommitCheck
  <1>3. CASE StagePayload
    BY <1>3
       DEF StagePayload
  <1>4. CASE Rescan
    BY <1>4
       DEF Rescan
  <1>5. CASE Cleanup
    BY <1>5
       DEF Cleanup
  <1>6. CASE Prepare
    BY <1>6, PreparedFields
       DEF Prepare, NextOp, PlanInv, SaveCommit, SaveFails
  <1>7. CASE JournalMove
    BY <1>7, PhaseFields, NameFacts
       DEF JournalMove, SaveCommit, SaveFails
  <1>8. CASE MoveBackup
    BY <1>8, MovedFields
       DEF MoveBackup, Tree, Store
  <1>9. CASE JournalMoved
    BY <1>9, OpOrder, LastOp
       DEF JournalMoved, NextOp, PlanInv, SaveCommit, SaveFails
  <1>10. CASE JournalInstall
    <2>a. CASE UNCHANGED <<record, disk>> /\ IOError
      <3>1. /\ pc = "installing" /\ pc' = "undo_new" /\ cur' = NOps
            /\ failed' = failed /\ base' = base /\ staged' = staged
            /\ live' = live /\ quarantine' = quarantine /\ apply' = apply
            /\ record' = record /\ disk' = disk
        BY <1>10, <2>a DEF JournalInstall
      <3>2. Fresh(i) \/ Kept(i)
        BY <3>1
      <3>3. Fresh(i)' \/ Kept(i)'
        BY <3>1, <3>2
      <3>4. Safe(i)' /\ (disk'.status = "none" => Fresh(i)')
        BY <3>1
      <3>5. pc' = "undo_new" /\ ~(i > cur')
        BY <3>1, NOpsAssumption
      <3>6. QED
        BY <3>3, <3>4, <3>5
    <2>b. CASE record' = WithPhase(record, cur, "installing")
      <3>1. /\ record'.status = record.status
            /\ record'.moved = record.moved
            /\ record'.installed = record.installed
        BY <2>b, PhaseFields, NameFacts
      <3>a. CASE SaveCommit(record') /\ Goto("install")
        BY <1>10, <2>b, <3>1, <3>a DEF JournalInstall, SaveCommit
      <3>b. CASE SaveFails(record')
        BY <1>10, <2>b, <3>1, <3>b DEF JournalInstall, SaveFails
      <3>2. QED
        BY <1>10, <2>b, <3>a, <3>b DEF JournalInstall, SaveCommit, SaveFails
    <2>c. QED
      BY <1>10, <2>a, <2>b DEF JournalInstall, SaveCommit, SaveFails
  <1>11. CASE Install
    BY <1>11, InstalledFields
       DEF Install, Tree, Store
  <1>12. CASE JournalInstalled
    <2>a. CASE SaveFails(record)
      BY <1>12, <2>a DEF JournalInstalled, SaveFails
    <2>b. CASE SaveCommit(record) /\ NextOp(cur + 1)
      <3>1. i <= cur => Kept(i)'
        <4>1. /\ UNCHANGED <<live, quarantine, base, record>>
              /\ pc = "installed"
          BY <1>12, <2>b DEF JournalInstalled, SaveCommit
        <4>2. i <= cur => i < cur \/ i = cur
          BY OpSplit
        <4>3. (i < cur \/ i = cur) => Kept(i)
          BY <4>1
        <4>4. QED
          BY <4>1, <4>2, <4>3
      <3>2. CASE cur + 1 > NOps
        <4>1. pc' = "verify" /\ i <= cur
          BY <2>b, <3>2, LastOp DEF NextOp
        <4>2. QED
          BY <1>12, <2>b, <3>1, <4>1 DEF JournalInstalled, SaveCommit
      <3>3. CASE ~(cur + 1 > NOps)
        BY <1>12, <2>b, <3>1, <3>3, OpOrder
           DEF JournalInstalled, SaveCommit, NextOp
      <3>4. QED
        BY <3>2, <3>3
    <2>c. QED
      BY <1>12, <2>a, <2>b DEF JournalInstalled
  <1>13. CASE Verify
    <2>1. /\ UNCHANGED <<live, quarantine, base, staged, record, disk>>
          /\ pc = "verify"
          /\ \/ pc' = "finish" /\ live = staged
             \/ pc' = "undo_new" /\ cur' = NOps
      BY <1>13 DEF Verify
    <2>2. Kept(i) /\ Kept(i)' /\ Safe(i)' /\ disk'.status # "none"
      BY <2>1
    <2>3. CASE pc' = "finish"
      BY <2>1, <2>2, <2>3
    <2>4. CASE pc' = "undo_new" /\ cur' = NOps
      BY <2>1, <2>2, <2>4
    <2>5. QED
      BY <2>1, <2>3, <2>4
  <1>14. CASE Finish
    <2>1. /\ record'.moved = record.moved
          /\ record'.installed = record.installed
          /\ record'.status = "committed"
          /\ disk' \in {disk, record'}
      BY <1>14, FieldFacts DEF Finish, SaveCommit, SaveFails
    <2>2. /\ UNCHANGED <<live, quarantine, base, staged>> /\ pc = "finish"
          /\ pc' = "clear" \/ (pc' = "undo_new" /\ cur' = NOps)
      BY <1>14 DEF Finish, SaveCommit, SaveFails
    <2>3. disk'.status # "none"
      BY <2>1, <2>2
    <2>4. Kept(i)'
      BY <2>1, <2>2
    <2>5. CASE pc' = "clear"
      BY <2>2, <2>3, <2>4, <2>5
    <2>6. CASE pc' = "undo_new" /\ cur' = NOps
      BY <2>2, <2>3, <2>4, <2>6
    <2>7. QED
      BY <2>2, <2>5, <2>6
  <1>15. CASE ClearApply
    BY <1>15
       DEF ClearApply
  <1>16. CASE SavePlan
    BY <1>16
       DEF SavePlan
  <1>17. CASE SaveTx
    BY <1>17
       DEF SaveTx
  <1>18. CASE AuditCommit
    BY <1>18
       DEF AuditCommit, Append
  <1>19. CASE UndoNew
    BY <1>19
       DEF UndoNew, PrevOp, UndoFailed, Tree, Store
  <1>20. CASE UndoBackup
    BY <1>20, PhaseFields, NameFacts
       DEF UndoBackup, PrevOp, UndoFailed, Tree, Store
  <1>21. CASE UndoSave
    BY <1>21, FieldFacts, NameFacts
       DEF UndoSave, SaveCommit, SaveFails
  <1>22. CASE UndoVerify
    BY <1>22
       DEF UndoVerify
  <1>23. CASE UndoAudit
    BY <1>23
       DEF UndoAudit, Append
  <1>24. CASE RestoreBegin
    BY <1>24
       DEF RestoreBegin
  <1>25. CASE RestoreCheck
    BY <1>25
       DEF RestoreCheck, PlanInv
  <1>26. CASE RestoreDisplace
    BY <1>26
       DEF RestoreDisplace, Tree, Store
  <1>27. CASE RestoreReturn
    BY <1>27, PhaseFields, NameFacts
       DEF RestoreReturn, PrevOp, Tree, Store
  <1>28. CASE RestoreVerify
    BY <1>28
       DEF RestoreVerify
  <1>29. CASE RestoreSave
    BY <1>29, FieldFacts, NameFacts
       DEF RestoreSave, SaveCommit, SaveFails
  <1>30. CASE RestoreAudit
    BY <1>30
       DEF RestoreAudit, Append
  <1>31. CASE Unlock
    BY <1>31, NoRecordFacts
       DEF Unlock, Forget
  <1>32. CASE Interrupt
    BY <1>32
       DEF Interrupt
  <1>33. CASE Crash
    BY <1>33, NoRecordFacts
       DEF Crash, Forget
  <1>34. CASE Agent
    BY <1>34
       DEF Agent, control
  <1>35. CASE Editor /\ live'[i] = live[i]
    <2>1. live'[i] = live[i]
      BY <1>35
    <2>2. QED
      BY <1>35, <2>1 DEF Editor, control
  <1>36. CASE UNCHANGED vars
    BY <1>36 DEF vars, control
  <1>37. QED
    BY <1>1, <1>2, <1>3, <1>4, <1>5, <1>6, <1>7, <1>8, <1>9, <1>10, <1>11,
       <1>12, <1>13, <1>14, <1>15, <1>16, <1>17, <1>18, <1>19, <1>20, <1>21,
       <1>22, <1>23, <1>24, <1>25, <1>26, <1>27, <1>28, <1>29, <1>30, <1>31,
       <1>32, <1>33, <1>34, <1>35, <1>36
       DEF Next, Broker, Commit, Rollback, Restore

LEMMA OpNext ==
    ASSUME TypeOK, TypeOK', PlanInv, RecordInv, RecordInv', NEW i \in Op,
           Untouched(i), OpInv(i), Untouched(i)', [Next \/ Editor]_vars
    PROVE  OpInv(i)'
  <1>1. Editor => live'[i] = live[i]
    BY NoEntryAssumption, EditorPathsAssumption, OpFacts
       DEF Editor, Untouched, TypeOK, Tree
  <1>2. QED
    BY <1>1, OpStep

----------------------------------------------------------------------------
(* The journal, the settled statuses and the rest of the workspace.          *)

\* What is in the memory of a broker that saves a record is no further behind
\* than the record on disk.
LEMMA AheadNext ==
    ASSUME TypeOK, TypeOK', PlanInv, RecordInv, NEW p \in Path, Untouched(p),
           Untouched(p)', [Next \/ Editor]_vars,
           live[p] # base[p] => p \in Op /\ disk.phase[p] # "pending"
    PROVE  (live[p] # base[p] => p \in Op /\ disk.phase[p] # "pending")'
  <1> USE OpFacts
      DEF TypeOK, RecordInv, StatusInv, PhaseInv, AheadInv, FlagsInv,
          Staging, Applying, Undoing, Restoring, planned, trees, stores,
          Goto, GotoOp, Unwind, Raise, IOError
  <1>1. CASE CommitBegin
    BY <1>1 DEF CommitBegin
  <1>2. CASE CommitCheck
    BY <1>2 DEF CommitCheck
  <1>3. CASE StagePayload
    BY <1>3 DEF StagePayload
  <1>4. CASE Rescan
    BY <1>4 DEF Rescan
  <1>5. CASE Cleanup
    BY <1>5 DEF Cleanup
  <1>6. CASE Prepare
    BY <1>6, NoRecordFacts DEF Prepare, NextOp, SaveCommit, SaveFails
  <1>7. CASE JournalMove
    <2>a. CASE UNCHANGED <<record, disk>>
      BY <1>7, <2>a DEF JournalMove
    <2>b. CASE record' = WithPhase(record, cur, "moving_backup")
      <3>1. \A i \in Op : record'.phase[i] =
                          IF i = cur THEN "moving_backup" ELSE record.phase[i]
        BY <2>b, PhaseFields, NameFacts
      <3>2. QED
        BY <1>7, <2>b, <3>1 DEF JournalMove, SaveCommit, SaveFails
    <2>c. QED
      BY <1>7, <2>a, <2>b DEF JournalMove, SaveCommit, SaveFails
  <1>8. CASE MoveBackup
    BY <1>8 DEF MoveBackup, Tree, Store
  <1>9. CASE JournalMoved
    BY <1>9 DEF JournalMoved, SaveCommit, SaveFails
  <1>10. CASE JournalInstall
    <2>a. CASE UNCHANGED <<record, disk>>
      BY <1>10, <2>a DEF JournalInstall
    <2>b. CASE record' = WithPhase(record, cur, "installing")
      <3>1. \A i \in Op : record'.phase[i] =
                          IF i = cur THEN "installing" ELSE record.phase[i]
        BY <2>b, PhaseFields, NameFacts
      <3>2. QED
        BY <1>10, <2>b, <3>1 DEF JournalInstall, SaveCommit, SaveFails
    <2>c. QED
      BY <1>10, <2>a, <2>b DEF JournalInstall, SaveCommit, SaveFails
  <1>11. CASE Install
    BY <1>11 DEF Install, Tree, Store
  <1>12. CASE JournalInstalled
    BY <1>12 DEF JournalInstalled, SaveCommit, SaveFails
  <1>13. CASE Verify
    BY <1>13 DEF Verify
  <1>14. CASE Finish
    BY <1>14, FieldFacts DEF Finish, SaveCommit, SaveFails
  <1>15. CASE ClearApply
    BY <1>15 DEF ClearApply
  <1>16. CASE SavePlan
    BY <1>16 DEF SavePlan
  <1>17. CASE SaveTx
    BY <1>17 DEF SaveTx
  <1>18. CASE AuditCommit
    BY <1>18 DEF AuditCommit
  <1>19. CASE UndoNew
    BY <1>19 DEF UndoNew, Tree
  <1>20. CASE UndoBackup
    BY <1>20 DEF UndoBackup, Tree
  <1>21. CASE UndoSave
    <2>1. record'.phase = record.phase
      BY <1>21, FieldFacts, NameFacts DEF UndoSave, SaveCommit, SaveFails
    <2>2. QED
      BY <1>21, <2>1 DEF UndoSave, SaveCommit, SaveFails
  <1>22. CASE UndoVerify
    BY <1>22 DEF UndoVerify
  <1>23. CASE UndoAudit
    BY <1>23 DEF UndoAudit
  <1>24. CASE RestoreBegin
    BY <1>24 DEF RestoreBegin
  <1>25. CASE RestoreCheck
    BY <1>25 DEF RestoreCheck
  <1>26. CASE RestoreDisplace
    BY <1>26 DEF RestoreDisplace, Tree
  <1>27. CASE RestoreReturn
    BY <1>27 DEF RestoreReturn, Tree
  <1>28. CASE RestoreVerify
    BY <1>28 DEF RestoreVerify
  <1>29. CASE RestoreSave
    <2>1. record'.phase = record.phase
      BY <1>29, FieldFacts, NameFacts DEF RestoreSave, SaveCommit, SaveFails
    <2>2. QED
      BY <1>29, <2>1 DEF RestoreSave, SaveCommit, SaveFails
  <1>30. CASE RestoreAudit
    BY <1>30 DEF RestoreAudit
  <1>31. CASE Unlock
    BY <1>31 DEF Unlock
  <1>32. CASE Interrupt
    BY <1>32 DEF Interrupt
  <1>33. CASE Crash
    BY <1>33 DEF Crash
  <1>34. CASE Agent
    BY <1>34 DEF Agent
  <1>35. CASE Editor
    <2>1. live'[p] = live[p]
      BY <1>35, NoEntryAssumption, EditorPathsAssumption
         DEF Editor, Untouched, Tree
    <2>2. QED
      BY <1>35, <2>1 DEF Editor
  <1>36. CASE UNCHANGED vars
    BY <1>36 DEF vars
  <1>37. QED
    BY <1>1, <1>2, <1>3, <1>4, <1>5, <1>6, <1>7, <1>8, <1>9, <1>10, <1>11,
       <1>12, <1>13, <1>14, <1>15, <1>16, <1>17, <1>18, <1>19, <1>20, <1>21,
       <1>22, <1>23, <1>24, <1>25, <1>26, <1>27, <1>28, <1>29, <1>30, <1>31,
       <1>32, <1>33, <1>34, <1>35, <1>36
       DEF Next, Broker, Commit, Rollback, Restore

LEMMA SettledNext ==
    ASSUME TypeOK, TypeOK', RecordInv, NEW p \in Path, Untouched(p),
           Untouched(p)', [Next \/ Editor]_vars,
           p \in Op => OpInv(p), p \notin Op => live[p] = base[p],
           disk.status \in {"rolled_back", "restored"} => live[p] = base[p]
    PROVE  (disk.status \in {"rolled_back", "restored"}
                => live[p] = base[p])'
  <1> USE OpFacts
      DEF TypeOK, RecordInv, StatusInv, Staging, Applying, Undoing, Restoring,
          planned, trees, stores, IOError
  <1>1. CASE CommitBegin
    BY <1>1 DEF CommitBegin
  <1>2. CASE CommitCheck
    BY <1>2 DEF CommitCheck
  <1>3. CASE StagePayload
    BY <1>3 DEF StagePayload
  <1>4. CASE Rescan
    BY <1>4 DEF Rescan
  <1>5. CASE Cleanup
    BY <1>5 DEF Cleanup
  <1>6. CASE Prepare
    <2>1. record'.status = "prepared"
      BY <1>6, PreparedFields DEF Prepare, SaveCommit, SaveFails
    <2>2. QED
      BY <1>6, <2>1 DEF Prepare, SaveCommit, SaveFails
  <1>7. CASE JournalMove
    <2>1. record'.status = record.status
      BY <1>7, PhaseFields, NameFacts DEF JournalMove, SaveCommit, SaveFails
    <2>2. QED
      BY <1>7, <2>1 DEF JournalMove, SaveCommit, SaveFails
  <1>8. CASE MoveBackup
    BY <1>8 DEF MoveBackup
  <1>9. CASE JournalMoved
    BY <1>9 DEF JournalMoved, SaveCommit, SaveFails
  <1>10. CASE JournalInstall
    <2>1. record'.status = record.status
      BY <1>10, PhaseFields, NameFacts DEF JournalInstall, SaveCommit, SaveFails
    <2>2. QED
      BY <1>10, <2>1 DEF JournalInstall, SaveCommit, SaveFails
  <1>11. CASE Install
    BY <1>11 DEF Install
  <1>12. CASE JournalInstalled
    BY <1>12 DEF JournalInstalled, SaveCommit, SaveFails
  <1>13. CASE Verify
    BY <1>13 DEF Verify
  <1>14. CASE Finish
    <2>1. record'.status = "committed"
      BY <1>14, FieldFacts DEF Finish, SaveCommit, SaveFails
    <2>2. QED
      BY <1>14, <2>1 DEF Finish, SaveCommit, SaveFails
  <1>15. CASE ClearApply
    BY <1>15 DEF ClearApply
  <1>16. CASE SavePlan
    BY <1>16 DEF SavePlan
  <1>17. CASE SaveTx
    BY <1>17 DEF SaveTx
  <1>18. CASE AuditCommit
    BY <1>18 DEF AuditCommit
  <1>19. CASE UndoNew
    BY <1>19 DEF UndoNew
  <1>20. CASE UndoBackup
    BY <1>20 DEF UndoBackup
  <1>21. CASE UndoSave
    <2>1. record'.status = IF failed THEN "rollback_failed" ELSE "rolled_back"
      BY <1>21, FieldFacts, NameFacts DEF UndoSave, SaveCommit, SaveFails
    <2>2. ~failed => live[p] = base[p]
      BY <1>21 DEF UndoSave, OpInv
    <2>3. QED
      BY <1>21, <2>1, <2>2 DEF UndoSave, SaveCommit, SaveFails
  <1>22. CASE UndoVerify
    BY <1>22 DEF UndoVerify
  <1>23. CASE UndoAudit
    BY <1>23 DEF UndoAudit
  <1>24. CASE RestoreBegin
    BY <1>24 DEF RestoreBegin
  <1>25. CASE RestoreCheck
    BY <1>25 DEF RestoreCheck
  <1>26. CASE RestoreDisplace
    BY <1>26 DEF RestoreDisplace
  <1>27. CASE RestoreReturn
    BY <1>27 DEF RestoreReturn
  <1>28. CASE RestoreVerify
    BY <1>28 DEF RestoreVerify
  <1>29. CASE RestoreSave
    <2>1. live[p] = base[p]
      BY <1>29 DEF RestoreSave, OpInv
    <2>2. QED
      BY <1>29, <2>1 DEF RestoreSave, SaveCommit, SaveFails
  <1>30. CASE RestoreAudit
    BY <1>30 DEF RestoreAudit
  <1>31. CASE Unlock
    BY <1>31 DEF Unlock
  <1>32. CASE Interrupt
    BY <1>32 DEF Interrupt
  <1>33. CASE Crash
    BY <1>33 DEF Crash
  <1>34. CASE Agent
    BY <1>34 DEF Agent
  <1>35. CASE Editor
    <2>1. live'[p] = live[p]
      BY <1>35, NoEntryAssumption, EditorPathsAssumption
         DEF Editor, Untouched, Tree
    <2>2. QED
      BY <1>35, <2>1 DEF Editor
  <1>36. CASE UNCHANGED vars
    BY <1>36 DEF vars
  <1>37. QED
    BY <1>1, <1>2, <1>3, <1>4, <1>5, <1>6, <1>7, <1>8, <1>9, <1>10, <1>11,
       <1>12, <1>13, <1>14, <1>15, <1>16, <1>17, <1>18, <1>19, <1>20, <1>21,
       <1>22, <1>23, <1>24, <1>25, <1>26, <1>27, <1>28, <1>29, <1>30, <1>31,
       <1>32, <1>33, <1>34, <1>35, <1>36
       DEF Next, Broker, Commit, Rollback, Restore

\* Only Finish makes a record committed, and it does so over the planned tree.
LEMMA FinishStep ==
    ASSUME CoreInv, [Next \/ Editor]_vars, disk.status # "committed",
           disk'.status = "committed", NEW p \in Path, Untouched(p)
    PROVE  live'[p] = staged[p]
  <1>f. CASE Finish
    <2>1. live' = live
      BY <1>f DEF Finish, trees
    <2>2. CASE p \in Op
      BY <1>f, <2>1, <2>2 DEF Finish, CoreInv, OpInv
    <2>3. CASE p \notin Op
      BY <2>1, <2>3, OpFacts DEF CoreInv, JournalAhead, PlanInv
    <2>4. QED
      BY <2>2, <2>3
  <1> USE DEF CoreInv, TypeOK, RecordInv, StatusInv, Applying
  <1>1. CASE CommitBegin \/ CommitCheck \/ StagePayload \/ Rescan \/ Cleanup
            \/ MoveBackup \/ Install \/ Verify \/ ClearApply \/ SavePlan \/
            SaveTx \/ AuditCommit \/ UndoNew \/ UndoBackup \/ UndoVerify \/
            UndoAudit \/ RestoreBegin \/ RestoreCheck \/ RestoreDisplace \/
            RestoreReturn \/ RestoreVerify \/ RestoreAudit \/ Unlock \/
            Interrupt \/ Crash \/ Agent \/ Editor
    BY <1>1 DEF CommitBegin, CommitCheck, StagePayload, Rescan, Cleanup,
           MoveBackup, Install, Verify, ClearApply, SavePlan, SaveTx,
           AuditCommit, UndoNew, UndoBackup, UndoVerify, UndoAudit,
           RestoreBegin, RestoreCheck, RestoreDisplace, RestoreReturn,
           RestoreVerify, RestoreAudit, Unlock, Interrupt, Crash, Agent,
           Editor
  <1>2. CASE Prepare
    BY <1>2, PreparedFields DEF Prepare, SaveCommit, SaveFails
  <1>3. CASE JournalMove \/ JournalInstall
    BY <1>3, PhaseFields, NameFacts DEF JournalMove, JournalInstall, SaveCommit, SaveFails
  <1>4. CASE JournalMoved \/ JournalInstalled
    BY <1>4 DEF JournalMoved, JournalInstalled, SaveCommit, SaveFails
  <1>5. CASE UndoSave
    BY <1>5, FieldFacts, NameFacts DEF UndoSave, SaveCommit, SaveFails
  <1>6. CASE RestoreSave
    BY <1>6, FieldFacts, NameFacts DEF RestoreSave, SaveCommit, SaveFails
  <1>7. CASE UNCHANGED vars
    BY <1>7 DEF vars
  <1>8. QED
    BY <1>f, <1>1, <1>2, <1>3, <1>4, <1>5, <1>6, <1>7
       DEF Next, Broker, Commit, Rollback, Restore

----------------------------------------------------------------------------
(* The invariant and the theorems.                                           *)

LEMMA IInvInit == Init => IInv
  <1> SUFFICES ASSUME Init PROVE IInv
    OBVIOUS
  <1>1. TypeOK /\ RecordInv
    BY InitType, RecordInit
  <1>2. PlanInv
    BY DEF Init, PlanInv
  <1>3. \A i \in Op : OpInv(i)
    BY OpInit
  <1>4. JournalAhead /\ SettledMeansBaseline
    BY NoRecordFacts DEF Init, JournalAhead, SettledMeansBaseline
  <1>5. QED
    BY <1>1, <1>2, <1>3, <1>4 DEF IInv, CoreInv

LEMMA PlanNext ==
    ASSUME PlanInv, UNCHANGED planned
    PROVE  PlanInv'
  BY DEF PlanInv, planned

LEMMA PlannedUnchanged ==
    ASSUME [Next \/ Editor]_vars
    PROVE  UNCHANGED planned
  <1>1. Commit => UNCHANGED planned
    BY DEF Commit, CommitBegin, CommitCheck, StagePayload, Rescan, Cleanup,
           Prepare, JournalMove, MoveBackup, JournalMoved, JournalInstall,
           Install, JournalInstalled, Verify, Finish, ClearApply, SavePlan,
           SaveTx, AuditCommit
  <1>2. Rollback \/ Restore \/ Unlock \/ Interrupt \/ Crash \/ Agent \/ Editor
        => UNCHANGED planned
    BY DEF Rollback, Restore, UndoNew, UndoBackup, UndoSave, UndoVerify,
           UndoAudit, RestoreBegin, RestoreCheck, RestoreDisplace,
           RestoreReturn, RestoreVerify, RestoreSave, RestoreAudit, Unlock,
           Interrupt, Crash, Agent, Editor
  <1>3. QED
    BY <1>1, <1>2 DEF Next, Broker, vars

LEMMA CoreNext == CoreInv /\ [Next \/ Editor]_vars => CoreInv'
  <1> SUFFICES ASSUME CoreInv, [Next \/ Editor]_vars PROVE CoreInv'
    OBVIOUS
  <1>1. TypeOK /\ PlanInv /\ RecordInv
    BY DEF CoreInv
  <1>2. TypeOK'
    BY <1>1, NextType
  <1>3. PlanInv'
    BY <1>1, PlanNext, PlannedUnchanged
  <1>4. RecordInv'
    BY <1>1, <1>2, RecordNext
  <1>5. ASSUME NEW i \in Op, Untouched(i)' PROVE OpInv(i)'
    <2>1. Untouched(i)
      BY <1>1, <1>5, UntouchedBefore, OpFacts
    <2>2. OpInv(i)
      BY <2>1 DEF CoreInv
    <2>3. QED
      BY <1>1, <1>2, <1>4, <1>5, <2>1, <2>2, OpNext
  <1>6. JournalAhead'
    <2> SUFFICES ASSUME NEW p \in Path, Untouched(p)'
                 PROVE  (live[p] # base[p] =>
                             p \in Op /\ disk.phase[p] # "pending")'
      BY DEF JournalAhead, Untouched
    <2>1. Untouched(p)
      BY <1>1, UntouchedBefore
    <2>2. live[p] # base[p] => p \in Op /\ disk.phase[p] # "pending"
      BY <2>1 DEF CoreInv, JournalAhead
    <2>3. QED
      BY <1>1, <1>2, <2>1, <2>2, AheadNext
  <1>7. QED
    BY <1>2, <1>3, <1>4, <1>5, <1>6 DEF CoreInv, Untouched

LEMMA IInvNext == IInv /\ [Next \/ Editor]_vars => IInv'
  <1> SUFFICES ASSUME IInv, [Next \/ Editor]_vars PROVE IInv'
    OBVIOUS
  <1>1. TypeOK /\ RecordInv
    BY DEF IInv, CoreInv
  <1>2. CoreInv' /\ TypeOK'
    BY CoreNext DEF IInv, CoreInv
  <1>3. SettledMeansBaseline'
    <2> SUFFICES ASSUME NEW p \in Path, Untouched(p)'
                 PROVE  (disk.status \in {"rolled_back", "restored"}
                             => live[p] = base[p])'
      BY DEF SettledMeansBaseline, Untouched
    <2>1. Untouched(p)
      BY <1>1, UntouchedBefore
    <2>2. /\ p \in Op => OpInv(p)
          /\ p \notin Op => live[p] = base[p]
          /\ disk.status \in {"rolled_back", "restored"}
                => live[p] = base[p]
      BY <2>1 DEF IInv, CoreInv, JournalAhead, SettledMeansBaseline
    <2>3. QED
      BY <1>1, <1>2, <2>1, <2>2, SettledNext
  <1>4. QED
    BY <1>2, <1>3 DEF IInv

LEMMA Inductive == Spec => []IInv
  <1>1. QED
    BY IInvInit, IInvNext, PTL DEF Spec

LEMMA CoreRecoverable == CoreInv => BaselineRecoverable
  <1> SUFFICES ASSUME CoreInv, NEW p \in Path, Untouched(p)
               PROVE  Recovered(p) = base[p]
    BY DEF BaselineRecoverable
  <1>1. CASE p \in Op
    BY <1>1 DEF CoreInv, OpInv, Safe, Recovered
  <1>2. CASE p \notin Op
    BY <1>2 DEF CoreInv, JournalAhead, Recovered
  <1>3. QED
    BY <1>1, <1>2

\* Whatever died, was interrupted or raised, and whatever editors wrote at
\* other paths, the baseline entry of a path is still in the workspace or in
\* the quarantine.
THEOREM BaselineIsRecoverable == Spec => []BaselineRecoverable
  <1>1. IInv => BaselineRecoverable
    BY CoreRecoverable DEF IInv
  <1>2. QED
    BY <1>1, Inductive, PTL

\* An entry of the workspace that is not the baseline's belongs to an operation
\* the record on disk names as begun.
THEOREM JournalIsAhead == Spec => []JournalAhead
  <1>1. IInv => JournalAhead
    BY DEF IInv, CoreInv
  <1>2. QED
    BY <1>1, Inductive, PTL

\* A record that says rolled back or restored is the truth.
THEOREM SettledIsBaseline == Spec => []SettledMeansBaseline
  <1>1. IInv => SettledMeansBaseline
    BY DEF IInv, CoreInv
  <1>2. QED
    BY <1>1, Inductive, PTL

\* A record turns to committed only over the planned tree.
THEOREM CommittedIsStaged == Spec => CommittedMeansStaged
  <1>1. IInv /\ [Next \/ Editor]_vars =>
            [disk.status # "committed" /\ disk'.status = "committed" =>
                 \A p \in Path : Untouched(p) => live'[p] = staged[p]]_vars
    BY FinishStep DEF IInv
  <1>2. QED
    BY <1>1, Inductive, PTL DEF Spec, CommittedMeansStaged
=============================================================================
