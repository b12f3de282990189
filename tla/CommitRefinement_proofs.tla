----------------------- MODULE CommitRefinement_proofs ----------------------
(* The critical section implements AtomicCommit, for every plan, every set   *)
(* of contents and every set of paths that editors write.                    *)
EXTENDS CommitRefinement, CommitEngine_proofs

----------------------------------------------------------------------------
(* IInv says where the originals are; this is where the results are, while   *)
(* the record on disk says committed.                                        *)

\* Nothing is displaced before a record is saved or while entries are moved in.
NoneDisplaced ==
    pc \in Applying \/ disk.status = "none" => displaced = EmptyStore

\* A rollback under a committed record (its save raised after it replaced the
\* file) has the flags of a finished commit in memory.
FlagsAfter ==
    disk.status = "committed"
        /\ pc \in {"undo_new", "undo_backup", "undo_save"} =>
    \A i \in Op : FlagsDone(record, i)

\* The result of operation i is in place, or moved aside: it is one of E.
Aside(i, E) == staged[i] # NoEntry => displaced[i] \in E
ResultIn(i, E) ==
    disk.status = "committed" =>
        /\ Redone(i) \in E
        /\ pc \in {"undo_new", "r_displace"} /\ i <= cur => live[i] = staged[i]
        /\ pc \in {"undo_backup", "r_return"} =>
               /\ i < cur => live[i] = staged[i]
               /\ i = cur => Aside(i, E)

ResultInv(i) == ResultIn(i, {staged[i]})

RInv ==
    /\ IInv
    /\ NoneDisplaced
    /\ FlagsAfter
    /\ \A i \in Op : Untouched(i) => ResultInv(i)

----------------------------------------------------------------------------
(* How the status on disk turns.                                             *)

\* Status t may come after status s.
Turns(s, t) ==
    \/ s = "none" /\ t = "prepared"
    \/ s = "prepared" /\ t = "committed"
    \/ /\ s \in {"none", "prepared", "committed"}
       /\ t \in {"rolled_back", "rollback_failed"}
    \/ s = "committed" /\ t = "restored"

\* Every save of the record keeps its status or moves it forward, and only
\* Finish makes it committed.
LEMMA StatusStep ==
    ASSUME CoreInv, [Next \/ Editor]_vars, disk'.status # disk.status
    PROVE  /\ Turns(disk.status, disk'.status)
           /\ disk'.status = "committed" => Finish
           /\ mine' = mine
  <1> USE DEF CoreInv, TypeOK, RecordInv, StatusInv, Applying, Undoing, Restoring,
              Staging, Turns, history
  <1>1. CASE CommitBegin \/ CommitCheck \/ StagePayload \/ Rescan \/ Cleanup
            \/ MoveBackup \/ Install \/ Verify \/ ClearApply \/ SavePlan \/
            SaveTx \/ AuditCommit \/ UndoNew \/ UndoBackup \/ UndoVerify \/
            UndoAudit \/ RestoreBegin \/ RestoreCheck \/ RestoreDisplace \/
            RestoreReturn \/ RestoreVerify \/ RestoreAudit \/ Unlock \/
            Interrupt \/ Crash \/ Agent \/ Editor
    BY <1>1 DEF CommitBegin, CommitCheck, StagePayload, Rescan, Cleanup,
           MoveBackup, Install, Verify, ClearApply, SavePlan, SaveTx,
           AuditCommit, UndoNew, UndoBackup, UndoVerify, UndoAudit,
           RestoreBegin, RestoreCheck, RestoreDisplace, RestoreReturn,
           RestoreVerify, RestoreAudit, Unlock, Interrupt, Crash, Agent,
           Editor
  <1>2. CASE Prepare
    BY <1>2, PreparedFields
       DEF Prepare, SaveCommit, SaveFails, NextOp, Goto, GotoOp, IOError
  <1>3. CASE JournalMove \/ JournalInstall
    BY <1>3, PhaseFields, NameFacts
       DEF JournalMove, JournalInstall, SaveCommit, SaveFails
  <1>4. CASE JournalMoved \/ JournalInstalled
    BY <1>4 DEF JournalMoved, JournalInstalled, SaveCommit, SaveFails
  <1>5. CASE UndoSave
    BY <1>5, FieldFacts, NameFacts
       DEF UndoSave, SaveCommit, SaveFails, Goto, IOError
  <1>6. CASE RestoreSave
    BY <1>6, FieldFacts, NameFacts
       DEF RestoreSave, SaveCommit, SaveFails, Goto, IOError
  <1>7. CASE Finish
    <2>1. Completed(record).status = "committed"
      BY DEF Completed, Record
    <2>2. QED
      BY <1>7, <2>1 DEF Finish, SaveCommit, SaveFails, Goto, IOError
  <1>8. CASE UNCHANGED vars
    BY <1>8 DEF vars
  <1>9. QED
    BY <1>1, <1>2, <1>3, <1>4, <1>5, <1>6, <1>7, <1>8
       DEF Next, Broker, Commit, Rollback, Restore

----------------------------------------------------------------------------
(* The results are never lost.                                               *)

LEMMA NoneDisplacedNext ==
    ASSUME CoreInv, NoneDisplaced, [Next \/ Editor]_vars
    PROVE  NoneDisplaced'
  <1> USE DEF NoneDisplaced, Applying, CoreInv, TypeOK, RecordInv, StatusInv,
              Staging, stores, trees
  <1>1. disk'.status = "none" => disk.status = "none"
    BY StatusStep DEF Turns
  <1>2. CASE UndoNew
    <2>1. disk.status # "none" \/ UNCHANGED displaced
      BY <1>2, NoRecordFacts DEF UndoNew, FlagsInv, FlagsClear
    <2>2. pc' \notin Applying
      BY <1>2 DEF UndoNew, Goto, UndoFailed, PrevOp
    <2>3. QED
      BY <1>1, <1>2, <2>1, <2>2
  <1>3. CASE RestoreDisplace
    <2>1. disk.status # "none"
      BY <1>3 DEF RestoreDisplace, Restoring
    <2>2. pc' \notin Applying
      BY <1>3 DEF RestoreDisplace, Goto, Raise, IOError, Unwind
    <2>3. QED
      BY <1>1, <2>1, <2>2
  <1>4. CASE StagePayload \/ Rescan \/ CommitCheck \/ CommitBegin \/ Cleanup
    <2>1. disk.status = "none"
      BY <1>4, NoRecordFacts DEF StagePayload, Rescan, CommitCheck, CommitBegin, Cleanup
    <2>2. displaced' = displaced
      BY <1>4 DEF StagePayload, Rescan, CommitCheck, CommitBegin, Cleanup
    <2>3. QED
      BY <2>1, <2>2
  <1>5. CASE Prepare \/ JournalMove \/ MoveBackup \/ JournalMoved
             \/ JournalInstall \/ Install \/ JournalInstalled \/ Verify
             \/ Finish
    <2>1. pc \in Applying /\ displaced' = displaced
      BY <1>5 DEF Prepare, JournalMove, MoveBackup, JournalMoved,
             JournalInstall, Install, JournalInstalled, Verify, Finish
    <2>2. QED
      BY <2>1
  <1>6. CASE ClearApply \/ SavePlan \/ SaveTx \/ AuditCommit \/ UndoBackup
             \/ UndoSave \/ UndoVerify \/ UndoAudit \/ RestoreBegin
             \/ RestoreCheck \/ RestoreReturn \/ RestoreVerify
             \/ RestoreSave \/ RestoreAudit \/ Unlock \/ Interrupt \/ Crash
    <2>1. pc' \notin Applying
      BY <1>6
         DEF ClearApply, SavePlan, SaveTx, AuditCommit, UndoBackup, UndoSave,
             UndoVerify, UndoAudit, RestoreBegin, RestoreCheck, RestoreReturn,
             RestoreVerify, RestoreSave, RestoreAudit, Unlock, Interrupt,
             Crash, Append, Goto, GotoOp, Raise, IOError, Unwind, PrevOp,
             UndoFailed, SaveFails, Forget
    <2>2. displaced' = displaced
      BY <1>6
         DEF ClearApply, SavePlan, SaveTx, AuditCommit, UndoBackup, UndoSave,
             UndoVerify, UndoAudit, RestoreBegin, RestoreCheck, RestoreReturn,
             RestoreVerify, RestoreSave, RestoreAudit, Unlock, Interrupt, Crash
    <2>3. QED
      BY <1>1, <2>1, <2>2
  <1>7. CASE Agent \/ Editor \/ UNCHANGED vars
    BY <1>1, <1>7 DEF Agent, Editor, vars, control
  <1>8. QED
    BY <1>2, <1>3, <1>4, <1>5, <1>6, <1>7
       DEF Next, Broker, Commit, Rollback, Restore

LEMMA FlagsAfterNext ==
    ASSUME CoreInv, FlagsAfter, [Next \/ Editor]_vars
    PROVE  FlagsAfter'
  <1> SUFFICES ASSUME disk'.status = "committed",
                      pc' \in {"undo_new", "undo_backup", "undo_save"},
                      NEW i \in Op
               PROVE  FlagsDone(record, i)'
    BY DEF FlagsAfter
  <1> USE DEF CoreInv, TypeOK, RecordInv, StatusInv, FlagsDone
  <1>1. UNCHANGED planned
    BY PlannedUnchanged
  <1>2. CASE Finish
    <2>1. /\ record'.moved = record.moved
          /\ record'.installed = record.installed
      BY <1>2 DEF Finish, SaveCommit, SaveFails, Completed, Record
    <2>2. FlagsDone(record, i)
      BY <1>2 DEF Finish, FlagsInv
    <2>3. QED
      BY <1>1, <2>1, <2>2 DEF planned
  <1>3. CASE ~Finish
    <2>1. disk.status = "committed"
      BY <1>3, StatusStep
    <2>2. pc \in {"undo_new", "undo_backup", "undo_save"}
                /\ record'.moved = record.moved
                /\ record'.installed = record.installed
      <3>1. CASE UndoNew
        BY <3>1 DEF UndoNew
      <3>2. CASE UndoBackup
        BY <3>2, PhaseFields, NameFacts DEF UndoBackup
      <3>3. CASE UndoSave
        BY <3>3, FieldFacts, NameFacts DEF UndoSave, SaveCommit, SaveFails
      <3>4. CASE Agent \/ Editor \/ UNCHANGED vars
        BY <3>4 DEF Agent, Editor, vars, control
      <3>5. CASE CommitCheck \/ StagePayload \/ Rescan \/ Cleanup \/ Prepare
                 \/ JournalMove \/ MoveBackup \/ JournalMoved
                 \/ JournalInstall \/ Install \/ JournalInstalled \/ Verify
        BY <2>1, <3>5
           DEF CommitCheck, StagePayload, Rescan, Cleanup, Prepare,
               JournalMove, MoveBackup, JournalMoved, JournalInstall, Install,
               JournalInstalled, Verify, Staging, Applying
      <3>6. CASE CommitBegin \/ ClearApply \/ SavePlan \/ SaveTx
                 \/ AuditCommit \/ UndoVerify \/ UndoAudit \/ RestoreBegin
                 \/ RestoreCheck \/ RestoreDisplace \/ RestoreReturn
                 \/ RestoreVerify \/ RestoreSave \/ RestoreAudit \/ Unlock
                 \/ Interrupt \/ Crash
        BY <3>6
           DEF CommitBegin, ClearApply, SavePlan, SaveTx, AuditCommit,
               UndoVerify, UndoAudit, RestoreBegin, RestoreCheck,
               RestoreDisplace, RestoreReturn, RestoreVerify, RestoreSave,
               RestoreAudit, Unlock, Interrupt, Crash, Append, Goto, GotoOp,
               Raise, IOError, Unwind, PrevOp, SaveFails, Forget, Staging,
               Applying
      <3>7. QED
        BY <1>3, <3>1, <3>2, <3>3, <3>4, <3>5, <3>6
           DEF Next, Broker, Commit, Rollback, Restore
    <2>3. QED
      BY <1>1, <2>1, <2>2 DEF FlagsAfter, planned
  <1>4. QED
    BY <1>2, <1>3

LEMMA ResultNext ==
    ASSUME CoreInv, NoneDisplaced, FlagsAfter, TypeOK', [Next \/ Editor]_vars,
           NEW i \in Op, Untouched(i), Untouched(i)',
           NEW E, staged[i] \in E, NoEntry \in E => staged[i] = NoEntry,
           ResultIn(i, E)
    PROVE  ResultIn(i, E)'
  <1> SUFFICES ASSUME disk'.status = "committed" PROVE ResultIn(i, E)'
    BY DEF ResultIn
  <1> USE DEF CoreInv, TypeOK, RecordInv, StatusInv
  <1>1. /\ ResultIn(i, E) /\ OpInv(i)
        /\ staged' = staged /\ base' = base /\ i \in Path
    BY PlannedUnchanged, OpFacts DEF planned
  <1>2. CASE disk.status # "committed"
    <2>1. Finish
      BY <1>1, <1>2, StatusStep
    <2>2. live'[i] = staged[i]
      BY <1>1, <1>2, FinishStep
    <2>3. displaced'[i] = NoEntry
      BY <2>1 DEF Finish, NoneDisplaced, Applying, EmptyStore, trees,
                  stores
    <2>4. Redone(i)' \in E
      BY <1>1, <2>2, <2>3 DEF Redone
    <2>5. pc' \in {"clear", "undo_new"}
      BY <2>1 DEF Finish, SaveFails, Goto, IOError, Unwind, Applying, Staging
    <2>6. QED
      BY <1>1, <2>2, <2>4, <2>5 DEF ResultIn
  <1>3. CASE disk.status = "committed"
    <2> USE <1>1, <1>3 DEF ResultIn, Redone
    <2>1. CASE UndoNew
      <3>1. FlagsDone(record, cur)
        BY <2>1 DEF UndoNew, FlagsAfter
      <3>2. CASE /\ displaced' = [displaced EXCEPT ![cur] = live[cur]]
                 /\ live' = [live EXCEPT ![cur] = NoEntry]
                 /\ Goto("undo_backup")
                 /\ live[cur] # NoEntry
        <4>1. CASE i = cur
          BY <2>1, <3>2, <4>1 DEF UndoNew, Aside, Goto, Store, Tree, Op
        <4>2. CASE i # cur
          BY <2>1, <3>2, <4>2, OpOrder DEF UndoNew, Aside, Goto, Store, Tree, Op
        <4>3. QED
          BY <4>1, <4>2
      <3>3. CASE /\ ~(record.installed[cur] /\ live[cur] # NoEntry)
                 /\ Goto("undo_backup") /\ UNCHANGED <<live, displaced>>
        <4>1. CASE i = cur
          BY <2>1, <3>1, <3>3, <4>1 DEF UndoNew, Aside, Goto, FlagsDone, Op
        <4>2. CASE i # cur
          BY <2>1, <3>3, <4>2, OpOrder DEF UndoNew, Aside, Goto, Op
        <4>3. QED
          BY <4>1, <4>2
      <3>4. CASE UndoFailed("undo_save") /\ UNCHANGED <<live, displaced>>
        BY <2>1, <3>4, OpOrder DEF UndoNew, UndoFailed, PrevOp, Op
      <3>5. QED
        BY <2>1, <3>2, <3>3, <3>4 DEF UndoNew
    <2>2. CASE UndoBackup
      <3>1. i # cur => live'[i] = live[i]
        BY <2>2 DEF UndoBackup, Tree
      <3>2. displaced' = displaced
        BY <2>2 DEF UndoBackup
      <3>3. Redone(i)' \in E
        BY <2>2, <3>1, <3>2 DEF UndoBackup, Aside
      <3>4. pc' \in {"undo_new", "undo_save"}
                /\ (pc' = "undo_new" => cur' = cur - 1)
        BY <2>2 DEF UndoBackup, UndoFailed, PrevOp
      <3>5. pc' = "undo_new" /\ i <= cur' => i < cur /\ i # cur
        BY <2>2, <3>4 DEF Op
      <3>6. QED
        BY <2>2, <3>1, <3>3, <3>4, <3>5 DEF UndoBackup
    <2>3. CASE RestoreCheck
      BY <2>3 DEF RestoreCheck, GotoOp, Raise, IOError, Unwind, trees, stores,
                  Applying, Staging
    <2>4. CASE RestoreDisplace
      <3>1. FlagsDone(record, cur)
        BY <2>4 DEF RestoreDisplace, FlagsInv, Restoring
      <3>2. pc' \in {"r_return", "unlock"} /\ (pc' = "r_return" => cur' = cur)
        BY <2>4 DEF RestoreDisplace, Goto, Raise, IOError, Unwind, Applying,
                    Staging
      <3>3. CASE /\ displaced' = [displaced EXCEPT ![cur] = live[cur]]
                 /\ live' = [live EXCEPT ![cur] = NoEntry]
                 /\ live[cur] # NoEntry
        <4>1. CASE i = cur
          BY <2>4, <3>2, <3>3, <4>1 DEF RestoreDisplace, Aside, Store, Tree, Op
        <4>2. CASE i # cur
          BY <2>4, <3>2, <3>3, <4>2, OpOrder
             DEF RestoreDisplace, Aside, Store, Tree, Op
        <4>3. QED
          BY <4>1, <4>2
      <3>4. CASE /\ UNCHANGED <<live, displaced>>
                 /\ pc' = "unlock" \/ ~record.installed[cur]
        <4>1. CASE i = cur
          BY <2>4, <3>1, <3>2, <3>4, <4>1
             DEF RestoreDisplace, Aside, FlagsDone, Op
        <4>2. CASE i # cur
          BY <2>4, <3>2, <3>4, <4>2, OpOrder DEF RestoreDisplace, Aside, Op
        <4>3. QED
          BY <4>1, <4>2
      <3>5. QED
        BY <2>4, <3>3, <3>4
           DEF RestoreDisplace, Raise, IOError, Unwind, Applying, Staging
    <2>5. CASE RestoreReturn
      <3>1. i # cur => live'[i] = live[i]
        BY <2>5 DEF RestoreReturn, Tree
      <3>2. displaced' = displaced
        BY <2>5 DEF RestoreReturn
      <3>3. Redone(i)' \in E
        BY <2>5, <3>1, <3>2 DEF RestoreReturn, Aside
      <3>4. pc' \in {"r_displace", "r_verify", "unlock"}
                /\ (pc' = "r_displace" => cur' = cur - 1)
        BY <2>5 DEF RestoreReturn, PrevOp, Raise, IOError, Unwind, Applying,
                    Staging
      <3>5. pc' = "r_displace" /\ i <= cur' => i < cur /\ i # cur
        BY <2>5, <3>4 DEF Op
      <3>6. QED
        BY <2>5, <3>1, <3>3, <3>4, <3>5 DEF RestoreReturn
    <2>6. CASE Editor
      <3>1. live'[i] = live[i]
        BY <2>6, NoEntryAssumption, EditorPathsAssumption
           DEF Editor, Untouched, Tree
      <3>2. QED
        BY <2>6, <3>1 DEF Editor, stores, control, Aside
    <2>7. CASE CommitCheck \/ StagePayload \/ Rescan \/ Cleanup \/ Prepare
               \/ JournalMove \/ MoveBackup \/ JournalMoved
               \/ JournalInstall \/ Install \/ JournalInstalled \/ Verify
               \/ Finish \/ CommitBegin \/ Agent
      BY <2>7, NoRecordFacts
         DEF CommitCheck, StagePayload, Rescan, Cleanup, Prepare, JournalMove,
             MoveBackup, JournalMoved, JournalInstall, Install,
             JournalInstalled, Verify, Finish, CommitBegin, Agent, Staging,
             Applying
    <2>8. CASE ClearApply \/ SavePlan \/ SaveTx \/ AuditCommit \/ UndoSave
               \/ UndoVerify \/ UndoAudit \/ RestoreBegin \/ RestoreVerify
               \/ RestoreSave \/ RestoreAudit \/ Unlock \/ Interrupt \/ Crash
      <3>1. live' = live /\ displaced' = displaced
        BY <2>8
           DEF ClearApply, SavePlan, SaveTx, AuditCommit, UndoSave, UndoVerify,
               UndoAudit, RestoreBegin, RestoreVerify, RestoreSave,
               RestoreAudit, Unlock, Interrupt, Crash, trees, stores
      <3>2. pc' \notin {"undo_new", "undo_backup", "r_displace", "r_return"}
        BY <2>8
           DEF ClearApply, SavePlan, SaveTx, AuditCommit, UndoSave, UndoVerify,
               UndoAudit, RestoreBegin, RestoreVerify, RestoreSave,
               RestoreAudit, Unlock, Interrupt, Crash, Append, Goto, Raise,
               IOError, Unwind, SaveFails, Forget, Applying, Staging
      <3>3. QED
        BY <3>1, <3>2
    <2>9. CASE UNCHANGED vars
      BY <2>9 DEF vars, trees, stores, control, Aside
    <2>10. QED
      BY <2>1, <2>2, <2>3, <2>4, <2>5, <2>6, <2>7, <2>8, <2>9
         DEF Next, Broker, Commit, Rollback, Restore
  <1>4. QED
    BY <1>2, <1>3

LEMMA RInvInit == Init => RInv
  BY IInvInit, NoRecordFacts
     DEF Init, RInv, NoneDisplaced, FlagsAfter, ResultInv, ResultIn

LEMMA RInvNext == RInv /\ [Next \/ Editor]_vars => RInv'
  <1> SUFFICES ASSUME RInv, [Next \/ Editor]_vars PROVE RInv'
    OBVIOUS
  <1>1. IInv /\ IInv' /\ TypeOK'
    BY IInvNext DEF RInv, IInv, CoreInv
  <1>2. NoneDisplaced' /\ FlagsAfter'
    BY <1>1, NoneDisplacedNext, FlagsAfterNext DEF RInv, IInv
  <1>3. ASSUME NEW i \in Op, Untouched(i)' PROVE ResultInv(i)'
    <2>1. Untouched(i)
      BY <1>1, <1>3, UntouchedBefore, OpFacts DEF IInv, CoreInv
    <2>2. PICK E : E = {staged[i]}
      OBVIOUS
    <2>3. ResultIn(i, E)'
      <3>1. ResultIn(i, E)
        BY <2>1, <2>2 DEF RInv, ResultInv
      <3>2. QED
        BY <1>1, <1>3, <2>1, <2>2, <3>1, ResultNext DEF RInv, IInv
    <2>4. QED
      BY <2>2, <2>3, PlannedUnchanged
         DEF planned, ResultInv, ResultIn, Aside
  <1>4. QED
    BY <1>1, <1>2, <1>3 DEF RInv, Untouched

LEMMA ResultsInductive == Spec => []RInv
  BY RInvInit, RInvNext, PTL DEF Spec

----------------------------------------------------------------------------
(* The refinement.                                                           *)

\* The mapped tree depends on the status alone.
TreeByStatus ==
    AbstractTree = [p \in Path \ TouchedPaths |->
                        IF AbstractState = "applied" THEN staged[p] ELSE base[p]]

LEMMA TreeValue == RInv => TreeByStatus
  <1> SUFFICES ASSUME RInv, NEW p \in Path \ TouchedPaths
               PROVE  AbstractTree[p] = IF AbstractState = "applied"
                                        THEN staged[p] ELSE base[p]
    BY DEF TreeByStatus, AbstractTree
  <1>1. p \in Path /\ Untouched(p)
    BY DEF TouchedPaths
  <1>2. Recovered(p) = base[p]
    BY <1>1 DEF RInv, IInv, CoreInv, OpInv, Safe, Recovered, JournalAhead
  <1>3. CASE AbstractState = "applied"
    <2>1. disk.status = "committed"
      BY <1>3 DEF AbstractState, RInv, IInv, CoreInv, TypeOK, Record, Status
    <2>2. Redone(p) = staged[p]
      BY <1>1, <2>1, OpFacts
         DEF RInv, IInv, CoreInv, ResultInv, ResultIn, Redone, JournalAhead, PlanInv
    <2>3. QED
      BY <1>3, <2>2 DEF AbstractTree
  <1>4. CASE AbstractState = "reverted"
    <2>1. disk.status \in {"rolled_back", "restored"}
      BY <1>4 DEF AbstractState, RInv, IInv, CoreInv, TypeOK, Record, Status
    <2>2. live[p] = base[p]
      BY <1>1, <2>1 DEF RInv, IInv, CoreInv, SettledMeansBaseline
    <2>3. QED
      BY <1>4, <2>2 DEF AbstractTree
  <1>5. CASE AbstractState \in {"pending", "repair"}
    BY <1>2, <1>5 DEF AbstractTree
  <1>6. AbstractState \in {"pending", "applied", "reverted", "repair"}
    BY DEF AbstractState, RInv, IInv, CoreInv, TypeOK, Record, Status
  <1>7. QED
    BY <1>3, <1>4, <1>5, <1>6

LEMMA AtomicInit == Init => Atomic!Init
  <1> SUFFICES ASSUME Init PROVE Atomic!Init
    OBVIOUS
  <1>1. RInv
    BY RInvInit
  <1>2. AbstractState = "pending" /\ TouchedPaths = {}
    BY NoRecordFacts
       DEF Init, AbstractState, TouchedPaths, Untouched
  <1>3. base \in [Path -> Entry] /\ staged \in [Path -> Entry]
    BY DEF Init, Tree
  <1>4. AbstractTree = [p \in Path \ TouchedPaths |-> base[p]]
    BY <1>1, <1>2, TreeValue DEF TreeByStatus
  <1>5. QED
    BY <1>2, <1>3, <1>4 DEF Atomic!Init, Atomic!Shown

LEMMA AtomicNext ==
    RInv /\ [Next \/ Editor]_vars => [Atomic!Next]_Atomic!vars
  <1> SUFFICES ASSUME RInv, [Next \/ Editor]_vars
               PROVE  Atomic!Next \/ UNCHANGED Atomic!vars
    OBVIOUS
  <1>1. IInv /\ CoreInv /\ RInv' /\ UNCHANGED <<base, staged>>
    BY RInvNext, PlannedUnchanged DEF RInv, IInv, planned
  <1>t. /\ AbstractTree =
               [p \in Path \ TouchedPaths |->
                    IF AbstractState = "applied" THEN staged[p] ELSE base[p]]
        /\ AbstractTree' =
               [p \in Path \ TouchedPaths' |->
                    IF AbstractState' = "applied" THEN staged[p] ELSE base[p]]
    <2>1. RInv' => TreeByStatus'
      BY TreeValue, PTL
    <2>2. QED
      BY <1>1, <2>1, TreeValue DEF TreeByStatus
  <1>2. CASE disk'.status = disk.status
    <2>1. AbstractState' = AbstractState
      BY <1>2 DEF AbstractState
    <2>2. TouchedPaths \subseteq TouchedPaths'
      BY <1>1, UntouchedBefore DEF TouchedPaths, IInv, CoreInv, Untouched
    <2>3. TouchedPaths' = TouchedPaths \cup TouchedPaths'
              /\ TouchedPaths' \in SUBSET Path
      BY <2>2 DEF TouchedPaths
    <2>4. AbstractTree' = [p \in Path \ TouchedPaths' |-> AbstractTree[p]]
      BY <1>t, <2>1, <2>2
    <2>5. Atomic!Touch
      BY <1>1, <2>1, <2>3, <2>4 DEF Atomic!Touch
    <2>6. QED
      BY <2>5 DEF Atomic!Next
  <1>3. CASE disk'.status # disk.status
    <2>1. Turns(disk.status, disk'.status) /\ mine' = mine
      BY <1>1, <1>3, StatusStep
    <2>2. TouchedPaths' = TouchedPaths
      BY <2>1 DEF TouchedPaths, Untouched
    <2>3. CASE AbstractState' = AbstractState
      BY <1>1, <1>t, <2>2, <2>3 DEF Atomic!vars
    <2>4. CASE AbstractState = "pending" /\ AbstractState' = "applied"
      BY <1>1, <1>t, <2>2, <2>4
         DEF Atomic!Next, Atomic!Apply, Atomic!Turn, Atomic!Shown
    <2>5. CASE AbstractState \in {"pending", "applied"}
                   /\ AbstractState' = "reverted"
      BY <1>1, <1>t, <2>2, <2>5
         DEF Atomic!Next, Atomic!Revert, Atomic!Turn, Atomic!Shown
    <2>6. CASE AbstractState \in {"pending", "applied"}
                   /\ AbstractState' = "repair"
      BY <1>1, <1>t, <2>2, <2>6
         DEF Atomic!Next, Atomic!Repair, Atomic!Turn, Atomic!Shown
    <2>7. QED
      BY <2>1, <2>3, <2>4, <2>5, <2>6 DEF Turns, AbstractState
  <1>4. QED
    BY <1>2, <1>3

\* Commit, rollback and restore, in all their steps and with all that can go
\* wrong between them, implement the atomic commit.
THEOREM CommitIsAtomic == Spec => ImplementsAtomicCommit
  <1>1. Init => Atomic!Init
    BY AtomicInit
  <1>2. RInv /\ [Next \/ Editor]_vars => [Atomic!Next]_Atomic!vars
    BY AtomicNext
  <1>3. QED
    BY <1>1, <1>2, ResultsInductive, PTL
       DEF Spec, ImplementsAtomicCommit, Atomic!Spec
=============================================================================
