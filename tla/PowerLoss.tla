----------------------------- MODULE PowerLoss ------------------------------
(* The critical section on a machine that may lose its power: what was       *)
(* written and never synced may be gone after the restart, whatever a        *)
(* process that only died would still have found.                            *)
(*                                                                           *)
(* What the code syncs: every JSON record, file and directory, before        *)
(* _save_commit returns; the directories after the renames of commit and     *)
(* restore.  What it does not: the renames of _rollback_failed_commit, the   *)
(* data copy_entry wrote, the directory of the lock file.  A rename inside   *)
(* the one file system commit insists on is taken for atomic: it is on disk  *)
(* on both sides or on neither.                                              *)
EXTENDS CommitRefinement

VARIABLES
    past,   \* per operation, where its entries were before unsynced renames
    dirty,  \* operations whose payload was copied since the machine started
    older,  \* records a save replaced whose directory sync then raised
    shaky   \* the same of "plan" and "tx"

unsynced == <<past, dirty, older, shaky>>
powerVars == <<vars, unsynced>>

\* Where the entries of each operation are.
Placement ==
    [i \in Op |-> [live |-> live[i], quarantine |-> quarantine[i],
                   displaced |-> displaced[i]]]

\* The step has raised, or the broker is gone, or it was no step of a broker.
CutShort == pc' \in {pc, "undo_new", "unlock", "idle"}

\* Mutant: the directory is not synced before the install is journaled.
FsyncMoves ==
    /\ ~CutShort
    /\ \/ pc = "moved"
       \/ pc \in {"r_displace", "r_return"} /\ Placement'[cur] # Placement[cur]

\* fsync_directory after the renames of operation cur, if the step got there.
\* (A second rename of the same root carries the first with it.)
Fsync ==
    /\ ~CutShort
    /\ \/ pc \in {"moved", "installed"}
       \/ pc \in {"r_displace", "r_return"} /\ Placement'[cur] # Placement[cur]

\* Mutant: atomic_write_json replaces the file and does not sync the directory.
TrackUnsyncedSaves ==
    /\ past' = [i \in Op |->
                    IF i = cur /\ Fsync THEN {}
                    ELSE past[i] \cup ({Placement[i]} \ {Placement'[i]})]
    /\ dirty' = IF pc = "stage" THEN dirty \cup {cur} ELSE dirty
    /\ older' = older \cup ({disk} \ {disk'})
    /\ UNCHANGED shaky

\* What a power loss could undo after this step.
Track ==
    /\ past' = [i \in Op |->
                    IF i = cur /\ Fsync THEN {}
                    ELSE past[i] \cup ({Placement[i]} \ {Placement'[i]})]
    /\ dirty' = IF pc = "stage" THEN dirty \cup {cur} ELSE dirty
    /\ older' = IF disk' = disk THEN older
                ELSE IF CutShort THEN older \cup {disk} ELSE {}
    /\ shaky' = shaky \cup (IF CutShort /\ planState' # planState
                            THEN {"plan"} ELSE {})
                      \cup (IF CutShort /\ txState' # txState
                            THEN {"tx"} ELSE {})

\* The machine stops and starts again.  Unsynced renames are undone or not,
\* root by root; the payload in unsynced copies may be anything; a save that
\* raised may be undone; the lock file may have gone, or have come back, since
\* neither its creation nor its removal is synced.
PowerLoss ==
    \E torn \in SUBSET dirty, junk \in Content,
       found \in [Op -> UNION {past[i] \cup {Placement[i]} : i \in Op}] :
        LET Read(e, i) == IF i \in torn /\ e = staged[i] /\ e # NoEntry
                          THEN junk ELSE e
        IN
        /\ \A i \in Op : found[i] \in past[i] \cup {Placement[i]}
        /\ live' = [p \in Path |-> IF p \in Op THEN Read(found[p].live, p)
                                   ELSE live[p]]
        /\ quarantine' = [i \in Op |-> found[i].quarantine]
        /\ displaced' = [i \in Op |-> Read(found[i].displaced, i)]
        /\ apply' = [i \in Op |-> Read(apply[i], i)]
        /\ disk' \in {disk} \cup older
        /\ planState' \in {planState} \cup
                              (IF "plan" \in shaky THEN {"pending"} ELSE {})
        /\ txState' \in {txState} \cup
                            (IF "tx" \in shaky THEN {"planned"} ELSE {})
        /\ lock' \in IF disk = NoRecord THEN {lock, FALSE} ELSE BOOLEAN
        /\ Forget
        /\ past' = [i \in Op |-> {}] /\ dirty' = {} /\ older' = {}
        /\ shaky' = {}
        /\ UNCHANGED <<planned, worktree, audit, history>>

PowerInit ==
    /\ Init
    /\ past = [i \in Op |-> {}]
    /\ dirty = {}
    /\ older = {}
    /\ shaky = {}

PowerNext ==
    \/ (Next \/ Editor) /\ Track
    \/ PowerLoss

PowerSpec == PowerInit /\ [][PowerNext]_powerVars

----------------------------------------------------------------------------
(* Properties, beside BaselineRecoverable and JournalAhead, which survive a  *)
(* power loss as they stand.  SettledMeansBaseline does not: rolled_back is  *)
(* synced before the renames that took the commit back are.                  *)

\* A record that says committed after the machine came back stands for a
\* workspace with the planned result's names: every root the plan creates or
\* replaces is there, or displaced by a restore, and none it removes is (what
\* is in a root is another matter: copy_entry never syncs it).
CommittedInPlace ==
    disk.status = "committed" =>
        \A i \in Op : Untouched(i) => (Redone(i) = NoEntry
                                           <=> staged[i] = NoEntry)
=============================================================================
