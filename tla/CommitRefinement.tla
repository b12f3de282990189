-------------------------- MODULE CommitRefinement --------------------------
(* The critical section implements the atomic commit: every step of commit,  *)
(* of its rollback and of restore, with crashes, interrupts, I/O errors and  *)
(* editors, is a step of AtomicCommit or none at all.                        *)
EXTENDS CommitEngine

\* What an operator would put forward at path p, knowing only the plan (which
\* roots it removes), the displaced entries and the workspace.
Redone(p) ==
    IF p \in Op /\ staged[p] = NoEntry THEN NoEntry
    ELSE IF p \in Op /\ displaced[p] # NoEntry THEN displaced[p]
    ELSE live[p]

TouchedPaths == {p \in Path : ~Untouched(p)}

\* What the status in commits/<commit_id>.json says of the commit.
AbstractState ==
    CASE disk.status \in {"none", "prepared"} -> "pending"
      [] disk.status = "committed" -> "applied"
      [] disk.status \in {"rolled_back", "restored"} -> "reverted"
      [] disk.status = "rollback_failed" -> "repair"

\* The tree it speaks of: the result under committed; the workspace itself
\* under rolled_back and restored; the baseline that can be recovered under
\* the others.
AbstractTree ==
    [p \in Path \ TouchedPaths |->
        CASE AbstractState = "applied" -> Redone(p)
          [] AbstractState = "reverted" -> live[p]
          [] AbstractState \in {"pending", "repair"} -> Recovered(p)]

Atomic == INSTANCE AtomicCommit WITH
              Path <- Path, Entry <- Entry,
              before <- base, after <- staged, state <- AbstractState,
              tree <- AbstractTree, touched <- TouchedPaths

\* Commit, rollback and restore together are atomic: the record's status turns
\* only as an atomic commit may, and at every instant, however many renames of
\* a loop are done, all of the tree it stands for can be had, from the
\* workspace, the quarantine and the displaced entries.
ImplementsAtomicCommit == Atomic!Spec
=============================================================================
