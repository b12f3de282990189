---------------------------- MODULE AtomicCommit ----------------------------
(* What a commit promises, with none of its steps: the workspace is the      *)
(* baseline until one instant at which all of it becomes the planned result; *)
(* it may come back to the baseline once, all of it again, and stays there.  *)
(*                                                                           *)
(* `tree` is what the record on disk stands for and what can be had: not     *)
(* always what the workspace holds at that instant, since a rename is one    *)
(* root at a time.  Paths that somebody else wrote leave the promise.        *)
CONSTANTS
    Path,   \* the operation roots and the rest of the workspace
    Entry   \* what can be at a path

VARIABLES
    before,   \* the baseline
    after,    \* the planned result
    state,    \* what the record says of the commit
    tree,     \* the tree it speaks of, at the paths nobody else wrote
    touched   \* the paths somebody else wrote

vars == <<before, after, state, tree, touched>>

State == {"pending", "applied", "reverted", "repair"}

\* The part of a tree the promise is about.
Shown(t) == [p \in Path \ touched |-> t[p]]

Init ==
    /\ before \in [Path -> Entry]
    /\ after \in [Path -> Entry]
    /\ state = "pending"
    /\ touched = {}
    /\ tree = Shown(before)

Turn(from, to, t) ==
    /\ state \in from
    /\ state' = to
    /\ tree' = Shown(t)
    /\ UNCHANGED <<before, after, touched>>

\* All of the result, at once.
Apply == Turn({"pending"}, "applied", after)

\* Taken back before or after it was applied: a failed commit or a restore.
Revert == Turn({"pending", "applied"}, "reverted", before)

\* An attempt to take it back met errors: the operator has to repair the
\* workspace, and everything the baseline had is still there to do it with.
Repair == Turn({"pending", "applied"}, "repair", before)

\* Somebody else writes some paths.
Touch ==
    /\ \E P \in SUBSET Path : touched' = touched \cup P
    /\ tree' = [p \in Path \ touched' |-> tree[p]]
    /\ UNCHANGED <<before, after, state>>

Next == Apply \/ Revert \/ Repair \/ Touch

Spec == Init /\ [][Next]_vars

\* What the promise comes to: one tree or the other, never a mixture.
AllOrNothing ==
    tree = Shown(IF state = "applied" THEN after ELSE before)
=============================================================================
