----------------------------- MODULE TreeCommit ------------------------------
(* One transaction on real trees: begin copies the workspace, an agent turns *)
(* the copy into something else, plan computes the changes, the operation    *)
(* roots and the decision, and commit, rollback and restore rename whole     *)
(* subtrees between the workspace, the apply directory and the quarantine.   *)
(*                                                                           *)
(* Module CommitEngine takes the roots for independent paths; this module    *)
(* has the trees that make them so.  Nobody else writes the workspace here,  *)
(* and the journal is left out.                                              *)
EXTENDS TreeChanges

CONSTANTS
    Workspaces,  \* the trees a workspace may be, .git and the like included
    Results,     \* the trees the agent may turn its worktree into
    NewDirectory,            \* the entry mkdir makes
    Hops,                    \* bound on the names the system follows
    FailedNew, RestoreCurrent \* the names _failed_new and _restore_current

ASSUME TreesAssumption ==
    /\ \A t \in Workspaces \cup Results : IsTree(t) /\ IsFiniteSet(DOMAIN t)
    /\ NewDirectory \in Entry /\ NewDirectory.kind = "directory"
    /\ {FailedNew, RestoreCurrent} \subseteq Name /\ Hops \in Nat

VARIABLES
    origin,      \* history: the workspace when begin was called
    live,        \* the workspace
    worktree,    \* the disposable worktree
    base,        \* baseline.json
    decision,    \* the decision of the plan, "none" before
    roots,       \* the operation roots of the plan
    apply,       \* apply/<commit_id>
    quarantine,  \* quarantine/<commit_id>
    at,          \* the operation the loop is at
    moved,       \* the operations with backup_moved
    installed,   \* the operations with installed
    pc,
    faulted      \* history: an I/O call has raised

plan == <<worktree, base, decision, roots>>
flags == <<moved, installed>>
stores == <<apply, quarantine>>
vars == <<origin, live, plan, stores, at, flags, pc, faulted>>

NoTree == [p \in {} |-> NewDirectory]

Init ==
    /\ origin \in Workspaces
    /\ live = origin
    /\ worktree = NoTree /\ base = NoTree
    /\ decision = "none" /\ roots = <<>>
    /\ apply = NoTree /\ quarantine = NoTree
    /\ at = 1 /\ moved = {} /\ installed = {}
    /\ pc = "begin" /\ faulted = FALSE

----------------------------------------------------------------------------
(* Renames.                                                                  *)

Above(p) == {q \in Prefixes(p) : q # <<>> /\ q # p}

\* mkdir(parents=True, exist_ok=True) of the parent raises on anything else
\* than a directory.
Fits(t, p) == \A q \in Above(p) : q \in DOMAIN t => t[q].kind = "directory"

\* os.rename replaces what is at the destination: a directory that is empty
\* by a directory, anything else by anything but a directory.
Replaces(t, p, e) ==
    p \in DOMAIN t =>
        /\ t[p].kind = "directory" <=> e.kind = "directory"
        /\ \A q \in DOMAIN t : Inside(p, q) => q = p

\* The subtree s, taken from path `from`, put at path `to` of tree t.
Place(t, to, s, from) ==
    LET there == {to \o SubSeq(p, Len(from) + 1, Len(p)) : p \in DOMAIN s}
    IN  [q \in there \cup DOMAIN t \cup Above(to) |->
            IF q \in there THEN s[from \o SubSeq(q, Len(to) + 1, Len(q))]
            ELSE IF q \in DOMAIN t THEN t[q] ELSE NewDirectory]

Root == roots[at]
Existed(p) == p \in DOMAIN base
Remains(p) == p \in DOMAIN Scan(worktree)

----------------------------------------------------------------------------
(* begin and plan.                                                           *)

\* The copy must be made and have the manifest of the workspace, or all of the
\* transaction is removed again.
Begin ==
    LET faithful == Copyable(live) /\ Scan(Copy(live)) = Scan(live) IN
    /\ pc = "begin"
    /\ \/ /\ faithful
          /\ worktree' = Copy(live) /\ base' = Scan(live)
          /\ pc' = "open"
       \/ /\ ~faithful
          /\ pc' = "refused" /\ UNCHANGED <<worktree, base>>
    /\ UNCHANGED <<origin, live, decision, roots, stores, at, flags, faulted>>

\* The agent.
Work ==
    /\ pc = "open" /\ pc' = "worked"
    /\ worktree' \in Results
    /\ UNCHANGED <<origin, live, base, decision, roots, stores, at, flags,
                   faulted>>

Plan ==
    LET staged == Scan(worktree) IN
    /\ pc = "worked" /\ pc' = "planned"
    /\ decision' = Evaluate(base, staged)
    /\ roots' = OperationRoots(base, staged)
    /\ UNCHANGED <<origin, live, worktree, base, stores, at, flags, faulted>>

----------------------------------------------------------------------------
(* commit.                                                                   *)

\* Approval is taken for granted where it is needed.  The payload is a copy
\* of each root that remains, with what is below it.
Commit ==
    /\ pc = "planned" /\ decision # "deny"
    /\ apply' = [p \in {q \in DOMAIN Scan(worktree) :
                           \E i \in DOMAIN roots : Inside(roots[i], q)}
                     |-> worktree[p]]
    /\ pc' = IF roots = <<>> THEN "verify" ELSE "move"
    /\ UNCHANGED <<origin, live, plan, quarantine, at, flags, faulted>>

MoveBackup ==
    /\ pc = "move"
    /\ \/ /\ Existed(Root) /\ Root \in DOMAIN live
          /\ quarantine' =
                 Place(quarantine, Root, Subtree(live, Root), Root)
          /\ live' = Cut(live, Root)
          /\ moved' = moved \cup {at}
       \/ ~Existed(Root) /\ UNCHANGED <<live, quarantine, moved>>
    /\ pc' = "install"
    /\ UNCHANGED <<origin, plan, apply, at, installed, faulted>>

Install ==
    /\ pc = "install"
    /\ \/ /\ Remains(Root) /\ Root \in DOMAIN apply /\ Fits(live, Root)
          /\ live' = Place(Cut(live, Root), Root, Subtree(apply, Root), Root)
          /\ apply' = Cut(apply, Root)
          /\ installed' = installed \cup {at}
       \/ ~Remains(Root) /\ UNCHANGED <<live, apply, installed>>
    /\ IF at = Len(roots) THEN pc' = "verify" /\ UNCHANGED at
       ELSE pc' = "move" /\ at' = at + 1
    /\ UNCHANGED <<origin, plan, quarantine, moved, faulted>>

Verify ==
    /\ pc = "verify"
    /\ pc' = IF Scan(live) = Scan(worktree) THEN "committed" ELSE "undo"
    /\ at' = Len(roots)
    /\ UNCHANGED <<origin, live, plan, stores, flags, faulted>>

\* An exception before the record says committed: a target or a payload that
\* is not there, or an I/O error.
Raise ==
    LET lost == \/ pc = "move" /\ Existed(Root) /\ Root \notin DOMAIN live
                \/ /\ pc = "install" /\ Remains(Root)
                   /\ Root \notin DOMAIN apply \/ ~Fits(live, Root)
    IN
    /\ pc \in {"move", "install", "verify"} /\ roots # <<>>
    /\ pc' = "undo" /\ at' = Len(roots)
    /\ faulted' = ~lost
    /\ UNCHANGED <<origin, live, plan, stores, flags>>

----------------------------------------------------------------------------
(* Rollback and restore take the operations in reverse order.                *)

\* Mutant: an installed entry stays where nothing was before.
TakeBackReplaced(side) ==
    IF at \in moved
    THEN /\ live' =
               Place(Cut(live, Root), Root, Subtree(quarantine, Root), Root)
         /\ quarantine' = Cut(quarantine, Root)
    ELSE UNCHANGED <<live, quarantine>>

\* The installed entry goes below directory `side` of the quarantine, the
\* backup returns.
TakeBack(side) ==
    LET put == at \in installed
        aside == <<side>> \o Root
        left == IF put THEN Cut(live, Root) ELSE live
        held == IF put THEN Place(quarantine, aside, Subtree(live, Root), Root)
                ELSE quarantine
    IN
    /\ live' = IF at \in moved
               THEN Place(left, Root, Subtree(held, Root), Root) ELSE left
    /\ quarantine' = IF at \in moved THEN Cut(held, Root) ELSE held

\* The entry set aside cannot go below a backup of that name that is a file,
\* nor in the place of one that is in the way.
Blocked(side) ==
    LET aside == <<side>> \o Root IN
    at \in installed /\ ~(/\ Fits(quarantine, aside)
                          /\ Replaces(quarantine, aside, live[Root]))

Previous(label, done) ==
    IF at = 1 THEN pc' = done /\ UNCHANGED at
    ELSE pc' = label /\ at' = at - 1

\* _rollback_failed_commit goes on after the error of one operation.
Undo ==
    /\ pc \in {"undo", "undo_failed"}
    /\ \/ /\ ~Blocked(FailedNew) /\ TakeBack(FailedNew)
          /\ Previous(pc, IF pc = "undo" THEN "rolled_back"
                          ELSE "rollback_failed")
       \/ /\ Blocked(FailedNew) /\ UNCHANGED <<live, quarantine>>
          /\ Previous("undo_failed", "rollback_failed")
    /\ UNCHANGED <<origin, plan, apply, flags, faulted>>

\* restore stops at the first error.
RestoreBegin ==
    /\ pc = "committed" /\ Scan(live) = Scan(worktree)
    /\ pc' = IF roots = <<>> THEN "restored" ELSE "restore"
    /\ UNCHANGED <<origin, live, plan, stores, at, flags, faulted>>

Restore ==
    /\ pc = "restore"
    /\ \/ /\ ~Blocked(RestoreCurrent) /\ TakeBack(RestoreCurrent)
          /\ Previous("restore", IF Scan(live') = base THEN "restored"
                                 ELSE "restore_failed")
       \/ /\ Blocked(RestoreCurrent) /\ UNCHANGED <<live, quarantine>>
          /\ pc' = "restore_failed" /\ UNCHANGED at
    /\ UNCHANGED <<origin, plan, apply, flags, faulted>>

Next ==
    \/ Begin \/ Work \/ Plan
    \/ Commit \/ MoveBackup \/ Install \/ Verify \/ Raise
    \/ Undo \/ RestoreBegin \/ Restore

Spec == Init /\ [][Next]_vars

----------------------------------------------------------------------------
(* Properties.                                                               *)

Label == {"begin", "open", "refused", "worked", "planned", "move", "install",
          "verify", "committed", "undo", "undo_failed", "rolled_back",
          "rollback_failed", "restore", "restored", "restore_failed"}

\* Every variable has its type; the workspace is a tree between any two steps.
TypeOK ==
    /\ \A t \in {live, worktree, base, quarantine} : IsTree(t)
    /\ decision \in {"none", "allow", "require_approval", "deny"}
    /\ at \in (0 .. Len(roots)) \cup {1}
    /\ moved \subseteq DOMAIN roots /\ installed \subseteq DOMAIN roots
    /\ pc \in Label /\ faulted \in BOOLEAN

\* Each rename finds its source, and its destination free in an existing
\* directory, whatever was renamed before: no root lies inside another.
RenamesLand ==
    /\ pc = "move" /\ Existed(Root) => Root \in DOMAIN live
    /\ pc = "install" =>
           /\ Root \notin DOMAIN live
           /\ Remains(Root) => Root \in DOMAIN apply
           /\ \A q \in Above(Root) : IsDirectory(live, q)

\* The operation roots are enough: renaming them turns the workspace into the
\* planned tree, so the scan after a commit never fails; and they are not too
\* much: an excluded entry of the workspace is never touched.
RootsSuffice ==
    /\ pc = "verify" => Scan(live) = Scan(worktree)
    /\ \A p \in DOMAIN origin : Head(p) \in Excluded =>
           p \in DOMAIN live /\ live[p] = origin[p]

\* The loop of operation_roots, which compares a change only with what it has
\* selected before, finds the topmost changes, all of them and in order.
RootsAreTopmost ==
    pc = "planned" => roots = InOrder(Topmost(base, Scan(worktree)))

Collision(side) == \E i \in DOMAIN roots : Head(roots[i]) = side

\* Rollback and restore bring back the whole tree begin saw, excluded names
\* included, unless a path of the plan has the name of their own directory: a
\* rollback may then put what it has set aside into the backup it returns.
Reversible ==
    /\ pc = "rolled_back" /\ ~Collision(FailedNew) => live = origin
    /\ pc = "restored" => live = origin
    /\ pc \in {"undo_failed", "rollback_failed"} => Collision(FailedNew)
    /\ pc = "restore_failed" => Collision(RestoreCurrent)

\* A plan that is committed without anybody's approval takes nothing from the
\* workspace, not even for a moment: every entry stays, as it is.
AutomaticKeepsAll ==
    decision = "allow" =>
        \A p \in DOMAIN origin : p \in DOMAIN live /\ live[p] = origin[p]

\* "mass deletion" is denied: no commit ends with the limit's share of the
\* baseline entries gone.
NoMassLoss ==
    LET before == DOMAIN Scan(origin)
        gone == before \ DOMAIN live
    IN  pc = "committed" /\ gone # {}
            /\ Cardinality(before) >= Limits.baseline
        => /\ Cardinality(gone) < Limits.deletes
           /\ Cardinality(gone) * Limits.den < Limits.num * Cardinality(before)

\* One name further on the way the system takes through tree t: up from a
\* directory, down into one, or along a link that is met.  Anything else ends
\* the way, names that are not scanned included.
Hop(t, way) ==
    LET rest == Tail(way.rest)
        next == Append(way.at, Head(way.rest))
        met == next \in DOMAIN t /\ t[next].kind = "symlink"
    IN
    IF way.out \/ way.rest = <<>> THEN way
    ELSE IF Head(way.rest) = Up
    THEN IF way.at = <<>> THEN [way EXCEPT !.out = TRUE]
         ELSE [at |-> Front(way.at), rest |-> rest, out |-> FALSE]
    ELSE IF IsDirectory(t, next)
    THEN [at |-> next, rest |-> rest, out |-> FALSE]
    ELSE IF met /\ t[next].target # <<>>
    THEN [way EXCEPT !.rest = t[next].target \o rest]
    ELSE [at |-> way.at, rest |-> <<>>, out |-> met]

\* The link at p leads the system out of tree t, by itself or by way of others.
Escapes(t, p) ==
    LET start == [at |-> Parent(p), rest |-> t[p].target,
                  out |-> t[p].target = <<>>]
        way[n \in 0 .. Hops] == IF n = 0 THEN start ELSE Hop(t, way[n - 1])
    IN  way[Hops].out

Links(t) == {p \in DOMAIN t : t[p].kind = "symlink"}
LinksEscape(t) == \E p \in Links(t) : Escapes(t, p)

\* README: "escaping symlinks ... are denied".  If no link of a workspace leads
\* out of it, no link of what a commit makes of it does.
LinksNeverLeave ==
    pc = "committed" /\ ~LinksEscape(Scan(origin)) => ~LinksEscape(Scan(live))

\* That is so as long as targets go up at their start only: then the names the
\* policy reads are the way the system takes, through whatever other links.
UpFirst(target) ==
    \A i, j \in DOMAIN target : i < j /\ target[j] = Up => target[i] = Up
LinksStayInside ==
    (\A p \in Links(Scan(live)) : UpFirst(Scan(live)[p].target))
        => LinksNeverLeave

\* As far as names and kinds go, begin refuses a workspace that holds still if
\* and only if the scan sees there what the copy cannot have: an excluded name
\* below the top, which copytree leaves out, or a special file.
RefusesUncopied ==
    LET lost(p) == \/ \E i \in DOMAIN p : p[i] \in Excluded
                   \/ origin[p].kind = "special"
    IN  pc # "begin" =>
            (pc = "refused" <=> \E p \in DOMAIN origin :
                                    Head(p) \notin Excluded /\ lost(p))
=============================================================================
