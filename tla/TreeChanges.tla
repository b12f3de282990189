----------------------------- MODULE TreeChanges -----------------------------
(* What the broker computes about file trees: the manifest of a tree, the    *)
(* copy it makes of a workspace, the difference of two manifests, the roots  *)
(* a commit renames for it, and the decision of the policy.                  *)
(*                                                                           *)
(* A path is a non-empty sequence of names, a tree a function from paths to  *)
(* entries whose domain holds the parent of every path it holds.  Names are  *)
(* numbers, for their order.  A digest stands for its content.               *)
EXTENDS Integers, SequencesExt

CONSTANTS
    Name, Mode, Digest,  \* names, permission bits, contents
    WithSlash,           \* the order of the names with a slash after them
    Excluded,            \* excluded_top_level
    Protected,           \* the names equal to a protected one up to case
    Sensitive, Scripts,  \* credential-like names, names with script suffixes
    Executable,          \* the modes with an executable bit
    Limits               \* the numbers of the policy

ASSUME NamesAssumption ==
    /\ Name \subseteq Nat \ {0} /\ Excluded \subseteq Protected
    /\ Protected \cup Sensitive \cup Scripts \subseteq Name
    /\ Executable \subseteq Mode
    /\ WithSlash \in [Name -> Nat] /\ IsInjective(WithSlash)
ASSUME LimitsAssumption ==
    /\ Limits \in [changes : Nat, adds : Nat, bytes : Nat, deletes : Nat,
                   baseline : Nat, num : Nat, den : Nat \ {0}]

\* ManifestEntry.  A link target is a sequence of names and 0, for "..".  Of
\* a directory the scan records nothing but the mode.
Up == 0
Entry ==
    {e \in [kind : {"file", "directory", "symlink", "special"}, mode : Mode,
            size : Nat, digest : Digest \cup {0},
            target : Seq(Name \cup {Up})] :
        e.kind = "directory" => e.size = 0 /\ e.digest = 0 /\ e.target = <<>>}

Path == Seq(Name) \ {<<>>}
Parent(p) == Front(p)
IsTree(t) ==
    /\ DOMAIN t \subseteq Path /\ t \in [DOMAIN t -> Entry]
    /\ \A p \in DOMAIN t : Len(p) > 1 =>
           Parent(p) \in DOMAIN t /\ t[Parent(p)].kind = "directory"

Inside(root, p) == IsPrefix(root, p)
Subtree(t, root) == Restrict(t, {p \in DOMAIN t : Inside(root, p)})
\* Mutant: a directory is cut out of the tree without its contents.
CutEntry(t, root) == Restrict(t, DOMAIN t \ {root})
Cut(t, root) == Restrict(t, {p \in DOMAIN t : ~Inside(root, p)})

----------------------------------------------------------------------------
(* Manifests.                                                                *)

\* Mutant: the names are excluded at every level.
ScanPatterns(t) ==
    Restrict(t, {p \in DOMAIN t : \A i \in DOMAIN p : p[i] \notin Excluded})
\* scan_tree leaves the excluded names out at the top.
Scan(t) == Restrict(t, {p \in DOMAIN t : Head(p) \notin Excluded})

\* copytree with ignore_patterns leaves them out at every level.
Copy(t) ==
    Restrict(t, {p \in DOMAIN t : \A i \in DOMAIN p : p[i] \notin Excluded})

\* copy2 raises on a FIFO or a socket, and makes a file of a device.
Copyable(t) == \A p \in DOMAIN Copy(t) : t[p].kind # "special"

\* _entry_changed, for entries of one kind.
EntryChanged(old, new) ==
    IF old.kind = "directory" THEN old.mode # new.mode
    ELSE \/ old.mode # new.mode \/ old.size # new.size
         \/ old.digest # new.digest \/ old.target # new.target

\* Mutant: a directory never counts as changed.
DiffContents(before, after) ==
    {p \in DOMAIN before \cup DOMAIN after :
        \/ p \notin DOMAIN before \/ p \notin DOMAIN after
        \/ before[p].kind # after[p].kind
        \/ before[p].digest # after[p].digest}
\* diff_manifests: the changed paths; ChangeKind tells what changed.
Diff(before, after) ==
    {p \in DOMAIN before \cup DOMAIN after :
        \/ p \notin DOMAIN before \/ p \notin DOMAIN after
        \/ before[p].kind # after[p].kind
        \/ EntryChanged(before[p], after[p])}

ChangeKind(before, after, p) ==
    CASE p \notin DOMAIN before -> "add"
      [] p \notin DOMAIN after -> "delete"
      [] before[p].kind # after[p].kind -> "type_change"
      [] OTHER -> "modify"

IsDirectory(t, p) == p \in DOMAIN t /\ t[p].kind = "directory"

\* The order of operation_roots: by depth, then by the path as one string, in
\* which "a.b/c" comes before "a/c" though "a" comes before "a.b".
Key(p, i) == IF i = Len(p) THEN p[i] ELSE WithSlash[p[i]]
Precedes(p, q) ==
    \/ Len(p) < Len(q)
    \/ /\ Len(p) = Len(q)
       /\ \E i \in DOMAIN p : /\ Key(p, i) < Key(q, i)
                              /\ \A j \in 1 .. i - 1 : p[j] = q[j]

\* The set S in that order: before the element at i there are i - 1 others.
InOrder(S) ==
    [i \in 1 .. Cardinality(S) |->
        CHOOSE p \in S : Cardinality({q \in S : Precedes(q, p)}) = i - 1]

\* Mutant: only what was a directory before hides what is inside.
SelectBefore(before, after, chosen, p) ==
    IF \E q \in chosen.whole : Inside(q, p) THEN chosen
    ELSE [roots |-> Append(chosen.roots, p),
          whole |-> chosen.whole \cup {q \in {p} : IsDirectory(before, q)}]

\* A change below a directory, old or new, that is selected already needs no
\* operation of its own.
Select(before, after, chosen, p) ==
    IF \E q \in chosen.whole : Inside(q, p) THEN chosen
    ELSE [roots |-> Append(chosen.roots, p),
          whole |-> chosen.whole \cup
              {q \in {p} : IsDirectory(before, q) \/ IsDirectory(after, q)}]

\* operation_roots
OperationRoots(before, after) ==
    LET changes == InOrder(Diff(before, after))
        chosen[n \in 0 .. Len(changes)] ==
            IF n = 0 THEN [roots |-> <<>>, whole |-> {}]
            ELSE Select(before, after, chosen[n - 1], changes[n])
    IN  chosen[Len(changes)].roots

\* What it is to select: the changes that no other change to a directory, old
\* or new, contains.
Topmost(before, after) ==
    {p \in Diff(before, after) :
        ~\E q \in Diff(before, after) :
            /\ q # p /\ Inside(q, p)
            /\ IsDirectory(before, q) \/ IsDirectory(after, q)}

----------------------------------------------------------------------------
(* The policy.                                                               *)

\* One component of a target, and all of them, as names: the policy follows no
\* link on the way and asks for no directory.
Follow(here, name) ==
    IF ~here.inside THEN here
    ELSE IF name # Up THEN [here EXCEPT !.path = Append(@, name)]
    ELSE IF here.path = <<>> THEN [here EXCEPT !.inside = FALSE]
    ELSE [here EXCEPT !.path = Front(@)]

Walk(from, target) ==
    LET stop[n \in 0 .. Len(target)] ==
            IF n = 0 THEN [inside |-> TRUE, path |-> from]
            ELSE Follow(stop[n - 1], target[n])
    IN  stop[Len(target)]

\* Mutant: a relative target is followed from the link, not from its directory.
ResolveFromLink(p, target) == Walk(p, target)

\* _unsafe_symlink_reason: where a target leads.
Resolve(p, target) == Walk(Parent(p), target)

\* Empty targets stand for the malformed and the absolute ones too.
UnsafeLink(p, target) ==
    LET end == Resolve(p, target) IN
    \/ target = <<>> \/ ~end.inside
    \/ end.path # <<>> /\ Head(end.path) \in Protected

\* Mutant: exactly half of the workspace may go.
MassDeleteAbove(before, after) ==
    LET deleted == Cardinality(DOMAIN before \ DOMAIN after)
        baseline == Cardinality(DOMAIN before)
    IN  /\ baseline >= Limits.baseline /\ deleted > 0
        /\ \/ deleted >= Limits.deletes
           \/ deleted * Limits.den > Limits.num * baseline

MassDelete(before, after) ==
    LET deleted == Cardinality(DOMAIN before \ DOMAIN after)
        baseline == Cardinality(DOMAIN before)
    IN  /\ baseline >= Limits.baseline /\ deleted > 0
        /\ \/ deleted >= Limits.deletes
           \/ deleted * Limits.den >= Limits.num * baseline

HardDeny(before, after) ==
    LET changes == Diff(before, after)
        Left(p) == IF p \in DOMAIN after THEN after[p] ELSE before[p]
    IN
    \/ \E p \in changes :
           \/ Head(p) \in Protected
           \/ Left(p).kind = "special"
           \/ /\ p \in DOMAIN after /\ after[p].kind = "symlink"
              /\ UnsafeLink(p, after[p].target)
    \/ MassDelete(before, after)
    \/ Cardinality(changes) > Limits.changes

AddedBytes(after, added) ==
    SumFunction([p \in {q \in added : after[q].kind = "file"} |->
                     after[p].size])

\* Mutant: a type change is not counted as destructive.
DestructiveEdits(before, after) ==
    \E p \in Diff(before, after) :
        ChangeKind(before, after, p) \in {"modify", "delete"}

Destructive(before, after) ==
    LET changes == Diff(before, after)
        Kind(p) == ChangeKind(before, after, p)
    IN
    \/ \E p \in changes :
           \/ Kind(p) # "add"
           \/ p \in DOMAIN after /\ after[p].kind = "symlink"
           \/ /\ Kind(p) = "add" /\ after[p].kind = "file"
              /\ after[p].mode \in Executable \/ Last(p) \in Scripts
           \/ Last(p) \in Sensitive
    \/ /\ changes # {} /\ \A p \in changes : Kind(p) = "add"
       /\ \/ Cardinality(changes) > Limits.adds
          \/ AddedBytes(after, changes) > Limits.bytes

\* GuardPolicy.evaluate
Evaluate(before, after) ==
    IF HardDeny(before, after) THEN "deny"
    ELSE IF Destructive(before, after) THEN "require_approval"
    ELSE "allow"
=============================================================================
