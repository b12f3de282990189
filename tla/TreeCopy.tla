------------------------------ MODULE TreeCopy ------------------------------
(* Scan, copy, scan again: how begin takes a workspace into a worktree, and  *)
(* how commit takes a worktree into its payload, while the owner of the tree *)
(* goes on writing it.  The other modules take each of the three walks for   *)
(* one step; here a walk is what it is, one system call after another.       *)
(*                                                                           *)
(* A call reads one cell of the tree: the names in a directory (scandir),    *)
(* the kind and mode of an entry (stat), the content of a file (_hash_file,  *)
(* copy2).  A walk is the set of the cells it has still to read: it takes    *)
(* them in any order that reads a name before its entry and an entry before  *)
(* its content, the depth-first order of the code among them.                *)
EXTENDS Naturals

CONSTANTS
    Path,      \* the possible paths below the root
    Root,      \* the root itself
    Parent,    \* the directory of each path
    DirMode,   \* the modes of directories
    FileMode,  \* the modes of files
    Data,      \* the contents of files
    Absent,    \* no entry
    Unread,    \* a cell the walk has not read
    MaxWrites  \* how often the owner writes

ASSUME PathAssumption == Root \notin Path /\ Parent \in [Path -> Path \cup {Root}]
\* What scandir may return: every path but some (a form TLC can enumerate).
Listing == {Path \ S : S \in SUBSET Path}

Value == DirMode \cup FileMode \cup Data \cup Listing
Cell == ({"names"} \X (Path \cup {Root})) \cup ({"stat", "data"} \X Path)

ASSUME ValueAssumption ==
    Absent \notin Value /\ Unread \notin Value /\ Absent # Unread
ASSUME ModeAssumption == DirMode \cap FileMode = {}
ASSUME WritesAssumption == MaxWrites \in Nat

\* A directory has no content of its own.
Entry == [stat : DirMode, data : {Absent}] \cup [stat : FileMode, data : Data]
NoEntry == [stat |-> Absent, data |-> Absent]
IsDir(t, p) == p = Root \/ t[p].stat \in DirMode

\* What a system call that reads the cell returns; an error is Absent.
Holds(t, c) ==
    CASE c[1] = "names" -> IF IsDir(t, c[2])
                           THEN {p \in Path : Parent[p] = c[2]
                                                  /\ t[p] # NoEntry}
                           ELSE Absent
      [] c[1] = "stat" -> t[c[2]].stat
      [] c[1] = "data" -> t[c[2]].data

VARIABLES
    tree,     \* the tree, written by its owner at any time
    call,     \* "begin" or "commit"
    pc,       \* the walk under way, or how the call ended
    todo,     \* the cells it has still to read
    got,      \* what each of the three walks has read
    turn,     \* history: every cell at the moment the first scan ended
    past,     \* history: the values each cell has had and lost
    repeated, \* history: some cell came back to a value it had lost
    writes,   \* how often the owner has written
    faulted   \* history: some I/O call has raised

vars == <<tree, call, pc, todo, got, turn, past, repeated, writes, faulted>>

Walk == {"before", "copy", "after"}
Nothing == [c \in Cell |-> Unread]
Cells(t) == [c \in Cell |-> Holds(t, c)]

\* Entries lie in directories.
IsTree(t) ==
    \A p \in Path : t[p] # NoEntry => IsDir(t, Parent[p])

Init ==
    /\ tree \in {t \in [Path -> Entry \cup {NoEntry}] : IsTree(t)}
    /\ call \in {"begin", "commit"}
    /\ pc = "before"
    /\ todo = {<<"names", Root>>}
    /\ got = [w \in Walk |-> Nothing]
    /\ turn = Nothing
    /\ past = [c \in Cell |-> {}]
    /\ repeated = FALSE
    /\ writes = 0
    /\ faulted = FALSE

\* What there is to read next after v was read in cell c: the entries of the
\* names, the content of a file, the names of a directory.  (copytree takes the
\* kind from the listing and the mode after the content; the same cells.)
Opens(c, v) ==
    CASE c[1] = "names" -> {"stat"} \X v
      [] c[1] = "stat" -> IF v \in DirMode THEN {<<"names", c[2]>>}
                          ELSE {<<"data", c[2]>>}
      [] c[1] = "data" -> {}

\* Mutant: what has disappeared is recorded as such.
ReadLenient(c) ==
    /\ got' = [got EXCEPT ![pc][c] = Holds(tree, c)]
    /\ todo' = {x \in todo \cup IF Holds(tree, c) = Absent THEN {}
                                ELSE Opens(c, Holds(tree, c)) :
                   got'[pc][x] = Unread}
    /\ UNCHANGED pc

\* A name, entry or content that has disappeared raises.
Read(c) ==
    LET v == Holds(tree, c) IN
    \/ /\ v # Absent
       /\ got' = [got EXCEPT ![pc][c] = v]
       /\ todo' = {x \in todo \cup Opens(c, v) : got'[pc][x] = Unread}
       /\ UNCHANGED pc
    \/ v = Absent /\ pc' = "refused" /\ UNCHANGED <<todo, got>>

Step ==
    /\ pc \in Walk
    /\ \E c \in todo : Read(c)
    /\ UNCHANGED <<tree, call, turn, past, repeated, writes, faulted>>

ReadFails ==
    /\ pc \in Walk
    /\ faulted' = TRUE /\ pc' = "refused"
    /\ UNCHANGED <<tree, call, todo, got, turn, past, repeated, writes>>

\* Mutant: a walk starts where the one before it has ended.
NextWalkOn(w, start) == pc' = w /\ UNCHANGED todo

NextWalk(w, start) == pc' = w /\ todo' = start

\* begin copies the whole tree, commit the operation roots that are not gone.
CopyStarts ==
    IF call = "begin" THEN {{<<"names", Root>>}}
    ELSE {{"stat"} \X S :
              S \in {R \in SUBSET Path :
                        \A p \in R : /\ got["before"][<<"stat", p>>] # Unread
                                    /\ Parent[p] \notin R}}

ScanEnds ==
    /\ pc = "before" /\ todo = {}
    /\ turn' = Cells(tree)
    /\ \E start \in CopyStarts : NextWalk("copy", start)
    /\ UNCHANGED <<tree, call, got, past, repeated, writes, faulted>>

CopyEnds ==
    /\ pc = "copy" /\ todo = {}
    /\ NextWalk("after", {<<"names", Root>>})
    /\ UNCHANGED <<tree, call, got, turn, past, repeated, writes, faulted>>

\* Mutant: commit does not scan again.
AcceptsCopy == call = "begin" => /\ got["after"] = got["before"]
                                 /\ got["copy"] = got["before"]

\* begin compares the digests of all three walks (the third is of the worktree,
\* which nobody writes yet); commit those of the two scans, each with the plan.
Accepts ==
    /\ got["after"] = got["before"]
    /\ call = "begin" => got["copy"] = got["before"]

Compare ==
    /\ pc = "after" /\ todo = {}
    /\ pc' = IF Accepts THEN "accepted" ELSE "refused"
    /\ UNCHANGED <<tree, call, todo, got, turn, past, repeated, writes,
                   faulted>>

\* The tree with e at path p, and nothing in it unless it is a directory.
Placed(t, p, e) ==
    [q \in Path |-> IF q = p THEN e
                    ELSE IF Parent[q] = p /\ e.stat \notin DirMode THEN NoEntry
                    ELSE t[q]]

\* One system call of the owner: an entry is created, written, given another
\* mode, replaced or removed with all that is directly in it, or a file is
\* renamed.
Writes(t) ==
    {Placed(t, p, e) : p \in Path, e \in Entry \cup {NoEntry}}
        \cup {Placed(Placed(t, p, NoEntry), q, t[p]) :
                  p \in {x \in Path : t[x].stat \in FileMode},
                  q \in {x \in Path : t[x].stat \notin DirMode}}

Write ==
    /\ writes < MaxWrites /\ pc \in Walk
    /\ tree' \in {t \in Writes(tree) : IsTree(t) /\ t # tree}
    /\ LET lost == {c \in Cell : Holds(tree', c) # Holds(tree, c)} IN
       /\ past' = [c \in Cell |-> past[c] \cup (IF c \in lost
                                                THEN {Holds(tree, c)} ELSE {})]
       /\ repeated' = (repeated
                          \/ \E c \in lost : Holds(tree', c) \in past[c])
    /\ writes' = writes + 1
    /\ UNCHANGED <<call, pc, todo, got, turn, faulted>>

Broker == Step \/ ReadFails \/ ScanEnds \/ CopyEnds \/ Compare

Next == Broker \/ Write

\* The thread that made the call goes on with it.
Spec == Init /\ [][Next]_vars /\ WF_vars(Broker)

----------------------------------------------------------------------------
(* Properties.                                                               *)

TypeOK ==
    /\ tree \in [Path -> Entry \cup {NoEntry}] /\ IsTree(tree)
    /\ call \in {"begin", "commit"}
    /\ pc \in Walk \cup {"accepted", "refused"}
    /\ todo \subseteq Cell
    /\ got \in [Walk -> [Cell -> Value \cup {Unread}]]
    /\ turn \in [Cell -> Value \cup {Absent, Unread}]
    /\ past \in [Cell -> SUBSET (Value \cup {Absent})]
    /\ repeated \in BOOLEAN /\ writes \in 0 .. MaxWrites
    /\ faulted \in BOOLEAN

\* What a walk has read is what the tree was when the first scan ended.
Agrees(w) == \A c \in Cell : got[w][c] # Unread => got[w][c] = turn[c]

\* Reading call by call is as good as reading at once: a tree that is accepted
\* as the baseline, or as what the plan was made for, was there as a whole at
\* one moment, and the copy is a copy of it (in commit, without being compared
\* with anything), although the owner was free to write between any two reads
\* - as long as nothing it wrote came back to what it had been.
AcceptedIsSnapshot ==
    pc = "accepted" /\ ~repeated =>
        \A w \in Walk : Agrees(w)

\* A tree its owner leaves alone is accepted, unless an I/O call raises.
QuietIsAccepted ==
    []<>(pc = "accepted" \/ faulted \/ writes > 0)
=============================================================================
