---------------------------- MODULE MCTreeCommit -----------------------------
(* An instance of TreeCommit for TLC.  The names: 1 an ordinary one, 2 .git, *)
(* 3 .GIT, 4 .env, 5 _failed_new, 6 _restore_current, 7 a script, whose name *)
(* comes after that of 6 but, with a slash, before it.                       *)
EXTENDS TreeCommit

MCName == 1 .. 7
MCWithSlash == [n \in MCName |-> IF n = 7 THEN 6 ELSE IF n = 6 THEN 7 ELSE n]
MCLimits == [changes |-> 4, adds |-> 2, bytes |-> 2, deletes |-> 3,
             baseline |-> 3, num |-> 1, den |-> 2]

File(mode, content) ==
    [kind |-> "file", mode |-> mode, size |-> content, digest |-> content,
     target |-> <<>>]
Directory(mode) ==
    [kind |-> "directory", mode |-> mode, size |-> 0, digest |-> 0,
     target |-> <<>>]
Link(target) ==
    [kind |-> "symlink", mode |-> "plain", size |-> 0, digest |-> 0,
     target |-> target]
Special ==
    [kind |-> "special", mode |-> "plain", size |-> 0, digest |-> 0,
     target |-> <<>>]
MCNewDirectory == Directory("plain")

A == File("plain", 1)
B == File("plain", 2)
X == File("exec", 1)

\* Trees with nothing, or with entry e, at path p.
None == {<<>>}
One(p, e) == {p :> e}
All(S, T) == {s @@ t : s \in S, t \in T}

Leaves ==
    None \cup One(<<1, 1, 1>>, A) \cup One(<<1, 1, 1>>, Link(<<0, 0, 4>>))
        \cup One(<<1, 1, 1>>, Link(<<0, 0, 0>>))
Children ==
    All(None \cup One(<<1, 1>>, A) \cup One(<<1, 1>>, X)
            \cup All(One(<<1, 1>>, Directory("plain")), Leaves),
        None \cup One(<<1, 2>>, A))
Ordinary(modes) ==
    None \cup One(<<1>>, A) \cup One(<<1>>, B)
        \cup All({<<1>> :> Directory(m) : m \in modes}, Children)
Git == None \cup One(<<2>>, A)
Kept == None \cup One(<<4>>, A) \cup One(<<4>>, Link(<<1, 1>>))
            \cup One(<<5>>, A) \cup One(<<6>>, A)
            \cup All(One(<<6>>, Directory("plain")), One(<<6, 7>>, A))
            \cup All(One(<<5>>, Directory("plain")), One(<<5, 7>>, A))
Odd == Kept \cup One(<<4>>, Link(<<2, 1>>)) \cup One(<<4>>, Link(<<0, 1>>))
           \cup One(<<4>>, Special) \cup One(<<3>>, A) \cup One(<<5>>, B)
           \cup One(<<6>>, B) \cup One(<<7>>, A)

\* A link to the top, and beside it nothing, a link through it, or a link that
\* by its names stays in the directory and by way of the first goes above it.
Detours ==
    All(One(<<1>>, Directory("plain")),
        All(One(<<1, 1>>, Link(<<0>>)),
            None \cup One(<<1, 2>>, Link(<<1, 4>>))
                \cup One(<<1, 2>>, Link(<<1, 0>>))))
\* Two directories whose names the slash reorders.
Twins(e) ==
    All(All(One(<<6>>, Directory("plain")), One(<<6, 1>>, e)),
        All(One(<<7>>, Directory("plain")), One(<<7, 1>>, e)))

MCWorkspaces ==
    All(Ordinary({"plain"}), All(Git, Kept))
        \cup All(Ordinary({"plain"}), One(<<4>>, Special))
        \cup Detours \cup Twins(A)
MCResults ==
    All(Ordinary({"plain", "exec"}), All(Git, Odd))
        \cup Detours \cup Twins(A) \cup Twins(B)
=============================================================================
