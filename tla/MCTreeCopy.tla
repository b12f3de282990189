----------------------------- MODULE MCTreeCopy -----------------------------
(* Instances of TreeCopy for TLC.                                            *)
EXTENDS TreeCopy, TLC

CONSTANTS a, d, b, r

\* Two files, one of them in a directory.
MCPath == {a, d, b}
MCParent == a :> r @@ d :> r @@ b :> d
=============================================================================
