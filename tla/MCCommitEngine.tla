--------------------------- MODULE MCCommitEngine ---------------------------
(* Instances of CommitEngine, with its refinement, for TLC.                  *)
EXTENDS CommitRefinement, TLC

CONSTANTS c1, c2

MCContent == {c1, c2}

\* Contents are compared with each other and with NoEntry only, and NoEntry is
\* not among them.
Symmetry == Permutations(MCContent)
=============================================================================
