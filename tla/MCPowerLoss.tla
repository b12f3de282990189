---------------------------- MODULE MCPowerLoss -----------------------------
(* Instances of PowerLoss for TLC.                                           *)
EXTENDS PowerLoss, TLC

CONSTANTS c1, c2

MCContent == {c1, c2}

\* As in MCCommitEngine; junk is a content like any other.
Symmetry == Permutations(MCContent)
=============================================================================
