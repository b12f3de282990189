----------------------------- MODULE MCStateRoot -----------------------------
(* An instance of StateRoot for TLC: a broker with two threads and a broker  *)
(* with one.                                                                 *)
EXTENDS StateRoot, TLC

CONSTANTS b1, b2, t1, t2, t3

MCBroker == {b1, b2}
MCThread == {t1, t2, t3}
MCOwner == t1 :> b1 @@ t2 :> b1 @@ t3 :> b2
Symmetry == Permutations(Key) \cup Permutations({t1, t2})
=============================================================================
