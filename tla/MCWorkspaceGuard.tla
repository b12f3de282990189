-------------------------- MODULE MCWorkspaceGuard --------------------------
(* Instances of WorkspaceGuard for TLC: two brokers, a workspace of two      *)
(* paths, an agent with two results, a lenient and a strict policy.          *)
EXTENDS WorkspaceGuard, TLC

CONSTANTS a, b, old, new, lenient, strict

MCCaller == {a, b}
MCPath == {1, 2}
MCContent == {old, new}
OnePolicy == {lenient}
TwoPolicies == {lenient, strict}

MCStart == [p \in MCPath |-> IF p = 1 THEN old ELSE NoEntry]
\* A result that rewrites a file and adds another.
Rewrite == [p \in MCPath |-> new]
\* A result that deletes what was there.
Removal == [p \in MCPath |-> NoEntry]

OneResult == {Rewrite}
BothResults == {Rewrite, Removal}
RemovalOnly == {Removal}

\* An editor rewrites the file.
OneEdit == {[p \in MCPath |-> IF p = 1 THEN new ELSE NoEntry]}
NoEdit == {}

\* Additions are allowed, a rewrite needs approval, a removal is denied by the
\* strict policy.
MCEvaluate(rules, before, after) ==
    IF \A p \in MCPath : before[p] \in {NoEntry, after[p]} THEN "allow"
    ELSE IF rules = strict /\ \E p \in MCPath : after[p] = NoEntry
                                                /\ before[p] # NoEntry
    THEN "deny" ELSE "require_approval"

Symmetry == Permutations(MCCaller) \cup Permutations(Commit)
=============================================================================
