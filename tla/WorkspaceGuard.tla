--------------------------- MODULE WorkspaceGuard ---------------------------
(* The protocol of WorkspaceGuard as concurrent callers drive it: begin,     *)
(* plan, approve, commit, restore and discard against one real workspace and *)
(* one state root.  Callers are brokers (objects of WorkspaceGuard, in one   *)
(* process or in several), each with its own policy.                         *)
(*                                                                           *)
(* A call is cut where it reads or writes state that another call may change *)
(* in between: each record is loaded in one step and saved in another, the   *)
(* lock file is taken after the records were loaded, and nothing is loaded   *)
(* again.  What commit does between the scans under the lock and the         *)
(* bookkeeping is two steps here (a part of the tree; then the whole tree,   *)
(* the baseline again or a hybrid); module CommitEngine has its detail.      *)
EXTENDS Naturals, FiniteSets

CONSTANTS
    Caller, Tx, Plan, Commit,   \* callers, and the ids that may be handed out
    Path, Content, NoEntry,     \* trees map paths to contents or to NoEntry;
                                \* paths are numbered in operation order
    Start,                      \* the real workspace at first
    Results,                    \* trees an agent may leave in its worktree
    Edits,                      \* trees an editor may leave in the workspace
    Policy,                     \* the policies brokers may run with
    Evaluate(_, _, _),          \* GuardPolicy.evaluate(policy, before, after)
    PlanTTL, TokenTTL,          \* lifetimes of plans and of approval tokens
    MaxClock,                   \* bound on the clock
    None                        \* no id

Entry == Content \cup {NoEntry}
Tree == [Path -> Entry]
Time == 0 .. MaxClock
Decision == {"allow", "require_approval", "deny"}

ASSUME PathAssumption == Path \subseteq Nat \ {0}
ASSUME TreesAssumption ==
    Start \in Tree /\ Results \subseteq Tree /\ Edits \subseteq Tree
ASSUME PolicyAssumption ==
    \A p \in Policy, s, t \in Tree : Evaluate(p, s, t) \in Decision
ASSUME ClockAssumption ==
    PlanTTL \in Nat \ {0} /\ TokenTTL \in Nat \ {0} /\ MaxClock \in Nat

VARIABLES
    live,      \* the real workspace
    worktree,  \* [Tx -> Tree]: the disposable worktrees
    baseline,  \* [Tx -> Tree]: baseline.json
    kept,      \* the transactions whose directory was made and not removed
    txState,   \* [Tx -> state in transaction.json; "unused" before the id is
               \*  handed out, "none" once the file is removed]
    plans,     \* [Plan -> record in plans/]
    tokens,    \* the approval tokens issued
    commits,   \* [Commit -> record in commits/]
    backups,   \* [Commit -> the paths still held in quarantine/<commit_id>]
    lock,      \* the workspace lock file exists
    policy,    \* [Caller -> Policy]
    clock,     \* utc_epoch
    calls      \* [Caller -> the call under way]

txs == <<worktree, baseline, kept, txState>>
records == <<plans, tokens, commits>>
vars == <<live, txs, records, backups, lock, policy, clock, calls>>

NoPlan == [state |-> "none", tx |-> None, before |-> Start, after |-> Start,
           policy |-> None, decision |-> "deny", expires |-> 0]
NoCommit == [status |-> "none", plan |-> None, by |-> None, at |-> 0]
Idle == [at |-> "idle", tx |-> None, plan |-> None, commit |-> None,
         seen |-> Start, since |-> 0]

Init ==
    /\ live = Start
    /\ worktree = [t \in Tx |-> Start]
    /\ baseline = [t \in Tx |-> Start]
    /\ kept = {}
    /\ txState = [t \in Tx |-> "unused"]
    /\ plans = [p \in Plan |-> NoPlan]
    /\ tokens = {}
    /\ commits = [k \in Commit |-> NoCommit]
    /\ backups = [k \in Commit |-> {}]
    /\ lock = FALSE
    /\ policy \in [Caller -> Policy]
    /\ clock = 0
    /\ calls = [c \in Caller |-> Idle]

----------------------------------------------------------------------------
(* Calls.                                                                    *)

At(c, label) == calls[c].at = label
Step(c, label) == calls' = [calls EXCEPT ![c].at = label]
Return(c) == calls' = [calls EXCEPT ![c] = Idle]
Enter(c, call) == At(c, "idle") /\ calls' = [calls EXCEPT ![c] = call]

Changed(s, t) == {p \in Path : s[p] # t[p]}
Fresh(p) == clock < plans[p].expires
\* Mutant: an expired token still counts.
ValidForever(token, p) ==
    token.plan = p /\ token.created < token.expires
Valid(token, p) ==
    /\ token.plan = p
    /\ token.created < token.expires /\ token.expires <= plans[p].expires
    /\ clock < token.expires

----------------------------------------------------------------------------
(* begin: scan, copy, scan again, save.                                      *)

BeginScan(c) ==
    /\ Enter(c, [Idle EXCEPT !.at = "begin_check", !.seen = live])
    /\ UNCHANGED <<live, txs, records, backups, lock, policy, clock>>

\* The copy equals the first scan and so does the second scan, or the call
\* raises StalePlan or IntegrityError and removes the directory.
BeginCheck(c) ==
    LET seen == calls[c].seen IN
    /\ At(c, "begin_check")
    /\ \/ /\ live = seen
          /\ \E t \in Tx :
                 /\ txState[t] = "unused"
                 /\ kept' = kept \cup {t}
                 /\ baseline' = [baseline EXCEPT ![t] = seen]
                 /\ worktree' = [worktree EXCEPT ![t] = seen]
                 /\ txState' = [txState EXCEPT ![t] = "open"]
       \/ live # seen /\ UNCHANGED txs
    /\ Return(c)
    /\ UNCHANGED <<live, records, backups, lock, policy, clock>>

----------------------------------------------------------------------------
(* plan: load the transaction, scan the workspace and then the worktree,     *)
(* save the plan, save the transaction as it was loaded, in state PLANNED.   *)

PlanLoad(c) ==
    /\ \E t \in Tx : /\ txState[t] \in {"open", "planned"}
                     /\ Enter(c, [Idle EXCEPT !.at = "plan_scan", !.tx = t])
    /\ UNCHANGED <<live, txs, records, backups, lock, policy, clock>>

PlanScan(c) ==
    LET t == calls[c].tx
        sound == t \in kept /\ live = baseline[t]
    IN
    /\ At(c, "plan_scan")
    /\ \/ sound /\ Step(c, "plan_save")
       \/ ~sound /\ Return(c)
    /\ UNCHANGED <<live, txs, records, backups, lock, policy, clock>>

PlanSave(c) ==
    LET t == calls[c].tx
        before == baseline[t]
        after == worktree[t]
    IN
    /\ At(c, "plan_save")
    /\ \/ /\ t \in kept
          /\ \E p \in Plan :
                 /\ plans[p].state = "none"
                 /\ plans' = [plans EXCEPT ![p] =
                       [state |-> "pending", tx |-> t, before |-> before,
                        after |-> after, policy |-> policy[c],
                        decision |-> Evaluate(policy[c], before, after),
                        expires |-> clock + PlanTTL]]
          /\ Step(c, "plan_tx")
       \/ t \notin kept /\ Return(c) /\ UNCHANGED plans
    /\ UNCHANGED <<live, txs, tokens, commits, backups, lock, policy, clock>>

\* Mutant: the state is taken from the wrong enumeration.
PlanTxPending(c) ==
    /\ At(c, "plan_tx")
    /\ txState' = [txState EXCEPT ![calls[c].tx] = "pending"]
    /\ Return(c)
    /\ UNCHANGED <<live, worktree, baseline, kept, records, backups, lock,
                   policy, clock>>

\* atomic_write_json makes the directory again if it was removed meanwhile.
PlanTx(c) ==
    /\ At(c, "plan_tx")
    /\ txState' = [txState EXCEPT ![calls[c].tx] = "planned"]
    /\ Return(c)
    /\ UNCHANGED <<live, worktree, baseline, kept, records, backups, lock,
                   policy, clock>>

----------------------------------------------------------------------------
(* approve.                                                                  *)

ApproveLoad(c) ==
    /\ \E p \in Plan :
           /\ plans[p].state = "pending" /\ Fresh(p)
           /\ plans[p].decision # "deny"
           /\ Enter(c, [Idle EXCEPT !.at = "approve_issue", !.plan = p])
    /\ UNCHANGED <<live, txs, records, backups, lock, policy, clock>>

ApproveIssue(c) ==
    LET p == calls[c].plan
        end == clock + TokenTTL
    IN
    /\ At(c, "approve_issue")
    /\ tokens' = tokens \cup
           {[plan |-> p, created |-> clock,
             expires |-> IF end < plans[p].expires THEN end
                         ELSE plans[p].expires]}
    /\ Return(c)
    /\ UNCHANGED <<live, txs, plans, commits, backups, lock, policy, clock>>

----------------------------------------------------------------------------
(* commit: plan and token, transaction, lock, scans, payload, tree, records. *)

CommitLoad(c) ==
    /\ \E p \in Plan :
           /\ plans[p].state = "pending" /\ Fresh(p)
           /\ \/ plans[p].decision = "allow"
              \/ /\ plans[p].decision = "require_approval"
                 /\ \E token \in tokens : Valid(token, p)
           /\ Enter(c, [Idle EXCEPT !.at = "commit_tx", !.plan = p,
                                    !.tx = plans[p].tx, !.since = clock])
    /\ UNCHANGED <<live, txs, records, backups, lock, policy, clock>>

CommitTx(c) ==
    LET t == calls[c].tx
        sound == txState[t] = "planned" /\ t \in kept
    IN
    /\ At(c, "commit_tx")
    /\ \/ sound /\ Step(c, "commit_lock")
       \/ ~sound /\ Return(c)
    /\ UNCHANGED <<live, txs, records, backups, lock, policy, clock>>

\* Mutant: the lock file is opened without O_EXCL.
AcquireShared(c, wanted, label) ==
    /\ At(c, wanted) /\ lock' = TRUE /\ Step(c, label)
    /\ UNCHANGED <<live, txs, records, backups, policy, clock>>

\* _workspace_lock: O_EXCL, no waiting.
Acquire(c, wanted, label) ==
    /\ At(c, wanted)
    /\ \/ ~lock /\ lock' = TRUE /\ Step(c, label)
       \/ lock /\ UNCHANGED lock /\ Return(c)
    /\ UNCHANGED <<live, txs, records, backups, policy, clock>>

CommitLock(c) == Acquire(c, "commit_lock", "commit_check")

\* The tree the plan shows is what the worktree holds.
Staged(c) ==
    /\ calls[c].tx \in kept
    /\ worktree[calls[c].tx] = plans[calls[c].plan].after

\* Mutant: the live workspace is not scanned again under the lock.
CommitCheckStaged(c) ==
    /\ At(c, "commit_check")
    /\ Step(c, IF Staged(c) THEN "commit_rescan" ELSE "unlock")
    /\ UNCHANGED <<live, txs, records, backups, lock, policy, clock>>

CommitCheck(c) ==
    LET plan == plans[calls[c].plan]
        sound == /\ live = plan.before /\ Staged(c)
                 /\ plan.policy = policy[c]
                 /\ Evaluate(policy[c], plan.before, plan.after)
                        = plan.decision
    IN
    /\ At(c, "commit_check")
    /\ Step(c, IF sound THEN "commit_rescan" ELSE "unlock")
    /\ UNCHANGED <<live, txs, records, backups, lock, policy, clock>>

\* The payload is copied and the worktree scanned again; then the record is
\* saved as prepared.
CommitRescan(c) ==
    /\ At(c, "commit_rescan")
    /\ \/ /\ Staged(c)
          /\ \E k \in Commit :
                 /\ commits[k].status = "none"
                 /\ commits' = [commits EXCEPT ![k] =
                        [status |-> "prepared", plan |-> calls[c].plan,
                         by |-> policy[c], at |-> calls[c].since]]
                 /\ calls' = [calls EXCEPT ![c].at = "commit_move",
                                           ![c].commit = k]
       \/ ~Staged(c) /\ Step(c, "unlock") /\ UNCHANGED commits
    /\ UNCHANGED <<live, txs, plans, tokens, backups, lock, policy, clock>>

\* The loop over the operations has come some way: the first of them are done,
\* and the entry of the next one may be in the quarantine.  This is what other
\* callers see, and what stays when the broker dies.
CommitMove(c) ==
    LET plan == plans[calls[c].plan]
        changed == Changed(plan.before, plan.after)
    IN
    /\ At(c, "commit_move")
    /\ \E done \in SUBSET changed :
       \E aside \in SUBSET (changed \ done) :
           /\ \A p \in done : \A q \in changed \ done : p < q
           /\ \A p \in aside : \A q \in changed \ done : p <= q
           /\ live' = [p \in Path |-> IF p \in done THEN plan.after[p]
                                     ELSE IF p \in aside THEN NoEntry
                                     ELSE live[p]]
           /\ backups' = [backups EXCEPT ![calls[c].commit] =
                             {p \in done \cup aside : plan.before[p] # NoEntry}]
    /\ Step(c, "commit_install")
    /\ UNCHANGED <<txs, records, lock, policy, clock>>

\* Mutant: the rollback leaves new entries in the workspace.
CommitInstallKeeping(c) ==
    LET plan == plans[calls[c].plan]
        Old(p) == plan.before[p] # NoEntry
    IN
    /\ At(c, "commit_install")
    /\ live' = [p \in Path |-> IF Old(p) THEN plan.before[p] ELSE plan.after[p]]
    /\ commits' = [commits EXCEPT ![calls[c].commit].status = "rolled_back"]
    /\ Step(c, "unlock")
    /\ UNCHANGED <<txs, plans, tokens, backups, lock, policy, clock>>

\* The rest is moved and installed, the live tree scanned and the record saved
\* as committed; or the rollback puts the baseline back; or I/O errors stop the
\* rollback of some operations, whose entries may be moved aside already.
CommitInstall(c) ==
    LET k == calls[c].commit
        plan == plans[calls[c].plan]
        changed == Changed(plan.before, plan.after)
        Put(tree) == [p \in Path |-> IF p \in changed THEN tree[p] ELSE live[p]]
        Record(status) == commits' = [commits EXCEPT ![k].status = status]
    IN
    /\ At(c, "commit_install")
    /\ \/ /\ Put(plan.after) = plan.after
          /\ live' = plan.after
          /\ backups' = [backups EXCEPT ![k] =
                            {p \in changed : plan.before[p] # NoEntry}]
          /\ Record("committed") /\ Step(c, "commit_plan")
       \/ /\ live' = Put(plan.before)
          /\ backups' = [backups EXCEPT ![k] = {}]
          /\ Record("rolled_back") /\ Step(c, "unlock")
       \/ /\ \E stuck \in SUBSET changed \ {{}} : \E aside \in SUBSET stuck :
                 /\ live' = [p \in Path |-> IF p \in aside THEN NoEntry
                                           ELSE IF p \in stuck THEN live[p]
                                           ELSE Put(plan.before)[p]]
                 /\ backups' = [backups EXCEPT ![k] = @ \cap stuck]
          /\ Record("rollback_failed") /\ Step(c, "unlock")
    /\ UNCHANGED <<txs, plans, tokens, lock, policy, clock>>

CommitPlan(c) ==
    /\ At(c, "commit_plan")
    /\ plans' = [plans EXCEPT ![calls[c].plan].state = "committed"]
    /\ Step(c, "commit_save_tx")
    /\ UNCHANGED <<live, txs, tokens, commits, backups, lock, policy, clock>>

CommitSaveTx(c) ==
    /\ At(c, "commit_save_tx")
    /\ txState' = [txState EXCEPT ![calls[c].tx] = "committed"]
    /\ Step(c, "unlock")
    /\ UNCHANGED <<live, worktree, baseline, kept, records, backups, lock,
                   policy, clock>>

\* The finally clause of _workspace_lock, and the call returns or raises.
Unlock(c) ==
    /\ At(c, "unlock")
    /\ lock' = FALSE
    /\ Return(c)
    /\ UNCHANGED <<live, txs, records, backups, policy, clock>>

----------------------------------------------------------------------------
(* restore.                                                                  *)

RestoreLoad(c) ==
    /\ \E k \in Commit :
           /\ commits[k].status = "committed"
           /\ Enter(c, [Idle EXCEPT !.at = "restore_plan", !.commit = k,
                                    !.plan = commits[k].plan])
    /\ UNCHANGED <<live, txs, records, backups, lock, policy, clock>>

RestorePlan(c) ==
    LET sound == plans[calls[c].plan].state = "committed" IN
    /\ At(c, "restore_plan")
    /\ \/ sound /\ Step(c, "restore_lock")
       \/ ~sound /\ Return(c)
    /\ UNCHANGED <<live, txs, records, backups, lock, policy, clock>>

RestoreLock(c) == Acquire(c, "restore_lock", "restore_check")

RestoreCheck(c) ==
    /\ At(c, "restore_check")
    /\ Step(c, IF live = plans[calls[c].plan].after THEN "restore_move"
               ELSE "unlock")
    /\ UNCHANGED <<live, txs, records, backups, lock, policy, clock>>

\* The operations in reverse order: the committed entry is moved aside, the
\* quarantined one back.  A missing backup or an I/O error stops at a path,
\* whose committed entry may be moved already, and nothing is undone.
RestoreMove(c) ==
    LET k == calls[c].commit
        plan == plans[calls[c].plan]
        changed == Changed(plan.before, plan.after)
        missing == {p \in changed : plan.before[p] # NoEntry} \ backups[k]
    IN
    /\ At(c, "restore_move")
    /\ \E stop \in {0} \cup changed, aside \in BOOLEAN :
           /\ \A p \in missing : p <= stop
           /\ stop \in missing => aside
           /\ live' = [p \in Path |->
                  IF p \in changed /\ p > stop THEN plan.before[p]
                  ELSE IF p = stop /\ aside THEN NoEntry ELSE live[p]]
           /\ backups' = [backups EXCEPT ![k] =
                             {p \in @ : p \in changed => p <= stop}]
           /\ Step(c, IF stop = 0 THEN "restore_save" ELSE "unlock")
    /\ UNCHANGED <<txs, records, lock, policy, clock>>

RestoreSave(c) ==
    /\ At(c, "restore_save")
    /\ \/ /\ live = plans[calls[c].plan].before
          /\ commits' = [commits EXCEPT ![calls[c].commit].status = "restored"]
       \/ live # plans[calls[c].plan].before /\ UNCHANGED commits
    /\ Step(c, "unlock")
    /\ UNCHANGED <<live, txs, plans, tokens, backups, lock, policy, clock>>

----------------------------------------------------------------------------
(* discard: load, save, remove; it takes no lock.                            *)

DiscardLoad(c) ==
    /\ \E t \in Tx :
           /\ txState[t] \in {"open", "planned", "discarded"}
           /\ Enter(c, [Idle EXCEPT !.at = "discard_save", !.tx = t])
    /\ UNCHANGED <<live, txs, records, backups, lock, policy, clock>>

DiscardSave(c) ==
    /\ At(c, "discard_save")
    /\ txState' = [txState EXCEPT ![calls[c].tx] = "discarded"]
    /\ Step(c, "discard_remove")
    /\ UNCHANGED <<live, worktree, baseline, kept, records, backups, lock,
                   policy, clock>>

DiscardRemove(c) ==
    /\ At(c, "discard_remove")
    /\ kept' = kept \ {calls[c].tx}
    /\ txState' = [txState EXCEPT ![calls[c].tx] = "none"]
    /\ Return(c)
    /\ UNCHANGED <<live, worktree, baseline, records, backups, lock, policy,
                   clock>>

----------------------------------------------------------------------------
(* What ends a call early, and what goes on besides the calls.               *)

Locked == {"commit_check", "commit_rescan", "commit_move", "commit_install",
           "commit_plan", "commit_save_tx", "restore_check", "restore_move",
           "restore_save", "unlock"}

InCritical(c) == calls[c].at \in Locked

\* An exception that no clause of the call undoes (an I/O error in the
\* bookkeeping or in restore, a KeyboardInterrupt anywhere).
Abort(c) ==
    /\ calls[c].at \notin {"idle", "unlock"}
    /\ IF InCritical(c) THEN Step(c, "unlock") ELSE Return(c)
    /\ UNCHANGED <<live, txs, records, backups, lock, policy, clock>>

\* The broker's process dies, or the unlink of the lock file raises: the lock
\* file stays.
Crash(c) ==
    /\ ~At(c, "idle")
    /\ Return(c)
    /\ UNCHANGED <<live, txs, records, backups, lock, policy, clock>>

Agent ==
    /\ \E t \in kept, r \in Results : worktree' = [worktree EXCEPT ![t] = r]
    /\ UNCHANGED <<live, baseline, kept, txState, records, backups, lock,
                   policy, clock, calls>>

\* An editor that keeps away from the workspace while the lock file exists.
Editor ==
    /\ ~lock
    /\ live' \in Edits
    /\ UNCHANGED <<txs, records, backups, lock, policy, clock, calls>>

Tick ==
    /\ clock < MaxClock
    /\ clock' = clock + 1
    /\ UNCHANGED <<live, txs, records, backups, lock, policy, calls>>

Call(c) ==
    \/ BeginScan(c) \/ BeginCheck(c)
    \/ PlanLoad(c) \/ PlanScan(c) \/ PlanSave(c) \/ PlanTx(c)
    \/ ApproveLoad(c) \/ ApproveIssue(c)
    \/ CommitLoad(c) \/ CommitTx(c) \/ CommitLock(c) \/ CommitCheck(c)
    \/ CommitRescan(c) \/ CommitMove(c) \/ CommitInstall(c)
    \/ CommitPlan(c) \/ CommitSaveTx(c) \/ Unlock(c)
    \/ RestoreLoad(c) \/ RestorePlan(c) \/ RestoreLock(c)
    \/ RestoreCheck(c) \/ RestoreMove(c) \/ RestoreSave(c)
    \/ DiscardLoad(c) \/ DiscardSave(c) \/ DiscardRemove(c)

Next ==
    \/ \E c \in Caller : Call(c) \/ Abort(c) \/ Crash(c)
    \/ Agent \/ Editor \/ Tick

Spec == Init /\ [][Next]_vars

----------------------------------------------------------------------------
(* Properties.                                                               *)

TxStates == {"unused", "open", "planned", "committed", "discarded", "none"}
Label == {"idle", "begin_check", "plan_scan", "plan_save", "plan_tx",
          "approve_issue", "commit_tx", "commit_lock",
          "restore_plan", "restore_lock", "discard_save", "discard_remove"}
             \cup Locked

\* Every variable has its type.
TypeOK ==
    /\ live \in Tree
    /\ worktree \in [Tx -> Tree] /\ baseline \in [Tx -> Tree]
    /\ kept \subseteq Tx /\ txState \in [Tx -> TxStates]
    /\ plans \in [Plan ->
           [state : {"none", "pending", "committed"}, tx : Tx \cup {None},
            before : Tree, after : Tree, policy : Policy \cup {None},
            decision : Decision, expires : Nat]]
    /\ tokens \subseteq [plan : Plan, created : Nat, expires : Nat]
    /\ commits \in [Commit ->
           [status : {"none", "prepared", "committed", "rolled_back",
                      "rollback_failed", "restored"},
            plan : Plan \cup {None}, by : Policy \cup {None}, at : Nat]]
    /\ backups \in [Commit -> SUBSET Path]
    /\ lock \in BOOLEAN /\ policy \in [Caller -> Policy] /\ clock \in Time
    /\ calls \in [Caller ->
           [at : Label, tx : Tx \cup {None}, plan : Plan \cup {None},
            commit : Commit \cup {None}, seen : Tree, since : Nat]]

\* The lock file excludes: two callers are never both between taking and
\* removing it, and whoever is there has it.
Exclusive ==
    /\ \A c, d \in Caller : InCritical(c) /\ InCritical(d) => c = d
    /\ (\E c \in Caller : InCritical(c)) => lock

\* A commit starts to change the workspace only while it still is the tree
\* the reviewer saw, and a restore only while it still is the commit's
\* result, although everything but the scans was read before the lock.
NoLostUpdate ==
    \A c \in Caller :
        /\ At(c, "commit_move") => live = plans[calls[c].plan].before
        /\ At(c, "restore_move") => live = plans[calls[c].plan].after

\* A record says committed, rolled back or restored only over exactly the
\* planned tree or the baseline, whatever other calls and agents do.
ExactOutcome ==
    [][\A k \in Commit :
         LET plan == plans[commits'[k].plan] IN
         commits'[k].status # commits[k].status =>
           /\ commits'[k].status = "committed" => live' = plan.after
           /\ commits'[k].status \in {"rolled_back", "restored"} =>
                  live' = plan.before]_vars

\* Every commit was allowed by the policy of the broker that ran it and, where
\* that policy asks for approval, by a token issued for this very plan and not
\* expired when the commit was called; no denied result is ever committed.
Authorized ==
    \A k \in Commit : commits[k].status # "none" =>
        LET plan == plans[commits[k].plan]
            decision == Evaluate(commits[k].by, plan.before, plan.after)
        IN  /\ decision # "deny"
            /\ commits[k].at < plan.expires
            /\ decision = "require_approval" =>
                   \E token \in tokens :
                       /\ token.plan = commits[k].plan
                       /\ token.created <= commits[k].at
                       /\ commits[k].at < token.expires
                       /\ token.expires <= plan.expires

\* RFC 7.1, "Only one terminal commit may consume a plan": commit refuses a
\* plan that is not pending, so no two commits of a plan that changes anything
\* should get as far as committed (and perhaps restored since).
PlanConsumedOnce ==
    \A p \in Plan :
        plans[p].before # plans[p].after =>
            Cardinality({k \in Commit :
                            /\ commits[k].plan = p
                            /\ commits[k].status \in
                                   {"committed", "restored"}}) <= 1

\* "committed transactions are retained for audit and restore" (discard): a
\* commit whose record says committed still has its transaction's directory.
CommittedRetained ==
    \A k \in Commit : commits[k].status = "committed" =>
                          plans[commits[k].plan].tx \in kept
=============================================================================
