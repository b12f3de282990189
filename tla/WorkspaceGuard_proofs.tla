------------------------ MODULE WorkspaceGuard_proofs ------------------------
(* The protocol of WorkspaceGuard, for any number of callers, ids, paths,    *)
(* contents and policies: the lock excludes, no update is lost, records tell *)
(* the tree, and every commit was authorized.                                *)
EXTENDS WorkspaceGuard, TLAPS

----------------------------------------------------------------------------
(* The inductive invariant.                                                  *)

\* The calls that go on with a plan, with a transaction, with a commit record.
WithPlan == {"approve_issue", "commit_tx", "commit_lock", "commit_check",
             "commit_rescan", "commit_move", "commit_install", "commit_plan",
             "restore_plan", "restore_lock", "restore_check", "restore_move",
             "restore_save"}
WithTx == {"plan_scan", "plan_save", "plan_tx", "commit_tx", "commit_lock",
           "commit_check", "commit_rescan", "commit_move", "commit_install",
           "commit_plan", "commit_save_tx", "discard_save", "discard_remove"}
WithCommit == {"commit_move", "commit_install", "restore_plan",
               "restore_lock", "restore_check", "restore_move",
               "restore_save"}
\* The calls of commit that have not written anything yet.
Loaded == {"commit_tx", "commit_lock", "commit_check", "commit_rescan"}

\* What a call goes on with is there, and stays there.
Named(c) ==
    /\ calls[c].at \in WithPlan =>
           calls[c].plan \in Plan /\ plans[calls[c].plan].state # "none"
    /\ calls[c].at \in WithTx => calls[c].tx \in Tx
    /\ calls[c].at \in WithCommit =>
           /\ calls[c].commit \in Commit
           /\ commits[calls[c].commit].status # "none"
           /\ commits[calls[c].commit].plan = calls[c].plan

\* What a call in the critical section knows of the workspace.
Sees(c) ==
    LET plan == plans[calls[c].plan] IN
    /\ calls[c].at \in {"commit_rescan", "commit_move"} => live = plan.before
    /\ calls[c].at = "commit_install" =>
           \A p \in Path \ Changed(plan.before, plan.after) :
               live[p] = plan.before[p]
    /\ calls[c].at = "restore_move" => live = plan.after

\* A plan may be committed by a call made at a time.
Allowed(p, time) ==
    /\ plans[p].decision # "deny"
    /\ time < plans[p].expires
    /\ plans[p].decision = "require_approval" =>
           \E token \in tokens :
               /\ token.plan = p
               /\ token.created <= time
               /\ time < token.expires
               /\ token.expires <= plans[p].expires

Licensed(c) ==
    LET plan == plans[calls[c].plan] IN
    /\ calls[c].at \in Loaded => Allowed(calls[c].plan, calls[c].since)
    /\ calls[c].at = "commit_rescan" =>
           Evaluate(policy[c], plan.before, plan.after) = plan.decision

RecordsInv ==
    /\ \A p \in Plan : plans[p].state # "none" => plans[p].tx \in Tx
    /\ \A token \in tokens : token.created <= clock
    /\ \A k \in Commit : commits[k].status # "none" =>
           LET plan == plans[commits[k].plan] IN
           /\ commits[k].plan \in Plan /\ plan.state # "none"
           /\ Evaluate(commits[k].by, plan.before, plan.after) = plan.decision
           /\ Allowed(commits[k].plan, commits[k].at)

Local(c) == Named(c) /\ Sees(c) /\ Licensed(c)

IInv == TypeOK /\ Exclusive /\ RecordsInv /\ \A c \in Caller : Local(c)

----------------------------------------------------------------------------
(* Calls.                                                                    *)

CallSet == [at : Label, tx : Tx \cup {None}, plan : Plan \cup {None},
            commit : Commit \cup {None}, seen : Tree, since : Nat]

Others(c) == \A d \in Caller \ {c} : calls'[d] = calls[d]

LEMMA IdleType == Idle \in CallSet
  BY TreesAssumption DEF Idle, CallSet, Label

\* A step of a call changes its label.
LEMMA StepCall ==
    ASSUME TypeOK, NEW c \in Caller, NEW l \in Label, Step(c, l)
    PROVE  /\ calls' \in [Caller -> CallSet] /\ Others(c)
           /\ calls'[c].at = l
           /\ calls'[c].tx = calls[c].tx /\ calls'[c].plan = calls[c].plan
           /\ calls'[c].commit = calls[c].commit
           /\ calls'[c].since = calls[c].since
  <1>1. calls \in [Caller -> CallSet]
    BY DEF TypeOK, CallSet
  <1>2. calls' = [calls EXCEPT ![c] = [calls[c] EXCEPT !.at = l]]
    BY DEF Step
  <1>3. [calls[c] EXCEPT !.at = l] \in CallSet
    BY <1>1 DEF CallSet
  <1>4. QED
    BY <1>1, <1>2, <1>3 DEF Others, CallSet

\* A call that returns is over.
LEMMA ReturnCall ==
    ASSUME TypeOK, NEW c \in Caller, Return(c)
    PROVE  /\ calls' \in [Caller -> CallSet]
           /\ calls'[c] = Idle
           /\ Others(c)
  <1>1. calls \in [Caller -> CallSet]
    BY DEF TypeOK, CallSet
  <1>2. QED
    BY <1>1, IdleType DEF Return, Others

\* A caller that is idle begins a call.
LEMMA EnterCall ==
    ASSUME TypeOK, NEW c \in Caller, NEW call \in CallSet, Enter(c, call)
    PROVE  /\ calls' \in [Caller -> CallSet]
           /\ calls'[c] = call
           /\ Others(c)
  <1>1. calls \in [Caller -> CallSet]
    BY DEF TypeOK, CallSet
  <1>2. QED
    BY <1>1 DEF Enter, Others

\* A call that is over asks nothing of the state.
LEMMA IdleLocal ==
    ASSUME NEW c \in Caller, calls'[c] = Idle
    PROVE  Local(c)'
  <1>1. calls'[c].at = "idle"
    BY DEF Idle
  <1>2. QED
    BY <1>1 DEF Local, Named, Sees, Licensed, WithPlan, WithTx, WithCommit,
                Loaded

\* Neither does one that only has to give the lock back.
LEMMA UnlockLocal ==
    ASSUME NEW c \in Caller, calls'[c].at = "unlock"
    PROVE  Local(c)'
  BY DEF Local, Named, Sees, Licensed, WithPlan, WithTx, WithCommit, Loaded

----------------------------------------------------------------------------
(* What never changes: a plan but for its state, a record but for its        *)
(* status, a token once issued.                                              *)

KeepsPlans ==
    \A p \in Plan : plans[p].state # "none" =>
        /\ plans'[p].state # "none" /\ plans'[p].tx = plans[p].tx
        /\ plans'[p].before = plans[p].before
        /\ plans'[p].after = plans[p].after
        /\ plans'[p].policy = plans[p].policy
        /\ plans'[p].decision = plans[p].decision
        /\ plans'[p].expires = plans[p].expires
KeepsCommits ==
    \A k \in Commit : commits[k].status # "none" =>
        /\ commits'[k].status # "none" /\ commits'[k].plan = commits[k].plan
        /\ commits'[k].by = commits[k].by /\ commits'[k].at = commits[k].at
Keeps ==
    /\ KeepsPlans /\ KeepsCommits
    /\ tokens \subseteq tokens' /\ policy' = policy

LEMMA KeepsUnchanged ==
    UNCHANGED <<plans, commits, policy>> /\ tokens \subseteq tokens' => Keeps
  BY DEF Keeps, KeepsPlans, KeepsCommits

\* A call another caller makes leaves this one's as it is: it does not change
\* what this one has read, and not the workspace while this one has the lock.
LEMMA OthersKeep ==
    ASSUME IInv, Keeps, NEW d \in Caller, calls'[d] = calls[d],
           live' = live \/ ~InCritical(d)
    PROVE  Local(d)'
  <1> DEFINE p == calls[d].plan
  <1>1. Named(d) /\ Sees(d) /\ Licensed(d)
    BY DEF IInv, Local
  <1>2. Named(d)'
    BY <1>1 DEF Named, Keeps, KeepsPlans, KeepsCommits
  <1>3. calls[d].at \in WithPlan =>
            /\ p \in Plan
            /\ plans'[p].before = plans[p].before
            /\ plans'[p].after = plans[p].after
            /\ plans'[p].decision = plans[p].decision
            /\ plans'[p].expires = plans[p].expires
    BY <1>1 DEF Named, Keeps, KeepsPlans
  <1>4. Sees(d)'
    <2>1. calls[d].at \in {"commit_rescan", "commit_move", "commit_install",
                           "restore_move"} => live' = live
      BY DEF InCritical, Locked
    <2>2. QED
      BY <1>1, <1>3, <2>1 DEF Sees, WithPlan, Changed
  <1>5. Licensed(d)'
    <2>1. calls[d].at \in Loaded =>
              (Allowed(p, calls[d].since) => Allowed(p, calls[d].since)')
      BY <1>3 DEF Allowed, Keeps, WithPlan, Loaded
    <2>2. QED
      BY <1>1, <1>3, <2>1 DEF Licensed, Keeps, WithPlan, Loaded
  <1>6. QED
    BY <1>2, <1>4, <1>5 DEF Local

\* Records, unless a commit record is made.
LEMMA RecordsKeep ==
    ASSUME IInv, Keeps, TypeOK', clock <= clock',
           \A p \in Plan : plans[p].state = "none" /\ plans'[p].state # "none" =>
                               plans'[p].tx \in Tx,
           \A token \in tokens' \ tokens : token.created <= clock',
           \A k \in Commit : commits[k].status = "none" =>
                                 commits'[k].status = "none"
    PROVE  RecordsInv'
  <1>1. \A p \in Plan : plans'[p].state # "none" => plans'[p].tx \in Tx
    BY DEF IInv, RecordsInv, Keeps, KeepsPlans
  <1>2. \A token \in tokens' : token.created <= clock'
    <2>1. \A token \in tokens' : token.created \in Nat
      BY DEF TypeOK
    <2>2. clock \in Nat /\ clock' \in Nat
      BY DEF IInv, TypeOK, Time
    <2>3. QED
      BY <2>1, <2>2 DEF IInv, RecordsInv
  <1>3. ASSUME NEW k \in Commit, commits'[k].status # "none"
        PROVE  LET plan == plans'[commits'[k].plan] IN
               /\ commits'[k].plan \in Plan /\ plan.state # "none"
               /\ Evaluate(commits'[k].by, plan.before, plan.after)
                      = plan.decision
               /\ Allowed(commits[k].plan, commits[k].at)'
    <2>1. commits[k].status # "none"
      BY <1>3
    <2>2. /\ commits'[k].plan = commits[k].plan
          /\ commits'[k].by = commits[k].by /\ commits'[k].at = commits[k].at
      BY <2>1 DEF Keeps, KeepsCommits
    <2>3. LET plan == plans[commits[k].plan] IN
          /\ commits[k].plan \in Plan /\ plan.state # "none"
          /\ Evaluate(commits[k].by, plan.before, plan.after) = plan.decision
          /\ Allowed(commits[k].plan, commits[k].at)
      BY <2>1 DEF IInv, RecordsInv
    <2>4. Allowed(commits[k].plan, commits[k].at)'
      BY <2>2, <2>3 DEF Allowed, Keeps, KeepsPlans
    <2>5. QED
      BY <2>2, <2>3, <2>4 DEF Keeps, KeepsPlans
  <1>4. QED
    BY <1>1, <1>2, <1>3 DEF RecordsInv

\* What a step of caller c has to see to.
LEMMA CallPreserves ==
    ASSUME IInv, NEW c \in Caller, TypeOK', Keeps, RecordsInv', Local(c)',
           Others(c), live' = live \/ InCritical(c),
           \/ lock' = lock /\ (InCritical(c)' => InCritical(c))
           \/ ~lock /\ lock'
           \/ InCritical(c) /\ ~InCritical(c)'
    PROVE  IInv'
  <1>1. \A d \in Caller \ {c} : InCritical(d)' <=> InCritical(d)
    BY DEF Others, InCritical
  <1>2. Exclusive'
    BY <1>1 DEF IInv, Exclusive
  <1>3. \A d \in Caller \ {c} : Local(d)'
    <2> SUFFICES ASSUME NEW d \in Caller \ {c} PROVE Local(d)'
      OBVIOUS
    <2>1. live' = live \/ ~InCritical(d)
      BY DEF IInv, Exclusive
    <2>2. QED
      BY <2>1, OthersKeep DEF Others
  <1>4. QED
    BY <1>2, <1>3 DEF IInv

----------------------------------------------------------------------------
(* Step by step.                                                             *)

LEMMA IInvInit == Init => IInv
  <1> SUFFICES ASSUME Init PROVE IInv
    OBVIOUS
  <1>1. TypeOK
    <2>1. NoPlan \in [state : {"none", "pending", "committed"},
                      tx : Tx \cup {None}, before : Tree, after : Tree,
                      policy : Policy \cup {None}, decision : Decision,
                      expires : Nat]
      BY TreesAssumption DEF NoPlan, Decision
    <2>2. NoCommit \in
              [status : {"none", "prepared", "committed", "rolled_back",
                         "rollback_failed", "restored"},
               plan : Plan \cup {None}, by : Policy \cup {None}, at : Nat]
      BY DEF NoCommit
    <2>3. calls \in [Caller -> CallSet]
      BY IdleType DEF Init
    <2>4. plans = [p \in Plan |-> NoPlan] /\ commits = [k \in Commit |-> NoCommit]
      BY DEF Init
    <2>5. /\ live \in Tree /\ worktree \in [Tx -> Tree]
          /\ baseline \in [Tx -> Tree]
      BY TreesAssumption DEF Init
    <2>6. /\ kept \subseteq Tx /\ txState \in [Tx -> TxStates]
          /\ tokens \subseteq [plan : Plan, created : Nat, expires : Nat]
      BY DEF Init, TxStates
    <2>7. backups \in [Commit -> SUBSET Path]
      BY DEF Init
    <2>8. lock \in BOOLEAN
      BY DEF Init
    <2>9. policy \in [Caller -> Policy]
      BY DEF Init
    <2>10. clock \in Time
      BY ClockAssumption DEF Init, Time
    <2>11. QED
      BY <2>1, <2>2, <2>3, <2>4, <2>5, <2>6, <2>7, <2>8, <2>9, <2>10
      DEF TypeOK, CallSet
  <1>2. \A c \in Caller : calls[c].at = "idle"
    BY DEF Init, Idle
  <1>3. Exclusive
    BY <1>2 DEF Exclusive, InCritical, Locked
  <1>4. RecordsInv
    BY DEF Init, RecordsInv, NoPlan, NoCommit
  <1>5. \A c \in Caller : Local(c)
    BY <1>2 DEF Local, Named, Sees, Licensed, WithPlan, WithTx, WithCommit,
                Loaded
  <1>6. QED
    BY <1>1, <1>3, <1>4, <1>5 DEF IInv

\* The calls that write no record and no tree: what they read, they keep.
LEMMA QuietType ==
    ASSUME TypeOK, UNCHANGED <<live, txs, records, backups, policy, clock>>,
           lock' \in BOOLEAN, calls' \in [Caller -> CallSet]
    PROVE  TypeOK' /\ Keeps /\ clock <= clock'
  <1>1. clock \in Nat
    BY DEF TypeOK, Time
  <1>2. QED
    BY <1>1, KeepsUnchanged DEF TypeOK, txs, records, CallSet

LEMMA QuietPreserves ==
    ASSUME IInv, NEW c \in Caller, calls' \in [Caller -> CallSet], Others(c),
           UNCHANGED <<live, txs, records, backups, policy, clock>>,
           lock' \in BOOLEAN,
           \/ lock' = lock /\ (InCritical(c)' => InCritical(c))
           \/ ~lock /\ lock'
           \/ InCritical(c) /\ ~InCritical(c)',
           Local(c)'
    PROVE  IInv'
  <1>1. TypeOK' /\ Keeps /\ clock <= clock'
    BY QuietType DEF IInv
  <1>2. RecordsInv'
    BY <1>1, RecordsKeep DEF records
  <1>3. QED
    BY <1>1, <1>2, CallPreserves

\* A call that raises: it returns, or it has the lock to give back first.
LEMMA EndPreserves ==
    ASSUME IInv, NEW c \in Caller,
           Return(c) \/ (InCritical(c) /\ Step(c, "unlock")),
           UNCHANGED <<live, txs, records, backups, lock, policy, clock>>
    PROVE  IInv'
  <1>1. CASE Return(c)
    <2>1. /\ calls' \in [Caller -> CallSet] /\ Others(c) /\ calls'[c] = Idle
      BY <1>1, ReturnCall DEF IInv
    <2>2. Local(c)'
      BY <2>1, IdleLocal
    <2>3. ~InCritical(c)'
      BY <2>1 DEF InCritical, Locked, Idle
    <2>4. lock' \in BOOLEAN
      BY DEF IInv, TypeOK
    <2>5. QED
      BY <2>1, <2>2, <2>3, <2>4, QuietPreserves
  <1>2. CASE InCritical(c) /\ Step(c, "unlock")
    <2>1. /\ calls' \in [Caller -> CallSet] /\ Others(c)
          /\ calls'[c].at = "unlock"
      <3>1. "unlock" \in Label
        BY DEF Label, Locked
      <3>2. QED
        BY <1>2, <3>1, StepCall DEF IInv
    <2>2. Local(c)'
      BY <2>1, UnlockLocal
    <2>3. lock' \in BOOLEAN
      BY DEF IInv, TypeOK
    <2>4. QED
      BY <1>2, <2>1, <2>2, <2>3, QuietPreserves
  <1>3. QED
    BY <1>1, <1>2

\* A call begins with what it reads.
LEMMA EnterPreserves ==
    ASSUME IInv, NEW c \in Caller, NEW call \in CallSet, Enter(c, call),
           call.at \notin Locked,
           UNCHANGED <<live, txs, records, backups, lock, policy, clock>>,
           call.at \in WithPlan =>
               call.plan \in Plan /\ plans[call.plan].state # "none",
           call.at \in WithTx => call.tx \in Tx,
           call.at \in WithCommit =>
               /\ call.commit \in Commit
               /\ commits[call.commit].status # "none"
               /\ commits[call.commit].plan = call.plan,
           call.at \in Loaded => Allowed(call.plan, call.since)
    PROVE  IInv'
  <1>1. /\ calls' \in [Caller -> CallSet] /\ calls'[c] = call /\ Others(c)
    BY EnterCall DEF IInv
  <1>2. call.at \notin {"commit_rescan", "commit_move", "commit_install",
                        "restore_move"}
    BY DEF Locked
  <1>3. UNCHANGED <<plans, tokens, commits>>
    BY DEF records
  <1>4. Named(c)'
    BY <1>1, <1>3 DEF Named
  <1>5. Sees(c)'
    BY <1>1, <1>2 DEF Sees
  <1>6. Licensed(c)'
    BY <1>1, <1>2, <1>3 DEF Licensed, Allowed
  <1>7. ~InCritical(c)' /\ lock' \in BOOLEAN
    BY <1>1 DEF InCritical, IInv, TypeOK
  <1>8. QED
    BY <1>1, <1>4, <1>5, <1>6, <1>7, QuietPreserves DEF Local

LEMMA BeginCalls ==
    ASSUME IInv, NEW c \in Caller,
           \/ BeginScan(c) \/ PlanLoad(c) \/ ApproveLoad(c) \/ CommitLoad(c)
           \/ RestoreLoad(c) \/ DiscardLoad(c)
    PROVE  IInv'
  <1> USE IdleType
  <1>1. CASE BeginScan(c)
    <2> DEFINE call == [Idle EXCEPT !.at = "begin_check", !.seen = live]
    <2>1. call \in CallSet /\ call.at = "begin_check"
      BY DEF IInv, TypeOK, CallSet, Label, Idle
    <2>2. QED
      BY <1>1, <2>1, EnterPreserves
      DEF BeginScan, Locked, WithPlan, WithTx, WithCommit, Loaded
  <1>2. CASE PlanLoad(c) \/ DiscardLoad(c)
    <2>1. PICK t \in Tx, l \in {"plan_scan", "discard_save"} :
              Enter(c, [Idle EXCEPT !.at = l, !.tx = t])
      BY <1>2 DEF PlanLoad, DiscardLoad
    <2> DEFINE call == [Idle EXCEPT !.at = l, !.tx = t]
    <2>2. call \in CallSet /\ call.at = l /\ call.tx = t
      BY DEF CallSet, Label, Idle
    <2>3. UNCHANGED <<live, txs, records, backups, lock, policy, clock>>
      BY <1>2 DEF PlanLoad, DiscardLoad
    <2>4. QED
      BY <2>1, <2>2, <2>3, EnterPreserves
      DEF Locked, WithPlan, WithTx, WithCommit, Loaded
  <1>3. CASE ApproveLoad(c)
    <2>1. PICK p \in Plan :
              /\ plans[p].state = "pending"
              /\ Enter(c, [Idle EXCEPT !.at = "approve_issue", !.plan = p])
      BY <1>3 DEF ApproveLoad
    <2> DEFINE call == [Idle EXCEPT !.at = "approve_issue", !.plan = p]
    <2>2. call \in CallSet /\ call.at = "approve_issue" /\ call.plan = p
      BY DEF CallSet, Label, Idle
    <2>3. QED
      BY <1>3, <2>1, <2>2, EnterPreserves
      DEF ApproveLoad, Locked, WithPlan, WithTx, WithCommit, Loaded
  <1>4. CASE CommitLoad(c)
    <2>1. PICK p \in Plan :
              /\ plans[p].state = "pending" /\ Fresh(p)
              /\ \/ plans[p].decision = "allow"
                 \/ /\ plans[p].decision = "require_approval"
                    /\ \E token \in tokens : Valid(token, p)
              /\ Enter(c, [Idle EXCEPT !.at = "commit_tx", !.plan = p,
                                       !.tx = plans[p].tx, !.since = clock])
      BY <1>4 DEF CommitLoad
    <2> DEFINE call == [Idle EXCEPT !.at = "commit_tx", !.plan = p,
                                    !.tx = plans[p].tx, !.since = clock]
    <2>2. plans[p].tx \in Tx /\ clock \in Nat
      BY <2>1 DEF IInv, RecordsInv, TypeOK, Time
    <2>3. /\ call \in CallSet /\ call.at = "commit_tx" /\ call.plan = p
          /\ call.tx = plans[p].tx /\ call.since = clock
      BY <2>2 DEF CallSet, Label, Idle
    <2>4. Allowed(p, clock)
      BY <2>1 DEF Allowed, Fresh, Valid, IInv, RecordsInv
    <2>5. QED
      BY <1>4, <2>1, <2>2, <2>3, <2>4, EnterPreserves
      DEF CommitLoad, Locked, WithPlan, WithTx, WithCommit, Loaded
  <1>5. CASE RestoreLoad(c)
    <2>1. PICK k \in Commit :
              /\ commits[k].status = "committed"
              /\ Enter(c, [Idle EXCEPT !.at = "restore_plan", !.commit = k,
                                       !.plan = commits[k].plan])
      BY <1>5 DEF RestoreLoad
    <2> DEFINE call == [Idle EXCEPT !.at = "restore_plan", !.commit = k,
                                    !.plan = commits[k].plan]
    <2>2. commits[k].plan \in Plan /\ plans[commits[k].plan].state # "none"
      BY <2>1 DEF IInv, RecordsInv
    <2>3. /\ call \in CallSet /\ call.at = "restore_plan"
          /\ call.plan = commits[k].plan /\ call.commit = k
      BY <2>2 DEF CallSet, Label, Idle
    <2>4. QED
      BY <1>5, <2>1, <2>2, <2>3, EnterPreserves
      DEF RestoreLoad, Locked, WithPlan, WithTx, WithCommit, Loaded
  <1>6. QED
    BY <1>1, <1>2, <1>3, <1>4, <1>5

\* A call goes on without writing a record or the tree.
LEMMA StepPreserves ==
    ASSUME IInv, NEW c \in Caller, NEW l \in Label, Step(c, l),
           UNCHANGED <<live, txs, records, backups, policy, clock>>,
           lock' \in BOOLEAN,
           \/ lock' = lock /\ (l \in Locked => InCritical(c))
           \/ ~lock /\ lock'
           \/ InCritical(c) /\ l \notin Locked,
           l \in WithPlan => calls[c].at \in WithPlan,
           l \in WithTx => calls[c].at \in WithTx,
           l \in WithCommit => calls[c].at \in WithCommit,
           l \in Loaded => calls[c].at \in Loaded,
           l \notin {"commit_move", "commit_install"},
           l = "commit_rescan" =>
               LET plan == plans[calls[c].plan] IN
               /\ live = plan.before
               /\ Evaluate(policy[c], plan.before, plan.after) = plan.decision,
           l = "restore_move" => live = plans[calls[c].plan].after
    PROVE  IInv'
  <1>1. /\ calls' \in [Caller -> CallSet] /\ Others(c)
        /\ calls'[c].at = l
        /\ calls'[c].tx = calls[c].tx /\ calls'[c].plan = calls[c].plan
        /\ calls'[c].commit = calls[c].commit
        /\ calls'[c].since = calls[c].since
    BY StepCall DEF IInv
  <1>2. Named(c) /\ Sees(c) /\ Licensed(c)
    BY DEF IInv, Local
  <1>3. UNCHANGED <<live, plans, tokens, commits, policy>>
    BY DEF records
  <1>4. Named(c)'
    BY <1>1, <1>2, <1>3 DEF Named
  <1>5. Sees(c)'
    BY <1>1, <1>3 DEF Sees
  <1>6. Licensed(c)'
    BY <1>1, <1>2, <1>3 DEF Licensed, Allowed
  <1>7. InCritical(c)' <=> l \in Locked
    BY <1>1 DEF InCritical
  <1>8. QED
    BY <1>1, <1>4, <1>5, <1>6, <1>7, QuietPreserves DEF Local

LEMMA ReadCalls ==
    ASSUME IInv, NEW c \in Caller,
           \/ PlanScan(c) \/ CommitTx(c) \/ CommitCheck(c) \/ RestorePlan(c)
           \/ RestoreCheck(c)
    PROVE  IInv'
  <1>1. lock' = lock /\ lock \in BOOLEAN
            /\ UNCHANGED <<live, txs, records, backups, policy, clock>>
    BY DEF PlanScan, CommitTx, CommitCheck, RestorePlan, RestoreCheck, IInv,
           TypeOK
  <1>2. CASE Return(c)
    BY <1>1, <1>2, EndPreserves
  <1>3. CASE PlanScan(c) /\ Step(c, "plan_save")
    BY <1>1, <1>3, StepPreserves
    DEF PlanScan, At, Label, Locked, WithPlan, WithTx, WithCommit, Loaded
  <1>4. CASE CommitTx(c) /\ Step(c, "commit_lock")
    BY <1>1, <1>4, StepPreserves
    DEF CommitTx, At, Label, Locked, WithPlan, WithTx, WithCommit, Loaded
  <1>5. CASE RestorePlan(c) /\ Step(c, "restore_lock")
    BY <1>1, <1>5, StepPreserves
    DEF RestorePlan, At, Label, Locked, WithPlan, WithTx, WithCommit, Loaded
  <1>6. CASE CommitCheck(c)
    <2>1. calls[c].at = "commit_check" /\ InCritical(c)
      BY <1>6 DEF CommitCheck, At, InCritical, Locked
    <2>2. CASE Step(c, "unlock")
      BY <1>1, <2>1, <2>2, EndPreserves
    <2>3. CASE ~Step(c, "unlock")
      <3>1. LET plan == plans[calls[c].plan] IN
            /\ live = plan.before /\ plan.policy = policy[c]
            /\ Evaluate(policy[c], plan.before, plan.after) = plan.decision
            /\ Step(c, "commit_rescan")
        BY <1>6, <2>3 DEF CommitCheck
      <3>2. QED
        BY <1>1, <2>1, <3>1, StepPreserves
        DEF Label, Locked, WithPlan, WithTx, WithCommit, Loaded
    <2>4. QED
      BY <2>2, <2>3
  <1>7. CASE RestoreCheck(c)
    <2>1. calls[c].at = "restore_check" /\ InCritical(c)
      BY <1>7 DEF RestoreCheck, At, InCritical, Locked
    <2>2. CASE Step(c, "unlock")
      BY <1>1, <2>1, <2>2, EndPreserves
    <2>3. CASE ~Step(c, "unlock")
      <3>1. live = plans[calls[c].plan].after /\ Step(c, "restore_move")
        BY <1>7, <2>3 DEF RestoreCheck
      <3>2. QED
        BY <1>1, <2>1, <3>1, StepPreserves
        DEF Label, Locked, WithPlan, WithTx, WithCommit, Loaded
    <2>4. QED
      BY <2>2, <2>3
  <1>8. QED
    BY <1>2, <1>3, <1>4, <1>5, <1>6, <1>7 DEF PlanScan, CommitTx, RestorePlan

LEMMA LockCalls ==
    ASSUME IInv, NEW c \in Caller,
           CommitLock(c) \/ RestoreLock(c) \/ Unlock(c)
    PROVE  IInv'
  <1>1. UNCHANGED <<live, txs, records, backups, policy, clock>>
    BY DEF CommitLock, RestoreLock, Unlock, Acquire
  <1>2. CASE lock /\ lock' = lock /\ Return(c)
    BY <1>1, <1>2, EndPreserves
  <1>3. CASE CommitLock(c) /\ ~lock /\ lock' = TRUE
    BY <1>1, <1>3, StepPreserves
    DEF CommitLock, Acquire, At, Label, Locked, WithPlan, WithTx, WithCommit,
        Loaded
  <1>4. CASE RestoreLock(c) /\ ~lock /\ lock' = TRUE
    BY <1>1, <1>4, StepPreserves
    DEF RestoreLock, Acquire, At, Label, Locked, WithPlan, WithTx, WithCommit,
        Loaded
  <1>5. CASE Unlock(c)
    <2>1. /\ calls' \in [Caller -> CallSet] /\ Others(c) /\ calls'[c] = Idle
      BY <1>5, ReturnCall DEF Unlock, IInv
    <2>2. Local(c)'
      BY <2>1, IdleLocal
    <2>3. InCritical(c) /\ ~InCritical(c)' /\ lock' = FALSE
      BY <1>5, <2>1 DEF Unlock, At, InCritical, Locked, Idle
    <2>4. QED
      BY <1>1, <2>1, <2>2, <2>3, QuietPreserves
  <1>6. QED
    BY <1>2, <1>3, <1>4, <1>5 DEF CommitLock, RestoreLock, Acquire

\* The steps that write a transaction only.
LEMMA TxPreserves ==
    ASSUME IInv, NEW c \in Caller, calls' \in [Caller -> CallSet], Others(c),
           worktree' \in [Tx -> Tree], baseline' \in [Tx -> Tree],
           kept' \subseteq Tx, txState' \in [Tx -> TxStates],
           UNCHANGED <<live, records, backups, lock, policy, clock>>,
           InCritical(c)' => InCritical(c), Local(c)'
    PROVE  IInv'
  <1>1. TypeOK' /\ clock <= clock'
    BY DEF IInv, TypeOK, records, CallSet, Time
  <1>2. Keeps
    BY KeepsUnchanged DEF records
  <1>3. RecordsInv'
    BY <1>1, <1>2, RecordsKeep DEF records
  <1>4. QED
    BY <1>1, <1>2, <1>3, CallPreserves

LEMMA TxCalls ==
    ASSUME IInv, NEW c \in Caller,
           \/ BeginCheck(c) \/ PlanTx(c) \/ CommitSaveTx(c)
           \/ DiscardSave(c) \/ DiscardRemove(c)
    PROVE  IInv'
  <1>1. /\ worktree \in [Tx -> Tree] /\ baseline \in [Tx -> Tree]
        /\ kept \subseteq Tx /\ txState \in [Tx -> TxStates]
        /\ \A d \in Caller : calls[d].seen \in Tree
    BY DEF IInv, TypeOK
  <1>2. /\ worktree' \in [Tx -> Tree] /\ baseline' \in [Tx -> Tree]
        /\ kept' \subseteq Tx /\ txState' \in [Tx -> TxStates]
        /\ UNCHANGED <<live, records, backups, lock, policy, clock>>
    <2>1. CASE BeginCheck(c)
      BY <1>1, <2>1 DEF BeginCheck, txs, TxStates
    <2>2. CASE \/ PlanTx(c) \/ CommitSaveTx(c) \/ DiscardSave(c)
               \/ DiscardRemove(c)
      BY <1>1, <2>2
      DEF PlanTx, CommitSaveTx, DiscardSave, DiscardRemove, TxStates
    <2>3. QED
      BY <2>1, <2>2
  <1>3. CASE Return(c)
    <2>1. /\ calls' \in [Caller -> CallSet] /\ Others(c) /\ calls'[c] = Idle
      BY <1>3, ReturnCall DEF IInv
    <2>2. Local(c)' /\ ~InCritical(c)'
      BY <2>1, IdleLocal DEF InCritical, Locked, Idle
    <2>3. QED
      BY <1>2, <2>1, <2>2, TxPreserves
  <1>4. CASE CommitSaveTx(c)
    <2>1. Step(c, "unlock") /\ InCritical(c)
      BY <1>4 DEF CommitSaveTx, At, InCritical, Locked
    <2>2. "unlock" \in Label
      BY DEF Label, Locked
    <2>3. /\ calls' \in [Caller -> CallSet] /\ Others(c)
          /\ calls'[c].at = "unlock"
      BY <2>1, <2>2, StepCall DEF IInv
    <2>4. QED
      BY <1>2, <2>1, <2>3, UnlockLocal, TxPreserves
  <1>5. CASE DiscardSave(c)
    <2>1. Step(c, "discard_remove") /\ calls[c].at \in WithTx
      BY <1>5 DEF DiscardSave, At, WithTx
    <2>2. "discard_remove" \in Label
      BY DEF Label
    <2>3. /\ calls' \in [Caller -> CallSet] /\ Others(c)
          /\ calls'[c].at = "discard_remove" /\ calls'[c].tx = calls[c].tx
      BY <2>1, <2>2, StepCall DEF IInv
    <2>4. calls[c].tx \in Tx
      BY <2>1 DEF IInv, Local, Named
    <2>5. Local(c)' /\ ~InCritical(c)'
      BY <2>3, <2>4 DEF Local, Named, Sees, Licensed, WithPlan, WithTx,
                        WithCommit, Loaded, InCritical, Locked
    <2>6. QED
      BY <1>2, <2>3, <2>5, TxPreserves
  <1>6. QED
    BY <1>3, <1>4, <1>5 DEF BeginCheck, PlanTx, DiscardRemove

\* plan saves its record, approve its token.
LEMMA PlanCalls ==
    ASSUME IInv, NEW c \in Caller, PlanSave(c) \/ ApproveIssue(c)
    PROVE  IInv'
  <1>1. CASE PlanSave(c) /\ Return(c) /\ UNCHANGED plans
    BY <1>1, EndPreserves DEF PlanSave, records
  <1>2. CASE PlanSave(c) /\ ~(Return(c) /\ UNCHANGED plans)
    <2> DEFINE t == calls[c].tx
               Made == [state |-> "pending", tx |-> t, before |-> baseline[t],
                        after |-> worktree[t], policy |-> policy[c],
                        decision |-> Evaluate(policy[c], baseline[t],
                                              worktree[t]),
                        expires |-> clock + PlanTTL]
    <2>1. PICK p \in Plan : /\ plans[p].state = "none"
                            /\ plans' = [plans EXCEPT ![p] = Made]
      BY <1>2 DEF PlanSave
    <2>2. /\ calls[c].at = "plan_save" /\ t \in kept /\ Step(c, "plan_tx")
          /\ UNCHANGED <<live, txs, tokens, commits, backups, lock, policy,
                         clock>>
      BY <1>2 DEF PlanSave, At
    <2>3. "plan_tx" \in Label
      BY DEF Label
    <2>4. /\ calls' \in [Caller -> CallSet] /\ Others(c)
          /\ calls'[c].at = "plan_tx" /\ calls'[c].tx = calls[c].tx
      BY <2>2, <2>3, StepCall DEF IInv
    <2>5. t \in Tx /\ baseline[t] \in Tree /\ worktree[t] \in Tree
              /\ policy[c] \in Policy /\ clock \in Nat
      BY <2>2 DEF IInv, TypeOK, Time
    <2>6. Evaluate(policy[c], baseline[t], worktree[t]) \in Decision
      BY <2>5, PolicyAssumption
    <2>7. Made \in [state : {"none", "pending", "committed"},
                    tx : Tx \cup {None}, before : Tree, after : Tree,
                    policy : Policy \cup {None}, decision : Decision,
                    expires : Nat]
      BY <2>5, <2>6, ClockAssumption
    <2>8. TypeOK'
      <3>1. plans' \in [Plan ->
                [state : {"none", "pending", "committed"}, tx : Tx \cup {None},
                 before : Tree, after : Tree, policy : Policy \cup {None},
                 decision : Decision, expires : Nat]]
        <4> HIDE DEF Made
        <4>1. QED
          BY <2>1, <2>7 DEF IInv, TypeOK
      <3>2. QED
        BY <2>2, <2>4, <3>1 DEF IInv, TypeOK, txs, CallSet
    <2>9. \A q \in Plan : plans'[q] = IF q = p THEN Made ELSE plans[q]
      <3> HIDE DEF Made
      <3>1. QED
        BY <2>1 DEF IInv, TypeOK
    <2>10. Keeps
      BY <2>1, <2>2, <2>9 DEF Keeps, KeepsPlans, KeepsCommits
    <2>11. RecordsInv'
      BY <2>2, <2>5, <2>8, <2>9, <2>10, RecordsKeep
    <2>12. Local(c)' /\ ~InCritical(c)'
      BY <2>4, <2>5 DEF Local, Named, Sees, Licensed, WithPlan, WithTx,
                        WithCommit, Loaded, InCritical, Locked
    <2>13. QED
      BY <2>2, <2>4, <2>8, <2>10, <2>11, <2>12, CallPreserves
  <1>3. CASE ApproveIssue(c)
    <2> DEFINE p == calls[c].plan
               end == clock + TokenTTL
               made == [plan |-> p, created |-> clock,
                        expires |-> IF end < plans[p].expires THEN end
                                    ELSE plans[p].expires]
    <2>1. /\ calls[c].at = "approve_issue" /\ Return(c)
          /\ tokens' = tokens \cup {made}
          /\ UNCHANGED <<live, txs, plans, commits, backups, lock, policy,
                         clock>>
      BY <1>3 DEF ApproveIssue, At
    <2>2. p \in Plan
      BY <2>1 DEF IInv, Local, Named, WithPlan
    <2>3. plans[p].expires \in Nat /\ clock \in Nat
      BY <2>2 DEF IInv, TypeOK, Time
    <2>4. made \in [plan : Plan, created : Nat, expires : Nat]
      BY <2>2, <2>3, ClockAssumption
    <2>5. /\ calls' \in [Caller -> CallSet] /\ Others(c) /\ calls'[c] = Idle
      BY <2>1, ReturnCall DEF IInv
    <2>6. TypeOK'
      BY <2>1, <2>4, <2>5 DEF IInv, TypeOK, txs, CallSet
    <2>7. Keeps
      BY <2>1, KeepsUnchanged
    <2>8. RecordsInv'
      BY <2>1, <2>3, <2>6, <2>7, RecordsKeep
    <2>9. Local(c)' /\ ~InCritical(c)'
      BY <2>5, IdleLocal DEF InCritical, Locked, Idle
    <2>10. QED
      BY <2>1, <2>5, <2>6, <2>7, <2>8, <2>9, CallPreserves
  <1>4. QED
    BY <1>1, <1>2, <1>3

\* commit makes its record.
LEMMA CommitRescanPreserves ==
    ASSUME IInv, NEW c \in Caller, CommitRescan(c)
    PROVE  IInv'
  <1> DEFINE p == calls[c].plan
             made == [status |-> "prepared", plan |-> p, by |-> policy[c],
                      at |-> calls[c].since]
  <1>1. /\ calls[c].at = "commit_rescan" /\ InCritical(c)
        /\ UNCHANGED <<live, txs, plans, tokens, backups, lock, policy, clock>>
    BY DEF CommitRescan, At, InCritical, Locked
  <1>2. CASE Step(c, "unlock") /\ UNCHANGED commits
    BY <1>1, <1>2, EndPreserves DEF records
  <1>3. CASE \E k \in Commit :
                 /\ commits[k].status = "none"
                 /\ commits' = [commits EXCEPT ![k] = made]
                 /\ calls' = [calls EXCEPT ![c].at = "commit_move",
                                           ![c].commit = k]
    <2>1. PICK k \in Commit :
              /\ commits[k].status = "none"
              /\ commits' = [commits EXCEPT ![k] = made]
              /\ calls' = [calls EXCEPT ![c].at = "commit_move",
                                        ![c].commit = k]
      BY <1>3
    <2>2. /\ p \in Plan /\ plans[p].state # "none" /\ calls[c].tx \in Tx
          /\ live = plans[p].before /\ Allowed(p, calls[c].since)
          /\ Evaluate(policy[c], plans[p].before, plans[p].after)
                 = plans[p].decision
      BY <1>1 DEF IInv, Local, Named, Sees, Licensed, WithPlan, WithTx, Loaded
    <2>3. /\ calls' \in [Caller -> CallSet] /\ Others(c)
          /\ calls'[c].at = "commit_move" /\ calls'[c].commit = k
          /\ calls'[c].plan = p /\ calls'[c].tx = calls[c].tx
          /\ calls'[c].since = calls[c].since
      <3>1. calls \in [Caller -> CallSet] /\ "commit_move" \in Label
        BY DEF IInv, TypeOK, CallSet, Label, Locked
      <3>2. QED
        BY <2>1, <3>1 DEF CallSet, Others
    <2>4. made \in [status : {"none", "prepared", "committed", "rolled_back",
                              "rollback_failed", "restored"},
                    plan : Plan \cup {None}, by : Policy \cup {None}, at : Nat]
      BY <2>2 DEF IInv, TypeOK
    <2>5. TypeOK'
      <3>1. commits' \in [Commit ->
                [status : {"none", "prepared", "committed", "rolled_back",
                           "rollback_failed", "restored"},
                 plan : Plan \cup {None}, by : Policy \cup {None}, at : Nat]]
        <4> HIDE DEF made
        <4>1. QED
          BY <2>1, <2>4 DEF IInv, TypeOK
      <3>2. QED
        BY <1>1, <2>3, <3>1 DEF IInv, TypeOK, txs, CallSet
    <2>6. \A j \in Commit : commits'[j] = IF j = k THEN made ELSE commits[j]
      <3> HIDE DEF made
      <3>1. QED
        BY <2>1 DEF IInv, TypeOK
    <2>7. Keeps
      BY <1>1, <2>1, <2>6 DEF Keeps, KeepsPlans, KeepsCommits
    <2>8. RecordsInv'
      <3>1. Allowed(p, calls[c].since)'
        BY <1>1, <2>2, <2>3 DEF Allowed
      <3>2. \A j \in Commit \ {k} : Allowed(commits[j].plan, commits[j].at) =>
                Allowed(commits[j].plan, commits[j].at)'
        BY <1>1, <2>6 DEF Allowed
      <3>3. Allowed(commits[k].plan, commits[k].at)'
        BY <1>1, <2>2, <2>6 DEF Allowed
      <3>4. QED
        BY <1>1, <2>2, <2>6, <3>2, <3>3 DEF IInv, RecordsInv
    <2>9. Local(c)' /\ InCritical(c)'
      BY <1>1, <2>2, <2>3, <2>6
      DEF Local, Named, Sees, Licensed, WithPlan, WithTx, WithCommit, Loaded,
          InCritical, Locked
    <2>10. QED
      BY <1>1, <2>3, <2>5, <2>7, <2>8, <2>9, CallPreserves
  <1>4. QED
    BY <1>2, <1>3 DEF CommitRescan

PlanSet == [state : {"none", "pending", "committed"}, tx : Tx \cup {None},
            before : Tree, after : Tree, policy : Policy \cup {None},
            decision : Decision, expires : Nat]
CommitSet == [status : {"none", "prepared", "committed", "rolled_back",
                        "rollback_failed", "restored"},
              plan : Plan \cup {None}, by : Policy \cup {None}, at : Nat]

\* A plan that is committed is no other plan.
LEMMA PlanState ==
    ASSUME TypeOK, NEW p \in Plan, plans[p].state # "none",
           plans' = [plans EXCEPT ![p].state = "committed"]
    PROVE  /\ plans' \in [Plan -> PlanSet] /\ KeepsPlans
           /\ \A q \in Plan : plans[q].state = "none" =>
                                  plans'[q].state = "none"
  <1> DEFINE made == [plans[p] EXCEPT !.state = "committed"]
  <1>1. plans \in [Plan -> PlanSet]
    BY DEF TypeOK, PlanSet
  <1>2. plans' = [plans EXCEPT ![p] = made]
    OBVIOUS
  <1>3. /\ made \in PlanSet /\ made.state = "committed"
        /\ made.tx = plans[p].tx /\ made.before = plans[p].before
        /\ made.after = plans[p].after /\ made.policy = plans[p].policy
        /\ made.decision = plans[p].decision
        /\ made.expires = plans[p].expires
    BY <1>1 DEF PlanSet
  <1> HIDE DEF made
  <1>4. plans' \in [Plan -> PlanSet]
            /\ \A q \in Plan : plans'[q] = IF q = p THEN made ELSE plans[q]
    BY <1>1, <1>2, <1>3
  <1>5. QED
    BY <1>3, <1>4 DEF KeepsPlans

\* A record with a new status is no other record.
LEMMA CommitStatus ==
    ASSUME TypeOK, NEW k \in Commit, commits[k].status # "none",
           NEW s \in {"committed", "rolled_back", "rollback_failed",
                      "restored"},
           commits' = [commits EXCEPT ![k].status = s]
    PROVE  /\ commits' \in [Commit -> CommitSet] /\ KeepsCommits
           /\ \A j \in Commit \ {k} : commits'[j] = commits[j]
           /\ commits'[k].status = s
  <1> DEFINE made == [commits[k] EXCEPT !.status = s]
  <1>1. commits \in [Commit -> CommitSet]
    BY DEF TypeOK, CommitSet
  <1>2. commits' = [commits EXCEPT ![k] = made]
    OBVIOUS
  <1>3. /\ made \in CommitSet /\ made.status = s
        /\ made.plan = commits[k].plan /\ made.by = commits[k].by
        /\ made.at = commits[k].at
    BY <1>1 DEF CommitSet
  <1> HIDE DEF made
  <1>4. commits' \in [Commit -> CommitSet]
            /\ \A j \in Commit : commits'[j] = IF j = k THEN made ELSE commits[j]
    BY <1>1, <1>2, <1>3
  <1>5. QED
    BY <1>3, <1>4 DEF KeepsCommits

\* The steps that write the tree or the state of a record, with the lock.
LEMMA TreePreserves ==
    ASSUME IInv, NEW c \in Caller, InCritical(c), NEW l \in Locked, Step(c, l),
           live' \in Tree, backups' \in [Commit -> SUBSET Path],
           UNCHANGED <<txs, tokens, lock, policy, clock>>,
           \/ UNCHANGED <<plans, commits>>
           \/ /\ UNCHANGED commits
              /\ \E p \in Plan : /\ plans[p].state # "none"
                                 /\ plans' = [plans EXCEPT ![p].state =
                                                 "committed"]
           \/ /\ UNCHANGED plans
              /\ \E k \in Commit, s \in {"committed", "rolled_back",
                                         "rollback_failed", "restored"} :
                     /\ commits[k].status # "none"
                     /\ commits' = [commits EXCEPT ![k].status = s],
           Local(c)'
    PROVE  IInv'
  <1>1. /\ calls' \in [Caller -> CallSet] /\ Others(c) /\ calls'[c].at = l
    <2>1. l \in Label
      BY DEF Label
    <2>2. QED
      BY <2>1, StepCall DEF IInv
  <1>2. /\ plans' \in [Plan -> PlanSet] /\ KeepsPlans
        /\ \A p \in Plan : plans[p].state = "none" => plans'[p].state = "none"
    <2>1. CASE UNCHANGED plans
      BY <2>1 DEF IInv, TypeOK, PlanSet, KeepsPlans
    <2>2. CASE \E p \in Plan : /\ plans[p].state # "none"
                              /\ plans' = [plans EXCEPT ![p].state =
                                              "committed"]
      BY <2>2, PlanState DEF IInv
    <2>3. QED
      BY <2>1, <2>2
  <1>3. /\ commits' \in [Commit -> CommitSet] /\ KeepsCommits
        /\ \A k \in Commit : commits[k].status = "none" =>
                                 commits'[k].status = "none"
    <2>1. CASE UNCHANGED commits
      BY <2>1 DEF IInv, TypeOK, CommitSet, KeepsCommits
    <2>2. CASE \E k \in Commit, s \in {"committed", "rolled_back",
                                       "rollback_failed", "restored"} :
                   /\ commits[k].status # "none"
                   /\ commits' = [commits EXCEPT ![k].status = s]
      BY <2>2, CommitStatus DEF IInv
    <2>3. QED
      BY <2>1, <2>2
  <1>4. TypeOK'
    BY <1>1, <1>2, <1>3 DEF IInv, TypeOK, txs, CallSet, PlanSet, CommitSet
  <1>5. Keeps
    BY <1>2, <1>3 DEF Keeps
  <1>7. RecordsInv'
    BY <1>2, <1>3, <1>4, <1>5, RecordsKeep DEF IInv, TypeOK, Time
  <1>8. InCritical(c)'
    BY <1>1 DEF InCritical
  <1>9. QED
    BY <1>1, <1>4, <1>5, <1>7, CallPreserves

LEMMA TreeCalls ==
    ASSUME IInv, NEW c \in Caller,
           \/ CommitMove(c) \/ CommitInstall(c) \/ CommitPlan(c)
           \/ RestoreMove(c) \/ RestoreSave(c)
    PROVE  IInv'
  <1> DEFINE k == calls[c].commit
             plan == plans[calls[c].plan]
  <1>1. /\ InCritical(c) /\ UNCHANGED <<txs, tokens, lock, policy, clock>>
        /\ calls[c].plan \in Plan /\ plans[calls[c].plan].state # "none"
        /\ plan.before \in Tree /\ plan.after \in Tree
    <2>1. calls[c].at \in WithPlan \cap Locked
      BY DEF CommitMove, CommitInstall, CommitPlan, RestoreMove, RestoreSave,
             At, WithPlan, Locked
    <2>2. calls[c].plan \in Plan /\ plans[calls[c].plan].state # "none"
      BY <2>1 DEF IInv, Local, Named
    <2>3. UNCHANGED <<txs, tokens, lock, policy, clock>>
      BY DEF CommitMove, CommitInstall, CommitPlan, RestoreMove, RestoreSave,
             records
    <2>4. QED
      BY <2>1, <2>2, <2>3 DEF InCritical, IInv, TypeOK
  <1>2. /\ calls[c].at \in WithCommit =>
               k \in Commit /\ commits[k].status # "none"
        /\ calls[c].at \in WithTx => calls[c].tx \in Tx
    BY DEF IInv, Local, Named
  <1>3. /\ live \in Tree /\ backups \in [Commit -> SUBSET Path]
        /\ \A l \in Locked : l \in Label
    BY DEF IInv, TypeOK, Label
  <1>4. CASE CommitMove(c)
    <2>1. calls[c].at = "commit_move" /\ Step(c, "commit_install")
              /\ UNCHANGED <<plans, commits>>
      BY <1>4 DEF CommitMove, At, records
    <2>2. PICK done \in SUBSET Changed(plan.before, plan.after),
               aside \in SUBSET Changed(plan.before, plan.after) :
              /\ live' = [p \in Path |-> IF p \in done THEN plan.after[p]
                                        ELSE IF p \in aside THEN NoEntry
                                        ELSE live[p]]
              /\ backups' = [backups EXCEPT ![k] =
                                {p \in done \cup aside :
                                    plan.before[p] # NoEntry}]
      BY <1>4 DEF CommitMove
    <2>3. live' \in Tree /\ backups' \in [Commit -> SUBSET Path]
      <3>1. \A p \in Path : live'[p] \in Entry
        BY <1>1, <1>3, <2>2 DEF Tree, Entry
      <3>2. live' \in Tree
        BY <2>2, <3>1 DEF Tree
      <3>3. {p \in done \cup aside : plan.before[p] # NoEntry} \in SUBSET Path
        BY DEF Changed
      <3>4. QED
        BY <1>3, <2>2, <3>2, <3>3
    <2>4. /\ calls'[c].at = "commit_install" /\ calls'[c].tx = calls[c].tx
          /\ calls'[c].plan = calls[c].plan
          /\ calls'[c].commit = calls[c].commit
      BY <1>3, <2>1, StepCall DEF IInv, Locked
    <2>5. live = plan.before
      BY <2>1 DEF IInv, Local, Sees
    <2>6. \A p \in Path \ Changed(plan.before, plan.after) :
              live'[p] = plan.before[p]
      BY <2>2, <2>5
    <2>7. Named(c)'
      BY <2>1, <2>4 DEF IInv, Local, Named, WithPlan, WithTx, WithCommit
    <2>8. Sees(c)'
      BY <2>1, <2>4, <2>6 DEF Sees, Changed
    <2>9. Licensed(c)'
      BY <2>4 DEF Licensed, Loaded
    <2>10. QED
      BY <1>1, <2>1, <2>3, <2>7, <2>8, <2>9, TreePreserves DEF Local, Locked
  <1>5. CASE CommitInstall(c)
    <2> DEFINE changed == Changed(plan.before, plan.after)
               Put(tree) == [p \in Path |-> IF p \in changed THEN tree[p]
                                            ELSE live[p]]
    <2>1. calls[c].at = "commit_install" /\ UNCHANGED plans
              /\ k \in Commit /\ commits[k].status # "none"
      BY <1>2, <1>5 DEF CommitInstall, At, WithCommit
    <2>2. Put(plan.before) \in Tree
      BY <1>1, <1>3 DEF Tree
    <2>h. ASSUME NEW stuck \in SUBSET changed, NEW aside \in SUBSET stuck,
                 live' = [p \in Path |-> IF p \in aside THEN NoEntry
                                       ELSE IF p \in stuck THEN live[p]
                                       ELSE Put(plan.before)[p]]
          PROVE  live' \in Tree
      <3>1. \A p \in Path : live'[p] \in Entry
        BY <1>3, <2>2, <2>h DEF Tree, Entry
      <3>2. QED
        BY <2>h, <3>1 DEF Tree
    <2>3. live' \in Tree
      <3>1. CASE live' = plan.after \/ live' = Put(plan.before)
        BY <1>1, <2>2, <3>1
      <3>2. CASE \E stuck \in SUBSET changed \ {{}} : \E aside \in SUBSET stuck :
                   /\ live' = [p \in Path |-> IF p \in aside THEN NoEntry
                                             ELSE IF p \in stuck THEN live[p]
                                             ELSE Put(plan.before)[p]]
                   /\ backups' = [backups EXCEPT ![k] = @ \cap stuck]
        BY <2>h, <3>2
      <3>3. QED
        BY <1>5, <3>1, <3>2 DEF CommitInstall
    <2>4. backups' \in [Commit -> SUBSET Path]
      <3>1. PICK S \in SUBSET Path : backups' = [backups EXCEPT ![k] = S]
        <4>1. \A stuck : backups[k] \cap stuck \in SUBSET Path
          BY <1>3, <2>1
        <4>2. {p \in changed : plan.before[p] # NoEntry} \in SUBSET Path
          BY DEF Changed
        <4>3. \/ backups' = [backups EXCEPT ![k] =
                                {p \in changed : plan.before[p] # NoEntry}]
              \/ backups' = [backups EXCEPT ![k] = {}]
              \/ \E stuck \in SUBSET changed :
                     backups' = [backups EXCEPT ![k] = backups[k] \cap stuck]
          BY <1>5 DEF CommitInstall
        <4>4. CASE \E stuck \in SUBSET changed :
                       backups' = [backups EXCEPT ![k] = backups[k] \cap stuck]
          BY <4>1, <4>4
        <4>5. QED
          BY <4>2, <4>3, <4>4
      <3>2. QED
        BY <1>3, <3>1
    <2>5. PICK s \in {"committed", "rolled_back", "rollback_failed"} :
              commits' = [commits EXCEPT ![k].status = s]
      BY <1>5 DEF CommitInstall
    <2>6. CASE Step(c, "commit_plan")
      <3>1. /\ calls'[c].at = "commit_plan" /\ calls'[c].tx = calls[c].tx
            /\ calls'[c].plan = calls[c].plan
        BY <1>3, <2>6, StepCall DEF IInv, Locked
      <3>2. Local(c)'
        BY <1>1, <1>2, <2>1, <3>1
        DEF Local, Named, Sees, Licensed, WithPlan, WithTx, WithCommit, Loaded
      <3>3. QED
        BY <1>1, <2>1, <2>3, <2>4, <2>5, <2>6, <3>2, TreePreserves DEF Locked
    <2>7. CASE Step(c, "unlock")
      <3>1. calls'[c].at = "unlock"
        BY <1>3, <2>7, StepCall DEF IInv, Locked
      <3>2. QED
        BY <1>1, <2>1, <2>3, <2>4, <2>5, <2>7, <3>1, UnlockLocal,
           TreePreserves DEF Locked
    <2>8. QED
      BY <1>5, <2>6, <2>7 DEF CommitInstall
  <1>6. CASE CommitPlan(c)
    <2>1. /\ calls[c].at = "commit_plan" /\ Step(c, "commit_save_tx")
          /\ plans' = [plans EXCEPT ![calls[c].plan].state = "committed"]
          /\ UNCHANGED <<live, commits, backups>>
      BY <1>6 DEF CommitPlan, At
    <2>2. calls'[c].at = "commit_save_tx" /\ calls'[c].tx = calls[c].tx
      BY <1>3, <2>1, StepCall DEF IInv, Locked
    <2>3. Local(c)'
      BY <1>2, <2>1, <2>2
      DEF Local, Named, Sees, Licensed, WithPlan, WithTx, WithCommit, Loaded
    <2>4. QED
      BY <1>1, <1>3, <2>1, <2>3, TreePreserves DEF Locked
  <1>7. CASE RestoreMove(c)
    <2>1. calls[c].at = "restore_move" /\ UNCHANGED <<plans, commits>>
              /\ (Step(c, "restore_save") \/ Step(c, "unlock"))
      BY <1>7 DEF RestoreMove, At, records
    <2>2. live' \in Tree
      BY <1>1, <1>3, <1>7 DEF RestoreMove, Tree, Entry
    <2>3. backups' \in [Commit -> SUBSET Path]
      BY <1>3, <1>7 DEF RestoreMove
    <2>4. CASE Step(c, "unlock")
      <3>1. calls'[c].at = "unlock"
        BY <1>3, <2>4, StepCall DEF IInv, Locked
      <3>2. QED
        BY <1>1, <2>1, <2>2, <2>3, <2>4, <3>1, UnlockLocal, TreePreserves
        DEF Locked
    <2>5. CASE Step(c, "restore_save")
      <3>1. /\ calls'[c].at = "restore_save"
            /\ calls'[c].plan = calls[c].plan
            /\ calls'[c].commit = calls[c].commit
        BY <1>3, <2>5, StepCall DEF IInv, Locked
      <3>2. Local(c)'
        BY <2>1, <3>1
        DEF IInv, Local, Named, Sees, Licensed, WithPlan, WithTx, WithCommit,
            Loaded
      <3>3. QED
        BY <1>1, <2>1, <2>2, <2>3, <2>5, <3>2, TreePreserves DEF Locked
    <2>6. QED
      BY <2>1, <2>4, <2>5
  <1>8. CASE RestoreSave(c)
    <2>1. /\ calls[c].at = "restore_save" /\ Step(c, "unlock")
          /\ UNCHANGED <<live, plans, backups>>
          /\ k \in Commit /\ commits[k].status # "none"
          /\ UNCHANGED commits
                 \/ commits' = [commits EXCEPT ![k].status = "restored"]
      BY <1>2, <1>8 DEF RestoreSave, At, WithCommit
    <2>2. calls'[c].at = "unlock"
      BY <1>3, <2>1, StepCall DEF IInv, Locked
    <2>3. QED
      BY <1>1, <1>3, <2>1, <2>2, UnlockLocal, TreePreserves DEF Locked
  <1>9. QED
    BY <1>4, <1>5, <1>6, <1>7, <1>8

\* What goes on besides the calls.
LEMMA AroundPreserves ==
    ASSUME IInv, Agent \/ Editor \/ Tick
    PROVE  IInv'
  <1>1. UNCHANGED <<records, backups, lock, policy, calls>>
            /\ (live' = live \/ ~lock)
    BY DEF Agent, Editor, Tick
  <1>2. TypeOK' /\ clock <= clock'
    <2>1. CASE Agent
      BY <2>1, TreesAssumption DEF Agent, IInv, TypeOK, records, Time
    <2>2. CASE Editor
      BY <2>2, TreesAssumption DEF Editor, IInv, TypeOK, records, txs, Time
    <2>3. CASE Tick
      BY <2>3, ClockAssumption DEF Tick, IInv, TypeOK, records, txs, Time
    <2>4. QED
      BY <2>1, <2>2, <2>3
  <1>3. Keeps
    BY <1>1, KeepsUnchanged DEF records
  <1>4. RecordsInv'
    BY <1>1, <1>2, <1>3, RecordsKeep DEF records
  <1>5. Exclusive'
    BY <1>1 DEF IInv, Exclusive, InCritical
  <1>6. \A d \in Caller : Local(d)'
    <2> SUFFICES ASSUME NEW d \in Caller PROVE Local(d)'
      OBVIOUS
    <2>1. live' = live \/ ~InCritical(d)
      BY <1>1 DEF IInv, Exclusive
    <2>2. QED
      BY <1>1, <1>3, <2>1, OthersKeep
  <1>7. QED
    BY <1>2, <1>4, <1>5, <1>6 DEF IInv

LEMMA IInvNext == IInv /\ [Next]_vars => IInv'
  <1> SUFFICES ASSUME IInv, [Next]_vars PROVE IInv'
    OBVIOUS
  <1>1. ASSUME NEW c \in Caller, Call(c) PROVE IInv'
    BY <1>1, BeginCalls, ReadCalls, LockCalls, TxCalls, PlanCalls,
       CommitRescanPreserves, TreeCalls
    DEF Call
  <1>2. ASSUME NEW c \in Caller, Abort(c) PROVE IInv'
    BY <1>2, EndPreserves DEF Abort
  <1>3. ASSUME NEW c \in Caller, Crash(c) PROVE IInv'
    BY <1>3, EndPreserves DEF Crash
  <1>4. CASE Agent \/ Editor \/ Tick
    BY <1>4, AroundPreserves
  <1>5. CASE UNCHANGED vars
    <2>1. UNCHANGED <<live, worktree, baseline, kept, txState, plans, tokens,
                      commits, backups, lock, policy, clock, calls>>
      BY <1>5 DEF vars, txs, records
    <2>2. TypeOK' /\ Exclusive' /\ RecordsInv'
      BY <2>1 DEF IInv, TypeOK, Exclusive, InCritical, RecordsInv, Allowed
    <2>3. \A c \in Caller : Local(c)'
      BY <2>1 DEF IInv, Local, Named, Sees, Licensed, Allowed
    <2>4. QED
      BY <2>2, <2>3 DEF IInv
  <1>6. QED
    BY <1>1, <1>2, <1>3, <1>4, <1>5 DEF Next

----------------------------------------------------------------------------
(* What the invariant is for.                                                *)

LEMMA Licence == IInv => Authorized
  <1> SUFFICES ASSUME IInv, NEW k \in Commit, commits[k].status # "none"
               PROVE  LET plan == plans[commits[k].plan]
                          decision == Evaluate(commits[k].by, plan.before,
                                               plan.after)
                      IN  /\ decision # "deny"
                          /\ commits[k].at < plan.expires
                          /\ decision = "require_approval" =>
                                 \E token \in tokens :
                                     /\ token.plan = commits[k].plan
                                     /\ token.created <= commits[k].at
                                     /\ commits[k].at < token.expires
                                     /\ token.expires <= plan.expires
    BY DEF Authorized
  <1>1. QED
    BY DEF IInv, RecordsInv, Allowed

LEMMA Seen == IInv => NoLostUpdate
  BY DEF IInv, Local, Sees, NoLostUpdate, At

\* Only two steps give a record one of the statuses that tell of the tree.
LEMMA Outcome ==
    ASSUME IInv, [Next]_vars, NEW k \in Commit,
           commits'[k].status # commits[k].status
    PROVE  LET plan == plans[commits'[k].plan] IN
           /\ commits'[k].status = "committed" => live' = plan.after
           /\ commits'[k].status \in {"rolled_back", "restored"} =>
                  live' = plan.before
  <1>1. PICK c \in Caller : \/ CommitRescan(c) \/ CommitInstall(c)
                            \/ RestoreSave(c)
    <2>1. commits' # commits
      OBVIOUS
    <2>2. PICK c \in Caller : Call(c)
      BY <2>1 DEF Next, Abort, Crash, Agent, Editor, Tick, vars, records
    <2>3. ~(BeginScan(c) \/ BeginCheck(c) \/ PlanLoad(c) \/ PlanScan(c)
                \/ PlanSave(c) \/ PlanTx(c) \/ ApproveLoad(c)
                \/ ApproveIssue(c))
      BY <2>1 DEF records, BeginScan, BeginCheck, PlanLoad, PlanScan,
                  PlanSave, PlanTx, ApproveLoad, ApproveIssue
    <2>4. ~(CommitLoad(c) \/ CommitTx(c) \/ CommitLock(c) \/ CommitCheck(c)
                \/ CommitMove(c) \/ CommitPlan(c) \/ CommitSaveTx(c)
                \/ Unlock(c))
      BY <2>1 DEF records, CommitLoad, CommitTx, CommitLock, Acquire,
                  CommitCheck, CommitMove, CommitPlan, CommitSaveTx, Unlock
    <2>5. ~(RestoreLoad(c) \/ RestorePlan(c) \/ RestoreLock(c)
                \/ RestoreCheck(c) \/ RestoreMove(c) \/ DiscardLoad(c)
                \/ DiscardSave(c) \/ DiscardRemove(c))
      BY <2>1 DEF records, RestoreLoad, RestorePlan, RestoreLock, Acquire,
                  RestoreCheck, RestoreMove, DiscardLoad, DiscardSave,
                  DiscardRemove
    <2>6. QED
      BY <2>2, <2>3, <2>4, <2>5 DEF Call
  <1> DEFINE j == calls[c].commit
             plan == plans[calls[c].plan]
  <1>2. calls[c].at \in WithCommit /\ calls[c].at \in WithPlan =>
            /\ j \in Commit /\ commits[j].status # "none"
            /\ commits[j].plan = calls[c].plan
            /\ plan.before \in Tree /\ plan.after \in Tree /\ live \in Tree
    BY DEF IInv, Local, Named, TypeOK
  <1>3. CASE CommitRescan(c)
    BY <1>3 DEF CommitRescan, IInv, TypeOK
  <1>4. CASE RestoreSave(c)
    <2>1. /\ calls[c].at = "restore_save" /\ live' = live
          /\ live = plan.before
          /\ commits' = [commits EXCEPT ![j].status = "restored"]
      BY <1>4 DEF RestoreSave, At
    <2>2. k = j /\ commits'[k].status = "restored"
              /\ commits'[k].plan = calls[c].plan
      BY <1>2, <2>1, CommitStatus
      DEF IInv, WithCommit, WithPlan, KeepsCommits
    <2>3. QED
      BY <2>1, <2>2
  <1>5. CASE CommitInstall(c)
    <2> DEFINE changed == Changed(plan.before, plan.after)
               Put(tree) == [p \in Path |-> IF p \in changed THEN tree[p]
                                            ELSE live[p]]
    <2>1. calls[c].at = "commit_install"
      BY <1>5 DEF CommitInstall, At
    <2>2. PICK s \in {"committed", "rolled_back", "rollback_failed"} :
              /\ commits' = [commits EXCEPT ![j].status = s]
              /\ s = "committed" => live' = plan.after
              /\ s = "rolled_back" => live' = Put(plan.before)
      BY <1>5 DEF CommitInstall
    <2>3. k = j /\ commits'[k].status = s /\ commits'[k].plan = calls[c].plan
      <3>1. /\ j \in Commit /\ commits[j].status # "none"
            /\ commits[j].plan = calls[c].plan
        BY <1>2, <2>1 DEF WithCommit, WithPlan
      <3>2. /\ KeepsCommits /\ commits'[j].status = s
            /\ \A i \in Commit \ {j} : commits'[i] = commits[i]
        BY <2>2, <3>1, CommitStatus DEF IInv
      <3>3. QED
        BY <3>1, <3>2 DEF KeepsCommits
    <2>4. Put(plan.before) = plan.before
      <3>1. \A p \in Path \ changed : live[p] = plan.before[p]
        BY <2>1 DEF IInv, Local, Sees
      <3>2. plan.before \in [Path -> Entry]
        BY <1>2, <2>1 DEF Tree, WithCommit, WithPlan
      <3>3. QED
        BY <3>1, <3>2
    <2>5. QED
      BY <2>2, <2>3, <2>4
  <1>6. QED
    BY <1>1, <1>3, <1>4, <1>5

LEMMA Inductive == Spec => []IInv
  <1>1. Init => IInv
    BY IInvInit
  <1>2. IInv /\ [Next]_vars => IInv'
    BY IInvNext
  <1>3. QED
    BY <1>1, <1>2, PTL DEF Spec

\* Every variable keeps its type, for any callers, ids, trees and policies.
THEOREM TypeCorrect == Spec => []TypeOK
  <1>1. IInv => TypeOK
    BY DEF IInv
  <1>2. QED
    BY <1>1, Inductive, PTL

\* However many callers there are, and wherever they raise or die, the lock
\* file lets one of them at a time into the critical section.
THEOREM LockExcludes == Spec => []Exclusive
  <1>1. IInv => Exclusive
    BY DEF IInv
  <1>2. QED
    BY <1>1, Inductive, PTL

\* No commit starts on a tree other than the one its plan was made for, no
\* restore on one other than the commit's result.
THEOREM NoUpdateIsLost == Spec => []NoLostUpdate
  BY Inductive, Seen, PTL

\* Every commit was allowed, or approved in time.
THEOREM CommitsAreAuthorized == Spec => []Authorized
  BY Inductive, Licence, PTL

\* A record turns to committed, rolled back or restored only over the tree it
\* then tells of.
THEOREM OutcomeIsExact == Spec => ExactOutcome
  <1>1. IInv /\ [Next]_vars =>
            [\A k \in Commit :
               LET plan == plans[commits'[k].plan] IN
               commits'[k].status # commits[k].status =>
                 /\ commits'[k].status = "committed" => live' = plan.after
                 /\ commits'[k].status \in {"rolled_back", "restored"} =>
                        live' = plan.before]_vars
    BY Outcome
  <1>2. QED
    BY <1>1, Inductive, PTL DEF Spec, ExactOutcome
=============================================================================
