------------------------- MODULE RunLifecycleProofs -------------------------
(***************************************************************************)
(* What is proved of RunLifecycle for every number of runs, agents,        *)
(* priorities, approvals and event keys, under every set of faults: type   *)
(* correctness, with any number of deciders; and, when one decider is at   *)
(* work at a time, that no run is re-enqueued while somebody still has to  *)
(* decide on it and that no run stays parked with nobody left to decide.   *)
(***************************************************************************)
EXTENDS RunLifecycle, TLAPS

\* decide_approval calls do not overlap.
OneDecider == \A d, e \in Deciders : d = e

-----------------------------------------------------------------------------
\* Type correctness, one lemma for each kind of step.

LEMMA TypeInit == Init => TypeOK
<1>1. (CHOOSE a \in Agents : TRUE) \in Agents
  BY SomeAgent
<1>2. QED
  BY <1>1, KnownModes
     DEF Init, TypeOK, RunStates, ApprovalStates, Idle, NoReap, Txn

LEMMA TypeTriggerOperate ==
    ASSUME TypeOK, Trigger \/ Operate
    PROVE  TypeOK'
<1>1. CASE Trigger
  <2>1. PICK r \in Runs, a \in Agents, p \in Priorities : CreateRun(r, a, p)
    BY <1>1 DEF Trigger
  <2>2. p \in Nat
    BY NumericPriority
  <2>3. runState' \in [Runs -> RunStates]
    BY <2>1 DEF CreateRun, TypeOK, RunStates
  <2>4. runAgent' \in [Runs -> Agents] /\ runPrio' \in [Runs -> Nat]
    BY <2>1, <2>2 DEF CreateRun, TypeOK
  <2>5. QED
    BY <2>1, <2>3, <2>4 DEF CreateRun, TypeOK, Txn
<1>2. CASE Operate
  <2>1. PICK a \in Agents, m \in Modes : SetMode(a, m)
    BY <1>2 DEF Operate
  <2>2. agentMode' \in [Agents -> AllModes]
    BY <2>1, KnownModes DEF SetMode, TypeOK
  <2>3. QED
    BY <2>1, <2>2 DEF SetMode, TypeOK, Txn
<1>3. QED
  BY <1>1, <1>2

LEMMA TypeDispatch ==
    ASSUME TypeOK, Dispatch
    PROVE  TypeOK'
<1>1. PICK r \in Runs : Claim(r) \/ ClaimOverBudget(r)
  BY DEF Dispatch
<1>2. runState' \in [Runs -> RunStates]
  BY <1>1 DEF Claim, ClaimOverBudget, TypeOK, RunStates, FinalStates
<1>3. /\ disp' \in [pc : {"idle", "executing", "reaping"}, run : Runs \cup {NoRun}]
      /\ disp'.pc = "executing" => disp'.run \in Runs
  BY <1>1 DEF Claim, ClaimOverBudget, TypeOK
<1>4. QED
  BY <1>1, <1>2, <1>3 DEF Claim, ClaimOverBudget, TypeOK, Txn

\* The rows a run's transaction leaves behind, in the three tables of its
\* output and in the approvals.
DeltasTyped ==
    /\ output' \in [Runs -> SUBSET EventKeys]
    /\ lastRun' \in [Agents -> Runs \cup {NoRun}]
    /\ events' \subseteq Runs \X EventKeys

ApprovalsTyped ==
    /\ apprState' \in [Approvals -> ApprovalStates]
    /\ apprRun' \in [Approvals -> Runs \cup {NoRun}]
    /\ \A a \in Approvals : apprState'[a] # "absent" => apprRun'[a] \in Runs
    /\ apprExpiry' \in [Approvals -> {"never", "later", "due"}]
    /\ \A a \in Approvals : apprState[a] # "absent" => apprState'[a] # "absent"

LEMMA TypeDeltas ==
    ASSUME TypeOK
    PROVE  /\ KeepDeltas => DeltasTyped
           /\ \A r \in Runs, K \in SUBSET EventKeys, E \in SUBSET EventKeys :
                ApplyDeltas(r, K, E) => DeltasTyped
<1>1. KeepDeltas => DeltasTyped
  BY DEF KeepDeltas, DeltasTyped, TypeOK
<1>2. ASSUME NEW r \in Runs, NEW K \in SUBSET EventKeys,
             NEW E \in SUBSET EventKeys, ApplyDeltas(r, K, E)
      PROVE  DeltasTyped
  BY <1>2 DEF ApplyDeltas, DeltasTyped, TypeOK
<1>3. QED
  BY <1>1, <1>2

LEMMA TypeApprovals ==
    ASSUME TypeOK
    PROVE  /\ KeepApprovals => ApprovalsTyped
           /\ \A r \in Runs, A \in SUBSET Approvals : AskFor(r, A) => ApprovalsTyped
<1>1. KeepApprovals => ApprovalsTyped
  BY DEF KeepApprovals, ApprovalsTyped, TypeOK
<1>2. ASSUME NEW r \in Runs, NEW A \in SUBSET Approvals, AskFor(r, A)
      PROVE  ApprovalsTyped
  BY <1>2 DEF AskFor, ApprovalsTyped, TypeOK, ApprovalStates
<1>3. QED
  BY <1>1, <1>2

LEMMA TypeConclude ==
    ASSUME TypeOK, NEW r \in Runs, NEW s \in RunStates, EndRun(r, s),
           DeltasTyped, ApprovalsTyped
    PROVE  TypeOK'
<1>1. /\ runState' \in [Runs -> RunStates]
      /\ disp' \in [pc : {"idle", "executing", "reaping"}, run : Runs \cup {NoRun}]
      /\ disp'.pc # "executing"
      /\ UNCHANGED <<agentMode, runAgent, runPrio, reap, txns>>
  BY DEF EndRun, TypeOK, Idle
<1>2. /\ \A a \in reap.rows : a \in Approvals
      /\ \A t \in txns : t.appr \in Approvals
  BY DEF TypeOK, Txn
<1>3. QED
  BY <1>1, <1>2 DEF DeltasTyped, ApprovalsTyped, TypeOK

\* How a run's second transaction can end.
LEMMA FinishCases ==
    ASSUME Finish
    PROVE  \E r \in Runs :
        \/ \E s \in {"failed", "timed_out"} :
            EndRun(r, s) /\ KeepDeltas /\ KeepApprovals
        \/ \E K \in SUBSET EventKeys : LoseSession(r, K)
        \/ \E K, E \in SUBSET EventKeys, s \in {"completed", "failed"} :
            EndRun(r, s) /\ ApplyDeltas(r, K, E) /\ KeepApprovals
        \/ \E K, E \in SUBSET EventKeys, A \in SUBSET Approvals,
             s \in {"awaiting_approval", "timed_out"} :
            /\ EndRun(r, s) /\ ApplyDeltas(r, K, E) /\ AskFor(r, A)
            /\ s = "awaiting_approval" => A # {}
<1>1. PICK r \in Runs :
        \/ WorkflowFails(r)
        \/ WorkflowTimesOut(r)
        \/ \E K \in SUBSET EventKeys :
            \/ Complete(r, K)
            \/ LoseSession(r, K)
            \/ \E A \in SUBSET Approvals : Park(r, K, A)
            \/ \E E \in SUBSET K :
                \/ RejectEvent(r, K, E)
                \/ \E A \in SUBSET Approvals : TimeOutPersisting(r, K, E, A)
  BY DEF Finish
<1>2. CASE WorkflowFails(r) \/ WorkflowTimesOut(r)
  BY <1>2 DEF WorkflowFails, WorkflowTimesOut
<1>3. CASE \E K \in SUBSET EventKeys : LoseSession(r, K)
  BY <1>3
<1>4. CASE \E K \in SUBSET EventKeys : Complete(r, K)
  BY <1>4 DEF Complete
<1>5. CASE \E K, E \in SUBSET EventKeys : RejectEvent(r, K, E)
  BY <1>5 DEF RejectEvent
<1>6. CASE \E K \in SUBSET EventKeys, A \in SUBSET Approvals : Park(r, K, A)
  BY <1>6 DEF Park
<1>7. CASE \E K, E \in SUBSET EventKeys, A \in SUBSET Approvals :
              TimeOutPersisting(r, K, E, A)
  BY <1>7 DEF TimeOutPersisting
<1>8. QED
  BY <1>1, <1>2, <1>3, <1>4, <1>5, <1>6, <1>7

LEMMA TypeFinish ==
    ASSUME TypeOK, Finish
    PROVE  TypeOK'
<1>1. {"failed", "timed_out", "completed", "awaiting_approval"} \subseteq RunStates
  BY DEF RunStates, FinalStates
<1>2. ASSUME NEW r \in Runs, NEW K \in SUBSET EventKeys, LoseSession(r, K)
      PROVE  TypeOK'
  BY <1>2 DEF LoseSession, TypeOK, tables, Idle
<1>3. ASSUME NEW r \in Runs, NEW s \in RunStates, EndRun(r, s),
             KeepDeltas, KeepApprovals
      PROVE  TypeOK'
  BY <1>3, TypeDeltas, TypeApprovals, TypeConclude
<1>4. ASSUME NEW r \in Runs, NEW s \in RunStates, EndRun(r, s),
             NEW K \in SUBSET EventKeys, NEW E \in SUBSET EventKeys,
             ApplyDeltas(r, K, E), KeepApprovals
      PROVE  TypeOK'
  BY <1>4, TypeDeltas, TypeApprovals, TypeConclude
<1>5. ASSUME NEW r \in Runs, NEW s \in RunStates, EndRun(r, s),
             NEW K \in SUBSET EventKeys, NEW E \in SUBSET EventKeys,
             NEW A \in SUBSET Approvals, ApplyDeltas(r, K, E), AskFor(r, A)
      PROVE  TypeOK'
  BY <1>5, TypeDeltas, TypeApprovals, TypeConclude
<1>6. QED
  BY <1>1, <1>2, <1>3, <1>4, <1>5, FinishCases

LEMMA TypeDecide ==
    ASSUME TypeOK, Ask \/ Settle \/ Abort
    PROVE  TypeOK'
<1>1. CASE Ask
  <2>1. PICK d \in Deciders, a \in Approvals, v \in {"approved", "denied"} :
            DecideRead(d, a, v)
    BY <1>1 DEF Ask
  <2>2. Opened(d, a, v) \in Txn /\ Opened(d, a, v).appr = a
    BY DEF Opened, Txn, RunStates
  <2>3. txns' \subseteq Txn /\ \A t \in txns' : apprState[t.appr] # "absent"
    BY <2>1, <2>2 DEF DecideRead, TypeOK
  <2>4. UNCHANGED <<tables, disp, reap>>
    BY <2>1 DEF DecideRead
  <2>5. QED
    BY <2>3, <2>4 DEF TypeOK, tables
<1>2. CASE \E t \in txns : DecideFlush(t)
  <2>1. PICK t \in txns : DecideFlush(t)
    BY <1>2
  <2>2. t \in Txn /\ apprRun[t.appr] \in Runs
    BY DEF TypeOK, Txn
  <2>3. Flushed(t) \in Txn /\ Flushed(t).appr = t.appr
    BY <2>2 DEF Flushed, TypeOK, Txn
  <2>4. txns' = (txns \ {t}) \cup {Flushed(t)} /\ UNCHANGED <<tables, disp, reap>>
    BY <2>1 DEF DecideFlush
  <2>5. txns' \subseteq Txn /\ \A w \in txns' : apprState[w.appr] # "absent"
    BY <2>3, <2>4 DEF TypeOK
  <2>6. QED
    BY <2>4, <2>5 DEF TypeOK, tables
<1>3. CASE \E t \in txns : DecideCommit(t)
  <2>1. PICK t \in txns : DecideCommit(t)
    BY <1>3
  <2>2. t \in Txn /\ apprRun[t.appr] \in Runs
    BY DEF TypeOK, Txn
  <2>3. RunAfter(t) \in RunStates
    BY <2>2 DEF RunAfter, TypeOK, Txn, RunStates, FinalStates
  <2>4. runState' \in [Runs -> RunStates]
    BY <2>1, <2>2, <2>3 DEF DecideCommit, TypeOK
  <2>5. t.verdict \in ApprovalStates /\ t.verdict # "absent"
    BY <2>2 DEF Txn, ApprovalStates
  <2>6. /\ apprState' \in [Approvals -> ApprovalStates]
        /\ \A a \in Approvals : apprState'[a] # "absent" <=> apprState[a] # "absent"
    BY <2>1, <2>2, <2>5 DEF DecideCommit, TypeOK
  <2>7. txns' \subseteq txns /\ \A w \in txns : w.appr \in Approvals
    BY <2>1 DEF DecideCommit, TypeOK, Txn
  <2>8. QED
    BY <2>1, <2>4, <2>6, <2>7 DEF DecideCommit, TypeOK
<1>4. CASE Abort
  BY <1>4 DEF Abort, DecideAborts, TypeOK, tables
<1>5. QED
  BY <1>1, <1>2, <1>3, <1>4 DEF Settle

LEMMA TypeReap ==
    ASSUME TypeOK, Pass \/ Reap \/ ReapFails \/ Crash
    PROVE  TypeOK'
<1>1. CASE Pass
  BY <1>1 DEF Pass, BecomeDue, TypeOK
<1>2. CASE ReapSelect
  BY <1>2 DEF ReapSelect, Stale, TypeOK, tables
<1>3. CASE \E a \in Approvals : ReapLoad(a)
  <2>1. PICK a \in Approvals : ReapLoad(a)
    BY <1>3
  <2>2. apprRun[a] \in Runs
    BY <2>1 DEF ReapLoad, TypeOK
  <2>3. /\ reap' \in [rows : SUBSET Approvals, todo : SUBSET Approvals,
                       doomed : SUBSET Runs]
        /\ reap'.rows = reap.rows /\ reap'.todo \subseteq reap.todo
    BY <2>1, <2>2 DEF ReapLoad, TypeOK
  <2>4. QED
    BY <2>1, <2>3 DEF ReapLoad, TypeOK, tables
<1>4. CASE ReapCommit
  <2>1. runState' \in [Runs -> RunStates]
    BY <1>4 DEF ReapCommit, TypeOK, RunStates, FinalStates
  <2>2. /\ apprState' \in [Approvals -> ApprovalStates]
        /\ \A a \in Approvals : apprState'[a] # "absent" <=> apprState[a] # "absent"
    BY <1>4 DEF ReapCommit, TypeOK, ApprovalStates
  <2>3. \A t \in txns : t.appr \in Approvals
    BY DEF TypeOK, Txn
  <2>4. QED
    BY <1>4, <2>1, <2>2, <2>3 DEF ReapCommit, TypeOK, Idle, NoReap
<1>5. CASE ReapFails \/ Crash
  BY <1>5 DEF ReapFails, Crash, TypeOK, tables, Idle, NoReap
<1>6. QED
  BY <1>1, <1>2, <1>3, <1>4, <1>5 DEF Reap

LEMMA TypeStep ==
    ASSUME TypeOK, [Next]_vars
    PROVE  TypeOK'
<1>1. CASE UNCHANGED vars
  BY <1>1 DEF vars, tables, TypeOK
<1>2. QED
  BY <1>1, TypeTriggerOperate, TypeDispatch, TypeFinish, TypeDecide, TypeReap
     DEF Next

\* Every variable keeps its type, every approval a transaction or the reaper
\* works on exists, and every approval that exists belongs to a run.
THEOREM TypeCorrect == Spec => []TypeOK
<1>1. QED
  BY TypeInit, TypeStep, PTL DEF Spec

-----------------------------------------------------------------------------
\* The inductive invariant of holds, HoldInv, when deciders do not overlap.

LEMMA HoldInit == Init => HoldInv
BY DEF Init, HoldInv, OneTxnEach, ApprovalsWait, NoLostWakeup,
       ExecutingIsRunning, DecidersInv, ReaperInv, Idle, NoReap

\* The run of an approval under decision, or in the reaper's hands, exists.
LEMMA KnownRun ==
    ASSUME TypeOK
    PROVE  /\ \A t \in txns : t \in Txn /\ t.appr \in Approvals
                             /\ apprRun[t.appr] \in Runs
           /\ \A a \in reap.rows : a \in Approvals /\ apprRun[a] \in Runs
           /\ \A a \in Approvals : apprState[a] = "pending" => apprRun[a] \in Runs
BY DEF TypeOK, Txn

\* What HoldInv speaks of is left alone.
LEMMA HoldFrame ==
    ASSUME HoldInv,
           UNCHANGED <<runState, apprState, apprRun, disp, reap, txns>>
    PROVE  HoldInv'
BY DEF HoldInv, OneTxnEach, ApprovalsWait, NoLostWakeup, PendingOf,
       ExecutingIsRunning, DecidersInv, ReaperInv, OtherPending

\* A run nobody waits on moves to a state in which nobody waits for it.
LEMMA HoldFreeRun ==
    ASSUME TypeOK, HoldInv, NEW r \in Runs, NEW s \in RunStates,
           runState[r] \notin Waiting,
           s # "awaiting_approval",
           runState' = [runState EXCEPT ![r] = s],
           UNCHANGED <<apprState, apprRun, reap, txns>>,
           disp'.pc = disp.pc \/ disp.pc # "reaping",
           ExecutingIsRunning'
    PROVE  HoldInv'
<1>1. \A q \in Runs : q # r => runState'[q] = runState[q]
  BY DEF TypeOK
<1>2. runState'[r] = s
  BY DEF TypeOK
<1>3. OneTxnEach'
  BY DEF HoldInv, OneTxnEach
<1>4. ApprovalsWait'
  BY <1>1, KnownRun DEF HoldInv, ApprovalsWait
<1>5. NoLostWakeup'
  BY <1>1, <1>2 DEF HoldInv, NoLostWakeup, PendingOf
<1>6. DecidersInv'
  <2>1. \A t \in txns : apprRun[t.appr] # r
    BY DEF HoldInv, DecidersInv
  <2>2. \A t \in txns : runState'[apprRun[t.appr]] = runState[apprRun[t.appr]]
    BY <1>1, <2>1, KnownRun
  <2>3. QED
    BY <2>2 DEF HoldInv, DecidersInv, OtherPending
<1>7. ReaperInv'
  <2>1. \A a \in reap.rows : runState'[apprRun[a]] = "awaiting_approval"
                             => runState[apprRun[a]] = "awaiting_approval"
    BY <1>1, <1>2, KnownRun
  <2>2. QED
    BY <2>1 DEF HoldInv, ReaperInv
<1>8. QED
  BY <1>3, <1>4, <1>5, <1>6, <1>7 DEF HoldInv

LEMMA HoldTriggerDispatch ==
    ASSUME TypeOK, HoldInv, Trigger \/ Dispatch
    PROVE  HoldInv'
<1>1. ASSUME NEW r \in Runs, NEW a \in Agents, NEW p \in Priorities,
             CreateRun(r, a, p)
      PROVE  HoldInv'
  <2>1. runState[r] \notin Waiting /\ "pending" \in RunStates
    BY <1>1 DEF CreateRun, Waiting, RunStates
  <2>2. ExecutingIsRunning'
    BY <1>1 DEF CreateRun, HoldInv, ExecutingIsRunning, TypeOK
  <2>3. QED
    BY <1>1, <2>1, <2>2, HoldFreeRun DEF CreateRun
<1>2. ASSUME NEW r \in Runs, Claim(r)
      PROVE  HoldInv'
  <2>1. runState[r] \notin Waiting /\ "running" \in RunStates
    BY <1>2 DEF Claim, Head, Claimable, Waiting, RunStates
  <2>2. ExecutingIsRunning' /\ disp.pc # "reaping"
    BY <1>2 DEF Claim, ExecutingIsRunning, TypeOK, Idle
  <2>3. QED
    BY <1>2, <2>1, <2>2, HoldFreeRun DEF Claim
<1>3. ASSUME NEW r \in Runs, ClaimOverBudget(r)
      PROVE  HoldInv'
  <2>1. runState[r] \notin Waiting /\ "budget_exceeded" \in RunStates
    BY <1>3 DEF ClaimOverBudget, Head, Claimable, Waiting, RunStates, FinalStates
  <2>2. ExecutingIsRunning'
    BY <1>3 DEF ClaimOverBudget, ExecutingIsRunning, Idle
  <2>3. QED
    BY <1>3, <2>1, <2>2, HoldFreeRun DEF ClaimOverBudget
<1>4. QED
  BY <1>1, <1>2, <1>3 DEF Trigger, Dispatch

\* A run ends and leaves new approvals behind: it is parked on them, or timed
\* out after some of them were inserted.
LEMMA HoldAsk ==
    ASSUME TypeOK, HoldInv, NEW r \in Runs, NEW A \in SUBSET Approvals,
           NEW s \in {"awaiting_approval", "timed_out"},
           EndRun(r, s), AskFor(r, A), s = "awaiting_approval" => A # {}
    PROVE  HoldInv'
<1>1. /\ runState[r] = "running" /\ runState'[r] = s
      /\ \A q \in Runs : q # r => runState'[q] = runState[q]
  BY DEF EndRun, Executing, HoldInv, ExecutingIsRunning, TypeOK
<1>2. /\ disp.pc = "executing" /\ disp' = Idle
      /\ reap.rows = {} /\ UNCHANGED <<reap, txns>>
  BY DEF EndRun, Executing, HoldInv, ReaperInv
<1>3. /\ \A a \in A : apprState[a] = "absent" /\ apprState'[a] = "pending"
                        /\ apprRun'[a] = r
      /\ \A a \in Approvals \ A : apprState'[a] = apprState[a]
                                   /\ apprRun'[a] = apprRun[a]
  BY DEF AskFor
<1>4. OneTxnEach'
  BY <1>2 DEF HoldInv, OneTxnEach
<1>5. ApprovalsWait'
  BY <1>1, <1>3, KnownRun DEF HoldInv, ApprovalsWait, Waiting
<1>6. NoLostWakeup'
  <2>1. ASSUME NEW q \in Runs, runState'[q] = "awaiting_approval"
        PROVE  PendingOf(q)' # {}
    <3>1. CASE q = r
      BY <1>1, <1>3, <2>1, <3>1 DEF PendingOf
    <3>2. CASE q # r
      <4>1. PICK a \in Approvals : apprState[a] = "pending" /\ apprRun[a] = q
        BY <1>1, <2>1, <3>2 DEF HoldInv, NoLostWakeup, PendingOf
      <4>2. a \notin A
        BY <1>3, <4>1
      <4>3. QED
        BY <1>3, <4>1, <4>2 DEF PendingOf
    <3>3. QED
      BY <3>1, <3>2
  <2>2. QED
    BY <2>1 DEF NoLostWakeup
<1>7. ExecutingIsRunning' /\ ReaperInv'
  BY <1>2 DEF ExecutingIsRunning, ReaperInv, Idle, TypeOK
<1>8. DecidersInv'
  <2>1. ASSUME NEW t \in txns
        PROVE  /\ apprRun[t.appr] # r /\ t.appr \in Approvals \ A
               /\ apprRun[t.appr] \in Runs
    BY <1>1, <1>3, KnownRun DEF HoldInv, DecidersInv, Waiting, TypeOK
  <2>2. ASSUME NEW t \in txns
        PROVE  /\ OtherPending(t.appr)' = OtherPending(t.appr)
               /\ runState'[apprRun'[t.appr]] = runState[apprRun[t.appr]]
    <3>1. apprRun'[t.appr] = apprRun[t.appr]
      BY <1>3, <2>1
    <3>2. \A b \in Approvals :
            (apprRun'[b] = apprRun[t.appr] /\ apprState'[b] = "pending")
              <=> (apprRun[b] = apprRun[t.appr] /\ apprState[b] = "pending")
      BY <1>3, <2>1
    <3>3. QED
      BY <1>1, <2>1, <3>1, <3>2 DEF OtherPending
  <2>3. QED
    BY <1>2, <2>2 DEF HoldInv, DecidersInv
<1>9. QED
  BY <1>4, <1>5, <1>6, <1>7, <1>8 DEF HoldInv

LEMMA HoldFinish ==
    ASSUME TypeOK, HoldInv, Finish
    PROVE  HoldInv'
<1>1. ASSUME NEW r \in Runs, NEW s \in {"failed", "timed_out", "completed"},
             EndRun(r, s), KeepApprovals
      PROVE  HoldInv'
  <2>1. runState[r] = "running" /\ disp.pc = "executing" /\ disp' = Idle
    BY <1>1 DEF EndRun, Executing, HoldInv, ExecutingIsRunning
  <2>2. /\ runState[r] \notin Waiting /\ s \in RunStates
        /\ s # "awaiting_approval" /\ ExecutingIsRunning'
    BY <2>1 DEF Waiting, RunStates, FinalStates, ExecutingIsRunning, Idle
  <2>3. QED
    BY <1>1, <2>1, <2>2, HoldFreeRun DEF EndRun, KeepApprovals
<1>2. ASSUME NEW r \in Runs, NEW K \in SUBSET EventKeys, LoseSession(r, K)
      PROVE  HoldInv'
  BY <1>2 DEF LoseSession, tables, Executing, Idle, HoldInv, OneTxnEach,
              ApprovalsWait, NoLostWakeup, PendingOf, ExecutingIsRunning,
              DecidersInv, OtherPending, ReaperInv
<1>3. ASSUME NEW r \in Runs, NEW A \in SUBSET Approvals,
             NEW s \in {"awaiting_approval", "timed_out"},
             EndRun(r, s), AskFor(r, A), s = "awaiting_approval" => A # {}
      PROVE  HoldInv'
  BY <1>3, HoldAsk
<1>4. QED
  BY <1>1, <1>2, <1>3, FinishCases

\* A decision begins: its approval is pending, so its run waits.
LEMMA HoldDecideRead ==
    ASSUME TypeOK, HoldInv, NEW d \in Deciders, NEW a \in Approvals,
           NEW v \in {"approved", "denied"}, DecideRead(d, a, v)
    PROVE  HoldInv'
<1>1. /\ Opened(d, a, v).by = d /\ Opened(d, a, v).appr = a
      /\ Opened(d, a, v).pc = "read"
  BY DEF Opened
<1>2. /\ txns' = txns \cup {Opened(d, a, v)}
      /\ UNCHANGED <<runState, apprState, apprRun, disp, reap>>
      /\ apprState[a] = "pending" /\ \A t \in txns : t.by # d
  BY DEF DecideRead, tables, Busy
<1>3. OneTxnEach'
  BY <1>1, <1>2 DEF HoldInv, OneTxnEach
<1>4. DecidersInv'
  <2>1. runState[apprRun[a]] \in Waiting
    BY <1>2 DEF HoldInv, ApprovalsWait
  <2>2. QED
    BY <1>1, <1>2, <2>1 DEF HoldInv, DecidersInv, OtherPending
<1>5. QED
  BY <1>2, <1>3, <1>4
     DEF HoldInv, ApprovalsWait, NoLostWakeup, PendingOf, ExecutingIsRunning, ReaperInv

\* What the transaction reads of its run and of the siblings is what they are.
LEMMA HoldDecideFlush ==
    ASSUME TypeOK, HoldInv, NEW t \in txns, DecideFlush(t)
    PROVE  HoldInv'
<1>1. /\ Flushed(t).by = t.by /\ Flushed(t).appr = t.appr
      /\ Flushed(t).verdict = t.verdict
      /\ Flushed(t).seen = runState[apprRun[t.appr]]
      /\ Flushed(t).clear <=> t.verdict = "approved" /\ OtherPending(t.appr) = {}
  BY KnownRun DEF Flushed, Txn
<1>2. /\ txns' = (txns \ {t}) \cup {Flushed(t)}
      /\ UNCHANGED <<runState, apprState, apprRun, disp, reap>>
  BY DEF DecideFlush, tables
<1>3. OneTxnEach'
  BY <1>1, <1>2 DEF HoldInv, OneTxnEach
<1>4. DecidersInv'
  <2>1. \A w \in txns' : w \in txns \/ w = Flushed(t)
    BY <1>2
  <2>2. QED
    BY <1>1, <1>2, <2>1 DEF HoldInv, DecidersInv, OtherPending
<1>5. QED
  BY <1>2, <1>3, <1>4
     DEF HoldInv, ApprovalsWait, NoLostWakeup, PendingOf, ExecutingIsRunning, ReaperInv

\* With one decider the transaction is the only one open, and its run is still
\* waiting: it becomes pending with no approval left, fails, or stays parked
\* with a sibling left.
LEMMA HoldDecideCommit ==
    ASSUME OneDecider, TypeOK, HoldInv, NEW t \in txns, DecideCommit(t)
    PROVE  HoldInv'
<1> DEFINE r == apprRun[t.appr]
<1>1. /\ t \in Txn /\ t.appr \in Approvals /\ r \in Runs
      /\ t.pc = "flushed" /\ t.verdict \in {"approved", "denied"}
      /\ t.clear \in BOOLEAN
  BY KnownRun DEF DecideCommit, Txn
<1>2. txns' = {}
  <2>1. \A u \in txns : u.by = t.by
    BY KnownRun DEF OneDecider, Txn
  <2>2. QED
    BY <2>1 DEF DecideCommit, HoldInv, OneTxnEach
<1>3. /\ runState[r] \in Waiting /\ t.seen \in Waiting
      /\ runState[r] = "awaiting_approval" => t.seen = "awaiting_approval"
      /\ t.clear => t.verdict = "approved" /\ OtherPending(t.appr) = {}
      /\ (t.verdict = "approved" /\ ~t.clear /\ runState[r] = "awaiting_approval")
            => OtherPending(t.appr) # {}
  BY <1>1 DEF HoldInv, DecidersInv
<1>4. /\ UNCHANGED <<apprRun, disp, reap>>
      /\ runState'[r] = RunAfter(t)
      /\ \A q \in Runs : q # r => runState'[q] = runState[q]
      /\ apprState'[t.appr] = t.verdict
      /\ \A b \in Approvals : b # t.appr => apprState'[b] = apprState[b]
  BY <1>1 DEF DecideCommit, TypeOK
<1>5. CASE t.verdict = "denied"
  <2>1. RunAfter(t) # "awaiting_approval" /\ RunAfter(t) \in Waiting
    BY <1>3, <1>5 DEF RunAfter, Waiting
  <2>2. ApprovalsWait'
    BY <1>4, <1>5, <2>1, KnownRun DEF HoldInv, ApprovalsWait
  <2>3. NoLostWakeup'
    <3>1. ASSUME NEW q \in Runs, runState'[q] = "awaiting_approval"
          PROVE  PendingOf(q)' # {}
      <4>1. q # r /\ runState[q] = "awaiting_approval"
        BY <1>4, <2>1, <3>1
      <4>2. PICK b \in Approvals : apprState[b] = "pending" /\ apprRun[b] = q
        BY <4>1 DEF HoldInv, NoLostWakeup, PendingOf
      <4>3. QED
        BY <1>4, <4>1, <4>2 DEF PendingOf
    <3>2. QED
      BY <3>1 DEF NoLostWakeup
  <2>4. ExecutingIsRunning' /\ ReaperInv'
    BY <1>3, <1>4, <2>1, KnownRun
       DEF HoldInv, ExecutingIsRunning, ReaperInv, Waiting, TypeOK
  <2>5. QED
    BY <1>2, <2>2, <2>3, <2>4 DEF HoldInv, OneTxnEach, DecidersInv
<1>6. CASE t.verdict = "approved" /\ t.clear
  <2>1. RunAfter(t) = "pending"
    BY <1>3, <1>6 DEF RunAfter, Waiting
  <2>2. ApprovalsWait'
    BY <1>3, <1>4, <1>6, KnownRun DEF HoldInv, ApprovalsWait, OtherPending
  <2>3. NoLostWakeup'
    <3>1. ASSUME NEW q \in Runs, runState'[q] = "awaiting_approval"
          PROVE  PendingOf(q)' # {}
      <4>1. q # r /\ runState[q] = "awaiting_approval"
        BY <1>4, <2>1, <3>1
      <4>2. PICK b \in Approvals : apprState[b] = "pending" /\ apprRun[b] = q
        BY <4>1 DEF HoldInv, NoLostWakeup, PendingOf
      <4>3. QED
        BY <1>4, <4>1, <4>2 DEF PendingOf
    <3>2. QED
      BY <3>1 DEF NoLostWakeup
  <2>4. ExecutingIsRunning' /\ ReaperInv'
    BY <1>3, <1>4, <2>1, KnownRun
       DEF HoldInv, ExecutingIsRunning, ReaperInv, Waiting, TypeOK
  <2>5. QED
    BY <1>2, <2>2, <2>3, <2>4 DEF HoldInv, OneTxnEach, DecidersInv
<1>7. CASE t.verdict = "approved" /\ ~t.clear
  <2>1. RunAfter(t) = runState[r]
    BY <1>7 DEF RunAfter
  <2>2. ApprovalsWait'
    BY <1>4, <1>7, <2>1, KnownRun DEF HoldInv, ApprovalsWait
  <2>3. NoLostWakeup'
    <3>1. ASSUME NEW q \in Runs, runState'[q] = "awaiting_approval"
          PROVE  PendingOf(q)' # {}
      <4>1. runState[q] = "awaiting_approval"
        BY <1>4, <2>1, <3>1
      <4>2. CASE q = r
        BY <1>3, <1>4, <1>7, <4>1, <4>2 DEF OtherPending, PendingOf
      <4>3. CASE q # r
        <5>1. PICK b \in Approvals : apprState[b] = "pending" /\ apprRun[b] = q
          BY <4>1 DEF HoldInv, NoLostWakeup, PendingOf
        <5>2. QED
          BY <1>4, <4>3, <5>1 DEF PendingOf
      <4>4. QED
        BY <4>2, <4>3
    <3>2. QED
      BY <3>1 DEF NoLostWakeup
  <2>4. ExecutingIsRunning' /\ ReaperInv'
    BY <1>4, <2>1, KnownRun DEF HoldInv, ExecutingIsRunning, ReaperInv, TypeOK
  <2>5. QED
    BY <1>2, <2>2, <2>3, <2>4 DEF HoldInv, OneTxnEach, DecidersInv
<1>8. QED
  BY <1>1, <1>5, <1>6, <1>7

LEMMA HoldAbort ==
    ASSUME HoldInv, Abort
    PROVE  HoldInv'
BY DEF Abort, DecideAborts, tables, HoldInv, OneTxnEach, ApprovalsWait,
       NoLostWakeup, PendingOf, ExecutingIsRunning, DecidersInv, OtherPending,
       ReaperInv

-----------------------------------------------------------------------------
\* The reaper.

LEMMA HoldReapLoad ==
    ASSUME TypeOK, HoldInv, NEW a \in Approvals, ReapLoad(a)
    PROVE  HoldInv'
<1> DEFINE r      == apprRun[a]
           loaded == \E b \in reap.rows \ reap.todo : apprRun[b] = r
           fails  == ~loaded /\ runState[r] = "awaiting_approval"
<1>1. /\ disp.pc = "reaping" /\ a \in reap.todo
      /\ reap'.rows = reap.rows /\ reap'.todo = reap.todo \ {a}
      /\ reap'.doomed = reap.doomed \cup (IF fails THEN {r} ELSE {})
      /\ UNCHANGED <<tables, disp, txns>>
  BY DEF ReapLoad, TypeOK
<1>2. ASSUME NEW b \in reap.rows \ reap'.todo,
             runState[apprRun[b]] = "awaiting_approval"
      PROVE  apprRun[b] \in reap'.doomed
  <2>1. CASE b \notin reap.todo
    BY <1>1, <1>2, <2>1 DEF HoldInv, ReaperInv
  <2>2. CASE b = a /\ loaded
    BY <1>1, <1>2, <2>2 DEF HoldInv, ReaperInv
  <2>3. CASE b = a /\ ~loaded
    BY <1>1, <1>2, <2>3
  <2>4. QED
    BY <1>1, <2>1, <2>2, <2>3
<1>3. ReaperInv'
  BY <1>1, <1>2 DEF ReaperInv, tables
<1>4. QED
  BY <1>1, <1>3
     DEF tables, HoldInv, OneTxnEach, ApprovalsWait, NoLostWakeup, PendingOf,
         ExecutingIsRunning, DecidersInv, OtherPending

\* A run with a row in the batch is not parked afterwards; any other run keeps
\* its approvals.
LEMMA HoldReapCommit ==
    ASSUME TypeOK, HoldInv, ReapCommit
    PROVE  HoldInv'
<1>1. /\ disp' = Idle /\ reap' = NoReap /\ UNCHANGED <<apprRun, txns>>
      /\ \A a \in Approvals :
            apprState'[a] = IF a \in reap.rows THEN "expired" ELSE apprState[a]
      /\ \A q \in Runs :
            runState'[q] = IF q \in reap.doomed THEN "failed" ELSE runState[q]
  BY DEF ReapCommit
<1>2. \A a \in reap.rows : runState[apprRun[a]] = "awaiting_approval"
                           => apprRun[a] \in reap.doomed
  BY DEF ReapCommit, HoldInv, ReaperInv
<1>3. ASSUME NEW q \in Runs, runState'[q] = "awaiting_approval"
      PROVE  /\ runState[q] = "awaiting_approval"
             /\ \A b \in Approvals : apprRun[b] = q => b \notin reap.rows
  BY <1>1, <1>2, <1>3
<1>4. ApprovalsWait'
  BY <1>1, KnownRun DEF HoldInv, ApprovalsWait, Waiting
<1>5. NoLostWakeup'
  <2>1. ASSUME NEW q \in Runs, runState'[q] = "awaiting_approval"
        PROVE  PendingOf(q)' # {}
    <3>1. PICK b \in Approvals : apprState[b] = "pending" /\ apprRun[b] = q
      BY <1>3, <2>1 DEF HoldInv, NoLostWakeup, PendingOf
    <3>2. QED
      BY <1>1, <1>3, <2>1, <3>1 DEF PendingOf
  <2>2. QED
    BY <2>1 DEF NoLostWakeup
<1>6. DecidersInv'
  <2>1. ASSUME NEW t \in txns
        PROVE  /\ runState'[apprRun[t.appr]] \in Waiting
               /\ OtherPending(t.appr)' \subseteq OtherPending(t.appr)
               /\ runState'[apprRun[t.appr]] = "awaiting_approval"
                    => /\ runState[apprRun[t.appr]] = "awaiting_approval"
                       /\ OtherPending(t.appr)' = OtherPending(t.appr)
    <3>1. t.appr \in Approvals /\ apprRun[t.appr] \in Runs
      BY KnownRun
    <3>2. runState'[apprRun[t.appr]] \in Waiting
      BY <1>1, <3>1 DEF HoldInv, DecidersInv, Waiting
    <3>3. \A b \in OtherPending(t.appr)' : b \in OtherPending(t.appr)
      BY <1>1 DEF OtherPending
    <3>4. ASSUME runState'[apprRun[t.appr]] = "awaiting_approval"
          PROVE  /\ runState[apprRun[t.appr]] = "awaiting_approval"
                 /\ OtherPending(t.appr)' = OtherPending(t.appr)
      BY <1>1, <1>3, <3>1, <3>4 DEF OtherPending
    <3>5. QED
      BY <3>2, <3>3, <3>4
  <2>2. QED
    BY <1>1, <2>1 DEF HoldInv, DecidersInv
<1>7. OneTxnEach' /\ ExecutingIsRunning' /\ ReaperInv'
  BY <1>1 DEF HoldInv, OneTxnEach, ExecutingIsRunning, ReaperInv, Idle, NoReap
<1>8. QED
  BY <1>4, <1>5, <1>6, <1>7 DEF HoldInv

LEMMA HoldReap ==
    ASSUME TypeOK, HoldInv, Reap \/ ReapFails \/ Crash
    PROVE  HoldInv'
<1>1. CASE ReapSelect
  BY <1>1 DEF ReapSelect, tables, HoldInv, OneTxnEach, ApprovalsWait,
              NoLostWakeup, PendingOf, ExecutingIsRunning, DecidersInv,
              OtherPending, ReaperInv
<1>2. CASE ReapFails \/ Crash
  BY <1>2 DEF ReapFails, Crash, tables, Idle, NoReap, HoldInv, OneTxnEach,
              ApprovalsWait, NoLostWakeup, PendingOf, ExecutingIsRunning,
              DecidersInv, OtherPending, ReaperInv
<1>3. QED
  BY <1>1, <1>2, HoldReapLoad, HoldReapCommit DEF Reap

-----------------------------------------------------------------------------

LEMMA HoldStep ==
    ASSUME OneDecider, TypeOK, HoldInv, [Next]_vars
    PROVE  HoldInv'
<1>1. CASE UNCHANGED vars \/ Operate \/ Pass
  BY <1>1, HoldFrame DEF vars, tables, Operate, SetMode, Pass, BecomeDue
<1>2. CASE Ask
  BY <1>2, HoldDecideRead DEF Ask
<1>3. CASE Settle
  BY <1>3, HoldDecideFlush, HoldDecideCommit DEF Settle
<1>4. QED
  BY <1>1, <1>2, <1>3, HoldTriggerDispatch, HoldFinish, HoldAbort, HoldReap
     DEF Next

\* When deciders do not overlap, HoldInv holds, whatever fails.
THEOREM HoldCorrect ==
    ASSUME OneDecider
    PROVE  Spec => []HoldInv
<1>1. Init => HoldInv
  BY HoldInit
<1>2. TypeOK /\ HoldInv /\ [Next]_vars => HoldInv'
  BY HoldStep
<1>3. QED
  BY <1>1, <1>2, TypeCorrect, PTL DEF Spec

\* No run is re-enqueued, started or completed while one of its approvals is
\* still pending.
THEOREM SettledBeforeRequeueHolds ==
    ASSUME OneDecider
    PROVE  Spec => []SettledBeforeRequeue
<1>1. HoldInv => SettledBeforeRequeue
  BY DEF HoldInv, ApprovalsWait, SettledBeforeRequeue, PendingOf, Waiting
<1>2. QED
  BY <1>1, HoldCorrect, PTL

\* No run stays parked with nobody left to decide or to expire.
THEOREM NoLostWakeupHolds ==
    ASSUME OneDecider
    PROVE  Spec => []NoLostWakeup
<1>1. HoldInv => NoLostWakeup
  BY DEF HoldInv
<1>2. QED
  BY <1>1, HoldCorrect, PTL
=============================================================================
