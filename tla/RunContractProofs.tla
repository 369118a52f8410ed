-------------------------- MODULE RunContractProofs --------------------------
(***************************************************************************)
(* RunLifecycle implements RunContract, for every number of runs, agents,  *)
(* priorities, approvals per execution and event keys, whether approvals   *)
(* expire or not and under every set of faults, when one decider is at     *)
(* work at a time.  And an agent's state that holds the delta of a run     *)
(* without its events belongs to a run that is failed or timed out for     *)
(* good.                                                                   *)
(***************************************************************************)
EXTENDS RunLifecycleProofs

-----------------------------------------------------------------------------
(* The invariant, beside HoldInv.                                          *)

\* What is being decided was pending when it was read; only the reaper may
\* have settled it since.
DecidesAsked == \A t \in txns : apprState[t.appr] \in {"pending", "expired"}

\* A run the reaper is going to fail still waits, or was released a moment ago
\* and is not claimed: the dispatcher is the task that reaps.
DoomedWait ==
    disp.pc = "reaping" =>
        \A r \in reap.doomed :
            /\ runState[r] \in Waiting \cup {"pending"}
            /\ \E a \in reap.rows : apprRun[a] = r

\* A run applied by halves has failed, and nobody is asked, or decides, whether
\* it may go on.
TornLeft ==
    \A r \in Runs : Torn(r) =>
        /\ runState[r] \in {"failed", "timed_out"}
        /\ \A a \in Approvals : apprState[a] = "pending" => apprRun[a] # r
        /\ \A t \in txns : apprRun[t.appr] # r

ContractInv == DecidesAsked /\ DoomedWait /\ TornLeft

\* How an execution ends, and what of the output it leaves.
Whole(r) ==
    \E K \in SUBSET EventKeys :
        /\ ApplyDeltas(r, K, K)
        /\ \/ EndRun(r, "completed") /\ KeepApprovals
           \/ \E A \in SUBSET Approvals :
                A # {} /\ EndRun(r, "awaiting_approval") /\ AskFor(r, A)

Halves(r) ==
    \E K \in SUBSET EventKeys, E \in SUBSET EventKeys, s \in {"failed", "timed_out"} :
        /\ E \subseteq K
        /\ ApplyDeltas(r, K, E)
        /\ EndRun(r, s)
        /\ \/ KeepApprovals
           \/ \E A \in SUBSET Approvals : AskFor(r, A) /\ (A # {} => E = K)

Nothing(r) ==
    /\ \E s \in {"failed", "timed_out"} : EndRun(r, s)
    /\ KeepDeltas
    /\ KeepApprovals

LEMMA Endings ==
    ASSUME Finish
    PROVE  \E r \in Runs :
              /\ Executing(r) /\ disp' = Idle /\ UNCHANGED <<runAgent, reap, txns>>
              /\ UNCHANGED tables \/ Nothing(r) \/ Whole(r) \/ Halves(r)
<1>1. PICK r \in Runs :
        \/ WorkflowFails(r)
        \/ WorkflowTimesOut(r)
        \/ \E K \in SUBSET EventKeys :
            \/ Complete(r, K)
            \/ LoseSession(r, K)
            \/ \E A \in SUBSET Approvals : Park(r, K, A)
            \/ \E E \in SUBSET K :
                \/ RejectEvent(r, K, E)
                \/ \E A \in SUBSET Approvals : TimeOutPersisting(r, K, E, A)
  BY DEF Finish
<1> DEFINE Frame == Executing(r) /\ disp' = Idle /\ UNCHANGED <<runAgent, reap, txns>>
<1>2. CASE WorkflowFails(r) \/ WorkflowTimesOut(r)
  <2>1. Nothing(r) /\ Frame
    BY <1>2 DEF WorkflowFails, WorkflowTimesOut, EndRun, Nothing
  <2> QED
    BY <2>1
<1>3. ASSUME NEW K \in SUBSET EventKeys, Complete(r, K)
      PROVE  Whole(r) /\ Frame
  BY <1>3 DEF Complete, EndRun, Whole
<1>4. ASSUME NEW K \in SUBSET EventKeys, LoseSession(r, K)
      PROVE  UNCHANGED tables /\ Frame
  BY <1>4 DEF LoseSession, tables
<1>5. ASSUME NEW K \in SUBSET EventKeys, NEW A \in SUBSET Approvals, Park(r, K, A)
      PROVE  Whole(r) /\ Frame
  BY <1>5 DEF Park, EndRun, Whole
<1>6. ASSUME NEW K \in SUBSET EventKeys, NEW E \in SUBSET K, RejectEvent(r, K, E)
      PROVE  Halves(r) /\ Frame
  <2>1. /\ E \in SUBSET EventKeys /\ E \subseteq K /\ ApplyDeltas(r, K, E)
        /\ EndRun(r, "failed") /\ KeepApprovals
    BY <1>6 DEF RejectEvent
  <2> QED
    BY <2>1 DEF EndRun, Halves
<1>7. ASSUME NEW K \in SUBSET EventKeys, NEW E \in SUBSET K, NEW A \in SUBSET Approvals,
             TimeOutPersisting(r, K, E, A)
      PROVE  Halves(r) /\ Frame
  <2>1. /\ E \in SUBSET EventKeys /\ E \subseteq K /\ ApplyDeltas(r, K, E)
        /\ EndRun(r, "timed_out") /\ AskFor(r, A) /\ (A # {} => E = K)
    BY <1>7 DEF TimeOutPersisting
  <2> QED
    BY <2>1 DEF EndRun, Halves
<1> QED
  BY <1>1, <1>2, <1>3, <1>4, <1>5, <1>6, <1>7

\* Only an execution's end applies anything.
LEMMA KeepsOtherwise ==
    ASSUME [Next]_vars, ~Finish
    PROVE  KeepDeltas
<1>1. CASE UNCHANGED vars \/ Operate \/ Pass \/ Trigger \/ Dispatch
  BY <1>1 DEF vars, tables, KeepDeltas, Operate, SetMode, Pass, BecomeDue, Trigger, CreateRun,
              Dispatch, Claim, ClaimOverBudget
<1>2. CASE Ask \/ Settle \/ Abort
  BY <1>2 DEF Ask, DecideRead, Settle, DecideFlush, DecideCommit, Abort, DecideAborts,
              tables, KeepDeltas
<1>3. CASE Reap \/ ReapFails \/ Crash
  BY <1>3 DEF Reap, ReapSelect, ReapLoad, ReapCommit, ReapFails, Crash, tables, KeepDeltas
<1> QED
  BY <1>1, <1>2, <1>3 DEF Next

\* Nobody who decides or waits for a decision is on a run that is executed.
LEMMA Undisturbed ==
    ASSUME TypeOK, HoldInv, NEW r \in Runs, runState[r] \notin Waiting
    PROVE  /\ \A a \in Approvals : apprState[a] = "pending" => apprRun[a] # r
           /\ \A t \in txns : apprRun[t.appr] # r
BY DEF HoldInv, ApprovalsWait, DecidersInv

-----------------------------------------------------------------------------
(* The invariant is inductive.                                             *)

\* A run moves, that nobody waits for and the reaper does not hold.
LEMMA MoveKeeps ==
    ASSUME TypeOK, ContractInv, NEW r \in Runs, NEW s \in RunStates,
           runState[r] \in {"absent", "pending"}, s \in {"pending", "running", "budget_exceeded"},
           runState' = [runState EXCEPT ![r] = s],
           disp.pc = "reaping" => runState[r] = "absent",
           disp'.pc = "reaping" => disp.pc = "reaping",
           KeepDeltas, KeepApprovals, UNCHANGED <<reap, txns>>
    PROVE  ContractInv'
<1>1. \A q \in Runs : runState'[q] = IF q = r THEN s ELSE runState[q]
  BY DEF TypeOK
<1>2. DecidesAsked'
  BY DEF ContractInv, DecidesAsked, KeepApprovals
<1>3. DoomedWait'
  <2>1. \A q \in reap.doomed : disp.pc = "reaping" => q # r
    BY DEF ContractInv, DoomedWait, Waiting
  <2>2. reap.doomed \subseteq Runs
    BY DEF TypeOK
  <2> QED
    BY <1>1, <2>1, <2>2 DEF ContractInv, DoomedWait, KeepApprovals
<1>4. TornLeft'
  <2>1. ASSUME NEW q \in Runs, Torn(q)'
        PROVE  Torn(q)
    BY <2>1 DEF Torn, KeepDeltas
  <2>2. ~Torn(r)
    BY DEF ContractInv, TornLeft
  <2> QED
    BY <1>1, <2>1, <2>2 DEF ContractInv, TornLeft, KeepApprovals
<1> QED
  BY <1>2, <1>3, <1>4 DEF ContractInv

LEMMA ContractTriggerDispatch ==
    ASSUME TypeOK, ContractInv, Trigger \/ Dispatch
    PROVE  ContractInv'
<1>1. {"pending", "running", "budget_exceeded"} \subseteq RunStates
  BY DEF RunStates, FinalStates
<1>2. ASSUME NEW r \in Runs, NEW a \in Agents, NEW p \in Priorities, CreateRun(r, a, p)
      PROVE  ContractInv'
  BY <1>1, <1>2, MoveKeeps DEF CreateRun, KeepDeltas, KeepApprovals
<1>3. ASSUME NEW r \in Runs, Claim(r)
      PROVE  ContractInv'
  <2>1. /\ runState[r] = "pending" /\ disp.pc # "reaping" /\ disp'.pc # "reaping"
        /\ runState' = [runState EXCEPT ![r] = "running"]
        /\ KeepDeltas /\ KeepApprovals /\ UNCHANGED <<reap, txns>>
    BY <1>3 DEF Claim, Head, Claimable, Idle, KeepDeltas, KeepApprovals
  <2> QED
    BY <1>1, <2>1, MoveKeeps
<1>4. ASSUME NEW r \in Runs, ClaimOverBudget(r)
      PROVE  ContractInv'
  <2>1. /\ runState[r] = "pending" /\ disp.pc # "reaping" /\ disp' = disp
        /\ runState' = [runState EXCEPT ![r] = "budget_exceeded"]
        /\ KeepDeltas /\ KeepApprovals /\ UNCHANGED <<reap, txns>>
    BY <1>4 DEF ClaimOverBudget, Head, Claimable, Idle, KeepDeltas, KeepApprovals
  <2> QED
    BY <1>1, <2>1, MoveKeeps
<1> QED
  BY <1>2, <1>3, <1>4 DEF Trigger, Dispatch

\* What the end of an execution does to the runs that were not executed.
LEMMA OthersKeep ==
    ASSUME TypeOK, TornLeft, NEW r \in Runs, NEW K \in SUBSET EventKeys,
           NEW E \in SUBSET EventKeys, NEW s \in RunStates, ApplyDeltas(r, K, E), EndRun(r, s),
           KeepApprovals \/ \E A \in SUBSET Approvals : AskFor(r, A),
           NEW q \in Runs, q # r, Torn(q)'
    PROVE  /\ runState'[q] \in {"failed", "timed_out"}
           /\ \A a \in Approvals : apprState'[a] = "pending" => apprRun'[a] # q
           /\ \A t \in txns' : apprRun'[t.appr] # q
<1>1. /\ \A p \in Runs : output'[p] = IF p = r THEN K ELSE output[p]
      /\ \A a \in Agents : lastRun'[a] = IF a = runAgent[r] THEN r ELSE lastRun[a]
      /\ events' = events \cup ({r} \X E)
  BY DEF ApplyDeltas, TypeOK
<1>2. Torn(q)
  BY <1>1 DEF Torn
<1>3. runState'[q] = runState[q] /\ txns' = txns
  BY DEF EndRun, TypeOK
<1>4. \A a \in Approvals : apprRun'[a] = q => apprRun[a] = q /\ apprState'[a] = apprState[a]
  BY DEF KeepApprovals, AskFor
<1>5. \A t \in txns : t.appr \in Approvals
  BY KnownRun
<1> QED
  BY <1>2, <1>3, <1>4, <1>5 DEF TornLeft

LEMMA ContractFinish ==
    ASSUME TypeOK, HoldInv, ContractInv, Finish
    PROVE  ContractInv'
<1>1. PICK r \in Runs :
        /\ Executing(r) /\ disp' = Idle /\ UNCHANGED <<runAgent, reap, txns>>
        /\ UNCHANGED tables \/ Nothing(r) \/ Whole(r) \/ Halves(r)
  BY Endings
<1>2. runState[r] = "running" /\ disp'.pc = "idle"
  BY <1>1 DEF Executing, Idle, HoldInv, ExecutingIsRunning
<1>3. DoomedWait'
  BY <1>2 DEF DoomedWait
<1>4. {"failed", "timed_out", "completed", "awaiting_approval"} \subseteq RunStates
  BY DEF RunStates, FinalStates
<1>5. \A t \in txns : t.appr \in Approvals /\ apprState[t.appr] # "absent"
  BY KnownRun DEF TypeOK
<1>6. CASE UNCHANGED tables
  BY <1>1, <1>3, <1>6 DEF tables, ContractInv, DecidesAsked, TornLeft, Torn
<1>7. CASE Nothing(r)
  <2>1. \A q \in Runs : q # r => runState'[q] = runState[q]
    BY <1>7 DEF Nothing, EndRun, TypeOK
  <2>2. ~Torn(r) /\ \A q \in Runs : Torn(q)' => Torn(q)
    BY <1>2, <1>7 DEF ContractInv, TornLeft, Nothing, KeepDeltas, Torn
  <2>3. TornLeft'
    BY <1>1, <1>7, <2>1, <2>2 DEF ContractInv, TornLeft, Nothing, KeepApprovals
  <2> QED
    BY <1>1, <1>3, <1>7, <2>3 DEF Nothing, KeepApprovals, ContractInv, DecidesAsked
<1>8. ASSUME NEW K \in SUBSET EventKeys, NEW E \in SUBSET EventKeys, NEW s \in RunStates,
             ApplyDeltas(r, K, E), EndRun(r, s),
             KeepApprovals \/ \E A \in SUBSET Approvals : AskFor(r, A) /\ (A # {} => E = K),
             E = K \/ s \in {"failed", "timed_out"}
      PROVE  ContractInv'
  <2>1. DecidesAsked'
    BY <1>1, <1>5, <1>8 DEF ContractInv, DecidesAsked, KeepApprovals, AskFor
  <2>2. ASSUME Torn(r)'
        PROVE  /\ runState'[r] \in {"failed", "timed_out"}
               /\ \A a \in Approvals : apprState'[a] = "pending" => apprRun'[a] # r
               /\ \A t \in txns' : apprRun'[t.appr] # r
    <3>1. output'[r] = K /\ events' = events \cup ({r} \X E)
      BY <1>8 DEF ApplyDeltas, TypeOK
    <3>2. E # K
      BY <2>2, <3>1 DEF Torn
    <3>3. \A a \in Approvals : apprState'[a] = apprState[a] /\ apprRun'[a] = apprRun[a]
      BY <1>8, <3>2 DEF KeepApprovals, AskFor
    <3>4. runState'[r] = s
      BY <1>8 DEF EndRun, TypeOK
    <3>5. runState[r] \notin Waiting
      BY <1>2 DEF Waiting
    <3> QED
      BY <1>1, <1>5, <1>8, <3>2, <3>3, <3>4, <3>5, Undisturbed
  <2>3. TornLeft
    BY DEF ContractInv
  <2>4. TornLeft'
    BY <1>8, <2>2, <2>3, OthersKeep DEF TornLeft
  <2> QED
    BY <1>3, <2>1, <2>4 DEF ContractInv
<1>9. CASE Whole(r)
  BY <1>4, <1>8, <1>9 DEF Whole
<1>10. CASE Halves(r)
  BY <1>4, <1>8, <1>10 DEF Halves
<1> QED
  BY <1>1, <1>6, <1>7, <1>9, <1>10

LEMMA ContractDecide ==
    ASSUME OneDecider, TypeOK, HoldInv, ContractInv, Ask \/ Settle \/ Abort
    PROVE  ContractInv'
<1>1. KeepDeltas /\ UNCHANGED <<disp, reap, apprRun>>
  BY DEF Ask, DecideRead, Settle, DecideFlush, DecideCommit, Abort, DecideAborts,
         tables, KeepDeltas
<1>2. \A q \in Runs : Torn(q)' <=> Torn(q)
  BY <1>1 DEF KeepDeltas, Torn
<1>3. ASSUME NEW d \in Deciders, NEW a \in Approvals, NEW v \in {"approved", "denied"},
             DecideRead(d, a, v)
      PROVE  ContractInv'
  <2>1. /\ apprState[a] = "pending" /\ UNCHANGED <<runState, apprState>>
        /\ \A t \in txns' : t \in txns \/ t.appr = a
    BY <1>3 DEF DecideRead, Opened, tables
  <2> QED
    BY <1>1, <1>2, <2>1 DEF ContractInv, DecidesAsked, DoomedWait, TornLeft
<1>4. ASSUME NEW t \in txns, DecideFlush(t)
      PROVE  ContractInv'
  <2>1. /\ UNCHANGED <<runState, apprState>>
        /\ \A u \in txns' : \E w \in txns : u.appr = w.appr
    BY <1>4, KnownRun DEF DecideFlush, Flushed, tables, Txn
  <2> QED
    BY <1>1, <1>2, <2>1 DEF ContractInv, DecidesAsked, DoomedWait, TornLeft
<1>5. ASSUME NEW t \in txns, DecideCommit(t)
      PROVE  ContractInv'
  <2> DEFINE r == apprRun[t.appr]
  <2>1. t \in Txn /\ t.appr \in Approvals /\ r \in Runs /\ t.pc = "flushed"
    BY <1>5, KnownRun DEF DecideCommit
  <2>2. txns' = {}
    <3>1. \A u \in txns : u.by = t.by
      BY KnownRun DEF OneDecider, Txn
    <3> QED
      BY <1>5, <3>1 DEF DecideCommit, HoldInv, OneTxnEach
  <2>3. /\ \A q \in Runs : q # r => runState'[q] = runState[q]
        /\ runState'[r] = RunAfter(t)
        /\ \A b \in Approvals : apprState'[b] = "pending" => apprState[b] = "pending"
    BY <1>5, <2>1 DEF DecideCommit, TypeOK, Txn
  <2>4. RunAfter(t) \in Waiting \cup {"pending"}
    BY <2>1 DEF RunAfter, HoldInv, DecidersInv, Waiting
  <2>5. DoomedWait'
    <3>1. reap.doomed \subseteq Runs
      BY DEF TypeOK
    <3> QED
      BY <1>1, <2>3, <2>4, <3>1 DEF ContractInv, DoomedWait
  <2>6. TornLeft'
    BY <1>1, <1>2, <2>2, <2>3 DEF ContractInv, TornLeft
  <2> QED
    BY <2>2, <2>5, <2>6 DEF ContractInv, DecidesAsked
<1>6. ASSUME NEW t \in txns, DecideAborts(t)
      PROVE  ContractInv'
  BY <1>1, <1>2, <1>6 DEF DecideAborts, tables, ContractInv, DecidesAsked, DoomedWait, TornLeft
<1> QED
  BY <1>3, <1>4, <1>5, <1>6 DEF Ask, Settle, Abort

LEMMA ContractReap ==
    ASSUME TypeOK, HoldInv, ContractInv, Reap \/ ReapFails \/ Crash
    PROVE  ContractInv'
<1>1. KeepDeltas /\ UNCHANGED <<txns, apprRun>>
  BY DEF Reap, ReapSelect, ReapLoad, ReapCommit, ReapFails, Crash, tables, KeepDeltas
<1>2. \A q \in Runs : Torn(q)' <=> Torn(q)
  BY <1>1 DEF KeepDeltas, Torn
<1>3. CASE ReapSelect \/ ReapFails \/ Crash
  BY <1>1, <1>2, <1>3 DEF ReapSelect, ReapFails, Crash, tables, Idle, ContractInv, DecidesAsked,
                          DoomedWait, TornLeft
<1>4. ASSUME NEW a \in Approvals, ReapLoad(a)
      PROVE  ContractInv'
  <2>1. /\ disp.pc = "reaping" /\ a \in reap.rows /\ UNCHANGED <<runState, apprState, disp>>
        /\ reap'.rows = reap.rows
    BY <1>4 DEF ReapLoad, TypeOK, tables
  <2>2. \A r \in reap'.doomed :
            r \in reap.doomed \/ (r = apprRun[a] /\ runState[r] = "awaiting_approval")
    BY <1>4 DEF ReapLoad, TypeOK
  <2>3. DoomedWait'
    BY <1>1, <2>1, <2>2 DEF ContractInv, DoomedWait, Waiting
  <2> QED
    BY <1>1, <1>2, <2>1, <2>3 DEF ContractInv, DecidesAsked, TornLeft
<1>5. CASE ReapCommit
  <2>1. /\ disp'.pc = "idle"
        /\ \A b \in Approvals : apprState'[b] = "expired" \/ apprState'[b] = apprState[b]
        /\ \A q \in Runs : runState'[q] = "failed" \/ runState'[q] = runState[q]
    BY <1>5 DEF ReapCommit, Idle
  <2>2. \A t \in txns : t.appr \in Approvals
    BY KnownRun
  <2>3. DecidesAsked' /\ DoomedWait' /\ TornLeft'
    BY <1>1, <1>2, <2>1, <2>2 DEF ContractInv, DecidesAsked, DoomedWait, TornLeft
  <2> QED
    BY <2>3 DEF ContractInv
<1> QED
  BY <1>3, <1>4, <1>5 DEF Reap

LEMMA ContractStep ==
    ASSUME OneDecider, TypeOK, HoldInv, ContractInv, [Next]_vars
    PROVE  ContractInv'
<1>1. CASE UNCHANGED vars \/ Operate \/ Pass
  BY <1>1 DEF vars, tables, Operate, SetMode, Pass, BecomeDue, ContractInv, DecidesAsked,
              DoomedWait, TornLeft, Torn
<1> QED
  BY <1>1, ContractTriggerDispatch, ContractFinish, ContractDecide, ContractReap DEF Next

LEMMA ContractInit == Init => ContractInv
BY DEF Init, Idle, NoRun, Runs, ContractInv, DecidesAsked, DoomedWait, TornLeft, Torn

LEMMA ContractCorrect ==
    ASSUME OneDecider
    PROVE  Spec => []ContractInv
<1>1. TypeOK /\ HoldInv /\ ContractInv /\ [Next]_vars => ContractInv'
  BY ContractStep
<1> QED
  BY <1>1, ContractInit, TypeCorrect, HoldCorrect, PTL DEF Spec

\* When deciders do not overlap: an agent's state is ahead of the outbox only
\* by a run that is recorded as failed or timed out, whatever fails.
THEOREM TornIsMarkedHolds ==
    ASSUME OneDecider
    PROVE  Spec => []TornIsMarked
<1>1. ContractInv => TornIsMarked
  BY DEF ContractInv, TornLeft, TornIsMarked
<1> QED
  BY <1>1, ContractCorrect, PTL

-----------------------------------------------------------------------------
(* The refinement.                                                         *)

LEMMA FinishRefines ==
    ASSUME TypeOK, HoldInv, Finish
    PROVE  Promise!Work \/ UNCHANGED Promise!cvars
<1>1. PICK r \in Runs :
        /\ Executing(r) /\ disp' = Idle /\ UNCHANGED <<runAgent, reap, txns>>
        /\ UNCHANGED tables \/ Nothing(r) \/ Whole(r) \/ Halves(r)
  BY Endings
<1>2. runState[r] = "running"
  BY <1>1 DEF Executing, HoldInv, ExecutingIsRunning
<1>3. ASSUME NEW A \in SUBSET Approvals, AskFor(r, A)
      PROVE  Promise!Asked(r, A)
  BY <1>3 DEF AskFor, Promise!Asked
<1>4. ASSUME KeepApprovals
      PROVE  Promise!Asked(r, {})
  BY <1>4 DEF KeepApprovals, Promise!Asked, TypeOK
<1>5. ASSUME NEW K, NEW E, ApplyDeltas(r, K, E)
      PROVE  Promise!Applied(r, K, E)
  BY <1>5 DEF ApplyDeltas, Fresh, Promise!Applied
<1>6. ASSUME NEW s, EndRun(r, s)
      PROVE  Promise!Move(r, "running", s)
  BY <1>2, <1>6 DEF EndRun, Promise!Move
<1>7. CASE UNCHANGED tables
  BY <1>7 DEF tables, Promise!cvars
<1>8. CASE Nothing(r)
  <2>1. Promise!GaveUp(r)
    BY <1>1, <1>6, <1>8 DEF Nothing, KeepDeltas, KeepApprovals, Promise!GaveUp, Promise!Ended,
                            Promise!NothingApplied, Promise!NothingAsked
  <2> QED
    BY <2>1 DEF Promise!Work
<1>9. CASE Whole(r)
  <2>1. PICK K \in SUBSET EventKeys :
          /\ ApplyDeltas(r, K, K)
          /\ \/ EndRun(r, "completed") /\ KeepApprovals
             \/ \E A \in SUBSET Approvals :
                  A # {} /\ EndRun(r, "awaiting_approval") /\ AskFor(r, A)
    BY <1>9 DEF Whole
  <2>2. \E A \in SUBSET Approvals : Promise!Succeeded(r, K, A)
    <3>1. CASE EndRun(r, "completed") /\ KeepApprovals
      <4>1. Promise!Succeeded(r, K, {})
        BY <1>1, <1>4, <1>5, <1>6, <2>1, <3>1 DEF Promise!Succeeded
      <4> QED
        BY <4>1
    <3>2. ASSUME NEW A \in SUBSET Approvals,
                 A # {}, EndRun(r, "awaiting_approval"), AskFor(r, A)
          PROVE  Promise!Succeeded(r, K, A)
      BY <1>1, <1>3, <1>5, <1>6, <2>1, <3>2 DEF Promise!Succeeded
    <3> QED
      BY <2>1, <3>1, <3>2
  <2> QED
    BY <2>2 DEF Promise!Work
<1>10. CASE Halves(r)
  <2>1. PICK K \in SUBSET EventKeys, E \in SUBSET EventKeys, s \in {"failed", "timed_out"} :
          /\ E \subseteq K
          /\ ApplyDeltas(r, K, E)
          /\ EndRun(r, s)
          /\ \/ KeepApprovals
             \/ \E A \in SUBSET Approvals : AskFor(r, A) /\ (A # {} => E = K)
    BY <1>10 DEF Halves
  <2>2. PICK A \in SUBSET Approvals : Promise!Asked(r, A) /\ (A # {} => E = K)
    <3>1. CASE KeepApprovals
      BY <1>4, <3>1
    <3>2. CASE \E A \in SUBSET Approvals : AskFor(r, A) /\ (A # {} => E = K)
      BY <1>3, <3>2
    <3> QED
      BY <2>1, <3>1, <3>2
  <2>3. Promise!CutShort(r, K, E, A)
    BY <1>1, <1>5, <1>6, <2>1, <2>2 DEF Promise!CutShort, Promise!Ended
  <2> QED
    BY <2>3 DEF Promise!Work
<1> QED
  BY <1>1, <1>7, <1>8, <1>9, <1>10

\* An answer: the decider's transaction, taken as the instant of its commit.
LEMMA DecideRefines ==
    ASSUME TypeOK, HoldInv, ContractInv, NEW t \in txns, DecideCommit(t)
    PROVE  Promise!Answers
<1> DEFINE a == t.appr
           r == apprRun[a]
<1>1. t \in Txn /\ a \in Approvals /\ r \in Runs /\ t.pc = "flushed"
  BY KnownRun DEF DecideCommit
<1>2. /\ runState[r] \in Waiting /\ t.seen \in Waiting
      /\ runState[r] = "awaiting_approval" => t.seen = "awaiting_approval"
      /\ t.clear => t.verdict = "approved" /\ OtherPending(a) = {}
      /\ (t.verdict = "approved" /\ ~t.clear /\ runState[r] = "awaiting_approval")
            => OtherPending(a) # {}
  BY <1>1 DEF HoldInv, DecidersInv
<1>3. Promise!Open(r) \ {a} = OtherPending(a)
  BY DEF Promise!Open, OtherPending
<1>4. Promise!Settle(a, t.verdict)
  BY <1>1, <1>2 DEF DecideCommit, Promise!Settle, Promise!Waiting, Promise!Ended, Waiting,
                    Promise!NothingApplied, ContractInv, DecidesAsked
<1>5. runState' = [runState EXCEPT ![r] = RunAfter(t)]
  BY DEF DecideCommit
<1>6. RunAfter(t) = runState[r] => UNCHANGED runState
  BY <1>1, <1>5 DEF TypeOK
<1>7. CASE t.verdict = "denied"
  <2>1. RunAfter(t) = "failed" \/ (RunAfter(t) = runState[r] /\ runState[r] \in {"failed", "timed_out"})
    BY <1>2, <1>7 DEF RunAfter, Waiting
  <2>2. Promise!Denied(a)
    BY <1>4, <1>5, <1>6, <1>7, <2>1 DEF Promise!Denied, Promise!Ended
  <2> QED
    BY <1>1, <2>2 DEF Promise!Answers
<1>8. CASE t.verdict = "approved" /\ t.clear
  <2>1. RunAfter(t) = "pending"
    BY <1>2, <1>8 DEF RunAfter, Waiting
  <2>2. Promise!Granted(a)
    BY <1>2, <1>3, <1>4, <1>5, <1>8, <2>1 DEF Promise!Granted
  <2> QED
    BY <1>1, <2>2 DEF Promise!Answers
<1>9. CASE t.verdict = "approved" /\ ~t.clear
  <2>1. RunAfter(t) = runState[r]
    BY <1>9 DEF RunAfter
  <2>2. Promise!Open(r) \ {a} = {} => runState[r] \in Promise!Ended
    BY <1>2, <1>3, <1>9 DEF Promise!Ended, Waiting
  <2>3. Promise!Granted(a)
    BY <1>4, <1>6, <1>9, <2>1, <2>2 DEF Promise!Granted
  <2> QED
    BY <1>1, <2>3 DEF Promise!Answers
<1> QED
  BY <1>1, <1>7, <1>8, <1>9 DEF Txn

\* An expiry: the reaper's transaction, taken as the instant of its commit.
LEMMA ReapRefines ==
    ASSUME TypeOK, HoldInv, ContractInv, ReapCommit
    PROVE  Promise!Answers
<1>1. disp.pc = "reaping" /\ reap.todo = {}
  BY DEF ReapCommit
<1>2. /\ reap.rows \in SUBSET Approvals /\ reap.doomed \in SUBSET Runs
      /\ \A a \in reap.rows : apprState[a] # "absent"
  BY DEF TypeOK
<1>3. reap.doomed \subseteq {apprRun[a] : a \in reap.rows}
  BY <1>1 DEF ContractInv, DoomedWait
<1>4. \A r \in reap.doomed : runState[r] \in Promise!Waiting \cup {"pending"}
  BY <1>1 DEF ContractInv, DoomedWait, Waiting, Promise!Waiting, Promise!Ended
<1>5. \A a \in reap.rows : runState[apprRun[a]] = "awaiting_approval"
                            => apprRun[a] \in reap.doomed
  BY <1>1 DEF HoldInv, ReaperInv
<1>6. Promise!Lapsed(reap.rows, reap.doomed)
  BY <1>2, <1>3, <1>4, <1>5 DEF ReapCommit, Promise!Lapsed, Promise!NothingApplied
<1> QED
  BY <1>2, <1>6 DEF Promise!Answers

\* Each step of the runtime is one step of the contract, or none.
LEMMA StepRefines ==
    ASSUME TypeOK, HoldInv, ContractInv, [Next]_vars
    PROVE  [Promise!Work \/ Promise!Answers]_(Promise!cvars)
<1>1. CASE UNCHANGED vars \/ Operate \/ Crash \/ Ask \/ Abort \/ Pass \/ ReapFails
  BY <1>1 DEF vars, tables, Operate, SetMode, Crash, Ask, DecideRead, Abort, DecideAborts,
              Pass, BecomeDue, ReapFails, Promise!cvars
<1>2. CASE Trigger
  <2>1. PICK r \in Runs, a \in Agents, p \in Priorities : CreateRun(r, a, p)
    BY <1>2 DEF Trigger
  <2>2. Promise!Triggered(r, a)
    BY <2>1 DEF CreateRun, Promise!Triggered, Promise!Move, Promise!NothingApplied,
                Promise!NothingAsked
  <2> QED
    BY <2>2 DEF Promise!Work
<1>3. CASE Dispatch
  <2>1. PICK r \in Runs : Claim(r) \/ ClaimOverBudget(r)
    BY <1>3 DEF Dispatch
  <2>2. runState[r] = "pending"
    BY <2>1 DEF Claim, ClaimOverBudget, Head, Claimable
  <2>3. Promise!Open(r) = {}
    BY <2>2, Undisturbed DEF Promise!Open, Waiting
  <2>4. Promise!Started(r) \/ Promise!OutOfBudget(r)
    BY <2>1, <2>2, <2>3 DEF Claim, ClaimOverBudget, Promise!Started, Promise!OutOfBudget,
                            Promise!Claimed, Promise!Move, Promise!NothingApplied,
                            Promise!NothingAsked
  <2> QED
    BY <2>4 DEF Promise!Work
<1>4. CASE \E t \in txns : DecideFlush(t)
  BY <1>4 DEF DecideFlush, tables, Promise!cvars
<1>5. CASE ReapSelect \/ \E a \in Approvals : ReapLoad(a)
  BY <1>5 DEF ReapSelect, ReapLoad, tables, Promise!cvars
<1> QED
  BY <1>1, <1>2, <1>3, <1>4, <1>5, FinishRefines, DecideRefines, ReapRefines
     DEF Next, Settle, Reap

LEMMA BeginningRefines == Init => Promise!Beginning
<1>1. (CHOOSE a \in Agents : TRUE) \in Agents
  BY SomeAgent
<1> QED
  BY <1>1 DEF Init, Promise!Beginning

\* When deciders do not overlap, runs, agents' states, outbox and approvals
\* change as RunContract says, through every fault: what the transactions of
\* deciders, reaper and dispatcher come to is one contract step each.
THEOREM ContractIsKept ==
    ASSUME OneDecider
    PROVE  Spec => KeepsContract
<1>1. TypeOK /\ HoldInv /\ ContractInv /\ [Next]_vars
        => [Promise!Work \/ Promise!Answers]_(Promise!cvars)
  BY StepRefines
<1> QED
  BY <1>1, BeginningRefines, ContractCorrect, TypeCorrect, HoldCorrect, PTL
     DEF Spec, KeepsContract, Promise!Contract
=============================================================================
