---------------------------- MODULE RunLifecycle ----------------------------
(***************************************************************************)
(* The life of an agent run: the triggers that enqueue it, the dispatcher  *)
(* that claims and executes it, the runner that persists its output, the   *)
(* human decisions that release or deny a parked run, and the reaper that  *)
(* expires the decisions nobody took.                                      *)
(*                                                                         *)
(* The variables are the committed rows of Postgres (agents.mode,          *)
(* agent_runs, approvals, agent_state, events) and what the three kinds of *)
(* process hold between two statements: the dispatcher loop (claim,        *)
(* execute and reap are one sequential task), the approval deciders (API,  *)
(* CLI, Slack: one transaction each, READ COMMITTED, no SELECT FOR UPDATE) *)
(* and nothing for the triggers, which are one transaction.                *)
(*                                                                         *)
(* A transaction whose effects become visible in one commit is one action; *)
(* a transaction that reads, lets others commit, and then writes what it   *)
(* computed from the read is one action per read and one for the commit.   *)
(***************************************************************************)
EXTENDS Naturals, FiniteSets

CONSTANTS
    MaxRuns,      \* bound: how many runs are ever triggered
    Agents,       \* agents of the studios
    Modes,        \* the agent modes operators use in this instance
    Priorities,   \* the run priorities triggers use in this instance
    Approvals,    \* bound: the approval rows that may ever be inserted
    MaxAsk,       \* bound: approvals one execution asks for
    MayExpire,    \* {TRUE}: every approval has expires_at; {FALSE}: none; both
    Deciders,     \* concurrent decide_approval transactions
    EventKeys,    \* what tells the idempotency keys of one run's events apart
    Faults        \* the things that go wrong in this instance

AllModes  == {"normal", "degraded", "paused", "emergency"}
AllFaults == {"crash", "db_error", "timeout", "late_timeout", "bad_event"}

ASSUME RunBound         == MaxRuns \in Nat
ASSUME SomeAgent        == Agents # {}
ASSUME AskBound         == MaxAsk \in Nat
ASSUME ApprovalsFinite  == IsFiniteSet(Approvals)
ASSUME KnownModes       == Modes \subseteq AllModes
ASSUME NumericPriority  == Priorities \subseteq Nat
ASSUME ExpiryChoice     == MayExpire \subseteq BOOLEAN
ASSUME KnownFaults      == Faults \subseteq AllFaults

Runs   == 1..MaxRuns      \* in order of created_at
NoRun  == 0
HighPriority == 20        \* the most a degraded agent still serves

FinalStates == {"completed", "failed", "timed_out", "budget_exceeded"}
RunStates   == {"absent", "pending", "running", "awaiting_approval"}
                 \cup FinalStates
ApprovalStates == {"absent", "pending", "approved", "denied", "expired"}

VARIABLES
    agentMode,    \* agents.mode
    lastRun,      \* agent_state.last_run_id: whose delta the state holds
    runState,     \* agent_runs.state
    runAgent,     \* agent_runs.agent_id
    runPrio,      \* agent_runs.priority
    output,       \* the events of agent_runs.output_snapshot, by key
    events,       \* rows of the events table (the outbox): <<run, key>>
    apprState,    \* approvals.state
    apprRun,      \* approvals.run_id
    apprExpiry,   \* expires_at against the clock: never, later or due
    disp,         \* dispatcher task: what it is doing, on which run
    reap,         \* the reaper's rows, those it has not looked at, its verdicts
    txns          \* open decide_approval transactions, at most one per decider

tables == <<agentMode, lastRun, runState, runAgent, runPrio, output, events,
            apprState, apprRun, apprExpiry>>
vars   == <<tables, disp, reap, txns>>

NoReap == [rows |-> {}, todo |-> {}, doomed |-> {}]

Txn == [by : Deciders, appr : Approvals, verdict : {"approved", "denied"},
        pc : {"read", "flushed"}, seen : RunStates, clear : BOOLEAN]

TypeOK ==
    /\ agentMode \in [Agents -> AllModes]
    /\ lastRun \in [Agents -> Runs \cup {NoRun}]
    /\ runState \in [Runs -> RunStates]
    /\ runAgent \in [Runs -> Agents]
    /\ runPrio \in [Runs -> Nat]
    /\ output \in [Runs -> SUBSET EventKeys]
    /\ events \subseteq Runs \X EventKeys
    /\ apprState \in [Approvals -> ApprovalStates]
    /\ apprRun \in [Approvals -> Runs \cup {NoRun}]
    /\ \A a \in Approvals : apprState[a] # "absent" => apprRun[a] \in Runs
    /\ apprExpiry \in [Approvals -> {"never", "later", "due"}]
    /\ disp \in [pc : {"idle", "executing", "reaping"}, run : Runs \cup {NoRun}]
    /\ disp.pc = "executing" => disp.run \in Runs
    /\ reap \in [rows : SUBSET Approvals, todo : SUBSET Approvals,
                 doomed : SUBSET Runs]
    /\ txns \subseteq Txn
    /\ reap.todo \subseteq reap.rows
    /\ \A a \in reap.rows : apprState[a] # "absent"
    /\ \A t \in txns : apprState[t.appr] # "absent"

Idle == [pc |-> "idle", run |-> NoRun]

Init ==
    /\ agentMode \in [Agents -> Modes]
    /\ lastRun = [a \in Agents |-> NoRun]
    /\ runState = [r \in Runs |-> "absent"]
    /\ runAgent = [r \in Runs |-> CHOOSE a \in Agents : TRUE]
    /\ runPrio = [r \in Runs |-> 0]
    /\ output = [r \in Runs |-> {}]
    /\ events = {}
    /\ apprState = [a \in Approvals |-> "absent"]
    /\ apprRun = [a \in Approvals |-> NoRun]
    /\ apprExpiry = [a \in Approvals |-> "never"]
    /\ disp = Idle
    /\ reap = NoReap
    /\ txns = {}

-----------------------------------------------------------------------------
\* Agents and triggers.

\* Seeding the studios (or an operator's UPDATE) sets an agent's mode.
SetMode(a, m) ==
    /\ agentMode[a] # m
    /\ agentMode' = [agentMode EXCEPT ![a] = m]
    /\ UNCHANGED <<lastRun, runState, runAgent, runPrio, output, events,
                   apprState, apprRun, apprExpiry, disp, reap, txns>>

\* create_pending_run: refused for a paused agent; nothing else is checked,
\* in particular not whether the agent already has a pending run.
CreateRun(r, a, p) ==
    /\ runState[r] = "absent"
    /\ \A s \in Runs : s < r => runState[s] # "absent"
    /\ agentMode[a] # "paused"
    /\ runState' = [runState EXCEPT ![r] = "pending"]
    /\ runAgent' = [runAgent EXCEPT ![r] = a]
    /\ runPrio' = [runPrio EXCEPT ![r] = p]
    /\ UNCHANGED <<agentMode, lastRun, output, events, apprState, apprRun,
                   apprExpiry, disp, reap, txns>>

-----------------------------------------------------------------------------
\* The dispatcher: claim_next_run and the first transaction of dispatch_once.

Claimable(r) ==
    runState[r] = "pending" /\ agentMode[runAgent[r]] # "paused"

\* Mutant of Before: the queue is in the order of arrival.
Before_ArrivalOnly(r, s) == r < s

\* ORDER BY priority, created_at.
Before(r, s) ==
    runPrio[r] < runPrio[s] \/ (runPrio[r] = runPrio[s] /\ r < s)

Head(r) ==
    Claimable(r) /\ \A s \in Runs \ {r} : Claimable(s) => Before(r, s)

\* The degraded filter looks at the head alone, after the LIMIT 1.
HeldByMode(r) ==
    agentMode[runAgent[r]] = "degraded" /\ runPrio[r] > HighPriority

Claim(r) ==
    /\ disp = Idle
    /\ Head(r)
    /\ ~HeldByMode(r)
    /\ runState' = [runState EXCEPT ![r] = "running"]
    /\ disp' = [pc |-> "executing", run |-> r]
    /\ UNCHANGED <<agentMode, lastRun, runAgent, runPrio, output, events,
                   apprState, apprRun, apprExpiry, reap, txns>>

\* The preflight check, in the claiming transaction, found the budget spent.
ClaimOverBudget(r) ==
    /\ disp = Idle
    /\ Head(r)
    /\ ~HeldByMode(r)
    /\ runState' = [runState EXCEPT ![r] = "budget_exceeded"]
    /\ UNCHANGED <<agentMode, lastRun, runAgent, runPrio, output, events,
                   apprState, apprRun, apprExpiry, disp, reap, txns>>

-----------------------------------------------------------------------------
\* The second transaction of dispatch_once: execute_run and what follows it.

Executing(r) == disp = [pc |-> "executing", run |-> r]

\* The transaction ends: the run is in state s, the task goes on to its loop.
EndRun(r, s) ==
    /\ Executing(r)
    /\ runState' = [runState EXCEPT ![r] = s]
    /\ disp' = Idle
    /\ UNCHANGED <<agentMode, runAgent, runPrio, reap, txns>>

\* uq_events_idempotency: none of these keys is in the table yet.
Fresh(r, E) == ({r} \X E) \cap events = {}

\* The output K is recorded and the agent's state updated; of its events
\* those in E reach the outbox.
ApplyDeltas(r, K, E) ==
    /\ Fresh(r, E)
    /\ output' = [output EXCEPT ![r] = K]
    /\ lastRun' = [lastRun EXCEPT ![runAgent[r]] = r]
    /\ events' = events \cup ({r} \X E)

KeepDeltas    == UNCHANGED <<output, lastRun, events>>
KeepApprovals == UNCHANGED <<apprState, apprRun, apprExpiry>>

\* Mutant of AskFor: the rows are inserted without their run.
AskFor_NoRun(r, A) ==
    /\ \A a \in A : apprState[a] = "absent"
    /\ apprState' = [a \in Approvals |->
                        IF a \in A THEN "pending" ELSE apprState[a]]
    /\ UNCHANGED <<apprRun, apprExpiry>>

\* create_approval for each row of A.
AskFor(r, A) ==
    /\ \A a \in A : apprState[a] = "absent"
    /\ apprState' = [a \in Approvals |->
                        IF a \in A THEN "pending" ELSE apprState[a]]
    /\ apprRun' = [a \in Approvals |-> IF a \in A THEN r ELSE apprRun[a]]
    /\ \E X \in SUBSET A :
        /\ \A a \in A : (a \in X) \in MayExpire
        /\ apprExpiry' = [a \in Approvals |->
                            IF a \in X THEN "later" ELSE apprExpiry[a]]

Complete(r, K) ==
    /\ EndRun(r, "completed")
    /\ ApplyDeltas(r, K, K)
    /\ KeepApprovals

Park(r, K, A) ==
    /\ A # {}
    /\ Cardinality(A) <= MaxAsk
    /\ EndRun(r, "awaiting_approval")
    /\ ApplyDeltas(r, K, K)
    /\ AskFor(r, A)

\* The workflow raised: the run fails and nothing it computed is kept.
WorkflowFails(r) ==
    /\ EndRun(r, "failed")
    /\ KeepDeltas
    /\ KeepApprovals

\* run_timeout_seconds passed inside the workflow.
WorkflowTimesOut(r) ==
    /\ "timeout" \in Faults
    /\ EndRun(r, "timed_out")
    /\ KeepDeltas
    /\ KeepApprovals

\* An event of the output fails its schema: the exception leaves execute_run
\* after the state delta and the events before it were added to the session,
\* and dispatch_once commits that session.
RejectEvent(r, K, E) ==
    /\ "bad_event" \in Faults
    /\ E \subseteq K
    /\ E # K
    /\ EndRun(r, "failed")
    /\ ApplyDeltas(r, K, E)
    /\ KeepApprovals

\* run_timeout_seconds passed while execute_run persists the output: while it
\* embeds a memory (no event added yet) or between two approvals.
TimeOutPersisting(r, K, E, A) ==
    /\ "late_timeout" \in Faults
    /\ \/ E = {} /\ A = {}
       \/ E = K /\ Cardinality(A) < MaxAsk
    /\ EndRun(r, "timed_out")
    /\ ApplyDeltas(r, K, E)
    /\ AskFor(r, A)

\* Mutant of LoseSession: the agent's state was committed on its own.
LoseSession_StateFirst(r, K) ==
    /\ Executing(r)
    /\ ~Fresh(r, K) \/ Faults \cap {"db_error", "late_timeout"} # {}
    /\ disp' = Idle
    /\ output' = [output EXCEPT ![r] = K]
    /\ lastRun' = [lastRun EXCEPT ![runAgent[r]] = r]
    /\ UNCHANGED <<agentMode, runState, runAgent, runPrio, events, apprState,
                   apprRun, apprExpiry, reap, txns>>

\* A flush failed, because the output K holds a key already in the table, or
\* the connection did, on its own or cancelled in the middle of a statement:
\* the handler's own UPDATE then raises too, the transaction rolls back, and
\* dispatch_loop logs the exception.
LoseSession(r, K) ==
    /\ Executing(r)
    /\ ~Fresh(r, K) \/ Faults \cap {"db_error", "late_timeout"} # {}
    /\ disp' = Idle
    /\ UNCHANGED <<tables, reap, txns>>

\* The runtime process dies and is started again; nothing looks for the run
\* it was executing.
Crash ==
    /\ "crash" \in Faults
    /\ disp # Idle
    /\ disp' = Idle
    /\ reap' = NoReap
    /\ UNCHANGED <<tables, txns>>

-----------------------------------------------------------------------------
\* Deciders: decide_approval.

Busy(d) == \E t \in txns : t.by = d

\* The row lock the UPDATE of an approval holds until its transaction ends.
Locked(a) == \E t \in txns : t.appr = a /\ t.pc = "flushed"

Opened(d, a, v) ==
    [by |-> d, appr |-> a, verdict |-> v, pc |-> "read",
     seen |-> "absent", clear |-> FALSE]

\* SELECT the approval; anything but a pending one is refused.
DecideRead(d, a, v) ==
    /\ ~Busy(d)
    /\ apprState[a] = "pending"
    /\ txns' = txns \cup {Opened(d, a, v)}
    /\ UNCHANGED <<tables, disp, reap>>

\* Mutants of OtherPending: the siblings are not looked at; the query runs
\* before the flush and finds the approval itself.
OtherPending_Unread(a) == {}

OtherPending_WithSelf(a) ==
    {b \in Approvals : apprRun[b] = apprRun[a] /\ apprState[b] = "pending"}

OtherPending(a) ==
    {b \in Approvals \ {a} : apprRun[b] = apprRun[a] /\ apprState[b] = "pending"}

Flushed(t) ==
    [t EXCEPT !.pc = "flushed",
              !.seen = runState[apprRun[t.appr]],
              !.clear = (t.verdict = "approved" /\ OtherPending(t.appr) = {})]

\* UPDATE the approval (waiting for its row lock, not for what it says now),
\* then SELECT the run and, for an approval, its pending siblings.
DecideFlush(t) ==
    /\ t.pc = "read"
    /\ ~Locked(t.appr)
    /\ txns' = (txns \ {t}) \cup {Flushed(t)}
    /\ UNCHANGED <<tables, disp, reap>>

\* Mutant of RunAfter: a denial re-enqueues the run as an approval does.
RunAfter_DenialRequeues(t) ==
    IF t.verdict = "denied" \/ t.clear THEN "pending"
                                      ELSE runState[apprRun[t.appr]]

\* What the transaction makes of the run; the ORM writes an attribute only
\* when it differs from the value loaded.
RunAfter(t) ==
    LET wanted == CASE t.verdict = "denied" -> "failed"
                    [] t.clear -> "pending"
                    [] OTHER -> t.seen
    IN  IF wanted = t.seen THEN runState[apprRun[t.appr]] ELSE wanted

DecideCommit(t) ==
    /\ t.pc = "flushed"
    /\ txns' = txns \ {t}
    /\ apprState' = [apprState EXCEPT ![t.appr] = t.verdict]
    /\ runState' = [runState EXCEPT ![apprRun[t.appr]] = RunAfter(t)]
    /\ UNCHANGED <<agentMode, lastRun, runAgent, runPrio, output, events,
                   apprRun, apprExpiry, disp, reap>>

\* The transaction rolls back: its process died, or the database chose it.
DecideAborts(t) ==
    /\ Faults \cap {"crash", "db_error"} # {}
    /\ txns' = txns \ {t}
    /\ UNCHANGED <<tables, disp, reap>>

-----------------------------------------------------------------------------
\* The reaper: expire_stale, called by the dispatcher loop between two runs.

\* The clock reaches expires_at.
BecomeDue(a) ==
    /\ apprExpiry[a] = "later"
    /\ apprExpiry' = [apprExpiry EXCEPT ![a] = "due"]
    /\ UNCHANGED <<agentMode, lastRun, runState, runAgent, runPrio, output,
                   events, apprState, apprRun, disp, reap, txns>>

Stale == {a \in Approvals : apprState[a] = "pending" /\ apprExpiry[a] = "due"}

ReapSelect ==
    /\ disp = Idle
    /\ Stale # {}
    /\ disp' = [pc |-> "reaping", run |-> NoRun]
    /\ reap' = [rows |-> Stale, todo |-> Stale, doomed |-> {}]
    /\ UNCHANGED <<tables, txns>>

\* Mutant of ReapLoad: the row expires, its run is left parked.
ReapLoad_RowOnly(a) ==
    /\ disp.pc = "reaping"
    /\ a \in reap.todo
    /\ reap' = [reap EXCEPT !.todo = @ \ {a}]
    /\ UNCHANGED <<tables, disp, txns>>

\* SELECT the run of one row; a run already loaded is not read again.
ReapLoad(a) ==
    /\ disp.pc = "reaping"
    /\ a \in reap.todo
    /\ LET r == apprRun[a]
           loaded == \E b \in reap.rows \ reap.todo : apprRun[b] = r
           fails == ~loaded /\ runState[r] = "awaiting_approval"
       IN  reap' = [reap EXCEPT !.todo = @ \ {a},
                                !.doomed = @ \cup (IF fails THEN {r} ELSE {})]
    /\ UNCHANGED <<tables, disp, txns>>

\* The flush and the commit: every row is written, whatever it says by now.
ReapCommit ==
    /\ disp.pc = "reaping"
    /\ reap.todo = {}
    /\ \A a \in reap.rows : ~Locked(a)
    /\ apprState' = [a \in Approvals |->
                        IF a \in reap.rows THEN "expired" ELSE apprState[a]]
    /\ runState' = [r \in Runs |->
                       IF r \in reap.doomed THEN "failed" ELSE runState[r]]
    /\ disp' = Idle
    /\ reap' = NoReap
    /\ UNCHANGED <<agentMode, lastRun, runAgent, runPrio, output, events,
                   apprRun, apprExpiry, txns>>

\* The reaper's transaction rolls back; dispatch_loop logs the exception.
ReapFails ==
    /\ "db_error" \in Faults
    /\ disp.pc = "reaping"
    /\ disp' = Idle
    /\ reap' = NoReap
    /\ UNCHANGED <<tables, txns>>

-----------------------------------------------------------------------------
Trigger == \E r \in Runs, a \in Agents, p \in Priorities : CreateRun(r, a, p)
Operate == \E a \in Agents, m \in Modes : SetMode(a, m)

Dispatch == \E r \in Runs : Claim(r) \/ ClaimOverBudget(r)

Finish ==
    \E r \in Runs :
        \/ WorkflowFails(r)
        \/ WorkflowTimesOut(r)
        \/ \E K \in SUBSET EventKeys :
            \/ Complete(r, K)
            \/ LoseSession(r, K)
            \/ \E A \in SUBSET Approvals : Park(r, K, A)
            \/ \E E \in SUBSET K :
                \/ RejectEvent(r, K, E)
                \/ \E A \in SUBSET Approvals : TimeOutPersisting(r, K, E, A)

Ask    == \E d \in Deciders, a \in Approvals, v \in {"approved", "denied"} :
            DecideRead(d, a, v)
Settle == \E t \in txns : DecideFlush(t) \/ DecideCommit(t)
Abort  == \E t \in txns : DecideAborts(t)

Pass   == \E a \in Approvals : BecomeDue(a)
Reap   == ReapSelect \/ ReapCommit \/ \E a \in Approvals : ReapLoad(a)

Next == Trigger \/ Operate \/ Dispatch \/ Finish \/ Crash
          \/ Ask \/ Settle \/ Abort \/ Pass \/ Reap \/ ReapFails

Spec == Init /\ [][Next]_vars

\* The runtime's loop never stops taking steps, an execution ends (wait_for
\* bounds it), time passes, an open transaction goes on. Nobody has to
\* trigger, decide or change a mode.
Fairness ==
    /\ WF_vars(Dispatch)
    /\ WF_vars(Finish)
    /\ WF_vars(Reap)
    /\ WF_vars(Settle)
    /\ WF_vars(Pass)

FairSpec == Spec /\ Fairness
-----------------------------------------------------------------------------
\* Properties.

PendingOf(r) ==
    {a \in Approvals : apprState[a] = "pending" /\ apprRun[a] = r}

\* A run the dispatcher may take, or has taken, waits for nobody: "its
\* approvals rows must be settled before the run is re-enqueued"
\* (approvals/store.py). The claim never looks at the approvals, so this
\* rests on what decide_approval and expire_stale read.
SettledBeforeRequeue ==
    \A r \in Runs :
        runState[r] \in {"pending", "running", "completed"} => PendingOf(r) = {}

\* A parked run has somebody to wait for: the last decision or the reaper
\* releases it or fails it. No other code ever looks at a parked run, so one
\* without a pending approval is parked for good (decide_approval looks for
\* siblings, expire_stale for rows).
NoLostWakeup ==
    \A r \in Runs : runState[r] = "awaiting_approval" => PendingOf(r) # {}

\* The inductive invariant behind the two: what each process in the middle of
\* a transaction may rely on, when one decider is at work at a time.
Waiting == {"awaiting_approval", "failed", "timed_out"}

OneTxnEach == \A t, u \in txns : t.by = u.by => t = u

ApprovalsWait ==
    \A a \in Approvals : apprState[a] = "pending" => runState[apprRun[a]] \in Waiting

ExecutingIsRunning == disp.pc = "executing" => runState[disp.run] = "running"

\* While a decision is under way its run cannot be claimed, so what the
\* transaction read of the run and of the siblings cannot turn against it.
DecidersInv ==
    \A t \in txns :
        /\ runState[apprRun[t.appr]] \in Waiting
        /\ t.pc = "flushed" =>
            /\ t.seen \in Waiting
            /\ runState[apprRun[t.appr]] = "awaiting_approval"
                => t.seen = "awaiting_approval"
            /\ t.clear => t.verdict = "approved" /\ OtherPending(t.appr) = {}
            /\ /\ t.verdict = "approved" /\ ~t.clear
               /\ runState[apprRun[t.appr]] = "awaiting_approval"
               => OtherPending(t.appr) # {}

\* The reaper fails every run that is still parked on one of its rows.
ReaperInv ==
    /\ disp.pc # "reaping" => reap.rows = {}
    /\ \A a \in reap.rows \ reap.todo :
        runState[apprRun[a]] = "awaiting_approval" => apprRun[a] \in reap.doomed

HoldInv ==
    /\ OneTxnEach
    /\ ApprovalsWait
    /\ NoLostWakeup
    /\ ExecutingIsRunning
    /\ DecidersInv
    /\ ReaperInv

\* "State and events commit together" (dispatch_once; README.md: "state updates
\* and event publish are atomic"): when the agent's state holds the delta of a
\* run, every event of that run's output is in the outbox.
Torn(r) ==
    /\ \E a \in Agents : lastRun[a] = r
    /\ ~({r} \X output[r] \subseteq events)

StateAndEventsAtomic == \A r \in Runs : ~Torn(r)

\* What the runtime keeps of it: the handlers of dispatch_once commit a session
\* that execute_run left half filled, but whoever meets an agent's state with
\* the delta of a run and without its events finds that run failed or timed
\* out, for good: no decision brings it back and no dispatcher claims it.
TornIsMarked ==
    \A r \in Runs : Torn(r) => runState[r] \in {"failed", "timed_out"}

\* "Errors are captured on the run record" (runtime/runner.py): whenever the
\* dispatcher is between two runs, none is left running.
ErrorsCaptured ==
    disp.pc # "executing" => \A r \in Runs : runState[r] # "running"

\* The filter of a degraded agent looks at the head of the queue after the
\* LIMIT 1, and a head it holds back hides every run behind it. Those of high
\* priority are never behind one: each of them ends, though it may park, though
\* nobody ever decides and whichever modes the agents move between
\* (run_timeout_seconds ends an execution, expire_stale a hold).
HighRunsEnd ==
    \A r \in Runs :
        (runState[r] = "pending" /\ runPrio[r] <= HighPriority)
            ~> runState[r] \in FinalStates

\* The others end as well once no head is held any more, and then whatever was
\* queued behind one.
QueueHeld == \E r \in Runs : Head(r) /\ HeldByMode(r)

EveryRunEnds ==
    <>[]~QueueHeld =>
        \A r \in Runs : runState[r] = "pending" ~> runState[r] \in FinalStates

\* The tables of the runs, the agents' states, the outbox and the approvals are
\* what a reader sees.
Promise == INSTANCE RunContract WITH
    state <- runState, owner <- runAgent, outcome <- output,
    applied <- lastRun, published <- events,
    asker <- apprRun, answer <- apprState

\* The runtime keeps the contract of a run (RunContract), through every fault,
\* as long as one decider is at work at a time: the transactions of deciders
\* and reaper, which read, let others commit and then write, come to the same
\* as answers and expiries that happen at one instant.
KeepsContract == Promise!Contract

=============================================================================
