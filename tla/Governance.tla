----------------------------- MODULE Governance -----------------------------
(***************************************************************************)
(* What a run may spend: the budget buckets (budget/store.py), the         *)
(* preflight check in the dispatcher's claim (runtime/dispatcher.py) and   *)
(* the audited tool calls that charge the buckets (tools/invoker.py).      *)
(*                                                                         *)
(* One studio, one dispatcher task that executes one run at a time, and    *)
(* operators that set limits (budget-set of the CLI).  A transaction that  *)
(* looks rows up one by one, reading the clock for each, is one action per *)
(* lookup and one for the commit.  RunLifecycle has the rest of a run's    *)
(* life and of the queue; here any agent's run may be the next one.        *)
(***************************************************************************)
EXTENDS Naturals, Sequences, FiniteSets

CONSTANTS
    Agents,       \* the agents of the studio
    Studio,       \* the studio
    Operators,    \* who runs budget-set
    Settings,     \* who sets what in this instance
    Costs,        \* what one successful tool call costs, in cents
    MaxRuns,      \* bound: runs ever executed
    MaxCalls,     \* bound: tool calls of one execution
    MaxDay,       \* bound: days that pass
    MonthStart(_), \* the first day of the month of a day
    TopLimit,     \* the highest limit in Settings
    TopCost       \* the highest cost in Costs

Scopes  == {{a} : a \in Agents} \cup {{Studio}} \cup {{a, Studio} : a \in Agents}
Periods == {"day", "month"}

ASSUME StudioIsNoAgent == Studio \notin Agents /\ IsFiniteSet(Agents)
ASSUME KnownSettings ==
    Settings \subseteq [by : Operators, scope : Scopes, period : Periods,
                  limit : 0..TopLimit]
ASSUME KnownCosts == Costs \subseteq 0..TopCost
ASSUME Bounds == {MaxRuns, MaxCalls, MaxDay, TopLimit, TopCost} \subseteq Nat
ASSUME Calendar ==
    /\ \A d \in 0..MaxDay : MonthStart(d) \in 0..d
    /\ \A d \in 1..MaxDay : MonthStart(d) \in {MonthStart(d - 1), d}

VARIABLES
    day,        \* the UTC date
    budgets,    \* rows of budgets, in order of creation; since: what the
                \* scope's tool_calls cost before created_at
    ledger,     \* what the ok rows of tool_calls cost, by agent and in all
    runs,       \* how many runs were executed so far
    task,       \* the dispatcher: what it does, for which agent, calls left
    look,       \* the lookups of its transaction: to do, found, verdict
    edits       \* open budget-set transactions

vars == <<day, budgets, ledger, runs, task, look, edits>>

Bucket == [scope : Scopes, period : Periods, start : Nat, limit : 0..TopLimit,
           spent : Nat, since : Nat]
Edit   == [set : Settings, start : Nat, found : Nat, same : BOOLEAN]

NoTask == [pc |-> "idle", agent |-> {}, left |-> 0, cost |-> 0]
NoLook == [todo |-> <<>>, rows |-> {}, over |-> FALSE]

TypeOK ==
    /\ day \in 0..MaxDay
    /\ budgets \in Seq(Bucket)
    /\ ledger \in [Agents \cup {Studio} -> Nat]
    /\ runs \in 0..MaxRuns
    /\ task \in [pc : {"idle", "preflight", "working", "handling",
                       "recording", "raised"},
                 agent : SUBSET Agents, left : 0..MaxCalls,
                 cost : Costs \cup {0}]
    /\ task.agent \in IF task.pc = "idle" THEN {{}} ELSE {{a} : a \in Agents}
    /\ look \in [todo : Seq(Scopes \X Periods), rows : SUBSET DOMAIN budgets,
                over : BOOLEAN]
    /\ task.pc = "preflight" => runs < MaxRuns
    /\ task.pc \in {"handling", "recording"} => task.left < MaxCalls
    /\ task.pc \notin {"preflight", "recording"} => look = NoLook
    /\ edits \subseteq Edit
    /\ \A t \in edits : t.found \in {0} \cup DOMAIN budgets

Init ==
    /\ day = 0
    /\ budgets = <<>>
    /\ ledger = [a \in Agents \cup {Studio} |-> 0]
    /\ runs = 0
    /\ task = NoTask
    /\ look = NoLook
    /\ edits = {}

-----------------------------------------------------------------------------
\* Buckets.

\* _period_window: the first day of the period that holds today.
Start(p) == IF p = "day" THEN day ELSE MonthStart(day)

\* get_or_create_period, the SELECT: it creates nothing.
Found(s, p) ==
    {i \in DOMAIN budgets : /\ budgets[i].scope = s
                            /\ budgets[i].period = p
                            /\ budgets[i].start = Start(p)}

\* _applicable_budgets asks for these, in this order.
Lookups(a) ==
    << <<{a}, "day">>, <<{Studio}, "day">>, <<{a}, "month">>, <<{Studio}, "month">> >>

\* preflight_check with nothing to charge: what is spent exactly is not over.
Over(b) == b.spent > b.limit

\* What the audited calls of a scope cost so far.
Audited(s) ==
    IF Studio \in s THEN ledger[Studio] ELSE ledger[CHOOSE a \in s : TRUE]

Tick ==
    /\ day < MaxDay
    /\ day' = day + 1
    /\ UNCHANGED <<budgets, ledger, runs, task, look, edits>>

-----------------------------------------------------------------------------
\* Operators: ensure_budget.

\* The row the transaction will update, if there is one.
Matching(c) == Found(c.scope, c.period)

\* SELECT; two rows make scalar_one_or_none raise, and nothing happens.
EnsureRead(c) ==
    /\ \A t \in edits : t.set.by # c.by
    /\ Cardinality(Matching(c)) <= 1
    /\ LET i == IF Matching(c) = {} THEN 0 ELSE CHOOSE j \in Matching(c) : TRUE
       IN  edits' = edits \cup
             {[set |-> c, start |-> Start(c.period), found |-> i,
               same |-> i # 0 /\ budgets[i].limit = c.limit]}
    /\ UNCHANGED <<day, budgets, ledger, runs, task, look>>

NewBucket(t) ==
    [scope |-> t.set.scope, period |-> t.set.period, start |-> t.start,
     limit |-> t.set.limit, spent |-> 0, since |-> Audited(t.set.scope)]

\* The unique index on (agent, studio, period, start) holds only when none is
\* NULL: for a bucket of an agent and a studio, which nothing ever looks up.
Refused(t) ==
    /\ Cardinality(t.set.scope) = 2
    /\ \E i \in DOMAIN budgets : /\ budgets[i].scope = t.set.scope
                                 /\ budgets[i].period = t.set.period
                                 /\ budgets[i].start = t.start

\* UPDATE the limit if it differs from the one read, or INSERT; commit.
EnsureCommit(t) ==
    /\ edits' = edits \ {t}
    /\ budgets' = CASE t.found # 0 /\ t.same -> budgets
                    [] t.found # 0 /\ ~t.same ->
                         [budgets EXCEPT ![t.found].limit = t.set.limit]
                    [] t.found = 0 /\ Refused(t) -> budgets
                    [] OTHER -> Append(budgets, NewBucket(t))
    /\ UNCHANGED <<day, ledger, runs, task, look>>

-----------------------------------------------------------------------------
\* The dispatcher: the claiming transaction and its preflight check.

Claim(a) ==
    /\ task = NoTask
    /\ runs < MaxRuns
    /\ task' = [NoTask EXCEPT !.pc = "preflight", !.agent = {a}]
    /\ look' = [NoLook EXCEPT !.todo = Lookups(a)]
    /\ UNCHANGED <<day, budgets, ledger, runs, edits>>

\* Remembers the verdict on the last row only.
Seen_LastOnly(ids) ==
    [todo |-> Tail(look.todo), rows |-> look.rows \cup ids,
     over |-> \E i \in ids : Over(budgets[i])]

Seen(ids) ==
    [todo |-> Tail(look.todo), rows |-> look.rows \cup ids,
     over |-> look.over \/ \E i \in ids : Over(budgets[i])]

\* One lookup of _applicable_budgets, for the preflight check or for a charge.
LookUp ==
    /\ look.todo # <<>>
    /\ LET ids == Found(Head(look.todo)[1], Head(look.todo)[2])
       IN  Cardinality(ids) <= 1 /\ look' = Seen(ids)
    /\ UNCHANGED <<day, budgets, ledger, runs, task, edits>>

\* Two rows: MultipleResultsFound.  The claim rolls back and the run stays
\* pending; a charge takes the audit row with it, and the
\* exception leaves invoke_tool.
LookUpRaises ==
    /\ look.todo # <<>>
    /\ Cardinality(Found(Head(look.todo)[1], Head(look.todo)[2])) > 1
    /\ look' = NoLook
    /\ task' = IF task.pc = "preflight" THEN NoTask
               ELSE [task EXCEPT !.pc = "raised", !.cost = 0]
    /\ UNCHANGED <<day, budgets, ledger, runs, edits>>

\* Every bucket was looked up: the run executes, or ends as budget_exceeded.
Decide ==
    /\ task.pc = "preflight"
    /\ look.todo = <<>>
    /\ runs' = IF look.over THEN runs ELSE runs + 1
    /\ task' = IF look.over THEN NoTask
               ELSE [task EXCEPT !.pc = "working", !.left = MaxCalls]
    /\ look' = NoLook
    /\ UNCHANGED <<day, budgets, ledger, edits>>

-----------------------------------------------------------------------------
\* The execution: invoke_tool, as often as the workflow likes.

\* The tool is known, in the agent's tool_scope, and its arguments are valid:
\* the handler runs.
CallTool ==
    /\ task.pc = "working"
    /\ task.left > 0
    /\ task' = [task EXCEPT !.pc = "handling", !.left = @ - 1]
    /\ UNCHANGED <<day, budgets, ledger, runs, look, edits>>

\* A refused call (unknown tool, denied, invalid arguments) or a handler that
\* raised: an audit row that costs nothing.
RecordRefusal ==
    /\ \/ task.pc = "working" /\ task.left > 0
       \/ task.pc = "handling"
    /\ task' = [task EXCEPT !.pc = "working",
                            !.left = IF task.pc = "working" THEN @ - 1 ELSE @]
    /\ UNCHANGED <<day, budgets, ledger, runs, look, edits>>

\* The handler returned, at this cost; only a cost is charged.
HandlerReturns(c) ==
    /\ task.pc = "handling"
    /\ task' = [task EXCEPT !.pc = "recording", !.cost = c]
    /\ look' = [NoLook EXCEPT !.todo =
                   IF c > 0 THEN Lookups(CHOOSE a \in task.agent : TRUE) ELSE <<>>]
    /\ UNCHANGED <<day, budgets, ledger, runs, edits>>

\* Charges the first bucket found and returns.
Charged_First ==
    [i \in DOMAIN budgets |->
        IF i \in look.rows /\ \A j \in look.rows : i <= j
        THEN [budgets[i] EXCEPT !.spent = @ + task.cost] ELSE budgets[i]]

\* UPDATE budgets SET spent_cents = spent_cents + cents, row by row.
Charged ==
    [i \in DOMAIN budgets |->
        IF i \in look.rows THEN [budgets[i] EXCEPT !.spent = @ + task.cost]
        ELSE budgets[i]]

\* _record commits the audit row and the charges.
Record ==
    /\ task.pc = "recording"
    /\ look.todo = <<>>
    /\ ledger' = [a \in Agents \cup {Studio} |->
                     ledger[a] + (IF a \in task.agent \cup {Studio} THEN task.cost ELSE 0)]
    /\ budgets' = Charged
    /\ task' = [task EXCEPT !.pc = "working", !.cost = 0]
    /\ look' = NoLook
    /\ UNCHANGED <<day, runs, edits>>

\* Leaves the open lookups of a cancelled charge to the next run.
EndRun_KeepsLook ==
    /\ task.pc \in {"working", "handling", "recording", "raised"}
    /\ task' = NoTask
    /\ UNCHANGED <<day, budgets, ledger, runs, look, edits>>

\* The workflow is done, fails, or run_timeout_seconds cancels it wherever it
\* is: a call under way leaves neither an audit row nor a charge.
EndRun ==
    /\ task.pc \in {"working", "handling", "recording", "raised"}
    /\ task' = NoTask
    /\ look' = NoLook
    /\ UNCHANGED <<day, budgets, ledger, runs, edits>>

\* The process dies and is started again; a claim under way rolls back.
Crash ==
    /\ task # NoTask
    /\ task' = NoTask
    /\ look' = NoLook
    /\ UNCHANGED <<day, budgets, ledger, runs, edits>>

-----------------------------------------------------------------------------
Ensure   == \/ \E c \in Settings : EnsureRead(c)
            \/ \E t \in edits : EnsureCommit(t)
Dispatch == LookUp \/ LookUpRaises \/ Decide \/ \E a \in Agents : Claim(a)
Execute  == CallTool \/ RecordRefusal \/ Record \/ EndRun
              \/ \E c \in Costs : HandlerReturns(c)

Next == Tick \/ Ensure \/ Dispatch \/ Execute \/ Crash

Spec == Init /\ [][Next]_vars

-----------------------------------------------------------------------------
\* Properties.

\* "Pre-run preflight_check is the gate that refuses over-budget work"
\* (charge): accounting happens after the fact, but a bucket never exceeds
\* the highest limit it may have had by more than the calls of one execution,
\* however runs of several agents share it and whenever limits change.
OverspendBounded ==
    \A i \in DOMAIN budgets : budgets[i].spent <= TopLimit + MaxCalls * TopCost

\* The books match the audit log: a bucket never holds more than the calls
\* audited for its scope since it was created, and, while its period lasts, all
\* of them but the one that was being recorded when it was created.
BooksMatchLedger ==
    \A i \in DOMAIN budgets :
        LET b    == budgets[i]
            owed == Audited(b.scope) - b.since
        IN  /\ b.spent <= owed
            /\ Cardinality(b.scope) = 1 /\ b.start = Start(b.period)
                 => owed <= b.spent + TopCost

=============================================================================
