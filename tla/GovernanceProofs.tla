-------------------------- MODULE GovernanceProofs --------------------------
(***************************************************************************)
(* What is proved of Governance for every number of agents, operators,     *)
(* runs and calls, every set of settings and costs, and every calendar:    *)
(* no bucket ever exceeds the highest limit by more than what one          *)
(* execution may cost, and the buckets agree with the audited calls.       *)
(***************************************************************************)
EXTENDS Governance, FiniteSetTheorems, TLAPS

\* How far a bucket may be charged.
Bound == TopLimit + MaxCalls * TopCost

Executing == task.pc \in {"working", "handling", "recording"}

\* What the execution under way may still charge to a bucket.
Rest == CASE task.pc = "handling"  -> task.left * TopCost + TopCost
          [] task.pc = "recording" -> task.left * TopCost + task.cost
          [] OTHER -> task.left * TopCost

\* The current run's own buckets, of the period that holds today.
Chargeable(i) ==
    /\ budgets[i].scope \in {task.agent, {Studio}}
    /\ budgets[i].start = Start(budgets[i].period)

\* Bucket i was looked up, or came too late to be.
LookedUp(i) ==
    \A k \in DOMAIN look.todo :
        look.todo[k] # <<budgets[i].scope, budgets[i].period>>


\* No bucket belongs to a period that has not begun.
Begun ==
    /\ \A i \in DOMAIN budgets : budgets[i].start <= day
    /\ \A t \in edits : t.start <= day

\* Only the current run's own buckets are looked up.
OwnLookups == \A k \in DOMAIN look.todo : look.todo[k][1] \in {task.agent, {Studio}}

SpentBounded == \A i \in DOMAIN budgets : budgets[i].spent <= Bound

\* What a preflight check passed so far is within the highest limit.
PreflightBounded ==
    task.pc = "preflight" /\ ~look.over =>
        \A i \in DOMAIN budgets :
            Chargeable(i) /\ LookedUp(i) => budgets[i].spent <= TopLimit

\* The buckets the run may charge have room for the rest of its execution.
ExecutionBounded ==
    Executing =>
        \A i \in DOMAIN budgets :
            Chargeable(i) \/ i \in look.rows => budgets[i].spent + Rest <= Bound

BoundInv ==
    TypeOK /\ Begun /\ OwnLookups /\ SpentBounded /\ PreflightBounded /\ ExecutionBounded

-----------------------------------------------------------------------------
\* Arithmetic.

LEMMA Times ==
    ASSUME NEW m \in Nat, NEW n \in Nat, NEW c \in Nat
    PROVE  /\ m * c \in Nat
           /\ (m + 1) * c = m * c + c
           /\ m <= n => m * c <= n * c
<1>1. m * c \in Nat /\ (m + 1) * c = m * c + c
  OBVIOUS
<1>2. ASSUME m <= n PROVE m * c <= n * c
  <2>1. PICK d \in Nat : n = m + d
    BY <1>2
  <2>2. (m + d) * c = m * c + d * c /\ d * c \in Nat
    OBVIOUS
  <2>3. QED
    BY <2>1, <2>2, <1>1
<1>3. QED
  BY <1>1, <1>2

LEMMA Months ==
    ASSUME NEW d \in 0..MaxDay
    PROVE  /\ d + 1 \in 0..MaxDay => MonthStart(d + 1) \in {MonthStart(d), d + 1}
<1>1. SUFFICES ASSUME d + 1 \in 0..MaxDay
               PROVE  MonthStart(d + 1) \in {MonthStart(d), d + 1}
  OBVIOUS
<1>2. d + 1 \in 1..MaxDay /\ (d + 1) - 1 = d
  BY <1>1, Bounds
<1>3. QED
  BY <1>2, Calendar

-----------------------------------------------------------------------------
\* Type correctness, one lemma for each kind of step.

LEMMA TypeInit == Init => TypeOK
<1>1. SUFFICES ASSUME Init PROVE TypeOK
  OBVIOUS
<1>2. DOMAIN budgets = {} /\ budgets \in Seq(Bucket)
  BY <1>1 DEF Init
<1>3. look \in [todo : Seq(Scopes \X Periods), rows : SUBSET DOMAIN budgets,
               over : BOOLEAN]
  BY <1>1 DEF Init, NoLook
<1>4. QED
  BY <1>1, <1>2, <1>3, Bounds DEF Init, TypeOK, NoTask, NoLook

\* The days of a period's start.
LEMMA StartIsDay ==
    ASSUME TypeOK, NEW p \in Periods
    PROVE  Start(p) \in Nat
<1>1. QED
  BY Calendar, Bounds DEF TypeOK, Start, Periods

\* The lookups are over scopes and periods, in this order.
LEMMA LookupsTyped ==
    ASSUME NEW a \in Agents
    PROVE  /\ Lookups(a) \in Seq(Scopes \X Periods)
           /\ DOMAIN Lookups(a) = 1..4
           /\ \A k \in 1..4 : Lookups(a)[k][1] \in {{a}, {Studio}}
           /\ \A s \in {{a}, {Studio}}, p \in Periods :
                \E k \in 1..4 : Lookups(a)[k] = <<s, p>>
<1>1. {a} \in Scopes /\ {Studio} \in Scopes
  BY DEF Scopes
<1>2. "day" \in Periods /\ "month" \in Periods
  BY DEF Periods
<1>3. Lookups(a) \in Seq(Scopes \X Periods)
  BY <1>1, <1>2 DEF Lookups
<1>4. /\ DOMAIN Lookups(a) = 1..4
      /\ Lookups(a)[1] = <<{a}, "day">>
      /\ Lookups(a)[2] = <<{Studio}, "day">>
      /\ Lookups(a)[3] = <<{a}, "month">>
      /\ Lookups(a)[4] = <<{Studio}, "month">>
  BY DEF Lookups
<1>5. \A k \in 1..4 : Lookups(a)[k][1] \in {{a}, {Studio}}
  BY <1>4
<1>6. \A s \in {{a}, {Studio}}, p \in Periods : \E k \in 1..4 : Lookups(a)[k] = <<s, p>>
  BY <1>4 DEF Periods
<1>7. QED
  BY <1>3, <1>4, <1>5, <1>6

-----------------------------------------------------------------------------
\* A time that passes changes no type.
LEMMA TickTyped == ASSUME TypeOK, Tick PROVE TypeOK'
<1>1. day' \in 0..MaxDay
  BY Bounds DEF Tick, TypeOK
<1>2. QED
  BY <1>1 DEF Tick, TypeOK

\* What the calls of a scope cost is a number of cents.
LEMMA AuditedTyped ==
    ASSUME TypeOK, NEW s \in Scopes
    PROVE  Audited(s) \in Nat
<1>1. CASE Studio \in s
  BY <1>1 DEF Audited, TypeOK
<1>2. CASE Studio \notin s
  <2>1. PICK a \in Agents : s = {a}
    BY <1>2 DEF Scopes
  <2>2. (CHOOSE b \in s : TRUE) = a
    BY <2>1
  <2>3. QED
    BY <1>2, <2>2 DEF Audited, TypeOK
<1>3. QED
  BY <1>1, <1>2

LEMMA EnsureReadTyped ==
    ASSUME TypeOK, NEW c \in Settings, EnsureRead(c)
    PROVE  TypeOK'
<1> DEFINE i == IF Matching(c) = {} THEN 0 ELSE CHOOSE j \in Matching(c) : TRUE
           t == [set |-> c, start |-> Start(c.period), found |-> i,
                 same |-> i # 0 /\ budgets[i].limit = c.limit]
<1>1. i \in {0} \cup DOMAIN budgets
  <2>1. Matching(c) \subseteq DOMAIN budgets
    BY DEF Matching, Found
  <2>2. QED
    BY <2>1
<1>2. i \in Nat
  <2> HIDE DEF i
  <2>1. budgets \in Seq(Bucket)
    BY DEF TypeOK
  <2>2. DOMAIN budgets \subseteq Nat
    BY <2>1
  <2>3. QED
    BY <1>1, <2>2
<1>3. Start(c.period) \in Nat
  BY KnownSettings, StartIsDay
<1>4. (i # 0 /\ budgets[i].limit = c.limit) \in BOOLEAN
  OBVIOUS
<1>5. t \in Edit /\ t.found = i
  <2> HIDE DEF i
  <2>1. QED
    BY <1>2, <1>3, <1>4 DEF Edit
<1>6. edits' = edits \cup {t}
  BY DEF EnsureRead
<1>7. UNCHANGED <<day, budgets, ledger, runs, task, look>>
  BY DEF EnsureRead
<1>8. QED
  <2> HIDE DEF t, i
  <2>1. edits' \subseteq Edit /\ \A u \in edits' : u.found \in {0} \cup DOMAIN budgets'
    BY <1>1, <1>5, <1>6, <1>7 DEF TypeOK
  <2>2. QED
    BY <2>1, <1>7 DEF TypeOK, NoLook

\* What budget-set writes: the same rows but for one limit, or one more row
\* with nothing spent.
LEMMA EnsureWrites ==
    ASSUME TypeOK, NEW t \in edits, EnsureCommit(t)
    PROVE  /\ budgets' \in Seq(Bucket)
           /\ DOMAIN budgets \subseteq DOMAIN budgets'
           /\ \A i \in DOMAIN budgets :
                 /\ budgets'[i].scope = budgets[i].scope
                 /\ budgets'[i].period = budgets[i].period
                 /\ budgets'[i].start = budgets[i].start
                 /\ budgets'[i].spent = budgets[i].spent
                 /\ budgets'[i].since = budgets[i].since
           /\ \A i \in DOMAIN budgets' \ DOMAIN budgets :
                 /\ budgets'[i].spent = 0 /\ budgets'[i].start = t.start
                 /\ budgets'[i].since = Audited(budgets'[i].scope)
<1>1. t \in Edit /\ t.set \in Settings /\ t.start \in Nat
  BY DEF TypeOK, Edit
<1>2. /\ t.set.scope \in Scopes /\ t.set.period \in Periods
      /\ t.set.limit \in 0..TopLimit
  BY <1>1, KnownSettings
<1>3. budgets \in Seq(Bucket) /\ t.found \in {0} \cup DOMAIN budgets
  BY DEF TypeOK
<1>4. CASE budgets' = budgets
  BY <1>3, <1>4
<1>5. CASE /\ t.found # 0
           /\ budgets' = [budgets EXCEPT ![t.found].limit = t.set.limit]
  <2> DEFINE row == [budgets[t.found] EXCEPT !.limit = t.set.limit]
  <2>1. t.found \in DOMAIN budgets /\ budgets[t.found] \in Bucket
    BY <1>3, <1>5
  <2>2. /\ row \in Bucket
        /\ row.scope = budgets[t.found].scope /\ row.period = budgets[t.found].period
        /\ row.start = budgets[t.found].start /\ row.spent = budgets[t.found].spent
        /\ row.since = budgets[t.found].since
    BY <1>2, <2>1 DEF Bucket
  <2>3. budgets' = [budgets EXCEPT ![t.found] = row]
    BY <1>5
  <2>4. QED
    <3> HIDE DEF row
    <3>1. QED
      BY <1>3, <2>1, <2>2, <2>3
<1>6. CASE budgets' = Append(budgets, NewBucket(t))
  <2>1. Audited(t.set.scope) \in Nat
    BY <1>2, AuditedTyped
  <2>2. /\ NewBucket(t) \in Bucket
        /\ NewBucket(t).spent = 0 /\ NewBucket(t).start = t.start
        /\ NewBucket(t).since = Audited(NewBucket(t).scope)
    BY <1>1, <1>2, <2>1 DEF NewBucket, Bucket
  <2>3. QED
    BY <1>3, <1>6, <2>2
<1>7. QED
  BY <1>4, <1>5, <1>6 DEF EnsureCommit

LEMMA EnsureCommitTyped ==
    ASSUME TypeOK, NEW t \in edits, EnsureCommit(t)
    PROVE  TypeOK'
<1>1. budgets' \in Seq(Bucket) /\ DOMAIN budgets \subseteq DOMAIN budgets'
  BY EnsureWrites
<1>2. edits' \subseteq edits /\ UNCHANGED <<day, ledger, runs, task, look>>
  BY DEF EnsureCommit
<1>3. QED
  BY <1>1, <1>2 DEF TypeOK, NoLook

\* A step of the dispatcher or of an execution keeps the types if what it
\* assigns has them.
LEMMA TaskStep ==
    ASSUME TypeOK, UNCHANGED <<day, budgets, ledger, edits>>,
           runs' \in 0..MaxRuns,
           task' \in [pc : {"idle", "preflight", "working", "handling",
                            "recording", "raised"},
                      agent : SUBSET Agents, left : 0..MaxCalls,
                      cost : Costs \cup {0}],
           task'.agent \in IF task'.pc = "idle" THEN {{}} ELSE {{a} : a \in Agents},
           task'.pc = "preflight" => runs' < MaxRuns,
           task'.pc \in {"handling", "recording"} => task'.left < MaxCalls,
           look' \in [todo : Seq(Scopes \X Periods), rows : SUBSET DOMAIN budgets,
                      over : BOOLEAN],
           task'.pc \notin {"preflight", "recording"} => look' = NoLook
    PROVE  TypeOK'
<1>1. NoLook' = NoLook
  BY DEF NoLook
<1>2. QED
  BY <1>1 DEF TypeOK

LEMMA NoLookTyped ==
    NoLook \in [todo : Seq(Scopes \X Periods), rows : SUBSET DOMAIN budgets,
                over : BOOLEAN]
  BY DEF NoLook

\* The agents of a task, once it has one.
LEMMA TaskAgent ==
    ASSUME TypeOK, task.pc # "idle"
    PROVE  \E a \in Agents : task.agent = {a} /\ (CHOOSE b \in task.agent : TRUE) = a
<1>1. PICK a \in Agents : task.agent = {a}
  BY DEF TypeOK
<1>2. QED
  BY <1>1

LEMMA NoTaskTyped ==
    /\ NoTask \in [pc : {"idle", "preflight", "working", "handling",
                          "recording", "raised"},
                    agent : SUBSET Agents, left : 0..MaxCalls,
                    cost : Costs \cup {0}]
    /\ NoTask.pc = "idle" /\ NoTask.agent = {}
  BY Bounds DEF NoTask

LEMMA DispatchTyped ==
    ASSUME TypeOK, Dispatch
    PROVE  TypeOK'
<1>1. CASE LookUp
  <2> DEFINE ids == Found(Head(look.todo)[1], Head(look.todo)[2])
  <2>1. ids \subseteq DOMAIN budgets
    BY DEF Found
  <2>2. Tail(look.todo) \in Seq(Scopes \X Periods)
    BY <1>1 DEF LookUp, TypeOK
  <2>3. look' = Seen(ids)
    BY <1>1 DEF LookUp
  <2>4. look' \in [todo : Seq(Scopes \X Periods), rows : SUBSET DOMAIN budgets,
                   over : BOOLEAN]
    <3> HIDE DEF ids
    <3>1. QED
      BY <2>1, <2>2, <2>3 DEF Seen, TypeOK
  <2>5. task.pc \in {"preflight", "recording"}
    BY <1>1 DEF LookUp, TypeOK, NoLook
  <2>6. QED
    BY <1>1, <2>4, <2>5 DEF LookUp, TypeOK
<1>2. CASE LookUpRaises
  <2>1. task.pc \in {"preflight", "recording"}
    BY <1>2 DEF LookUpRaises, TypeOK, NoLook
  <2>2. CASE task.pc = "preflight"
    <3>1. task' = NoTask /\ look' = NoLook /\ runs' \in 0..MaxRuns
      BY <1>2, <2>2 DEF LookUpRaises, TypeOK
    <3>2. QED
      BY <1>2, <3>1, TaskStep, NoTaskTyped, NoLookTyped DEF LookUpRaises
  <2>3. CASE task.pc = "recording"
    <3>1. task' = [task EXCEPT !.pc = "raised", !.cost = 0]
      BY <1>2, <2>3 DEF LookUpRaises
    <3>2. QED
      BY <1>2, <2>3, <3>1, TaskStep, NoLookTyped DEF LookUpRaises, TypeOK
  <2>4. QED
    BY <2>1, <2>2, <2>3
<1>3. CASE Decide
  <2>1. CASE look.over
    <3>1. task' = NoTask /\ look' = NoLook /\ runs' \in 0..MaxRuns
      BY <1>3, <2>1 DEF Decide, TypeOK
    <3>2. QED
      BY <1>3, <3>1, TaskStep, NoTaskTyped, NoLookTyped DEF Decide
  <2>2. CASE ~look.over
    <3>1. task' = [task EXCEPT !.pc = "working", !.left = MaxCalls] /\ look' = NoLook
      BY <1>3, <2>2 DEF Decide
    <3>2. MaxCalls \in 0..MaxCalls
      BY Bounds
    <3>3. runs' \in 0..MaxRuns
      BY <1>3, <2>2, Bounds DEF Decide, TypeOK
    <3>4. QED
      BY <1>3, <3>1, <3>2, <3>3, TaskStep, NoLookTyped DEF Decide, TypeOK
  <2>3. QED
    BY <2>1, <2>2
<1>4. ASSUME NEW a \in Agents, Claim(a) PROVE TypeOK'
  BY <1>4, LookupsTyped, Bounds DEF Claim, TypeOK, NoTask, NoLook
<1>5. QED
  BY <1>1, <1>2, <1>3, <1>4 DEF Dispatch

LEMMA ExecuteTyped ==
    ASSUME TypeOK, Execute \/ Crash
    PROVE  TypeOK'
<1>1. CASE CallTool
  <2>1. task' = [task EXCEPT !.pc = "handling", !.left = @ - 1] /\ look' = NoLook
    BY <1>1 DEF CallTool, TypeOK
  <2>2. task.left - 1 \in 0..MaxCalls /\ task.left - 1 < MaxCalls
    BY <1>1, Bounds DEF CallTool, TypeOK
  <2>3. QED
    BY <1>1, <2>1, <2>2, TaskStep, NoLookTyped DEF CallTool, TypeOK
<1>2. CASE RecordRefusal
  <2> DEFINE left == IF task.pc = "working" THEN task.left - 1 ELSE task.left
  <2>1. task' = [task EXCEPT !.pc = "working", !.left = left] /\ look' = NoLook
    BY <1>2 DEF RecordRefusal, TypeOK
  <2>2. left \in 0..MaxCalls
    BY <1>2, Bounds DEF RecordRefusal, TypeOK
  <2>3. QED
    <3> HIDE DEF left
    <3>1. QED
      BY <1>2, <2>1, <2>2, TaskStep, NoLookTyped DEF RecordRefusal, TypeOK
<1>3. CASE Record
  <2>1. task.cost \in Nat
    BY KnownCosts, Bounds DEF TypeOK
  <2>2. ledger' \in [Agents \cup {Studio} -> Nat]
    BY <1>3, <2>1 DEF Record, TypeOK
  <2>3. budgets' \in Seq(Bucket) /\ DOMAIN budgets' = DOMAIN budgets
    <3>1. budgets' = Charged
      BY <1>3 DEF Record
    <3>2. \A i \in DOMAIN budgets : Charged[i] \in Bucket
      <4> SUFFICES ASSUME NEW i \in DOMAIN budgets PROVE Charged[i] \in Bucket
        OBVIOUS
      <4>1. budgets[i] \in Bucket
        BY DEF TypeOK
      <4>2. [budgets[i] EXCEPT !.spent = @ + task.cost] \in Bucket
        BY <2>1, <4>1 DEF Bucket
      <4>3. QED
        BY <4>1, <4>2 DEF Charged
    <3>3. DOMAIN Charged = DOMAIN budgets /\ Charged = [i \in DOMAIN budgets |-> Charged[i]]
      BY DEF Charged
    <3>4. QED
      BY <3>1, <3>2, <3>3 DEF TypeOK
  <2>4. QED
    BY <1>3, <2>2, <2>3, NoLookTyped DEF Record, TypeOK, NoLook
<1>4. CASE EndRun \/ Crash
  <2>1. task' = NoTask /\ look' = NoLook /\ UNCHANGED <<day, budgets, ledger, runs, edits>>
    BY <1>4 DEF EndRun, Crash
  <2>2. runs' \in 0..MaxRuns
    BY <2>1 DEF TypeOK
  <2>3. QED
    BY <2>1, <2>2, TaskStep, NoTaskTyped, NoLookTyped
<1>5. ASSUME NEW c \in Costs, HandlerReturns(c) PROVE TypeOK'
  <2>1. PICK a \in Agents : task.agent = {a} /\ (CHOOSE b \in task.agent : TRUE) = a
    BY <1>5, TaskAgent DEF HandlerReturns
  <2>2. Lookups(a) \in Seq(Scopes \X Periods)
    BY LookupsTyped
  <2>3. look' \in [todo : Seq(Scopes \X Periods), rows : SUBSET DOMAIN budgets,
                   over : BOOLEAN]
    <3>1. look' = [todo |-> IF c > 0 THEN Lookups(a) ELSE <<>>, rows |-> {},
                   over |-> FALSE]
      BY <1>5, <2>1 DEF HandlerReturns, NoLook
    <3>2. (IF c > 0 THEN Lookups(a) ELSE <<>>) \in Seq(Scopes \X Periods)
      BY <2>2
    <3>3. QED
      BY <3>1, <3>2
  <2>4. QED
    <3>1. task' = [task EXCEPT !.pc = "recording", !.cost = c]
      BY <1>5 DEF HandlerReturns
    <3>2. QED
      BY <1>5, <2>3, <3>1, TaskStep DEF HandlerReturns, TypeOK
<1>6. QED
  BY <1>1, <1>2, <1>3, <1>4, <1>5 DEF Execute

LEMMA TypeStep == ASSUME TypeOK, [Next]_vars PROVE TypeOK'
<1>1. CASE UNCHANGED vars
  BY <1>1 DEF vars, TypeOK, NoLook
<1>2. CASE Next
  BY <1>2, TickTyped, EnsureReadTyped, EnsureCommitTyped, DispatchTyped, ExecuteTyped
     DEF Next, Ensure
<1>3. QED
  BY <1>1, <1>2

\* Every variable keeps its type, the lookups under way name rows that exist,
\* and only the preflight check and a charge look rows up.
THEOREM TypeCorrect == Spec => []TypeOK
<1>1. QED
  BY TypeInit, TypeStep, PTL DEF Spec

-----------------------------------------------------------------------------
\* The bound, one lemma for each kind of step.

LEMMA BoundTyped ==
    /\ MaxCalls * TopCost \in Nat
    /\ Bound \in Nat /\ TopLimit <= Bound
    /\ Bound = TopLimit + MaxCalls * TopCost
  BY Times, Bounds DEF Bound

LEMMA BucketTyped ==
    ASSUME TypeOK, NEW i \in DOMAIN budgets
    PROVE  /\ budgets[i].scope \in Scopes /\ budgets[i].period \in Periods
           /\ budgets[i].start \in Nat /\ budgets[i].limit \in 0..TopLimit
           /\ budgets[i].spent \in Nat
<1>1. budgets[i] \in Bucket
  BY DEF TypeOK
<1>2. QED
  BY <1>1 DEF Bucket

LEMMA TaskTyped ==
    ASSUME TypeOK
    PROVE  /\ task.left \in Nat /\ task.left <= MaxCalls
           /\ task.cost \in Nat /\ task.cost <= TopCost /\ TopCost \in Nat
           /\ task.left * TopCost \in Nat
           /\ task \in [pc : {"idle", "preflight", "working", "handling",
                             "recording", "raised"},
                       agent : SUBSET Agents, left : Nat, cost : Nat]
           /\ task.pc \notin {"preflight", "recording"} => look = NoLook
<1>1. /\ task \in [pc : {"idle", "preflight", "working", "handling",
                        "recording", "raised"},
                  agent : SUBSET Agents, left : 0..MaxCalls, cost : Costs \cup {0}]
      /\ task.pc \notin {"preflight", "recording"} => look = NoLook
  BY Zenon DEF TypeOK
<1>2. \A c \in Costs \cup {0} : c \in Nat /\ c <= TopCost /\ TopCost \in Nat
  BY KnownCosts, Bounds
<1>3. \A n \in 0..MaxCalls : n \in Nat /\ n <= MaxCalls
  BY Bounds
<1>4. /\ task.left \in Nat /\ task.left <= MaxCalls
      /\ task.cost \in Nat /\ task.cost <= TopCost /\ TopCost \in Nat
      /\ task \in [pc : {"idle", "preflight", "working", "handling",
                        "recording", "raised"},
                  agent : SUBSET Agents, left : Nat, cost : Nat]
  BY <1>1, <1>2, <1>3
<1>5. task.left * TopCost \in Nat
  BY <1>4, Times
<1>6. QED
  BY <1>1, <1>4, <1>5

\* An execution never has more left than the calls of one execution cost.
LEMMA RestBounded ==
    ASSUME TypeOK, Executing
    PROVE  Rest \in Nat /\ Rest <= MaxCalls * TopCost
<1>1. /\ task.left \in Nat /\ task.left <= MaxCalls /\ task.cost \in Nat
      /\ task.cost <= TopCost /\ TopCost \in Nat /\ MaxCalls \in Nat
  BY KnownCosts, Bounds DEF TypeOK
<1>2. task.left * TopCost \in Nat /\ task.left * TopCost <= MaxCalls * TopCost
  BY <1>1, Times
<1>3. /\ MaxCalls * TopCost \in Nat
      /\ task.left < MaxCalls => task.left * TopCost + TopCost <= MaxCalls * TopCost
  <2>1. (task.left + 1) * TopCost = task.left * TopCost + TopCost
    BY <1>1, Times
  <2>2. task.left < MaxCalls => task.left + 1 <= MaxCalls /\ task.left + 1 \in Nat
    BY <1>1
  <2>3. task.left < MaxCalls => (task.left + 1) * TopCost <= MaxCalls * TopCost
    BY <1>1, <2>2, Times
  <2>4. QED
    BY <1>1, <2>1, <2>3, BoundTyped
<1>4. task.pc \in {"handling", "recording"} => task.left < MaxCalls
  BY DEF TypeOK
<1>5. CASE task.pc = "working"
  BY <1>2, <1>5 DEF Rest
<1>6. CASE task.pc = "handling"
  BY <1>1, <1>2, <1>3, <1>4, <1>6 DEF Rest
<1>7. CASE task.pc = "recording"
  <2> DEFINE spare == task.left * TopCost
             most  == MaxCalls * TopCost
  <2>1. /\ spare \in Nat /\ most \in Nat /\ spare + TopCost <= most
        /\ Rest = spare + task.cost
    BY <1>2, <1>3, <1>4, <1>7 DEF Rest
  <2>2. QED
    <3> HIDE DEF spare, most
    <3>1. Rest \in Nat /\ Rest <= most
      BY <1>1, <2>1
    <3>2. QED
      BY <3>1 DEF most
<1>8. QED
  BY <1>5, <1>6, <1>7 DEF Executing

\* A bucket of the period that begins was of the period that ends: none is of a
\* period that had not begun.
LEMMA StillCurrent ==
    ASSUME TypeOK, Begun, Tick, NEW i \in DOMAIN budgets,
           budgets[i].start = Start(budgets[i].period)'
    PROVE  budgets[i].start = Start(budgets[i].period)
<1>1. /\ budgets[i].start \in Nat /\ budgets[i].start <= day
      /\ day \in 0..MaxDay /\ day + 1 \in 0..MaxDay /\ day' = day + 1
      /\ budgets' = budgets
  BY BucketTyped, Bounds DEF TypeOK, Begun, Tick
<1>2. budgets[i].start # day + 1
  BY <1>1, Bounds
<1>3. MonthStart(day + 1) \in {MonthStart(day), day + 1}
  BY <1>1, Months
<1>4. Start(budgets[i].period)' =
          IF budgets[i].period = "day" THEN day + 1 ELSE MonthStart(day + 1)
  BY <1>1 DEF Start
<1>5. budgets[i].period # "day" /\ budgets[i].start = MonthStart(day)
  BY <1>2, <1>3, <1>4
<1>6. QED
  BY <1>5 DEF Start

LEMMA TickBounded == ASSUME BoundInv, Tick PROVE BoundInv'
<1> USE DEF BoundInv
<1>1. UNCHANGED <<budgets, ledger, runs, task, look, edits>> /\ day' = day + 1 /\ day \in Nat
  BY Bounds DEF Tick, TypeOK
<1>2. TypeOK'
  BY TickTyped
<1>3. Begun'
  <2>1. \A i \in DOMAIN budgets : budgets[i].start \in Nat
    BY BucketTyped
  <2>2. \A t \in edits : t.start \in Nat
    BY DEF TypeOK, Edit
  <2>3. QED
    BY <1>1, <2>1, <2>2 DEF Begun
<1>4. \A i \in DOMAIN budgets : Chargeable(i)' => Chargeable(i)
  BY <1>1, StillCurrent DEF Chargeable
<1>5. OwnLookups' /\ SpentBounded'
  BY <1>1 DEF OwnLookups, SpentBounded, Bound
<1>6. PreflightBounded'
  BY <1>1, <1>4 DEF PreflightBounded, LookedUp
<1>7. ExecutionBounded'
  BY <1>1, <1>4 DEF ExecutionBounded, Executing, Rest, Bound
<1>8. QED
  BY <1>2, <1>3, <1>5, <1>6, <1>7

LEMMA EnsureReadBounded ==
    ASSUME BoundInv, NEW c \in Settings, EnsureRead(c)
    PROVE  BoundInv'
<1> USE DEF BoundInv
<1>1. UNCHANGED <<day, budgets, ledger, runs, task, look>>
  BY DEF EnsureRead
<1>2. TypeOK'
  BY EnsureReadTyped
<1>3. Begun'
  <2>1. c.period \in Periods
    BY KnownSettings
  <2>2. Start(c.period) <= day
    BY <2>1, Calendar, Bounds DEF Start, TypeOK, Periods
  <2>3. \A t \in edits' : t \in edits \/ t.start = Start(c.period)
    BY DEF EnsureRead
  <2>4. QED
    BY <1>1, <2>2, <2>3 DEF Begun
<1>4. OwnLookups' /\ SpentBounded' /\ PreflightBounded' /\ ExecutionBounded'
  BY <1>1 DEF OwnLookups, SpentBounded, PreflightBounded, ExecutionBounded, Chargeable,
              LookedUp, Executing, Rest, Bound, Start
<1>5. QED
  BY <1>2, <1>3, <1>4

LEMMA EnsureCommitBounded ==
    ASSUME BoundInv, NEW t \in edits, EnsureCommit(t)
    PROVE  BoundInv'
<1> USE DEF BoundInv
<1>1. UNCHANGED <<day, ledger, runs, task, look>> /\ edits' \subseteq edits
  BY DEF EnsureCommit
<1>2. TypeOK'
  BY EnsureCommitTyped
<1>3. /\ DOMAIN budgets \subseteq DOMAIN budgets'
      /\ \A i \in DOMAIN budgets :
            /\ budgets'[i].scope = budgets[i].scope
            /\ budgets'[i].period = budgets[i].period
            /\ budgets'[i].start = budgets[i].start
            /\ budgets'[i].spent = budgets[i].spent
      /\ \A i \in DOMAIN budgets' \ DOMAIN budgets :
            budgets'[i].spent = 0 /\ budgets'[i].start = t.start
  BY EnsureWrites
<1>4. Begun'
  BY <1>1, <1>3 DEF Begun
<1>5. OwnLookups'
  BY <1>1 DEF OwnLookups
<1>6. SpentBounded'
  BY <1>3, BoundTyped DEF SpentBounded
<1>7. \A i \in DOMAIN budgets : /\ Chargeable(i)' <=> Chargeable(i)
                                /\ LookedUp(i)' <=> LookedUp(i)
  BY <1>1, <1>3 DEF Chargeable, LookedUp, Start
<1>8. PreflightBounded'
  <2>1. 0 <= TopLimit
    BY Bounds
  <2>2. QED
    BY <1>1, <1>3, <1>7, <2>1 DEF PreflightBounded
<1>9. ExecutionBounded'
  <2>1. Rest' = Rest /\ Bound' = Bound /\ (Executing' <=> Executing)
    BY <1>1 DEF Rest, Bound, Executing
  <2>2. Executing => 0 + Rest <= Bound
    BY RestBounded, BoundTyped, Bounds
  <2>3. QED
    BY <1>1, <1>3, <1>7, <2>1, <2>2 DEF ExecutionBounded
<1>10. QED
  BY <1>2, <1>4, <1>5, <1>6, <1>8, <1>9

\* A claim looks up every bucket the run may charge.
LEMMA ClaimBounded ==
    ASSUME BoundInv, NEW a \in Agents, Claim(a)
    PROVE  BoundInv'
<1> USE DEF BoundInv
<1>1. /\ UNCHANGED <<day, budgets, ledger, edits>>
      /\ task'.pc = "preflight" /\ task'.agent = {a} /\ look'.todo = Lookups(a)
  BY DEF Claim, NoTask, NoLook
<1>2. TypeOK'
  BY DispatchTyped DEF Dispatch
<1>3. Begun' /\ SpentBounded'
  BY <1>1 DEF Begun, SpentBounded, Bound
<1>4. OwnLookups'
  BY <1>1, LookupsTyped DEF OwnLookups
<1>5. PreflightBounded'
  <2>1. \A i \in DOMAIN budgets' :
          budgets'[i].scope \in {{a}, {Studio}} =>
            \E k \in DOMAIN Lookups(a) :
                Lookups(a)[k] = <<budgets'[i].scope, budgets'[i].period>>
    <3>1. SUFFICES ASSUME NEW i \in DOMAIN budgets, budgets[i].scope \in {{a}, {Studio}}
                   PROVE  \E k \in DOMAIN Lookups(a) :
                            Lookups(a)[k] = <<budgets[i].scope, budgets[i].period>>
      BY <1>1
    <3>2. budgets[i].period \in Periods
      BY BucketTyped
    <3>3. PICK k \in 1..4 : Lookups(a)[k] = <<budgets[i].scope, budgets[i].period>>
      BY <3>1, <3>2, LookupsTyped
    <3>4. DOMAIN Lookups(a) = 1..4
      BY LookupsTyped
    <3>5. QED
      BY <3>3, <3>4
  <2>2. \A i \in DOMAIN budgets' : Chargeable(i)' => ~LookedUp(i)'
    BY <1>1, <2>1 DEF Chargeable, LookedUp
  <2>3. QED
    BY <2>2 DEF PreflightBounded
<1>6. ExecutionBounded'
  BY <1>1 DEF ExecutionBounded, Executing
<1>7. QED
  BY <1>2, <1>3, <1>4, <1>5, <1>6

\* A row is found only if it is of the period that holds today, and one that is
\* over stops the run.
LEMMA LookUpBounded == ASSUME BoundInv, LookUp PROVE BoundInv'
<1> USE DEF BoundInv
<1> DEFINE h   == Head(look.todo)
           ids == Found(h[1], h[2])
<1>1. /\ UNCHANGED <<day, budgets, ledger, runs, task, edits>>
      /\ look.todo # <<>> /\ look.todo \in Seq(Scopes \X Periods)
      /\ look'.todo = Tail(look.todo) /\ look'.rows = look.rows \cup ids
      /\ look'.over <=> (look.over \/ \E i \in ids : Over(budgets[i]))
  BY DEF LookUp, Seen, TypeOK
<1>2. TypeOK'
  BY DispatchTyped DEF Dispatch
<1>3. Begun' /\ SpentBounded'
  BY <1>1 DEF Begun, SpentBounded, Bound
<1>4. /\ 1 \in DOMAIN look.todo /\ h = look.todo[1] /\ h \in Scopes \X Periods
      /\ \A k \in DOMAIN look'.todo : /\ k + 1 \in DOMAIN look.todo
                                      /\ look'.todo[k] = look.todo[k + 1]
      /\ \A k \in DOMAIN look.todo : k # 1 => /\ k - 1 \in DOMAIN look'.todo
                                              /\ look'.todo[k - 1] = look.todo[k]
  BY <1>1
<1>5. OwnLookups'
  BY <1>1, <1>4 DEF OwnLookups
<1>6. \A i \in DOMAIN budgets : Chargeable(i)' <=> Chargeable(i)
  BY <1>1 DEF Chargeable, Start
<1>7. PreflightBounded'
  <2>1. SUFFICES ASSUME task.pc = "preflight", ~look'.over, NEW i \in DOMAIN budgets,
                        Chargeable(i), LookedUp(i)'
                 PROVE  budgets[i].spent <= TopLimit
    BY <1>1, <1>6 DEF PreflightBounded
  <2>2. CASE LookedUp(i)
    BY <1>1, <2>1, <2>2 DEF PreflightBounded
  <2>3. CASE ~LookedUp(i)
    <3>1. PICK k \in DOMAIN look.todo :
            look.todo[k] = <<budgets[i].scope, budgets[i].period>>
      BY <2>3 DEF LookedUp
    <3>2. k = 1
      BY <1>1, <1>4, <2>1, <3>1 DEF LookedUp
    <3>3. i \in ids
      BY <1>4, <2>1, <3>1, <3>2 DEF Found, Chargeable
    <3>4. ~Over(budgets[i])
      BY <1>1, <2>1, <3>3
    <3>5. QED
      BY <3>4, BucketTyped, Bounds DEF Over
  <2>4. QED
    BY <2>2, <2>3
<1>8. ExecutionBounded'
  <2>1. \A i \in ids : i \in DOMAIN budgets /\ Chargeable(i)
    BY <1>4 DEF Found, Chargeable, OwnLookups
  <2>2. Rest' = Rest /\ Bound' = Bound /\ (Executing' <=> Executing)
    BY <1>1 DEF Rest, Bound, Executing
  <2>3. QED
    BY <1>1, <1>6, <2>1, <2>2 DEF ExecutionBounded
<1>9. QED
  BY <1>2, <1>3, <1>5, <1>7, <1>8

\* Once every bucket was looked up and none is over, a whole execution fits.
LEMMA DecideBounded == ASSUME BoundInv, Decide PROVE BoundInv'
<1> USE DEF BoundInv
<1>1. /\ UNCHANGED <<day, budgets, ledger, edits>> /\ look' = NoLook
      /\ task.pc = "preflight" /\ look.todo = <<>>
  BY DEF Decide
<1>2. TypeOK'
  BY DispatchTyped DEF Dispatch
<1>3. Begun' /\ SpentBounded' /\ OwnLookups'
  BY <1>1 DEF Begun, SpentBounded, Bound, OwnLookups, NoLook
<1>4. CASE look.over
  BY <1>1, <1>2, <1>3, <1>4 DEF Decide, NoTask, PreflightBounded, ExecutionBounded, Executing
<1>5. CASE ~look.over
  <2>1. /\ task'.pc = "working" /\ task'.agent = task.agent /\ task'.left = MaxCalls
        /\ look'.rows = {}
    BY <1>1, <1>5 DEF Decide, TypeOK, NoLook
  <2>2. Rest' = MaxCalls * TopCost
    BY <2>1 DEF Rest
  <2>3. \A i \in DOMAIN budgets : Chargeable(i)' => budgets[i].spent <= TopLimit
    BY <1>1, <1>5, <2>1 DEF PreflightBounded, Chargeable, LookedUp, Start
  <2>4. \A i \in DOMAIN budgets' : Chargeable(i)' => budgets'[i].spent + Rest' <= Bound
    <3>1. SUFFICES ASSUME NEW i \in DOMAIN budgets, Chargeable(i)'
                   PROVE  budgets[i].spent + Rest' <= Bound
      BY <1>1
    <3> DEFINE m == MaxCalls * TopCost
    <3>2. /\ budgets[i].spent \in Nat /\ budgets[i].spent <= TopLimit
          /\ m \in Nat /\ Bound = TopLimit + m /\ TopLimit \in Nat /\ Rest' = m
      BY <2>2, <2>3, <3>1, BucketTyped, BoundTyped, Bounds
    <3>3. QED
      <4> HIDE DEF m
      <4>1. QED
        BY <3>2
  <2>5. ExecutionBounded' /\ PreflightBounded'
    BY <2>1, <2>4 DEF ExecutionBounded, PreflightBounded, Bound
  <2>6. QED
    BY <1>2, <1>3, <2>5
<1>6. QED
  BY <1>4, <1>5

\* A task that ends, or raised, charges nothing any more.
LEMMA IdleBounded ==
    ASSUME BoundInv, LookUpRaises \/ EndRun \/ Crash
    PROVE  BoundInv'
<1> USE DEF BoundInv
<1>1. /\ UNCHANGED <<day, budgets, ledger, edits>> /\ look' = NoLook
      /\ task'.pc \in {"idle", "raised"}
  <2>1. CASE LookUpRaises
    <3>1. task' = NoTask \/ task' = [task EXCEPT !.pc = "raised", !.cost = 0]
      BY <2>1 DEF LookUpRaises
    <3>2. [task EXCEPT !.pc = "raised", !.cost = 0].pc = "raised"
      <4>1. task \in [pc : {"idle", "preflight", "working", "handling",
                           "recording", "raised"},
                     agent : SUBSET Agents, left : Nat, cost : Nat]
        BY TaskTyped DEF BoundInv
      <4>2. QED
        BY <4>1
    <3>3. QED
      BY <2>1, <3>1, <3>2 DEF LookUpRaises, NoTask
  <2>2. CASE EndRun \/ Crash
    BY <2>2 DEF EndRun, Crash, NoTask
  <2>3. QED
    BY <2>1, <2>2
<1>2. TypeOK'
  BY DispatchTyped, ExecuteTyped DEF Dispatch, Execute
<1>3. QED
  BY <1>1, <1>2 DEF Begun, OwnLookups, SpentBounded, PreflightBounded, ExecutionBounded,
                    Executing, NoLook, Bound

\* A call of a tool takes its share of what is left: the rest never grows.
LEMMA CallBounded ==
    ASSUME BoundInv,
           CallTool \/ RecordRefusal \/ \E c \in Costs : HandlerReturns(c)
    PROVE  BoundInv'
<1> USE DEF BoundInv
<1>1. /\ UNCHANGED <<day, budgets, ledger, edits>>
      /\ Executing /\ Executing' /\ task'.pc # "preflight" /\ task'.agent = task.agent
      /\ look'.rows = {}
  <2>1. CASE CallTool
    <3>1. task.pc = "working" /\ task' = [task EXCEPT !.pc = "handling", !.left = @ - 1]
      BY <2>1 DEF CallTool
    <3>2. QED
      BY <2>1, <3>1, TaskTyped DEF CallTool, Executing, NoLook
  <2>2. CASE RecordRefusal
    <3>1. /\ task.pc \in {"working", "handling"}
          /\ task' = [task EXCEPT !.pc = "working",
                         !.left = IF task.pc = "working" THEN @ - 1 ELSE @]
      BY <2>2 DEF RecordRefusal
    <3>2. QED
      BY <2>2, <3>1, TaskTyped DEF RecordRefusal, Executing, NoLook
  <2>3. ASSUME NEW c \in Costs, HandlerReturns(c)
        PROVE  /\ UNCHANGED <<day, budgets, ledger, edits>>
               /\ Executing /\ Executing' /\ task'.pc # "preflight"
               /\ task'.agent = task.agent /\ look'.rows = {}
    <3>1. task.pc = "handling" /\ task' = [task EXCEPT !.pc = "recording", !.cost = c]
      BY <2>3 DEF HandlerReturns
    <3>2. QED
      BY <2>3, <3>1, TaskTyped DEF HandlerReturns, Executing, NoLook
  <2>4. QED
    BY <2>1, <2>2, <2>3
<1>2. TypeOK'
  BY ExecuteTyped DEF Execute
<1>3. Begun' /\ SpentBounded' /\ PreflightBounded'
  BY <1>1 DEF Begun, SpentBounded, PreflightBounded, Bound
<1>4. OwnLookups'
  <2>1. CASE look'.todo = <<>>
    BY <2>1 DEF OwnLookups
  <2>2. CASE look'.todo # <<>>
    <3>1. PICK c \in Costs : HandlerReturns(c)
      BY <2>2 DEF CallTool, RecordRefusal, TypeOK, NoLook
    <3>2. PICK a \in Agents : task.agent = {a} /\ (CHOOSE b \in task.agent : TRUE) = a
      BY <3>1, TaskAgent DEF HandlerReturns
    <3>3. look'.todo = Lookups(a)
      BY <2>2, <3>1, <3>2 DEF HandlerReturns, NoLook
    <3>4. QED
      BY <1>1, <3>2, <3>3, LookupsTyped DEF OwnLookups
  <2>3. QED
    BY <2>1, <2>2
<1>5. Rest' <= Rest
  <2>1. /\ task.left \in Nat /\ TopCost \in Nat /\ task.cost \in Nat
        /\ task.left * TopCost \in Nat
    BY TaskTyped
  <2>2. ASSUME task.left > 0
        PROVE  /\ task.left * TopCost = (task.left - 1) * TopCost + TopCost
               /\ (task.left - 1) * TopCost \in Nat
    <3>1. task.left - 1 \in Nat /\ (task.left - 1) + 1 = task.left
      BY <2>1, <2>2
    <3>2. QED
      BY <2>1, <3>1, Times
  <2>3. CASE CallTool
    <3>1. /\ task.left > 0 /\ task.pc = "working" /\ task'.pc = "handling"
          /\ task'.left = task.left - 1
      BY <2>3 DEF CallTool, TypeOK
    <3>2. Rest = task.left * TopCost /\ Rest' = (task.left - 1) * TopCost + TopCost
      BY <3>1 DEF Rest
    <3>3. QED
      BY <2>1, <2>2, <3>1, <3>2
  <2>4. CASE RecordRefusal
    <3>1. CASE task.pc = "working"
      <4>1. task.left > 0 /\ task'.pc = "working" /\ task'.left = task.left - 1
        BY <2>4, <3>1 DEF RecordRefusal, TypeOK
      <4>2. Rest = task.left * TopCost /\ Rest' = (task.left - 1) * TopCost
        BY <3>1, <4>1 DEF Rest
      <4>3. QED
        BY <2>1, <2>2, <4>1, <4>2
    <3>2. CASE task.pc = "handling"
      <4>1. task'.pc = "working" /\ task'.left = task.left
        BY <2>4, <3>2 DEF RecordRefusal, TypeOK
      <4>2. Rest = task.left * TopCost + TopCost /\ Rest' = task.left * TopCost
        BY <3>2, <4>1 DEF Rest
      <4>3. QED
        BY <2>1, <4>2
    <3>3. QED
      BY <2>4, <3>1, <3>2 DEF RecordRefusal
  <2>5. ASSUME NEW c \in Costs, HandlerReturns(c) PROVE Rest' <= Rest
    <3>1. /\ task.pc = "handling" /\ task'.pc = "recording" /\ task'.cost = c
          /\ task'.left = task.left /\ c \in Nat /\ c <= TopCost
      <4>1. c \in Nat /\ c <= TopCost
        BY KnownCosts, Bounds
      <4>2. QED
        BY <2>5, <4>1, TaskTyped DEF HandlerReturns
    <3>2. Rest = task.left * TopCost + TopCost /\ Rest' = task.left * TopCost + c
      BY <3>1 DEF Rest
    <3>3. QED
      BY <2>1, <3>1, <3>2
  <2>6. QED
    BY <2>3, <2>4, <2>5
<1>6. ExecutionBounded'
  <2>1. SUFFICES ASSUME NEW i \in DOMAIN budgets, Chargeable(i)'
                 PROVE  budgets[i].spent + Rest' <= Bound
    BY <1>1 DEF ExecutionBounded, Bound
  <2>2. budgets[i].spent + Rest <= Bound
    BY <1>1, <2>1 DEF ExecutionBounded, Chargeable, Start
  <2>3. budgets[i].spent \in Nat /\ Rest \in Nat /\ Rest' \in Nat /\ Bound \in Nat
    <3>1. Rest' \in Nat
      <4>1. ASSUME TypeOK' PROVE /\ task'.left * TopCost \in Nat /\ TopCost \in Nat
                                 /\ task'.cost \in Nat
        <5>1. task'.left \in 0..MaxCalls /\ task'.cost \in Costs \cup {0}
          <6>1. task' \in [pc : {"idle", "preflight", "working", "handling",
                                "recording", "raised"},
                          agent : SUBSET Agents, left : 0..MaxCalls,
                          cost : Costs \cup {0}]
            BY <4>1 DEF TypeOK
          <6>2. QED
            BY <6>1
        <5>2. task'.left \in Nat /\ task'.cost \in Nat /\ TopCost \in Nat
          <6>1. \A c \in Costs \cup {0} : c \in Nat /\ TopCost \in Nat
            BY KnownCosts, Bounds
          <6>2. \A n \in 0..MaxCalls : n \in Nat
            BY Bounds
          <6>3. QED
            BY <5>1, <6>1, <6>2
        <5>3. QED
          BY <5>2, Times
      <4>2. QED
        BY <1>2, <4>1 DEF Rest
    <3>2. QED
      BY <1>1, <3>1, BucketTyped, RestBounded, BoundTyped
  <2>4. QED
    BY <1>5, <2>2, <2>3
<1>7. QED
  BY <1>2, <1>3, <1>4, <1>6

\* A charge moves the call's cost from what is left to what is spent.
LEMMA RecordBounded == ASSUME BoundInv, Record PROVE BoundInv'
<1> USE DEF BoundInv
<1>1. /\ UNCHANGED <<day, edits>> /\ look' = NoLook /\ budgets' = Charged
      /\ task.pc = "recording" /\ task'.pc = "working" /\ task'.agent = task.agent
      /\ task'.left = task.left
  BY DEF Record, TypeOK
<1>2. TypeOK'
  BY ExecuteTyped DEF Execute
<1>3. /\ DOMAIN budgets' = DOMAIN budgets
      /\ \A i \in DOMAIN budgets :
            /\ budgets'[i].scope = budgets[i].scope
            /\ budgets'[i].period = budgets[i].period
            /\ budgets'[i].start = budgets[i].start
            /\ budgets'[i].spent = budgets[i].spent + (IF i \in look.rows THEN task.cost ELSE 0)
  <2>1. \A i \in DOMAIN budgets : budgets[i] \in Bucket /\ budgets[i].spent \in Nat
    BY BucketTyped DEF TypeOK
  <2>2. QED
    <3>1. SUFFICES ASSUME NEW i \in DOMAIN budgets
                   PROVE  /\ budgets'[i].scope = budgets[i].scope
                          /\ budgets'[i].period = budgets[i].period
                          /\ budgets'[i].start = budgets[i].start
                          /\ budgets'[i].spent = budgets[i].spent
                                + (IF i \in look.rows THEN task.cost ELSE 0)
      BY <1>1 DEF Charged
    <3>2. budgets'[i] = IF i \in look.rows
                        THEN [budgets[i] EXCEPT !.spent = @ + task.cost] ELSE budgets[i]
      BY <1>1 DEF Charged
    <3>3. CASE i \in look.rows
      BY <2>1, <3>2, <3>3 DEF Bucket
    <3>4. CASE i \notin look.rows
      BY <2>1, <3>2, <3>4
    <3>5. QED
      BY <3>3, <3>4
<1>4. Begun' /\ OwnLookups'
  BY <1>1, <1>3 DEF Begun, OwnLookups, NoLook
<1>5. /\ task.cost \in Nat /\ task.left * TopCost \in Nat
      /\ Rest = task.left * TopCost + task.cost /\ Rest' = task.left * TopCost
  BY <1>1, TaskTyped DEF Rest
<1>6. \A i \in look.rows : i \in DOMAIN budgets /\ budgets[i].spent + Rest <= Bound
  BY <1>1 DEF ExecutionBounded, Executing, TypeOK
<1>7. SpentBounded'
  <2>1. SUFFICES ASSUME NEW i \in DOMAIN budgets PROVE budgets'[i].spent <= Bound
    BY <1>3 DEF SpentBounded, Bound
  <2>2. budgets[i].spent \in Nat /\ Bound \in Nat /\ budgets[i].spent <= Bound
    BY BucketTyped, BoundTyped DEF SpentBounded
  <2>3. QED
    BY <1>3, <1>5, <1>6, <2>2
<1>8. ExecutionBounded'
  <2>1. SUFFICES ASSUME NEW i \in DOMAIN budgets, Chargeable(i)'
                 PROVE  budgets'[i].spent + Rest' <= Bound
    BY <1>1, <1>3 DEF ExecutionBounded, Bound, NoLook
  <2>2. Chargeable(i)
    BY <1>1, <1>3, <2>1 DEF Chargeable, Start
  <2>3. budgets[i].spent + Rest <= Bound /\ budgets[i].spent \in Nat /\ Bound \in Nat
    BY <1>1, <2>2, BucketTyped, BoundTyped DEF ExecutionBounded, Executing
  <2>4. QED
    BY <1>3, <1>5, <2>3
<1>9. PreflightBounded'
  BY <1>1 DEF PreflightBounded
<1>10. QED
  BY <1>2, <1>4, <1>7, <1>8, <1>9

LEMMA BoundInit == Init => BoundInv
<1>1. SUFFICES ASSUME Init PROVE BoundInv
  OBVIOUS
<1>2. DOMAIN budgets = {} /\ edits = {} /\ look.todo = <<>> /\ task.pc = "idle"
  BY <1>1 DEF Init, NoTask, NoLook
<1>3. QED
  BY <1>1, <1>2, TypeInit DEF BoundInv, Begun, OwnLookups, SpentBounded, PreflightBounded,
                              ExecutionBounded, Executing

LEMMA BoundStep == ASSUME BoundInv, [Next]_vars PROVE BoundInv'
<1>1. CASE UNCHANGED vars
  <2>1. TypeOK'
    BY <1>1, TypeStep DEF BoundInv
  <2>2. QED
    BY <1>1, <2>1 DEF vars, BoundInv, Begun, OwnLookups, SpentBounded, PreflightBounded,
          ExecutionBounded, Chargeable, LookedUp, Executing, Rest, Bound, Start
<1>2. CASE Next
  BY <1>2, TickBounded, EnsureReadBounded, EnsureCommitBounded, ClaimBounded,
     LookUpBounded, DecideBounded, IdleBounded, CallBounded, RecordBounded
     DEF Next, Ensure, Dispatch, Execute
<1>3. QED
  BY <1>1, <1>2

\* No bucket is ever charged more than the highest limit and what the calls of
\* one execution cost, however many agents share it, whatever operators set, and
\* wherever midnight falls: what a preflight check reads may be stale by then,
\* but only one run executes at a time, and it charges rows it or its claim saw.
THEOREM OverspendIsBounded == Spec => []OverspendBounded
<1>1. BoundInv => OverspendBounded
  BY DEF BoundInv, SpentBounded, Bound, OverspendBounded
<1>2. QED
  BY <1>1, BoundInit, BoundStep, PTL DEF Spec

-----------------------------------------------------------------------------
(* The books and the audit log.                                            *)

Ours(i)    == budgets[i].scope \in {task.agent, {Studio}}
Current(i) == budgets[i].start = Start(budgets[i].period)
Single(i)  == Cardinality(budgets[i].scope) = 1
Owed(i)    == Audited(budgets[i].scope) - budgets[i].since

\* A cost is being charged.
Pricing == task.pc = "recording" /\ task.cost > 0

NotOver == \A i \in DOMAIN budgets : budgets[i].spent <= Owed(i)

\* A bucket that a charge under way will miss, having been created after its
\* lookup, has missed none before.
NotUnder ==
    \A i \in DOMAIN budgets :
        Single(i) /\ Current(i) =>
            /\ Owed(i) <= budgets[i].spent + TopCost
            /\ Pricing /\ Ours(i) /\ LookedUp(i) /\ i \notin look.rows =>
                 Owed(i) <= budgets[i].spent

OwnRows == \A i \in look.rows : Ours(i)

BooksInv == BoundInv /\ NotOver /\ NotUnder /\ OwnRows

LEMMA AuditedIs ==
    ASSUME TypeOK, NEW x \in Agents \cup {Studio}
    PROVE  Audited({x}) = ledger[x] /\ {x} \in Scopes
<1>1. (CHOOSE a \in {x} : TRUE) = x
  OBVIOUS
<1> QED
  BY <1>1 DEF Audited, Scopes

LEMMA OwedTyped ==
    ASSUME TypeOK, NEW i \in DOMAIN budgets
    PROVE  /\ Audited(budgets[i].scope) \in Nat /\ budgets[i].since \in Nat
           /\ budgets[i].spent \in Nat /\ Owed(i) \in Int /\ TopCost \in Nat
<1>1. budgets[i] \in Bucket
  BY DEF TypeOK
<1>2. Audited(budgets[i].scope) \in Nat
  BY <1>1, AuditedTyped DEF Bucket
<1>3. budgets[i].since \in Nat /\ budgets[i].spent \in Nat
  BY <1>1 DEF Bucket
<1> QED
  BY <1>2, <1>3, Bounds DEF Owed

LEMMA SingleScope ==
    ASSUME TypeOK, NEW i \in DOMAIN budgets, Single(i)
    PROVE  \E x \in Agents \cup {Studio} : budgets[i].scope = {x}
<1>1. budgets[i].scope \in Scopes
  BY BucketTyped
<1>2. budgets[i].scope \subseteq Agents \cup {Studio} /\ IsFiniteSet(budgets[i].scope)
  <2>1. CASE \E x \in Agents \cup {Studio} : budgets[i].scope = {x}
    BY <2>1, FS_Singleton
  <2>2. CASE \E a \in Agents : budgets[i].scope = {a, Studio}
    <3>1. PICK a \in Agents : budgets[i].scope = {a, Studio}
      BY <2>2
    <3>2. IsFiniteSet({a}) /\ {a, Studio} = {a} \cup {Studio}
      BY FS_Singleton
    <3>3. IsFiniteSet({a} \cup {Studio})
      BY <3>2, FS_AddElement
    <3> QED
      BY <3>1, <3>2, <3>3
  <2> QED
    BY <1>1, <2>1, <2>2 DEF Scopes
<1>3. PICK x : budgets[i].scope = {x}
  BY <1>2, FS_Singleton DEF Single
<1> QED
  BY <1>2, <1>3

\* Neither the books nor the audit log change, and nothing is being charged.
LEMMA BooksFrame ==
    ASSUME BooksInv, BoundInv', UNCHANGED <<day, budgets, ledger>>,
           ~Pricing', look'.rows = {}
    PROVE  BooksInv'
<1>1. \A i \in DOMAIN budgets : /\ Owed(i)' = Owed(i) /\ (Single(i)' <=> Single(i))
                                /\ (Current(i)' <=> Current(i))
  BY DEF Owed, Audited, Single, Current, Start
<1>2. NotOver' /\ NotUnder' /\ OwnRows'
  BY <1>1 DEF BooksInv, NotOver, NotUnder, OwnRows
<1> QED
  BY <1>2 DEF BooksInv

LEMMA TickBooks == ASSUME BooksInv, Tick PROVE BooksInv'
<1>1. BoundInv' /\ UNCHANGED <<budgets, ledger, task, look>>
  BY TickBounded DEF BooksInv, Tick
<1>2. \A i \in DOMAIN budgets : Current(i)' => Current(i)
  BY StillCurrent DEF BooksInv, BoundInv, Current, Tick
<1>3. \A i \in DOMAIN budgets :
        /\ Owed(i)' = Owed(i) /\ (Single(i)' <=> Single(i))
        /\ (Ours(i)' <=> Ours(i)) /\ (LookedUp(i)' <=> LookedUp(i))
  BY <1>1 DEF Owed, Audited, Single, Ours, LookedUp
<1>4. Pricing' <=> Pricing
  BY <1>1 DEF Pricing
<1>5. NotOver' /\ NotUnder' /\ OwnRows'
  BY <1>1, <1>2, <1>3, <1>4 DEF BooksInv, NotOver, NotUnder, OwnRows, Ours
<1> QED
  BY <1>1, <1>5 DEF BooksInv

\* A new bucket owes nothing yet.
LEMMA EnsureBooks ==
    ASSUME BooksInv, NEW t \in edits, EnsureCommit(t)
    PROVE  BooksInv'
<1>1. BoundInv' /\ UNCHANGED <<day, ledger, task, look>> /\ TypeOK /\ TypeOK'
  BY EnsureCommitBounded DEF BooksInv, BoundInv, EnsureCommit
<1>2. /\ DOMAIN budgets \subseteq DOMAIN budgets'
      /\ \A i \in DOMAIN budgets :
            /\ budgets'[i].scope = budgets[i].scope
            /\ budgets'[i].period = budgets[i].period
            /\ budgets'[i].start = budgets[i].start
            /\ budgets'[i].spent = budgets[i].spent
            /\ budgets'[i].since = budgets[i].since
      /\ \A i \in DOMAIN budgets' \ DOMAIN budgets :
            /\ budgets'[i].spent = 0
            /\ budgets'[i].since = Audited(budgets'[i].scope)
  BY <1>1, EnsureWrites
<1>3. \A s : Audited(s)' = Audited(s)
  BY <1>1 DEF Audited
<1>4. ASSUME NEW i \in DOMAIN budgets' \ DOMAIN budgets
      PROVE  Owed(i)' = 0 /\ budgets'[i].spent = 0
  <2>1. budgets'[i] \in Bucket
    BY <1>1 DEF TypeOK
  <2>2. budgets'[i].since \in Nat
    BY <2>1 DEF Bucket
  <2>3. Owed(i)' = Audited(budgets'[i].scope) - budgets'[i].since
    BY <1>3 DEF Owed
  <2> QED
    BY <1>2, <2>2, <2>3
<1>5. ASSUME NEW i \in DOMAIN budgets
      PROVE  /\ Owed(i)' = Owed(i) /\ (Single(i)' <=> Single(i))
             /\ (Current(i)' <=> Current(i)) /\ (Ours(i)' <=> Ours(i))
             /\ (LookedUp(i)' <=> LookedUp(i)) /\ budgets'[i].spent = budgets[i].spent
  BY <1>1, <1>2, <1>3 DEF Owed, Single, Current, Start, Ours, LookedUp
<1>6. Pricing' <=> Pricing
  BY <1>1 DEF Pricing
<1>7. NotOver'
  BY <1>4, <1>5 DEF BooksInv, NotOver
<1>8. NotUnder'
  <2>1. ASSUME NEW i \in DOMAIN budgets' \ DOMAIN budgets
        PROVE  /\ Owed(i)' <= budgets'[i].spent + TopCost
               /\ Owed(i)' <= budgets'[i].spent
    BY <1>4, Bounds
  <2> QED
    BY <1>1, <1>5, <1>6, <2>1 DEF BooksInv, NotUnder
<1>9. OwnRows'
  BY <1>1, <1>5 DEF BooksInv, OwnRows, TypeOK
<1> QED
  BY <1>1, <1>7, <1>8, <1>9 DEF BooksInv

\* A lookup finds every bucket of its scope and period that is there.
LEMMA LookUpBooks == ASSUME BooksInv, LookUp PROVE BooksInv'
<1> DEFINE h   == Head(look.todo)
           ids == Found(h[1], h[2])
<1>1. /\ BoundInv' /\ TypeOK /\ UNCHANGED <<day, budgets, ledger, task>>
      /\ look.todo # <<>> /\ look.todo \in Seq(Scopes \X Periods)
      /\ look'.todo = Tail(look.todo) /\ look'.rows = look.rows \cup ids
  BY LookUpBounded DEF BooksInv, BoundInv, LookUp, Seen, TypeOK
<1>2. /\ 1 \in DOMAIN look.todo /\ h = look.todo[1] /\ h \in Scopes \X Periods
      /\ \A k \in DOMAIN look.todo : k # 1 => /\ k - 1 \in DOMAIN look'.todo
                                              /\ look'.todo[k - 1] = look.todo[k]
  BY <1>1
<1>3. \A i \in DOMAIN budgets :
        /\ Owed(i)' = Owed(i) /\ (Single(i)' <=> Single(i))
        /\ (Current(i)' <=> Current(i)) /\ (Ours(i)' <=> Ours(i))
  BY <1>1 DEF Owed, Audited, Single, Current, Start, Ours
<1>4. ASSUME NEW i \in DOMAIN budgets, Current(i), LookedUp(i)', i \notin look'.rows
      PROVE  LookedUp(i)
  <2>1. SUFFICES ASSUME NEW k \in DOMAIN look.todo,
                        look.todo[k] = <<budgets[i].scope, budgets[i].period>>
                 PROVE  FALSE
    BY DEF LookedUp
  <2>2. k = 1
    BY <1>1, <1>2, <1>4, <2>1 DEF LookedUp
  <2>3. i \in ids
    BY <1>2, <1>4, <2>1, <2>2 DEF Found, Current
  <2> QED
    BY <1>1, <1>4, <2>3
<1>5. NotOver'
  BY <1>1, <1>3 DEF BooksInv, NotOver
<1>6. NotUnder'
  BY <1>1, <1>3, <1>4 DEF BooksInv, NotUnder, Pricing
<1>7. OwnRows'
  <2>1. \A i \in ids : Ours(i)
    BY <1>2 DEF Found, Ours, BooksInv, BoundInv, OwnLookups
  <2> QED
    BY <1>1, <2>1 DEF BooksInv, OwnRows, Ours
<1> QED
  BY <1>1, <1>5, <1>6, <1>7 DEF BooksInv

\* When a cost comes back, all of the run's buckets are to be looked up.
LEMMA ReturnBooks ==
    ASSUME BooksInv, NEW c \in Costs, HandlerReturns(c)
    PROVE  BooksInv'
<1>1. /\ BoundInv' /\ TypeOK /\ UNCHANGED <<day, budgets, ledger>>
      /\ task.pc = "handling" /\ task'.cost = c /\ task'.agent = task.agent
      /\ look'.rows = {}
  <2>1. task' = [task EXCEPT !.pc = "recording", !.cost = c] /\ task.pc = "handling"
    BY DEF HandlerReturns
  <2>2. task'.cost = c /\ task'.agent = task.agent
    BY <2>1, TaskTyped DEF BooksInv, BoundInv
  <2> QED
    BY <2>1, <2>2, CallBounded DEF BooksInv, BoundInv, HandlerReturns, NoLook
<1>2. CASE ~Pricing'
  BY <1>1, <1>2, BooksFrame
<1>3. CASE Pricing'
  <2>1. PICK a \in Agents : task.agent = {a} /\ (CHOOSE b \in task.agent : TRUE) = a
    BY <1>1, TaskAgent
  <2>2. look'.todo = Lookups(a)
    BY <1>1, <1>3, <2>1 DEF HandlerReturns, NoLook, Pricing
  <2>3. ASSUME NEW i \in DOMAIN budgets, Ours(i)' PROVE ~LookedUp(i)'
    <3>1. budgets[i].scope \in {{a}, {Studio}} /\ budgets[i].period \in Periods
      BY <1>1, <2>1, <2>3, BucketTyped DEF Ours
    <3>2. PICK k \in 1..4 : Lookups(a)[k] = <<budgets[i].scope, budgets[i].period>>
      BY <3>1, LookupsTyped
    <3>3. DOMAIN Lookups(a) = 1..4
      BY LookupsTyped
    <3> QED
      BY <1>1, <2>2, <3>2, <3>3 DEF LookedUp
  <2>4. \A i \in DOMAIN budgets : /\ Owed(i)' = Owed(i) /\ (Single(i)' <=> Single(i))
                                  /\ (Current(i)' <=> Current(i))
    BY <1>1 DEF Owed, Audited, Single, Current, Start
  <2>5. NotOver' /\ NotUnder' /\ OwnRows'
    BY <1>1, <2>3, <2>4 DEF BooksInv, NotOver, NotUnder, OwnRows
  <2> QED
    BY <1>1, <2>5 DEF BooksInv
<1> QED
  BY <1>2, <1>3

\* A charge reaches every bucket looked up; one that came too late misses it.
LEMMA RecordBooks == ASSUME BooksInv, Record PROVE BooksInv'
<1>1. /\ BoundInv' /\ TypeOK /\ look' = NoLook /\ budgets' = Charged /\ UNCHANGED day
      /\ task.pc = "recording" /\ look.todo = <<>> /\ task'.pc = "working"
      /\ \A x \in Agents \cup {Studio} :
            ledger'[x] = ledger[x] + (IF x \in task.agent \cup {Studio} THEN task.cost ELSE 0)
  BY RecordBounded DEF BooksInv, BoundInv, Record, TypeOK
<1>2. task.cost \in Nat /\ task.cost <= TopCost /\ TopCost \in Nat
  BY <1>1, TaskTyped
<1>3. PICK a \in Agents : task.agent = {a}
  BY <1>1, TaskAgent
<1>4. \A x \in Agents \cup {Studio} : ledger[x] \in Nat
  BY <1>1 DEF TypeOK
<1>5. /\ DOMAIN budgets' = DOMAIN budgets
      /\ \A i \in DOMAIN budgets :
            /\ budgets'[i].scope = budgets[i].scope
            /\ budgets'[i].period = budgets[i].period
            /\ budgets'[i].start = budgets[i].start
            /\ budgets'[i].since = budgets[i].since
            /\ budgets'[i].spent = budgets[i].spent + (IF i \in look.rows THEN task.cost ELSE 0)
  <2>1. ASSUME NEW i \in DOMAIN budgets
        PROVE  /\ budgets'[i].scope = budgets[i].scope
               /\ budgets'[i].period = budgets[i].period
               /\ budgets'[i].start = budgets[i].start
               /\ budgets'[i].since = budgets[i].since
               /\ budgets'[i].spent = budgets[i].spent + (IF i \in look.rows THEN task.cost ELSE 0)
    <3>1. budgets[i] \in Bucket /\ budgets[i].spent \in Nat
      BY <1>1, BucketTyped DEF TypeOK
    <3>2. budgets'[i] = IF i \in look.rows
                        THEN [budgets[i] EXCEPT !.spent = @ + task.cost] ELSE budgets[i]
      BY <1>1 DEF Charged
    <3>3. CASE i \in look.rows
      BY <3>1, <3>2, <3>3 DEF Bucket
    <3>4. CASE i \notin look.rows
      BY <3>1, <3>2, <3>4
    <3> QED
      BY <3>3, <3>4
  <2> QED
    BY <1>1, <2>1 DEF Charged
<1>6. ASSUME NEW i \in DOMAIN budgets
      PROVE  /\ Owed(i)' = Owed(i) \/ Owed(i)' = Owed(i) + task.cost
             /\ Ours(i) => Owed(i)' = Owed(i) + task.cost
             /\ Single(i) /\ ~Ours(i) => Owed(i)' = Owed(i)
  <2>1. budgets[i].scope \in Scopes /\ budgets[i].since \in Nat
    BY <1>1, BucketTyped, OwedTyped
  <2> DEFINE Charges(x) ==
              /\ Audited(budgets[i].scope) = ledger[x]
              /\ Audited(budgets[i].scope)' = ledger'[x]
              /\ budgets[i].scope = {x} \/ (Studio \in budgets[i].scope /\ x = Studio)
  <2>2. PICK x \in Agents \cup {Studio} : Charges(x)
    <3>1. CASE Studio \in budgets[i].scope
      <4>1. Audited(budgets[i].scope) = ledger[Studio]
        BY <3>1 DEF Audited
      <4>2. Audited(budgets[i].scope)' = ledger'[Studio]
        BY <1>5, <3>1 DEF Audited
      <4>3. Charges(Studio)
        BY <3>1, <4>1, <4>2
      <4> HIDE DEF Charges
      <4> QED
        BY <4>3
    <3>2. CASE Studio \notin budgets[i].scope
      <4>1. PICK b \in Agents : budgets[i].scope = {b}
        BY <2>1, <3>2 DEF Scopes
      <4>2. (CHOOSE y \in budgets[i].scope : TRUE) = b
        BY <4>1
      <4>3. Audited(budgets[i].scope) = ledger[b]
        BY <3>2, <4>2 DEF Audited
      <4>4. Audited(budgets[i].scope)' = ledger'[b]
        BY <1>5, <3>2, <4>2 DEF Audited
      <4>5. Charges(b)
        BY <4>1, <4>3, <4>4
      <4> HIDE DEF Charges
      <4> QED
        BY <4>5
    <3> QED
      BY <3>1, <3>2
  <2>3. Owed(i) = ledger[x] - budgets[i].since /\ Owed(i)' = ledger'[x] - budgets[i].since
    BY <1>5, <2>2 DEF Owed
  <2>4. ledger[x] \in Nat
    BY <1>4, <2>2
  <2>5. Owed(i)' = Owed(i) + (IF x \in task.agent \cup {Studio} THEN task.cost ELSE 0)
    BY <1>1, <1>2, <2>1, <2>2, <2>3, <2>4
  <2>6. Owed(i) \in Int
    BY <1>1, OwedTyped
  <2>7. Ours(i) => x \in task.agent \cup {Studio}
    BY <1>3, <2>2 DEF Ours
  <2>8. Single(i) /\ ~Ours(i) => x \notin task.agent \cup {Studio}
    <3>1. Single(i) => \E y \in Agents \cup {Studio} : budgets[i].scope = {y}
      BY <1>1, SingleScope
    <3> QED
      BY <1>3, <2>2, <3>1 DEF Ours
  <2> QED
    BY <1>2, <2>5, <2>6, <2>7, <2>8
<1>7. ASSUME NEW i \in DOMAIN budgets
      PROVE  /\ (Single(i)' <=> Single(i)) /\ (Current(i)' <=> Current(i)) /\ LookedUp(i)
             /\ Owed(i) \in Int /\ budgets[i].spent \in Nat
  BY <1>1, <1>5, OwedTyped DEF Single, Current, Start, LookedUp
<1>8. NotOver'
  <2>1. ASSUME NEW i \in DOMAIN budgets PROVE budgets'[i].spent <= Owed(i)'
    <3>1. budgets[i].spent <= Owed(i) /\ (i \in look.rows => Ours(i))
      BY DEF BooksInv, NotOver, OwnRows
    <3> QED
      BY <1>2, <1>5, <1>6, <1>7, <3>1
  <2> QED
    BY <1>5, <2>1 DEF NotOver
<1>9. NotUnder'
  <2>1. ASSUME NEW i \in DOMAIN budgets, Single(i)', Current(i)'
        PROVE  Owed(i)' <= budgets'[i].spent + TopCost
    <3>1. /\ Single(i) /\ Owed(i) <= budgets[i].spent + TopCost
          /\ task.cost > 0 /\ Ours(i) /\ i \notin look.rows => Owed(i) <= budgets[i].spent
      BY <1>1, <1>7, <2>1 DEF BooksInv, NotUnder, Pricing
    <3>2. CASE i \in look.rows
      BY <1>2, <1>5, <1>6, <1>7, <3>1, <3>2 DEF BooksInv, OwnRows
    <3>3. CASE i \notin look.rows
      BY <1>2, <1>5, <1>6, <1>7, <3>1, <3>3
    <3> QED
      BY <3>2, <3>3
  <2> QED
    BY <1>1, <1>5, <2>1 DEF NotUnder, Pricing
<1>10. OwnRows'
  BY <1>1 DEF OwnRows, NoLook
<1> QED
  BY <1>1, <1>8, <1>9, <1>10 DEF BooksInv

LEMMA BooksStep == ASSUME BooksInv, [Next]_vars PROVE BooksInv'
<1>1. BoundInv' /\ TypeOK
  BY BoundStep DEF BooksInv, BoundInv
<1>2. CASE UNCHANGED vars \/ \E c \in Settings : EnsureRead(c)
  <2>1. UNCHANGED <<day, budgets, ledger, task, look>>
    BY <1>2 DEF vars, EnsureRead
  <2>2. NotOver' /\ NotUnder' /\ OwnRows'
    BY <2>1 DEF BooksInv, NotOver, NotUnder, OwnRows, Owed, Audited, Single, Current, Start, Ours,
                LookedUp, Pricing
  <2> QED
    BY <1>1, <2>2 DEF BooksInv
<1>3. CASE \/ LookUpRaises \/ Decide \/ CallTool \/ RecordRefusal \/ EndRun \/ Crash
           \/ \E a \in Agents : Claim(a)
  <2>1. UNCHANGED <<day, budgets, ledger>>
    BY <1>3 DEF LookUpRaises, Decide, CallTool, RecordRefusal, EndRun, Crash, Claim
  <2>2. task'.pc # "recording" /\ look'.rows = {}
    <3>1. /\ NoTask.pc = "idle" /\ NoLook.rows = {}
          /\ task \in [pc : {"idle", "preflight", "working", "handling", "recording", "raised"},
                       agent : SUBSET Agents, left : Nat, cost : Nat]
          /\ task.pc \notin {"preflight", "recording"} => look = NoLook
      BY <1>1, TaskTyped DEF NoTask, NoLook
    <3>2. CASE LookUpRaises \/ Decide
      BY <3>1, <3>2 DEF LookUpRaises, Decide, NoTask
    <3>3. CASE CallTool \/ RecordRefusal
      BY <3>1, <3>3 DEF CallTool, RecordRefusal
    <3>4. CASE EndRun \/ Crash \/ \E a \in Agents : Claim(a)
      BY <3>1, <3>4 DEF EndRun, Crash, Claim, NoTask, NoLook
    <3> QED
      BY <1>3, <3>2, <3>3, <3>4
  <2> QED
    BY <1>1, <2>1, <2>2, BooksFrame DEF Pricing
<1> QED
  BY <1>2, <1>3, TickBooks, EnsureBooks, LookUpBooks, ReturnBooks, RecordBooks
     DEF Next, Ensure, Dispatch, Execute

\* The books match the audit log: however lookups, charges, new buckets and
\* midnight fall, a bucket never holds more than the calls audited for its scope
\* since it was created, and, while its period lasts, all of them but one.
THEOREM BooksMatch == Spec => []BooksMatchLedger
<1>1. Init => BooksInv
  <2> SUFFICES ASSUME Init PROVE BooksInv
    OBVIOUS
  <2>1. DOMAIN budgets = {} /\ look.rows = {}
    BY DEF Init, NoLook
  <2> QED
    BY <2>1, BoundInit DEF BooksInv, NotOver, NotUnder, OwnRows
<1>2. BooksInv /\ [Next]_vars => BooksInv'
  BY BooksStep
<1>3. BooksInv => BooksMatchLedger
  BY DEF BooksInv, NotOver, NotUnder, BooksMatchLedger, Owed, Single, Current
<1> QED
  BY <1>1, <1>2, <1>3, PTL DEF Spec
=============================================================================
