---------------------------- MODULE StudioLoops -----------------------------
(***************************************************************************)
(* How a studio steers itself.  The scheduler wakes the reflector, which   *)
(* rewrites the playbook from what it reads, and the CEO, which seeds the  *)
(* KPI targets and delegates tasks; tasks, growth anomalies and QA         *)
(* failures wake other agents; pricing asks a person.                      *)
(*                                                                         *)
(* The runtime is a set of processes (two while a new one replaces an old  *)
(* one), each with one scheduler and one dispatcher.  What a run writes in *)
(* transactions of its own (playbook, insight, targets) stays when the run *)
(* fails; its state, events and approvals are committed together.          *)
(***************************************************************************)
EXTENDS Naturals, FiniteSets, SequencesExt

CONSTANTS
    Studios,      \* the studios of this instance: "amz", "app"
    Processes,    \* processes of the runtime
    Scheduled,    \* agents with a schedule in this instance
    Triggered,    \* agents people trigger in this instance
    Apps,         \* goals.tracked_apps
    Metrics,      \* metrics detect_anomalies compares with a threshold
    Named,        \* agents the LLM may name in a task
    Titles,       \* titles it may give, cut to 32 characters
    MaxTasks, MaxDay, MaxRuns, MaxManual, MaxFaults   \* bounds of the model

ASSUME KnownStudios == Studios \subseteq {"amz", "app"}
ASSUME Finite == IsFiniteSet(Scheduled) /\ IsFiniteSet(Apps) /\ IsFiniteSet(Metrics)
ASSUME Bounds == {MaxTasks, MaxDay, MaxRuns, MaxManual, MaxFaults} \subseteq Nat /\ MaxDay > 0

VARIABLES
    studio,       \* the studio of this behaviour
    day,          \* the clock, in days: every schedule here is daily
    stamps,       \* agents.last_scheduled_at, 0 when it is NULL
    tick,         \* per process: what its scheduler holds locked and fires
    playbook,     \* rows of memory_procedural with the playbook's id
    insights,     \* days with a learning insight
    targets,      \* kpi_targets: absent, as seeded, or set by a person
    seeded,       \* the CEO's agent_state.kpi_targets_seeded
    runs,         \* agent_runs, oldest first
    work,         \* per process: the run its dispatcher executes
    events,       \* the events table, by idempotency key
    faults, manual,   \* counters that bound the model
    fired,        \* history: per agent, the days the scheduler enqueued a run
    recommended   \* history: recommendations committed, as <<run, app>>

vars == <<studio, day, stamps, tick, playbook, insights, targets, seeded, runs,
          work, events, faults, manual, fired, recommended>>

-----------------------------------------------------------------------------
(* The tables of the two studios.                                          *)

ValidTargets ==
    IF studio = "amz"
      THEN {"monitor", "scout", "analyst", "pricer", "repricer", "crosslister",
            "admanager", "qa", "dev"}
      ELSE {"growth-intel", "growth-exec", "pricing", "dev", "qa", "marketing",
            "hub-dev"}

\* suffix.replace('-', '_'); the amz agents have no hyphen.
Suffix(agent) ==
    CASE agent = "growth-intel" -> "growth_intel"
      [] agent = "growth-exec"  -> "growth_exec"
      [] agent = "hub-dev"      -> "hub_dev"
      [] OTHER -> agent

TaskType(agent) == <<"task", Suffix(agent)>>

\* What the event registry knows.
Schemas ==
    IF studio = "amz"
      THEN { <<"task", a>> : a \in ValidTargets } \cup {<<"qa", "smoke_failed">>}
      ELSE { <<"task", a>> : a \in {"growth_intel", "pricing", "growth_exec",
                                    "dev", "qa"} }
           \cup {<<"growth", "weekly_report">>, <<"growth", "anomaly_detected">>,
                 <<"experiment", "proposed">>, <<"experiment", "launched">>,
                 <<"ceo", "weekly_brief">>, <<"pricing", "recommendation">>,
                 <<"qa", "passed">>, <<"qa", "failed">>, <<"marketing", "report">>}

\* The subscriptions of studio.yaml to these types.
Subscribers(type) ==
    CASE type = <<"growth", "anomaly_detected">> -> {"pricing"}
      [] type \in {<<"qa", "failed">>, <<"qa", "smoke_failed">>} -> {"dev"}
      [] type[1] = "task" /\ studio = "amz" ->
            { a \in ValidTargets : <<"task", a>> = type }
      [] type[1] = "task" /\ studio = "app" ->
            { a \in {"growth-exec", "pricing", "growth-intel", "dev", "qa"} :
                  TaskType(a) = type }
      [] OTHER -> {}

\* Agents whose runs are modelled here; those of the others, which amz tasks
\* wake too, are AmzSourcing's and AmzPricing's.
Reporters == {"dev", "hub-dev", "pulse", "pruner"}
AgentsOf(s) == Reporters \cup
    (IF s = "amz" THEN {"reflector", "ceo", "qa", "analyst-daily"}
     ELSE {"reflector", "ceo", "qa", "growth-intel", "growth-exec", "pricing",
           "marketing"})
Agents == AgentsOf(studio)

ASSUME ScheduledAgents == \A s \in Studios : Scheduled \subseteq AgentsOf(s)

\* What a key leaves out.
Blank == ""

\* An event, known by its idempotency key: the run, what it is about, a title.
Event(r, type, about, title) ==
    [run |-> r, type |-> type, about |-> about, title |-> title]

-----------------------------------------------------------------------------
(* What one execution of an agent without side transactions may hand to    *)
(* the runner: events, and whether it asks a person.                       *)

Quiet(out) == [out |-> out, asks |-> FALSE]

\* One report per app.
PerApp(r, type) == SetToSeq({ Event(r, type, a, Blank) : a \in Apps })

\* node_analyze of growth-intel: a metric without an answer is no anomaly.
Anomalies(r, S) ==
    SetToSeq({ Event(r, <<"growth", "anomaly_detected">>, m[1], m[2]) : m \in S })

GrowthReports(r) ==
    { Quiet(Anomalies(r, S) \o PerApp(r, <<"growth", "weekly_report">>)) :
        S \in SUBSET (Apps \X Metrics) }

\* The LLM's answer may name another app than the one it was asked about, and
\* no price; only a price asks a person.
Recommends(r) ==
    { [out |-> <<Event(r, <<"pricing", "recommendation">>, a, Blank)>>, asks |-> priced] :
        a \in Apps, priced \in BOOLEAN }

\* node_gate: the CEO's lane proposes, and asks nobody.
Experiments(r) ==
    { Quiet(<<>>) } \cup
    { Quiet(<<Event(r, <<"experiment", lane>>, "new", Blank)>>) :
        lane \in {"proposed", "launched"} }

MarketingReport(r) == { Quiet(PerApp(r, <<"marketing", "report">>)) }

QaVerdict(r) ==
    { Quiet(<<Event(r, <<"qa", verdict>>, Blank, Blank)>>) : verdict \in {"passed", "failed"} }

\* amz_qa: the approvals for a service that is down never reach the runner,
\* QAState declares no "approvals".
SmokeTest(r) ==
    { Quiet(<<>>), Quiet(<<Event(r, <<"qa", "smoke_failed">>, Blank, Blank)>>) }

DailyReport(r) ==
    { Quiet(<<>>), Quiet(<<Event(r, <<"analyst", "daily_report">>, Blank, Blank)>>) }

Outputs(r, agent) ==
    CASE agent = "growth-intel"  -> GrowthReports(r)
      [] agent = "pricing"       -> Recommends(r)
      [] agent = "growth-exec"   -> Experiments(r)
      [] agent = "marketing"     -> MarketingReport(r)
      [] agent = "qa"            -> IF studio = "amz" THEN SmokeTest(r) ELSE QaVerdict(r)
      [] agent = "analyst-daily" -> DailyReport(r)
      [] agent \in Reporters     -> { Quiet(<<>>) }

-----------------------------------------------------------------------------

NoRun == [run |-> 0, step |-> "idle", base |-> 0, knew |-> FALSE,
          out |-> <<>>, asks |-> FALSE]

NoTick == [held |-> {}, due |-> {}, now |-> 0]

\* With history: whether the run was granted, and the tasks of its brief.
NewRun(agent) == [agent |-> agent, state |-> "pending", granted |-> FALSE,
                  tasks |-> <<>>]

Init ==
    /\ studio \in Studios
    /\ day = 1
    /\ stamps = [a \in Scheduled |-> 0]
    /\ tick = [p \in Processes |-> NoTick]
    /\ playbook = {} /\ insights = {}
    /\ targets = "absent" /\ seeded = FALSE
    /\ runs = <<>> /\ work = [p \in Processes |-> NoRun]
    /\ events = {}
    /\ faults = 0 /\ manual = 0
    /\ fired = [a \in Scheduled |-> <<>>]
    /\ recommended = <<>>

Clock == <<studio, day, stamps, tick, fired>>
Books == <<playbook, insights, targets>>
Count == <<faults, manual>>

-----------------------------------------------------------------------------
(* The scheduler.                                                          *)

Due(a) == stamps[a] = 0 \/ stamps[a] + 1 <= day

\* Mutant: the rows are read without a lock.
Free_Unlocked == Scheduled

\* FOR UPDATE SKIP LOCKED
Free == Scheduled \ UNION { tick[p].held : p \in Processes }

TickOpen(p) ==
    /\ tick[p] = NoTick /\ \E a \in Free : Due(a)
    /\ tick' = [tick EXCEPT ![p] =
                    [held |-> Free, due |-> { a \in Free : Due(a) }, now |-> day]]
    /\ UNCHANGED <<studio, day, stamps, fired, Books, Count, seeded, runs, work,
                   events, recommended>>

\* Every due agent gets its run and its stamp in one commit, except that the
\* run of one may be refused.
TickCommit(p) ==
    /\ tick[p].held # {}
    /\ \E S \in SUBSET tick[p].due :
          /\ Cardinality(tick[p].due \ S) <= MaxFaults - faults
          /\ faults' = faults + Cardinality(tick[p].due \ S)
          /\ Len(runs) + Cardinality(S) <= MaxRuns
          /\ runs' = runs \o [i \in DOMAIN SetToSeq(S) |-> NewRun(SetToSeq(S)[i])]
          /\ stamps' = [a \in Scheduled |-> IF a \in S THEN tick[p].now ELSE stamps[a]]
          /\ fired' = [a \in Scheduled |-> IF a \in S THEN Append(fired[a], tick[p].now)
                                                      ELSE fired[a]]
    /\ tick' = [tick EXCEPT ![p] = NoTick]
    /\ UNCHANGED <<studio, day, Books, manual, seeded, work, events, recommended>>

-----------------------------------------------------------------------------
(* Runs.                                                                   *)

\* Mutant: a run that was left running is claimed again.
Claimable_Running(r) == runs[r].state \in {"pending", "running"}

Claimable(r) == runs[r].state = "pending"

\* The dispatcher claims a pending run and loads the agent's state.
Claim(p, r) ==
    /\ work[p].run = 0 /\ Claimable(r)
    /\ runs' = [runs EXCEPT ![r].state = "running"]
    /\ work' = [work EXCEPT ![p] = [NoRun EXCEPT !.run = r, !.step = "start",
                                                 !.knew = seeded]]
    /\ UNCHANGED <<Clock, Books, Count, seeded, events, recommended>>

At(p, agent, step) ==
    /\ work[p].run # 0 /\ work[p].step = step
    /\ runs[work[p].run].agent = agent

Goes(p, execution) == work' = [work EXCEPT ![p] = execution]

\* An exception leaves the workflow: the run fails and nothing is committed.
Fails(p) ==
    /\ runs' = [runs EXCEPT ![work[p].run].state = "failed"]
    /\ work' = [work EXCEPT ![p] = NoRun]

\* Mutant: every execution makes keys of its own.
Clashes_New(batch) == \E i, j \in DOMAIN batch : i # j /\ batch[i] = batch[j]

\* Two events of one key, or a key that exists.
Clashes(batch) ==
    \/ \E i, j \in DOMAIN batch : i # j /\ batch[i] = batch[j]
    \/ \E i \in DOMAIN batch : batch[i] \in events

\* Payloads that hold what an LLM answered, its type unchecked (the Hub's numbers
\* are taken to be numbers); the schema of an app task leaves the payload out.
Loose(type) ==
    \/ type \in {<<"pricing", "recommendation">>, <<"experiment", "proposed">>,
                 <<"experiment", "launched">>}
    \/ type[1] = "task" /\ studio = "amz"

\* registry.validate raises for a type nobody registered, and for a payload of
\* the wrong shape; the events before it are in the session by then.
Accepted(batch) ==
    { SubSeq(batch, 1, n) : n \in
        { m \in 0 .. Len(batch) :
            /\ \A i \in 1 .. m : batch[i].type \in Schemas
            /\ m < Len(batch) => \/ batch[m + 1].type \notin Schemas
                                 \/ Loose(batch[m + 1].type) } }

\* The recommendations of a batch, as <<run, app>>.
Recommendations(r, batch) ==
    LET at == SetToSeq({ i \in DOMAIN batch :
                            batch[i].type = <<"pricing", "recommendation">> })
    IN [k \in DOMAIN at |-> <<r, batch[at[k]].about>>]

\* The dispatcher commits what the runner put into the session: the run's state,
\* which replaces the agent's, and the events that got there.  A key that exists
\* breaks the transaction, the dispatcher's own UPDATE with it, and the run stays
\* "running" for good.
Concludes(p, out, state) ==
    /\ IF Clashes(out)
         THEN /\ runs' = [runs EXCEPT ![work[p].run].state = "stuck"]
              /\ UNCHANGED <<events, seeded, recommended>>
         ELSE /\ runs' = [runs EXCEPT ![work[p].run].state = state]
              /\ events' = events \cup ToSet(out)
              /\ recommended' = recommended \o Recommendations(work[p].run, out)
              /\ seeded' = (seeded \/ runs[work[p].run].agent = "ceo")
    /\ work' = [work EXCEPT ![p] = NoRun]

\* An event that is refused fails the run.
Commit(p) ==
    /\ work[p].run # 0 /\ work[p].step = "done"
    /\ \E out \in Accepted(work[p].out) :
          Concludes(p, out, IF out # work[p].out THEN "failed"
                            ELSE IF work[p].asks THEN "awaiting" ELSE "completed")
    /\ UNCHANGED <<Clock, Books, Count>>

\* The timeout comes when the state is set already: among the memories, before
\* the events, or when the approval is written, after them.
CutShort(p) ==
    /\ work[p].run # 0 /\ work[p].step = "done"
    /\ faults < MaxFaults /\ faults' = faults + 1
    /\ \/ Concludes(p, <<>>, "failed")
       \/ work[p].asks /\ work[p].out \in Accepted(work[p].out)
             /\ Concludes(p, work[p].out, "failed")
    /\ UNCHANGED <<Clock, Books, manual>>

\* Everybody but the reflector and the CEO.
Produce(p) ==
    /\ work[p].run # 0 /\ work[p].step = "start"
    /\ LET agent == runs[work[p].run].agent
       IN /\ agent \notin {"reflector", "ceo"}
          /\ \E o \in Outputs(work[p].run, agent) :
                Goes(p, [work[p] EXCEPT !.step = "done", !.out = o.out, !.asks = o.asks])
    /\ UNCHANGED <<Clock, Books, Count, seeded, runs, events, recommended>>

-----------------------------------------------------------------------------
(* The reflector.                                                          *)

Versions == { row.version : row \in playbook }
Actives == { row.version : row \in { x \in playbook : x.active } }

\* node_collect, node_reflect: the highest active version, or 0.
ReflectCollect(p) ==
    /\ At(p, "reflector", "start")
    /\ Goes(p, [work[p] EXCEPT
                    !.step = IF studio = "amz" THEN "collected" ELSE "learned",
                    !.base = IF Actives = {} THEN 0
                             ELSE CHOOSE v \in Actives : \A u \in Actives : u <= v])
    /\ UNCHANGED <<Clock, Books, Count, seeded, runs, events, recommended>>

\* node_learning_insight: an insert under an id made of the day, which a
\* second reflector of that day finds taken.
ReflectLearn(p) ==
    /\ At(p, "reflector", "collected")
    /\ \/ /\ Goes(p, [work[p] EXCEPT !.step = "learned"])
          /\ UNCHANGED <<insights, runs>>
       \/ /\ day \notin insights
          /\ insights' = insights \cup {day}
          /\ Goes(p, [work[p] EXCEPT !.step = "learned"])
          /\ UNCHANGED runs
       \/ /\ day \in insights /\ Fails(p)
          /\ UNCHANGED insights
    /\ UNCHANGED <<Clock, playbook, targets, Count, seeded, events, recommended>>

\* Mutant: the old version stays active.
Retired_None(rows) == rows

Retired(rows) == { [row EXCEPT !.active = FALSE] : row \in rows }

\* node_persist: one transaction; (id, version) is the primary key.
ReflectPersist(p) ==
    /\ At(p, "reflector", "learned")
    /\ LET next == work[p].base + 1
       IN \/ /\ Goes(p, [work[p] EXCEPT !.step = "done"])
             /\ UNCHANGED <<playbook, runs>>
          \/ /\ next \notin Versions
             /\ playbook' = Retired(playbook) \cup {[version |-> next, active |-> TRUE]}
             /\ Goes(p, [work[p] EXCEPT !.step = "done"])
             /\ UNCHANGED runs
          \/ /\ next \in Versions /\ Fails(p)
             /\ UNCHANGED playbook
    /\ UNCHANGED <<Clock, insights, targets, Count, seeded, events, recommended>>

-----------------------------------------------------------------------------
(* The CEO.                                                                *)

\* node_seed_kpi_targets: a transaction of its own, unless the state the run
\* started from has the flag.
CeoSeed(p) ==
    /\ At(p, "ceo", "start")
    /\ targets' = IF work[p].knew THEN targets ELSE "seeded"
    /\ Goes(p, [work[p] EXCEPT !.step = "seeded"])
    /\ UNCHANGED <<Clock, playbook, insights, Count, seeded, runs, events, recommended>>

TaskLists(agents) ==
    UNION { [1 .. n -> [to : agents, title : Titles]] : n \in 0 .. MaxTasks }

\* Mutant: whom the LLM names is not checked.
Extracted_All == TaskLists(Named)

\* _extract_tasks: what can be left of an answer when the tasks for agents the
\* studio does not have are dropped from it.
Extracted == TaskLists(Named \cap ValidTargets)

\* The events of a brief.
Brief(r, tasks) ==
    (IF studio = "amz" THEN <<>> ELSE <<Event(r, <<"ceo", "weekly_brief">>, Blank, Blank)>>)
    \o [i \in DOMAIN tasks |->
            Event(r, TaskType(tasks[i].to), tasks[i].to, tasks[i].title)]

\* node_brief, node_publish: the brief has gone out before the commit.
CeoBrief(p) ==
    /\ At(p, "ceo", "seeded")
    /\ \E tasks \in Extracted :
          LET r == work[p].run
          IN /\ runs' = [runs EXCEPT ![r].tasks = tasks]
             /\ Goes(p, [work[p] EXCEPT !.step = "done", !.out = Brief(r, tasks)])
    /\ UNCHANGED <<Clock, Books, Count, seeded, events, recommended>>

-----------------------------------------------------------------------------
(* The bus, people, faults and the clock.                                  *)

\* The bus may deliver an event more than once.
Deliver(e) ==
    /\ Len(runs) < MaxRuns
    /\ \E a \in Subscribers(e.type) \cap Agents : runs' = Append(runs, NewRun(a))
    /\ UNCHANGED <<Clock, Books, Count, seeded, work, events, recommended>>

Trigger(a) ==
    /\ manual < MaxManual /\ manual' = manual + 1
    /\ Len(runs) < MaxRuns
    /\ runs' = Append(runs, NewRun(a))
    /\ UNCHANGED <<Clock, Books, faults, seeded, work, events, recommended>>

Decide(r) ==
    /\ runs[r].state = "awaiting"
    /\ \/ runs' = [runs EXCEPT ![r].state = "pending", ![r].granted = TRUE]
       \/ runs' = [runs EXCEPT ![r].state = "failed"]
    /\ UNCHANGED <<Clock, Books, Count, seeded, work, events, recommended>>

SetTarget ==
    /\ manual < MaxManual /\ manual' = manual + 1
    /\ targets' = "person"
    /\ UNCHANGED <<Clock, playbook, insights, faults, seeded, runs, work, events,
                   recommended>>

\* A timeout before the runner has the run's output, a budget that is spent; or
\* the database's connection breaks; or the process dies, its tick with it.
Fault(p) ==
    /\ faults < MaxFaults /\ faults' = faults + 1
    /\ \/ /\ work[p].run # 0 /\ Fails(p)
          /\ UNCHANGED tick
       \/ /\ work[p].run # 0 \/ tick[p] # NoTick
          /\ runs' = [r \in DOMAIN runs |->
                        IF r = work[p].run THEN [runs[r] EXCEPT !.state = "lost"]
                        ELSE runs[r]]
          /\ work' = [work EXCEPT ![p] = NoRun]
          /\ tick' \in {tick, [tick EXCEPT ![p] = NoTick]}
    /\ UNCHANGED <<studio, day, stamps, fired, Books, manual, seeded, events,
                   recommended>>

NextDay ==
    /\ day < MaxDay /\ day' = day + 1
    /\ UNCHANGED <<studio, stamps, tick, fired, Books, Count, seeded, runs, work,
                   events, recommended>>

Next ==
    \/ \E p \in Processes :
          \/ TickOpen(p) \/ TickCommit(p)
          \/ \E r \in DOMAIN runs : Claim(p, r)
          \/ Produce(p) \/ ReflectCollect(p) \/ ReflectLearn(p) \/ ReflectPersist(p)
          \/ CeoSeed(p) \/ CeoBrief(p) \/ Commit(p) \/ CutShort(p) \/ Fault(p)
    \/ \E e \in events : Deliver(e)
    \/ \E a \in Triggered \cap Agents : Trigger(a)
    \/ \E r \in DOMAIN runs : Decide(r)
    \/ SetTarget \/ NextDay

Spec == Init /\ [][Next]_vars

-----------------------------------------------------------------------------
(* Properties.                                                             *)

TypeOK ==
    /\ playbook \subseteq [version : Nat \ {0}, active : BOOLEAN]
    /\ insights \subseteq 1 .. MaxDay
    /\ targets \in {"absent", "seeded", "person"}
    /\ \A r \in DOMAIN runs :
          /\ runs[r].agent \in Agents
          /\ runs[r].state \in {"pending", "running", "awaiting", "completed",
                                "failed", "stuck", "lost"}
          /\ runs[r].state = "running" <=> \E p \in Processes : work[p].run = r
    /\ \A p, q \in Processes :
          p # q => /\ work[p].run = 0 \/ work[p].run # work[q].run
                   /\ tick[p].held \cap tick[q].held = {}
    /\ \A e \in events : e.run \in DOMAIN runs /\ e.type \in Schemas

\* The playbook has at most one active version, the newest of a history without
\* gaps, whoever rewrites it at the same time, fails after having rewritten it
\* or executes twice a day.
OnePlaybook ==
    /\ Versions = 1 .. Cardinality(playbook)
    /\ playbook # {} => Actives = {Cardinality(playbook)}

\* What the CEO delegates in a run that completes wakes the agent named and
\* nobody else.  A run whose brief has gone out fails, with the later tasks
\* lost and the earlier ones delegated, at a task for an agent without a
\* registered type or, in the amz studio, at any whose payload is refused; else
\* for a reason of its own, and then with no task at all.  It gets stuck only
\* over two tasks of one key.
TasksReach ==
    \A r \in { q \in DOMAIN runs : runs[q].agent = "ceo" } :
        LET tasks == runs[r].tasks
            reached == { i \in DOMAIN tasks :
                            \E e \in events : /\ e.run = r /\ e.title = tasks[i].title
                                              /\ Subscribers(e.type) = {tasks[i].to} }
        IN /\ runs[r].state = "completed" => reached = DOMAIN tasks
           /\ runs[r].state = "failed" =>
                 \/ reached = {}
                 \/ \E n \in DOMAIN tasks :
                       /\ tasks[n].to \in {"marketing", "hub-dev"} \/ studio = "amz"
                       /\ reached = { i \in DOMAIN tasks :
                                        \E j \in 1 .. n - 1 : tasks[j] = tasks[i] }
           /\ runs[r].state = "stuck" => ~IsInjective(tasks)

\* One run recommends a price for an app once, however often it is granted and
\* executes again; so a grant completes no run, unless the second execution
\* recommends for another app than the one that was approved.
RecommendedOnce ==
    /\ IsInjective(recommended)
    /\ \A r \in DOMAIN runs :
          runs[r].granted /\ runs[r].state = "completed" =>
              Cardinality({ a \in Apps : <<r, a>> \in ToSet(recommended) }) > 1

\* A schedule fires once a day, whichever process notices, and a run exists for
\* every stamp: not when a tick dies, nor when one of its runs is refused.
FiredOnce ==
    \A a \in Scheduled :
        /\ IsInjective(fired[a])
        /\ stamps[a] = IF fired[a] = <<>> THEN 0 ELSE Last(fired[a])

=============================================================================
