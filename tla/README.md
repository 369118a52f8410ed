# A verification of StudioOS

StudioOS runs teams of agents ("studios"). An agent is a row; what it does is a
*run*: something triggers it, a dispatcher claims it, a workflow executes, its
output (a state change, events, memories, requests for approval) is committed,
and its events wake other agents. This directory holds TLA+ modules of that
machinery, translated from `src/studioos`, the TLC configurations that check
small instances of them, and proofs that TLAPS checks for every instance.

Contents: [parts of the system](#1-the-system), [plan](#2-plan),
[modules](#3-the-modules-and-the-code), [runs](#4-what-the-runs-check),
[bounds](#5-bounds), [fairness](#6-fairness), [proofs](#7-what-is-proved),
[what the code does that its docs do not say](#8-where-the-code-and-its-docs-differ),
[what is left out](#9-not-modelled).

    tlc -config RunLifecycle_holds.cfg MCRunLifecycle     # one run of PROJECT.json
    tlapm GovernanceProofs.tla                            # one module's proofs

## 1. The system

One process (`runtime/loop.py: run_forever`) runs four asyncio tasks side by
side: dispatcher, outbox publisher, stream consumer, scheduler. The HTTP API, the
CLI and the Slack and Telegram handlers write to the same Postgres database from
their own transactions. The database runs at READ COMMITTED, and every
transaction goes through `db.session_scope` (commit on success, rollback on an
exception). The tasks meet only in the database and on the bus.

| Component | State | Operations | Talks to | Hard behaviour | What makes it correct |
|---|---|---|---|---|---|
| **Triggers** `runtime/triggers.py`, `trigger.py` | `agent_runs` | `create_pending_run` | called by scheduler, consumer, API, CLI, chat | refuses a paused agent at creation only; no idempotency | every accepted trigger ends as a finished run |
| **Dispatcher, runner** `runtime/dispatcher.py`, `runner.py` | `agent_runs.state`, `agent_state`, `events`, `approvals` | `claim_next_run`, `dispatch_once`, `execute_run` | budgets, workflows, approvals, outbox | timeouts at any point; a session that fails half-way; a process that dies | state and events commit together; every failure is recorded; queue is served |
| **Approvals** `approvals/store.py` | `approvals`, the parked run's state | `create_approval`, `decide_approval`, `expire_stale` | dispatcher loop (expiry), API, CLI, Slack | concurrent deciders and reaper without locks on the run | a run continues only when all its approvals are settled; none waits for nobody |
| **Outbox** `runtime/outbox.py` | `events.published_at` | `publish_batch` | bus | publish succeeds and commit fails | at least once |
| **Bus** `bus/inproc.py`, `bus/redis_backend.py` | stream, cursor and pending list per group, dead letters | `publish`, `consume`, `reclaim`, `ack`, `dead_letter` | outbox, consumer | redelivery, delivery counters, loss on restart (in process) | nothing acknowledged unhandled; attempts bounded |
| **Consumer** `runtime/consumer.py` | `agent_runs`, `events.dead_letter_at` | `consume_once`, `_process_batch`, `_mark_dead_letter` | bus, triggers | handler, acknowledgement and dead-letter write may fail one by one | each subscriber gets each event it matches, or a dead letter |
| **Budgets** `budget/store.py` | `budgets` | `ensure_budget`, `preflight_check`, `charge` | dispatcher (gate), tool invoker (charge), CLI | read-then-insert without a lock; clock read per lookup | a limit bounds what is spent; the books match the audit log |
| **Tool invoker** `tools/invoker.py` | `tool_calls`, `budgets` | `invoke_tool`, `_record` | workflows, budgets, tools | cancelled at any await | every call audited, and charged once |
| **Scheduler** `scheduler/loop.py` | `agents.last_scheduled_at` | `tick_once` | triggers | two processes tick at once; one refused agent among many in one session; a tick that dies | every due agent fires, none twice |
| **Slack, Telegram** `api/slack_events.py`, `slack_routing.py`, `api/telegram_webhook.py` | mention counters (in memory) | event handlers, `_process_mention`, `check_cascade` | triggers, approvals | repeated deliveries; colliding short names; agents that mention each other | cascades end; a studio's thread wakes its own agents, as far as the channel is known |
| **ReAct conversation** `workflows/react_conversation.py` | message list of one run | think, call tools, retry parsing, reply, wake whom the reply mentions | tools, Slack, triggers | three bounds (iterations, the library's steps, the run's time) on one loop | it ends; a call gets its own answer |
| **MCP clients** `tools/mcp_stdio.py`, `mcp_http.py` | a child, request ids | `_call` | child process | late answers, log lines, a dead child | each call gets its own answer |
| **Pricing loop** `workflows/amz_pricer.py`, `amz_repricer.py` | `lost_since`, `reprice_log`, the park and the grant of a repricer's run | scan and recommend; ask or call the engine | bus, approvals, BuyBoxPricer | a moving market, a dry-run switch that flips between two executions, rolled-back runs | two price changes a day, 15 minutes' patience, one call per run |
| **Sourcing** `amz_scout.py`, `amz_monitor.py`, `amz_admanager.py`, `amz_crosslister.py`, `amz_analyst*.py`, `amz_executor.py` | seen lists, last prices, drafts and listings on eBay | scan, report, score, confirm | bus, approvals, PriceFinder, eBay | lists cut at a size, effects that a rollback does not undo, re-execution after a grant | nothing is reported, listed or settled twice |
| **Studio steering** `*_ceo.py`, `*_reflector.py`, app-studio agents | playbook versions, insights, KPI targets, `kpi_targets_seeded` | reflect, seed, delegate, recommend | scheduler, bus, approvals, event registry | transactions of their own inside a run; read, think for minutes, write; unregistered types | one playbook; tasks reach whom they name; a grant recommends nothing twice |
| **Embedders** `memory/embedder.py` | none | `embed_batch`, fallback chain | providers | 429s, timeouts | a failed primary falls through |
| **Seeding** `studios/__init__.py` | agents, modes, subscriptions | `seed_*` | database | runs again on every start | constant while the program runs, modes excepted |
| **Memory, KPIs, registry, schemas, status, dashboard, other tools** | rows or constants | reads and appends | | none that control flow reads back | |

`PROJECT.json` lists these parts, finer, with the modules that model each and
what is left of it, and the hazards: the places in the code where an order of
events that no test has could break it, with the properties that would notice.

## 2. Plan

Ordered by what the rest of the system rests on.

| | Module | What it adds | State |
|---|---|---|---|
| 1 | `RunLifecycle`, `RunContract` | triggers, queue, execution, approvals, reaper; the abstract contract of a run | done |
| 2 | `RunLifecycleProofs` | types, the inductive invariant of the approval hold | done |
| 3 | `EventDelivery` | outbox, both buses, consumer | done |
| 4 | `Governance`, `GovernanceProofs` | budgets, preflight, audited calls; overspending proved bounded | done |
| 5 | `StudioLoops`, `StudioLoopsProofs` | `tick_once` in two processes, reflectors, CEOs, the app studio's agents; one playbook, one firing a day | done |
| 6 | `Conversation`, `ConversationProofs` | Slack and Telegram deliveries, routing, cascade counters, the ReAct loop, the MCP child | done |
| 7 | `AmzPricing`, `AmzPricingProofs` | the pricer's memory of losses and recommendations, the repricer's approval and its one call | done |
| 8 | `AmzScoring`, `AmzSourcing`, `AmzSourcingProofs` | the analyst's arithmetic; the capped lists, the finds, their verdicts and listings | done |
| P1 | `EventDeliveryProofs` | `Accounted` while the bus lives, `DuplicatesEarned` on both buses | done |
| P2 | `RunContractProofs` | the refinement of `RunContract` under every fault, `TornIsMarked` | done |
| P3 | `GovernanceProofs` | `BooksMatchLedger` | done |
| 9 | `Embedding` | retry and fallback chain against "first that answers" | open |
| 10 | composition | `EventDelivery`'s handler with `RunLifecycle`'s trigger and outbox: an event of a run wakes a run | open |
| P4 | `AmzSourcingProofs`, `AmzPricingProofs`, `StudioLoopsProofs` | every invariant and action property of the three modules | done |
| P5 | `EventDeliveryProofs` | `RetriesBounded`, `DeadLetterEarned`, `TypeOK`, and where the first two stop being true | done |
| P6 | `EventDelivery`, `Governance` | refinements of the channel and the account below | open |

Abstract specifications worth stating: `RunContract` (there), an *at-least-once
channel* for `EventDelivery` (send, deliver again while failures last, give up
into the dead letters), an *account* for `Governance` (a balance that a call
lowers once).

The modules to prove about hold no RECURSIVE operator, have one action per
operation, and name their assumptions on constants.

## 3. The modules and the code

### RunLifecycle

`agent_runs`, `approvals`, `events`, `agents.mode` and `agent_state` as committed
rows (`runState`, `runAgent`, `runPrio`, `output`, `apprState`, `apprRun`,
`apprExpiry`, `events`, `agentMode`, `lastRun`), and what three kinds of process
hold between two statements (`disp`, `reap`, `txns`).

| Code | Actions |
|---|---|
| `create_pending_run` | `CreateRun` |
| `claim_next_run`, first transaction of `dispatch_once` | `Claim`, `ClaimOverBudget` |
| `execute_run`, second transaction | `Complete`, `Park`, `WorkflowFails`, `WorkflowTimesOut`, `RejectEvent`, `TimeOutPersisting`, `LoseSession` |
| `decide_approval` | `DecideRead`, `DecideFlush`, `DecideCommit`, `DecideAborts` |
| `expire_stale` | `ReapSelect`, `ReapLoad`, `ReapCommit`, `ReapFails`; `BecomeDue` is the clock |
| seeding, operators | `SetMode` |
| the process | `Crash` |

A transaction whose effects appear in one commit is one action. One that reads,
lets others commit and then writes what it computed is an action per read and
one for the commit: that is where `decide_approval` and `expire_stale` meet. The
ORM writes an attribute only when it differs from what was loaded, and an UPDATE
waits for a row lock, not for what the row said: `RunAfter` and `Locked` say so.
`execute_run` is one action per way of ending because nobody else reads what it
writes before its commit; the timeout is not atomic with it
(`TimeOutPersisting`: what of the output was in the session when `wait_for`
cancelled it is committed with `timed_out`).

Abstracted: payloads, priorities to the few numbers that differ, `expires_at` to
never/later/due, the two SELECTs of `decide_approval` into one read, memories and
KPI snapshots (their failures are swallowed and nothing reads them back). A
deadlock the database resolves is `DecideAborts` or `ReapFails`. Events without
an idempotency key are not told apart: the workflows that emit them never park.

`RunContract` is the life cycle seen from outside, with every transaction taken as
one step: a run is started only when no approval it asked for is open and concluded
once per start; a success changes outcome, agent state, events and approvals
together; what is applied by halves (`CutShort`) belongs to a run that fails or
times out in the same step; the last grant releases a run that waits, a denial or an
expiry fails it. It states as well what the code does not keep, so that it is kept
under every fault: a failed run that still has an approval open comes back with the
last grant (`Granted`), an answer given after an expiry was selected, or the
expiry after an answer, replaces the other (`Settle`, `Lapsed`), and the reaper may
fail a run that was just released. `RunLifecycle!KeepsContract` is the refinement;
it covers the runs, the agents' states, the outbox and the approvals.

### EventDelivery

The `events` rows (`recorded`, `published`, `dead`), the runs created (`woken`),
the bus (`stream`, and per group `cursor`, `unacked`, `delivered`, plus `counter`
and `dlq`), the publisher (`outbox`) and the consumer (`batch`). `Backend` chooses
between `bus/inproc.py` and `bus/redis_backend.py`: in process, an entry has one
counter for all groups (`counter`, the `delivery_count` of `_Entry`) and a restart
empties the bus; in Redis each group counts (`delivered`), the bus survives and an
operation may fail with or without its effect. `Room` bounds the stream.

| Code | Actions |
|---|---|
| `publish_batch` | `SelectBatch`, `PublishOne`, `PublishFails`, `CommitBatch`, `CommitFails` |
| `bus.reclaim`, `bus.consume` | `Reclaim`, `Consume`, `ConsumeFails`; `ConsumeLost` when Redis has delivered and its answer is lost |
| `_process_batch` | `Handle`, `HandlerFails`, `Ack`, `AckFails` |
| dead letters | `DeadLetter`, `DeadLetterFails`, `MarkDead`, `MarkFails` |
| the process | `Crash` |

`CountOf` is `times_delivered` as the Redis backend reads it: a listing between
the first and last claimed id, cut to the number of ids. Abstracted: one consumer
with a stable name; the attempt counter on the event (no control reads it); idle
time (which pending messages are idle long enough is a choice).

`faults` counts what went wrong and, apart, the crashes: a crash can double an
event twice, once because its publication was not marked and once because its
handling was not acknowledged, so `DuplicatesEarned` allows it two.

### Governance

`budgets` rows in order of creation, the audit log as what it adds up to
(`ledger`, per agent and in all), the dispatcher's claim and execution (`task`,
`look`), open `budget-set` transactions (`edits`), the date (`day`).

| Code | Actions |
|---|---|
| `ensure_budget` | `EnsureRead`, `EnsureCommit` |
| `preflight_check` in the claim | `Claim`, `LookUp`, `LookUpRaises`, `Decide` |
| `invoke_tool` | `CallTool`, `RecordRefusal`, `HandlerReturns` |
| `_record`, `charge` | `LookUp`, `LookUpRaises`, `Record` |
| end, timeout or cancellation of the execution | `EndRun` |
| midnight, the process | `Tick`, `Crash` |

`_applicable_budgets` is four SELECTs, each reading the clock: four `LookUp`
steps between which a day may pass and an operator may commit. The queue is
abstracted: any agent's run may be the next. A bucket's `since` and the
`ledger` are derived from `created_at` and `tool_calls`; they let
`BooksMatchLedger` compare the two tables.

### AmzPricing

The listings of BuyBoxPricer as the market has them (`market`), the pricer's
`agent_state` (`lostSince`, `repriceLog`), its run between two queries (`scan`),
the committed recommendations (`events`), and per run of the repricer where its
life stands (`reprice`, `calls`). `firstLost` is history: since when every scan
has found the buy box lost.

| Code | Actions |
|---|---|
| `amz_pricer`: `node_scan`, first query | `ScanLost` |
| second query, `node_recommend`, `node_emit`, the commit | `Recommend`; `PricerFails` when it raises or times out late, with its state committed and its events lost |
| the consumer's trigger | `Deliver` |
| `amz_repricer`: `node_intake`, `node_decide`, `node_act` | `Start`, `Ask`, `Acknowledge`, `CallEngine`, `Finish` |
| the budget's refusal, an exception or a timeout of the repricer | `OutOfBudget`, `RepricerFails` |
| `decide_approval`, reaper | `Settle` |
| clock, sellers, the studio file, the process | `Tick`, `MarketMoves`, `SetMode`, `Crash` |

The rules are operators: `Proposals` (`_pick_strategy`, `_propose_price`),
`LostSinceAfter`, `Waiting`, `RateLimited`, `PriceWar`, `LogAfter`. The log of a
listing is the set of its entries, each the time and the number of the run that
made it: a run makes one at most, and only how many are young enough is ever
asked. Prices count
in steps of the underbid; the engine sets what price it likes. A price war's
approval is missing because the code drops it (section 8).

### AmzScoring, AmzSourcing

`AmzScoring` is arithmetic: `compute_profit` (cost, net profit, ROI),
`compute_risk` with its cascades of thresholds, the matrix of `decide`,
`classify_budget_tier`. Money is in whole dollars and comparisons of an ROI are multiplied out.

`AmzSourcing` has the catalog as the databases have it (`catalog`, `stranded`),
the agents' `agent_state` (`seen`, `lastPrices`), the run under way (`cur`,
`work`), `runs`, `events`, and what no rollback takes back (`drafts`, `live`).
`surfaced`, `forgotten`, `observed`, `lostRuns` are history.

| Code | Actions |
|---|---|
| scheduler, people; the consumer; the dispatcher after a grant | `Trigger`, `Deliver`, `Rerun`; `Settle` for an answer that does not release the run |
| `amz_scout` | `ScoutScan`, `ScoutEmit`; `ScoutCut` when it is cut short while its output is persisted |
| `amz_monitor` | `MonitorPick`, `MonitorDetect`; `MonitorCut` |
| `amz_admanager` | `AdScan`, `AdEmit` |
| `amz_crosslister` | `CrossScan`, then per item `CreateDraft`, `Publish`; `CrossEmit` |
| `amz_analyst` | `AnalystLoad`, `AnalystDecide` |
| `amz_executor` | `ExecutorTell` |
| a failure of the workflow, a death of the process; the world | `Fault`; `Move` |

A node that calls a service is a step, so that a run may die between two calls.
The LIMIT of a query with ties is every set the database may return (`Top`), a
seen list cut through a Python set is every set of that size (`Kept`). Failed
queries return nothing, as the tools' wrappers do. A run that times out, or whose
event is refused, when `runner.py:176` has set the agent's state commits that state:
`CutShort` with what `Partial` leaves of the events, in the cut actions and in the
second disjuncts of `AdEmit` and `CrossEmit`. A run has as many approvals as it
asked for (`asks`): a denial of one fails it, the last grant of another executes it
again.

### StudioLoops

One instance is one of the two studios (`studio`). Rows: `stamps`
(`last_scheduled_at`), `playbook`, `insights`, `targets`, `seeded`
(`kpi_targets_seeded` of the CEO's state), `runs`, `events`. Per process, the tick
(`tick`) and the execution (`work`) under way. `recommended` and `fired` are
history.

| Code | Actions |
|---|---|
| `tick_once` | `TickOpen` (the rows it locks with SKIP LOCKED), `TickCommit` |
| the dispatcher | `Claim`, `Commit`; `CutShort` for a timeout after the state is set |
| reflectors | `ReflectCollect`, `ReflectLearn`, `ReflectPersist` |
| CEOs | `CeoSeed`, `CeoBrief` |
| every other agent | `Produce`, by `Outputs(r, agent)` |
| the consumer, people, midnight | `Deliver`; `Trigger`, `Decide`, `SetTarget`; `NextDay` |
| a failure or the death of a process | `Fault` |

`Schemas` holds the registered event types, and `Loose` those whose payload holds
what an LLM gave and may be of the wrong shape: an output is cut at an event whose
type or payload the registry refuses (`Accepted`), the run fails and what is before
it stays (`dispatcher.py:114`). The Hub's numbers are taken to be numbers. Two events of one key leave the run stuck (`Clashes`).
What the LLM answers is a choice within what the parsers let through.

### Conversation

The thread: `channel`, `mapped` (whether the API's map has it), `tasks` (acknowledged
deliveries, in the API's memory),
`owner` (the last speaker), `queue` and `active` (runs), `mentioned` (the
counters), `client` and `child` (the two ends of the MCP pipe).

| Code | Actions |
|---|---|
| a Slack delivery, its background task, a Telegram message | `Post`, `ProcessMention`, `TelegramMessage` |
| the nodes of the graph and its edges | `LoadContext`, `Think`, `ExecuteTool`, `ForceRespond`, `FormatResponse` |
| `mcp_stdio._call` | `CallChild`, `ReadLine`, `CallFails` |
| the runs of whom the reply mentions; the end | `Chain`; `Finish` |
| the child | `ChildAnswers`, `ChildLogs`, `ChildDies` |
| the run's timeout, the processes | `TimeOut`, `ApiDies`, `Restart` |

`_AGENT_SHORT_NAMES` is `ByShort`: of two agents with one short name the later
wins. A channel that is in no map is looked up, and when Slack does not answer
(`known` in `ProcessMention`) those names decide; who spoke last may stay unknown
likewise. `strayed` is history. `StepLimits` is the graph library's recursion limit, which the code leaves
at its default (section 8). A repeated delivery is a run of its own, as in the
code. Abstracted: what is said, except whom it names.

## 4. What the runs check

Runs that pass:

| Run | Properties | What it shows |
|---|---|---|
| `RunLifecycle_holds` | `TypeOK`, `SettledBeforeRequeue`, `NoLostWakeup`, `HoldInv`, `TornIsMarked`, `KeepsContract` | with one decider at a time, every fault, two approvals with and without expiry: a run is taken only when nobody is asked any more, a parked run always has somebody to wait for, a state committed without its events belongs to a failed run, and the life cycle implements `RunContract` |
| `RunLifecycle_served` | `HighRunsEnd`, `EveryRunEnds` | agents that move between normal and degraded, runs of both priorities: those of high priority end though a held head hides others and nobody may decide; all end unless the head is held back for ever |
| `EventDelivery_redis` | `TypeOK`, `Accounted`, `DuplicatesEarned`, `EventuallyHandled` | two subscriptions, two attempts, any fault at any step, lost answers too: nothing lost, duplicates only for failures, every event handled or dead-lettered |
| `EventDelivery_inproc` | `Accounted`, `DeadLetterEarned`, `RetriesBounded` | one subscription, no restart: dead letters come after exactly the configured attempts |
| `Governance_books` | `TypeOK`, `OverspendBounded`, `BooksMatchLedger` | two operators, midnights, crashes and cancellations: overspending is bounded by one execution, buckets agree with the audit log |
| `AmzPricing_loop` | `TypeOK`, `CapKept`, `OneCallPerRun`, `WaitKept`, `GrantedActs` | a moving market, failing runs, repeated deliveries, a dry-run switch that flips: the cap and the wait hold, the engine is called once and never unasked, a granted run acts or is on record as failed |
| `AmzSourcing_finds` | `TypeOK`, `SurfacedEarned`, `ListedEarned`, `OneVerdict`, `BetterIsNotWorse`, `JumpFlagged` | failed queries, lost answers, crashes, re-executions: nothing is reported or listed twice that was not forgotten, a find is settled once, a jump is announced by the run that observes it or that run is on record as failed, the matrix is monotone |
| `StudioLoops_steers` | `TypeOK`, `OnePlaybook`, `TasksReach`, `RecommendedOnce`, `FiredOnce` | two processes, two days, failures, late timeouts, refused payloads: one active playbook, one firing a day, tasks reach whom they name and are lost only as said, a granted run recommends nothing twice |
| `Conversation_thread` | `StudioKept`, `AnswersMatch`, `CascadeEnds` | late and reordered answers, mentions in every reply, lookups that fail, timeouts and restarts: the thread comes to rest, in its studio unless a person or a failed lookup of a shared name leads out of it, and no call takes another's answer |

Runs that end in a counterexample, each for a sentence of the repository that the
code does not keep (section 8): `RunLifecycle_stuck`, `RunLifecycle_skew`,
`RunLifecycle_torn`.

The restrictions of the passing runs are what the counterexamples teach: with two
deciders `NoLostWakeup` is false (`skew`), so `holds` has one; a held head hides the
queue, so `EveryRunEnds` is conditional on its end, while `HighRunsEnd` is not; in
Redis the limit of attempts is missed, so `RetriesBounded` is checked in process. An
invariant that the code does break in a known way says so in its own words:
`TornIsMarked` is what is left of "state and events commit together",
`DuplicatesEarned` counts the runs that a redelivery adds, `SurfacedEarned` what the
lists have forgotten, `JumpFlagged` and `GrantedActs` allow for a run recorded as
failed, `TasksReach` names the tasks that are lost, `StudioKept` the lookup that
failed, `BetterIsNotWorse` asks for a product that costs anything.

Deadlock is not checked where the bounds stop the system: when `MaxRuns`,
`MaxEvents`, `MaxDay` or the approvals are used up there is nothing left to do.

Each property has a mutant in `PROJECT.json`: a definition replaced by what a
plausible slip would make of it (`OtherPending_WithSelf`: the query runs before
the flush; `Charged_First`: a charge stops at the first bucket), which the run
must catch. The mutants stand before the definitions they alter.

## 5. Bounds

- **Two runs, two approvals** (`RunLifecycle`). Skew needs two siblings; a
  reaper that loads a run once for two rows needs two rows; a run that hides
  another needs two. `MaxAsk` is 2 where siblings matter. `RunLifecycle_holds`
  has one idempotency key, so a re-execution collides with it or emits nothing.
- **Two agents, high and low priority** in `RunLifecycle_served`: a low run of one, held
  back while its agent is degraded, stands before or behind a high one.
- **One event, two groups, two faults** and one more for a dead letter that fails
  (`Limit`; `EventDelivery_redis`): a group's dead
  letter against the other's delivery, a lost commit after a lost publish. The
  stream holds up to `MaxEvents * (1 + MaxFaults)` entries. **Three events, one
  group, three faults** in process: batches of two with a remainder.
  `MaxAttempts` is 2 in Redis, so that a message is handled again after its
  acknowledgement failed, and dead-lettered after that; 1 in process, where batches
  are long. The code has 5; the comparison is what matters.
- **Two agents that share a studio bucket, two runs, one call each, one
  midnight** (`Governance_books`), limits below a call's cost so that one call
  overspends and the next run must be refused. Months are two days long, so that
  a midnight ends the day's buckets and not the month's.

- **Two listings, one of them aging; one repricer's run; three runs of the pricer;
  two ticks of 15 minutes, a day of two** (`AmzPricing_loop`): the cap of two is
  reached and must refuse a third; `ScanLimit` 1 makes one listing hide the
  other; two market moves lose, regain and lose a buy box. Clock and market stand
  still once the last scan is over (`Watched`), since nobody reads them any more.
- **Two products, three situations, seen lists of one** (`AmzSourcing_finds`):
  the second find drops the first, so that it may be found again. Three
  executions are a scan, its analyst and a re-execution or a second scan. One move
  of the catalog and one fault: a jump needs an observation, a move and a scan.
- **Two processes, two apps, two days, three runs, two tasks**
  (`StudioLoops_steers`): two reflectors at work at once, a task lost and one
  delegated, a schedule that is due again. The processes are symmetric.
- **Two posts, an agent and two called ceo, replies of one mention, two calls to the
  child, one log line, one fault** (`Conversation_thread`), a channel of a studio's and
  another one, `MAX_ITERATIONS` 2 against step limits of 4 to 6, so that either may
  end a conversation first;
  a mention limit of 1, so that a second mention must be refused.

The theorems of section 7 hold without these bounds; what is checked only within
them are the liveness properties, and the safety properties where a theorem names
a condition that a run does without.

## 6. Fairness

- `RunLifecycle!FairSpec`: weak fairness of `Dispatch`, `Finish`, `Reap`,
  `Settle`, `Pass`. The dispatcher loop catches every exception and goes on;
  `asyncio.wait_for(run_timeout_seconds)` ends an execution; an open transaction
  proceeds or aborts; time passes. Nobody has to trigger or decide, and no mode
  has to change. The liveness runs have no faults: a crash leaves a run in
  `running` for good (section 8).
- `EventDelivery!FairSpec`: weak fairness of the publisher, of marking dead
  letters and of the work on each group's batch; strong fairness of `Reclaim(g)`
  because `consume_once` visits the subscriptions in turn, so a group's pass is
  enabled again and again though not continuously; strong fairness of a reclaim
  that finds something, because a pending message is idle for
  `bus_claim_idle_ms` in the end. Faults are bounded by `MaxFaults` and never
  forced.
- `AmzPricing!FairSpec`: weak fairness of the pricer's and each repricer's
  execution, strong fairness of a repricer's `Start`, since the dispatcher is
  busy with other runs now and again but always returns to the queue. Market,
  people and the bus are not fair.
- `Conversation!FairSpec`: weak fairness of `Execution` (the dispatcher's loop),
  of `TimeOut` (`asyncio.wait_for` with `run_timeout_seconds`) and of the
  background tasks. People, the child and Slack owe nothing: the thread comes to
  rest though the child never answers.
- `Governance`, `AmzSourcing` and `StudioLoops` have no liveness property:
  nothing in them has to happen.

## 7. What is proved

TLAPS checks every leaf. Assumptions are the named ASSUMEs of the modules
(`RunBound`, `SomeAgent`, `KnownSettings`, `Calendar`, ...), which TLC evaluates
in every run.

**RunLifecycleProofs**

- `TypeCorrect`: `Spec => []TypeOK`, for all constants and any number of
  deciders.
- `HoldCorrect`: `OneDecider => (Spec => []HoldInv)`, and from it
  `SettledBeforeRequeueHolds` and `NoLostWakeupHolds`.
  Neither of the two is inductive: a transaction may have read a run or its
  siblings long before it commits. `HoldInv` adds what each process may rely on
  in the middle of its transaction: a pending approval belongs to a run that
  waits or has failed (`ApprovalsWait`); while a decision is under way its run
  cannot be claimed, and what it read of the siblings is still true
  (`DecidersInv`); the reaper has marked every run still parked on a row it has
  looked at (`ReaperInv`). The proof has a lemma per kind of step; a run nobody
  waits on may move freely (`HoldFreeRun`), which covers claims and most ends of
  an execution.
  `OneDecider` says that at most one `decide_approval` transaction is open at a
  time. The code does not enforce it: `RunLifecycle_skew` shows what happens
  without, and the reaper is always allowed to interleave.

**GovernanceProofs**

- `TypeCorrect`: `Spec => []TypeOK`.
- `OverspendIsBounded`: `Spec => []OverspendBounded`: no bucket exceeds the
  highest limit by more than `MaxCalls * TopCost`, for any number of agents,
  operators, runs and calls, any costs and any calendar.
  `BoundInv` strengthens it: no bucket is of a period that has not begun
  (`Begun`), so that a row current tomorrow was current today; what a preflight
  check has passed so far is within the highest limit (`PreflightBounded`),
  including rows an operator inserts after their lookup, since those start at
  zero; during an execution the buckets it may charge have room for what is
  left of it (`ExecutionBounded`, `Rest`), and a charge moves a call's cost from
  the rest to the bucket. What carries it is that one dispatcher executes one run
  at a time (`dispatch_loop` awaits `dispatch_once`, one such task per process,
  one process); with several, each adds its own execution to the bound.

- `BooksMatch`: `Spec => []BooksMatchLedger`. `BooksInv` adds to `BoundInv` that
  a bucket that is the only one of its kind has not been charged more than the
  audit log adds up to since it was made (`NotOver`), nor less by more than one
  call (`NotUnder`): a bucket that the charge under way is going to miss has
  missed none before, because a charge misses only a row inserted after its
  lookup.

**RunContractProofs**

- `ContractIsKept`: `OneDecider => (Spec => Promise!Contract)`, the refinement of
  `RunContract`, for any numbers of runs, agents, priorities, approvals per execution
  and event keys, expiring or not, under every set of faults. `ContractInv` adds to
  `HoldInv` what the abstract step needs at the instant of each commit: what is being
  decided was pending or has been expired meanwhile (`DecidesAsked`), and a run the
  reaper is going to fail still waits or has been released and not claimed
  (`DoomedWait`). Each step of the detailed module is then one step of the contract
  or a stutter (`StepRefines`, with `FinishRefines`, `DecideRefines`, `ReapRefines`):
  the reads are stutters, the commits the answers.
- `TornIsMarkedHolds`: `OneDecider => (Spec => []TornIsMarked)`. It is not inductive
  by itself: a failed run with an open approval could be released and complete with
  the torn state in place. `TornLeft` says that a run whose state is ahead of its
  events has no open approval and nobody deciding about it; it holds because
  approvals are written only after all the events are.

`OneDecider` is the one assumption; `RunLifecycle_skew` shows what happens without.

**EventDeliveryProofs**

- `AccountedHolds`: under `BusLives` (Redis, or in process without a crash)
  `Spec => []Accounted`. `Shape` says what rows, outbox, bus and batch look like in
  the middle of each transaction; on it `AccountInv` follows an event: what is
  published was sent (`Sent`), what was sent is owed to each group until it is
  handled or dead-lettered (`EntriesOwed`), and what is about to be acknowledged is
  handled (`AckingHandled`). Without `BusLives` the theorem is false
  (`inproc.py:40`).
- `DuplicatesEarnedHolds`: on both buses. `TallyInv` balances an account per
  group and event: runs made, plus entries of the stream that can still make one,
  plus a publication still to come, are at most one more than the faults, a crash
  counted twice. Handling moves a unit from the second to the first; only a fault
  adds one.
- `RetriesBoundedInProcess`: `Backend = "inproc" => (Spec => []RetriesBounded)`, for
  any number of groups. `RetryInv` compares each group's calls of the handler with
  the counter of the entry: a call has used up a delivery, and a message under way
  carries one that no call has used yet (`DeliveriesUsed`). In Redis the theorem is
  false: a count read short lets a call through (section 8).
- `DeadLetterEarnedHolds`: `Backend = "redis" \/ OneGroup => (Spec =>
  []DeadLetterEarned)`. `DeadInv` says that the count a message carries is not
  above the deliveries to its group (`CountsEarned`). In process with two groups it
  is, since the groups share the counter, and the theorem is false.
- `TypeCorrect`: `Spec => []TypeOK`. `TypeInv` adds to what the counters need
  (`Counting`, of `Shape` and the counters' types) that what is locked was recorded
  (`RecordedFirst`) and that a delivery in the pending list is not empty
  (`NoneEmpty`).

**StudioLoopsProofs**

Assumptions: finite sets of agents, apps and metrics, natural bounds with at least
one day, and schedules only for agents of the studio (`Finite`, `Bounds`,
`ScheduledAgents`).

- `OnePlaybookHolds`: the versions are 1 to n and the n-th alone is active.
  `PlaybookInv` adds what a reflector has read (`BasesRead`): its base is an older
  or the present version, never one to come.
- `FiredOnceHolds`: `FiringInv` says that the firings of an agent are the history
  of its stamp (`Firings`) and that a tick's rows are its own and unchanged since it
  locked them (`TicksOwn`), which is what SKIP LOCKED is for.
- `RecommendsOnce`: `AdviceInv`: each recommendation has its event, the list has no
  repetition, and a run that was granted had recommended an app before it asked.
  Executing again it may complete only with another app, because a second event of
  the first one's key breaks the commit.
- `TasksGetThere`: `BriefInv`: what an execution is about to emit is the brief of
  the tasks it chose (`Briefed`), a run that has not ended has emitted nothing, and
  one that has ended has reached whom `TasksReach` says (`Told`). The commit keeps
  what stands before the event that is refused, whether for its type or its payload.
- `TypesHold`: from `WorkInv` (the running runs are those that a process executes,
  each by one), `PlaybookInv`, `FiringInv`, `EventsInv` and `DaysInv`.

`AdviceInv` and `BriefInv` do not go through the sixteen actions one by one. `StepKinds` proves
once what a step can be to the table of runs (it leaves it alone, adds runs, starts,
continues or ends one, or is a person's decision about one), and each invariant has a
lemma per kind.

**ConversationProofs**

- `StudioIsKept`: `Spec => []StudioKept` for any agents, words, bots and limits, and
  lookups that fail at any time. `StudioInv` follows what leads to a run: the tasks,
  the last speaker, the queue, the run under way.
- `AnswersAreMatched`: `Spec => []AnswersMatch`. `CallInv` adds what a call relies
  on: while one is under way, it is the last that was asked and has no answer
  yet; whatever else is in the pipe has another id and is skipped.

**AmzPricingProofs**

- `OneCallPerRunHolds`: `CallInv` says that a run that may still call has not
  called, and that one that has was allowed to by what it copied at its start: the
  flip of the dry-run switch in between cannot make it ask afterwards. A run that is
  cut short, before or after the call, is not executed again.
- `WaitKeptHolds`: an action property. `StampInv`: for a listing outside the aging
  scan, `lost_since` is the beginning of the present unbroken series of losses,
  because the lost scan is the only one that returns it and returns it only lost.

- `CapHolds`: `Spec => []CapKept`. The cap is on events, the code counts entries of
  a log that is pruned, is written back only when the run commits and may be thrown
  away with it. `CapInv` compares the two: as long as an entry is young enough to
  count, at any time from now on, the log has at least as many for a listing as
  there are recommendations (`Recent`, `Logged`). Pruning at a commit removes only
  what is too old for every later question; a run that recommends logs it in the
  same commit, and a run that times out late logs what it never announces. The comparison is of cardinalities, because two runs in one tick
  leave entries of one time, told apart by their run (`LogInv`).
- `TypesHold`: `Spec => []TypeOK`, with every price between the floor and the top:
  `ProposalsInRange` says so of `Proposals`.

**AmzSourcingProofs**

Assumptions: finitely many products, situations that are products of any prices and
weights, a positive threshold and positive rates (`Products`, `Known`, `Goals`,
`Bounds`).

- `VerdictMonotone`: for all numbers and settings, a product at least as good in
  every signal, with something to pay for, gets no worse a verdict. Lemmas say
  that cost, ROI and each risk term are monotone. The proviso is needed: a product
  that costs nothing has no ROI and gets the worst verdict.
- `Invariance`: `Spec => []IInv`, the inductive invariant of the other theorems,
  which TLC checked on the bounds of `AmzSourcing_finds`. Its parts: one run at
  most is running, and one that runs, waits or has failed has settled nothing
  (`RunInv`); a list is
  within its cap, and a product was reported at most once more than forgotten,
  the once only while it is on the list (`SeenInv`); what the monitor remembers is
  what was last observed and committed (`PriceInv`); the batch of a crosslister has
  no product twice and none that was on its list (`BatchInv`); drafts and listings
  of a product are paid for by what was forgotten, by a run that was lost, by the
  list, or by the batch under way (`ListInv`); the analyst's risk is that of the row
  it loaded, though the catalog has moved since (`LoadInv`).
- `SurfacedOnce`, `ListedOnce`, `SettledOnce`, `BetterNotWorse`, `TypesHold` follow
  from it, and `JumpsFlagged`, an action property, from it and a look at each
  action: the monitor's commits alone announce, and one that keeps its prices
  without their anomalies fails its run.

Only model-checked: the liveness properties (`EveryRunEnds`, `HighRunsEnd`,
`EventuallyHandled`, `GrantedActs`, `CascadeEnds`). They need fairness and ENABLED,
which are out of the prover's reach. Every invariant, every action property and the
refinement that a passing run checks are theorems.

What a theorem leaves to TLC or to nobody is in its hypotheses: `OneDecider` of the
approval hold and the contract, `BusLives`, the backend and `OneGroup` of event delivery. Each is a condition the code does not
enforce, and without it the statement is false; sections 4 and 8 say where.

## 8. Where the code and its docs differ

With a run that shows it:

| Run | What happens | What is written |
|---|---|---|
| `RunLifecycle_stuck` | A run that was parked and released executes from the start and emits the same idempotency keys. The flush fails, the handler's own UPDATE fails on the broken session, and the run stays `running` with no error. | "Errors are captured on the run record" (`runner.py:15`) |
| `RunLifecycle_skew` | Two people approve a run's two approvals at once; each transaction still reads the other row as pending; nobody re-enqueues the run. | "approval drops it back to `pending`" (`approvals/store.py:5`) |
| `RunLifecycle_torn` | An event fails its schema, or the timeout comes among the memories: the handler of `dispatch_once` commits the session, with the agent's new state and without events of the same output. | "so state and events commit together" (`dispatcher.py:85`) |

In the models, or met while writing them, without a run of their own:

*Runs and approvals.* The last grant after a sibling's denial or expiry revives the
failed run (`store.py:119`), so that a run may execute again whose refusal is on
record, and a run that timed out between two approvals may as well; the reaper
overwrites a settlement made after its SELECT, a grant that has already released the
run included, and fails that run (`store.py:158`), and a decider overwrites an expiry
likewise, so a settlement is final only while nobody else is at work; two deciders of
one approval settle it twice; a run left `running` by a crash is found by nobody; a
degraded agent's low-priority run at the head of the queue makes
`claim_next_run` return None and every run of lower or equal priority behind it waits, while the agent is degraded
(`dispatcher.py:50`, against "Normal agents take all pending" at line 29): without
its condition `EveryRunEnds` is false.

*Events.* A redelivered event creates a second run, since `agent_runs` has no
idempotency key (`consumer.py:69`, against "StudioOS runs rely on `idempotency_key` at
the trigger layer to dedupe" in `bus/__init__.py:19-21`): that is the duplicate
`DuplicatesEarned` allows each failure; an event for a paused agent fails in the
consumer until it is dead-lettered (`triggers.py:37`); the Redis listing
of delivery counts is cut, and a message that falls off counts as delivered once
and is retried past the limit (`redis_backend.py:158`, against `consumer.py:10`);
the in-process counter is shared by all groups, so several subscriptions
dead-letter early (`inproc.py:84`), and a restart loses what it had published
(`inproc.py:40`).

*Budgets.* Two `ensure_budget` calls at once insert two rows (a unique index over a
NULL column refuses nothing) and every charge and preflight raises from then on
(`budget/store.py:133`, against "never raises" at `invoker.py:3`); a charge across
midnight charges buckets of two days; a bucket of an agent *and* a studio is never
looked up; a period that ends takes its limit with it; spending exactly the limit is
not refused, though `BudgetView.over` says it is over; a call
that is cancelled after the tool has acted leaves neither an audit row nor a charge.

*Scheduler.* Firings missed while the process was down coalesce into one, and the
cadence drifts by the length of a tick (`loop.py:49`).

*Pricing loop.* The approvals `amz_pricer` returns in a price war are dropped:
`PricerState` (lines 26-42) declares no `approvals` (`amz_pricer.py:328`; likewise
`amz_admanager.py:259` and `amz_qa.py:472`); an aging listing keeps a stamp of an
earlier loss; `profit_max` is not reached with the default goals; live mode has no
gate, though `amz_repricer.py:9-11` says so.

*Sourcing.* What the scout escalates is marked as seen when the run parks, and is
not announced after the grant; the crosslister does not come back to the rest of a
batch or to an item that failed; a slow drift below the threshold is never flagged;
a move of exactly the threshold is flagged (`amz_monitor.py:159` compares with >=,
`amz_monitor.py:10` says >); a scan cut short after its state was set keeps its prices,
and the jump it saw is announced by nobody;
the lookup returns no category, so the category's risk is always 2;
`classify_budget_tier` is not monotone; a product that costs nothing has no ROI and
gets the worst verdict.

*Steering.* `amz.analyst.daily_report` (`amz_analyst_daily.py:226`) and the CEO's
tasks for marketing and hub-dev have no registered schema: the run fails after its
digest went out, its later events lost; two tasks of one title leave the run
`running`; `app_studio_dev` asks for the runs of a studio "app", which does not
exist; the reflector's `auto_adjustments` stay in its own state, which a
conversation with it shows (`react_conversation.py:286`): the pricer (`amz_pricer.py:47`)
and the scout (`amz_scout.py:53`) read a key of that name from theirs, where nobody
puts it.
The KPI targets are seeded in a transaction of their own before the flag that says so
is committed with the run: a run that fails in between seeds again, and a first run
overwrites what a person set before it (`amz_ceo.py:297`, against "Runs once - state
flag prevents re-upsert" at line 300 and "first-run-only" in `app_studio_ceo.py:122`).
A task whose payload the LLM gave as a list fails the run (`schemas_amz.py:147`).

*Conversation.* In a channel the map does not have, a lookup that fails or takes more
than five seconds leaves the short names to decide, and "ceo" in an AMZ channel wakes
the app studio's (`slack_routing.py:192`, against the comment at line 41);
`_resolve_thread_agent` (`slack_events.py:123`) knows only the agents
whose short names are theirs, so an AMZ agent with a namesake in the app studio is
skipped and an earlier speaker gets the reply; it reads the oldest 20 messages;
Telegram's "ceo" is always the app studio's, though a comment says the default is
AMZ; LangGraph's default limit of 25 steps ends a conversation after some twelve tool
calls with an error and no reply, before MAX_ITERATIONS = 25 does; each repeated
Slack delivery is a run; `MAX_THREAD_DEPTH` is never read and `reset_cascade_counts`
never called; a child that logs for ever outlives the per-line timeout, and only the
run's timeout ends the call; a dead stdio child is not started again.

*Embedders.* After three 429 answers the list of embeddings is empty and taken for
success (`embedder.py:182`).

## 9. Not modelled

Open, see section 2: the embedders' fallback chain (stateless; the one hazard
known there is in section 8) and the composition of `EventDelivery` with
`RunLifecycle`, whose product is beyond TLC at bounds where either is interesting:
the modules meet at named places instead, `Handle` in `CreateRun` and the events of
`Complete` in the rows `SelectBatch` reads.

Modelled in part:

- *Tool invoker*: which tools an agent may call and what a schema accepts is one
  choice; the registry is constant after start.
- *Workflows*: the technology map of `amz_dev`, the outcome checker and the pruner's
  rules keep nothing that another part's correctness rests on; dev, hub-dev and
  pulse agents appear as reporters. What an LLM answers is a choice everywhere.
- *MCP over HTTP*: one answer per request, no state.
- *API, dashboard, command line*: the operations that change state are actions of
  the module that has the state; the rest reads.
- *Memory, KPIs*: the playbook and the targets are modelled; semantic memories and
  snapshots are append-only and no control flow reads them back.

Not modelled: tools that are pure I/O against services outside the repository and
the LLM tool (a cost in `Governance`, a choice elsewhere), prompts and message texts,
status pages, the escalation table and the workflow registry (constants filled at
import time), payload fields of event schemas, tests and their fixtures. An
execution's timing is abstracted to "it may time out", and Slack's signature check
to a delivery that arrives.
