---------------------------- MODULE AmzSourcing -----------------------------
(***************************************************************************)
(* How the AMZ studio finds things: amz_scout, amz_monitor, amz_admanager  *)
(* and amz_crosslister scan databases on a schedule, remember what they    *)
(* have reported and report the rest; what the scout and the monitor       *)
(* report wakes amz_analyst, what the analyst confirms wakes amz_executor. *)
(*                                                                         *)
(* One dispatcher executes one run at a time.  A run's state and events    *)
(* are committed together, or neither is; a run that is cut short once its *)
(* state is set commits the state and some of the events (RunLifecycle     *)
(* says when).  A draft or a listing on eBay and a message to a person are *)
(* not undone.                                                             *)
(***************************************************************************)
EXTENDS AmzScoring, FiniteSets, SequencesExt

CONSTANTS
    Asins,        \* products
    Situations,   \* what PriceFinder may know of a product
    Catalogs,     \* what it knows of each at the start
    ScanLimit,    \* the LIMIT of every scan
    SeenCap,      \* how many products a seen list holds (1000, 500, 500)
    BatchMax,     \* AUTO_LIST_BATCH_MAX
    Threshold,    \* goals.anomaly_threshold_pct
    Aggressive,   \* goals.aggressive_roi_threshold
    Marginal,     \* goals.marginal_roi_threshold
    Rates,        \* exchange rates
    MaxExecs, MaxMoves, MaxFaults   \* bounds of the model

None == "none"

ASSUME Products == IsFiniteSet(Asins) /\ None \notin Asins
ASSUME Known == Situations \subseteq Product /\ Catalogs \subseteq [Asins -> Situations]
ASSUME Goals == Threshold \in Nat \ {0} /\ Rates \subseteq Nat \ {0}
ASSUME Bounds == {ScanLimit, SeenCap, BatchMax, MaxExecs, MaxMoves, MaxFaults} \subseteq Nat

Seers == {"scout", "crosslister", "admanager"}

VARIABLES
    catalog,      \* PriceFinder: the situation of each product
    stranded,     \* EbayCrossLister: stranded inventory
    seen,         \* agent_state: discovered_asins, crosslisted_asins, ...
    lastPrices,   \* amz_monitor's agent_state.last_prices
    runs,         \* agent_runs, oldest first
    cur, work,    \* the run under execution (0: none) and what it holds
    events,       \* committed events somebody subscribes to
    surfaced,     \* per seer and product: reports committed
    drafts, live, \* eBay: drafts nobody published, published listings
    execs, moves, faults,   \* counters that bound the model
    forgotten,    \* history: how often a seen list dropped the product
    lostRuns,     \* history: crosslister runs that died after a call
    observed      \* history: the price of the last committed observation

vars == <<catalog, stranded, seen, lastPrices, runs, cur, work, events, surfaced,
          drafts, live, execs, moves, faults, forgotten, lostRuns, observed>>

\* The product a run was triggered for, its state, its open approvals, what it
\* announced in earlier executions (the idempotency keys) and its verdicts.
NewRun(agent, asin) ==
    [agent |-> agent, asin |-> asin, state |-> "running", asks |-> 0, said |-> {},
     verdicts |-> 0]

NoWork == [step |-> "start", rows |-> <<>>, new |-> {}, queue |-> <<>>,
           called |-> FALSE, risk |-> 0, settings |-> Defaults]

-----------------------------------------------------------------------------
(* The queries.  A failed query returns nothing.                           *)

\* The best n of S by `key`: ties are broken by the database.
Top(S, n, key(_)) ==
    { T \in SUBSET S :
        /\ Cardinality(T) = (IF Cardinality(S) <= n THEN Cardinality(S) ELSE n)
        /\ \A a \in T, b \in S \ T : key(a) >= key(b) }

Profit(a) == catalog[a].profit

\* _SCOUT_SQL
Scoutable ==
    { a \in Asins : /\ catalog[a].price # Unknown
                    /\ Sold(catalog[a]) >= 30 /\ catalog[a].rating >= 35
                    /\ catalog[a].reviews >= 10
                    /\ catalog[a].roi \in 20 .. 1000 /\ catalog[a].profit >= 10 }

\* _TOP_OPPS_SQL, but for the margin.
Watched == { a \in Asins : catalog[a].profit >= 20 }

\* _AD_SQL
Advertisable ==
    { a \in Asins : /\ catalog[a].price # Unknown
                    /\ Sold(catalog[a]) >= 50 /\ catalog[a].reviews >= 50
                    /\ catalog[a].rating >= 40 /\ catalog[a].offers <= 15 }

\* A query that orders by profit, cut to the limit; or it fails.
Answers(S) == Top(S, ScanLimit, Profit) \cup {{}}

\* _BATCH_SQL: rows with a price; it selects no category.
Looked(o) == [o EXCEPT !.category = "none"]

Lookup(S) ==
    [a \in { b \in S \cap Asins : catalog[b].price # Unknown } |-> Looked(catalog[a])]

-----------------------------------------------------------------------------
(* The seen lists.                                                         *)

\* Mutant: the list is never cut.
Kept_All(S) == {S}

\* set(list(seen)[-cap:]): which ones stay is anybody's guess.
Kept(S) == IF Cardinality(S) <= SeenCap THEN {S}
           ELSE { T \in SUBSET S : Cardinality(T) = SeenCap }

\* The seer s has reported N and marks M: the list and what fell off it.
Report(s, N, M) ==
    /\ \E T \in Kept(seen[s] \cup M) :
          /\ seen' = [seen EXCEPT ![s] = T]
          /\ forgotten' = [forgotten EXCEPT ![s] =
                [a \in Asins |-> @[a] + (IF a \in (seen[s] \cup M) \ T THEN 1 ELSE 0)]]
    /\ surfaced' = [surfaced EXCEPT ![s] =
                [a \in Asins |-> @[a] + (IF a \in N THEN 1 ELSE 0)]]

-----------------------------------------------------------------------------
(* Runs.                                                                   *)

Init ==
    /\ catalog \in Catalogs
    /\ stranded = Asins
    /\ seen = [s \in Seers |-> {}]
    /\ lastPrices = [a \in Asins |-> Unknown]
    /\ runs = <<>> /\ cur = 0 /\ work = NoWork
    /\ events = <<>>
    /\ surfaced = [s \in Seers |-> [a \in Asins |-> 0]]
    /\ drafts = [a \in Asins |-> 0] /\ live = [a \in Asins |-> 0]
    /\ execs = 0 /\ moves = 0 /\ faults = 0
    /\ forgotten = [s \in Seers |-> [a \in Asins |-> 0]]
    /\ lostRuns = 0
    /\ observed = [a \in Asins |-> Unknown]

State == <<seen, lastPrices, events, surfaced, forgotten, observed>>
World == <<catalog, stranded, drafts, live, moves, faults>>

\* The dispatcher takes a run when nothing else is under way; how it came to
\* be queued, and in which order, is RunLifecycle's.
Take(r) ==
    /\ cur = 0 /\ cur' = r /\ work' = NoWork
    /\ execs < MaxExecs /\ execs' = execs + 1
    /\ UNCHANGED <<State, World, lostRuns>>

\* A run of the scheduler, or of a task of the CEO.
Trigger(agent) ==
    /\ runs' = Append(runs, NewRun(agent, None))
    /\ Take(Len(runs) + 1)

\* The subscriptions of studio.yaml.
Subscriber(kind) == IF kind = "confirmed" THEN "executor" ELSE "analyst"

\* A run for an event, which the bus may deliver more than once.
Deliver(e) ==
    /\ runs' = Append(runs, NewRun(Subscriber(events[e].kind), events[e].asin))
    /\ Take(Len(runs) + 1)

\* Its last open approval is granted: the run executes again, be it one that
\* failed over another approval or was cut short.
Rerun(r) ==
    /\ runs[r].asks = 1
    /\ runs' = [runs EXCEPT ![r].state = "running", ![r].asks = 0]
    /\ Take(r)

\* An agent's node, between two of its awaits.
Node(agent, step) == cur # 0 /\ runs[cur].agent = agent /\ work.step = step

GoOn(next) ==
    /\ work' = next
    /\ UNCHANGED <<runs, cur, State, execs, lostRuns>>

\* The run ends as `row`, and the session is committed.
Commit(row) ==
    /\ runs' = [runs EXCEPT ![cur] = row]
    /\ cur' = 0 /\ work' = NoWork
    /\ UNCHANGED <<catalog, stranded, drafts, live, moves, execs, lostRuns>>

End(row) == Commit(row) /\ UNCHANGED faults

\* run_timeout_seconds passed, or the registry refused an event, when the
\* agent's state was already set: the handler records the run and commits.
CutShort(row) == Commit(row) /\ faults < MaxFaults /\ faults' = faults + 1

\* What of the events S such a run has added: none yet, or those before the
\* refused one.
Partial(S) == { E \in SUBSET S : E = {} \/ E # S }

Announce(S, kind) ==
    events' = events \o [i \in DOMAIN SetToSeq(S) |->
                            [asin |-> SetToSeq(S)[i], kind |-> kind]]

-----------------------------------------------------------------------------
(* amz_scout.                                                              *)

ScoutScan ==
    /\ Node("scout", "start")
    /\ \E S \in Answers(Scoutable) :
          GoOn([work EXCEPT !.step = "scanned", !.rows = [a \in S |-> catalog[a]]])
    /\ UNCHANGED World

\* Not seen; not heavy with a marginal return.
Fresh == { a \in DOMAIN work.rows \ seen["scout"] :
              ~(work.rows[a].weight > 2300 /\ work.rows[a].roi < Marginal) }

Wild == { a \in Fresh : work.rows[a].roi >= Aggressive }

\* Mutant: what is escalated is not marked.
ScoutMarks_Announced == Fresh \ Wild

ScoutMarks == Fresh

\* node_diff, node_emit and the commit: announce, escalate, park.  Keys an
\* earlier execution of this run has used fail the commit for good.
ScoutEmit ==
    /\ Node("scout", "scanned")
    /\ IF (Fresh \ Wild) \cap runs[cur].said # {}
         THEN /\ End([runs[cur] EXCEPT !.state = "stuck"])
              /\ UNCHANGED State
         ELSE /\ Report("scout", Fresh, ScoutMarks)
              /\ Announce(Fresh \ Wild, "discovered")
              /\ End([runs[cur] EXCEPT
                      !.state = IF Wild = {} THEN "completed" ELSE "awaiting",
                      !.asks = Cardinality(Wild),
                      !.said = @ \cup (Fresh \ Wild)])
              /\ UNCHANGED <<lastPrices, observed>>

\* Cut short among the memories, the events, or the approvals that follow them.
ScoutCut ==
    /\ Node("scout", "scanned")
    /\ \E E \in SUBSET (Fresh \ Wild), A \in SUBSET Wild :
          /\ \/ E \in Partial(Fresh \ Wild) /\ A = {}
             \/ E = Fresh \ Wild /\ A # Wild
          /\ E \cap runs[cur].said = {}
          /\ Report("scout", E \cup A, ScoutMarks)
          /\ Announce(E, "discovered")
          /\ CutShort([runs[cur] EXCEPT !.state = "failed", !.asks = Cardinality(A),
                                        !.said = @ \cup E])
    /\ UNCHANGED <<lastPrices, observed>>

-----------------------------------------------------------------------------
(* amz_monitor.                                                            *)

\* _resolve_watchlist: the ASINs the trigger carries, or the best opportunities
\* but for those of a `thin` margin, which is unrelated to what Product records.
MonitorPick ==
    /\ Node("monitor", "start")
    /\ \E carried \in SUBSET Asins, thin \in SUBSET Watched :
          \E S \in IF carried # {} THEN {carried} ELSE Answers(Watched \ thin) :
             GoOn([work EXCEPT !.step = "picked", !.new = S])
    /\ UNCHANGED World

\* The move from p to q reaches the threshold.
Jump(p, q) ==
    p > 0 /\ 100 * Larger(q - p, p - q) >= Threshold * p

\* Mutant: the baselines of products this scan missed are dropped.
PricesAfter_Scanned(found) ==
    [a \in Asins |-> IF a \in DOMAIN found THEN found[a].price ELSE Unknown]

\* last_prices after the run.
PricesAfter(found) ==
    [a \in Asins |-> IF a \in DOMAIN found THEN found[a].price ELSE lastPrices[a]]

\* The look-up, which may fail.
Found == {Lookup(work.new), <<>>}

Anomalies(found) == { a \in DOMAIN found : Jump(lastPrices[a], found[a].price) }

\* next_prices become the agent's state.
Observe(found) ==
    /\ lastPrices' = PricesAfter(found)
    /\ observed' = [a \in Asins |-> IF a \in DOMAIN found
                                      THEN found[a].price ELSE observed[a]]
    /\ UNCHANGED <<seen, surfaced, forgotten>>

\* node_detect_anomalies and the commit.
MonitorDetect ==
    /\ Node("monitor", "picked")
    /\ \E found \in Found : Observe(found) /\ Announce(Anomalies(found), "anomaly")
    /\ End([runs[cur] EXCEPT !.state = "completed"])

\* Cut short among the memories or the events, the plain observations included:
\* the baselines are kept, any of the anomalies may be missing.
MonitorCut ==
    /\ Node("monitor", "picked")
    /\ \E found \in Found :
          /\ Observe(found)
          /\ \E E \in SUBSET Anomalies(found) : Announce(E, "anomaly")
    /\ CutShort([runs[cur] EXCEPT !.state = "failed"])

-----------------------------------------------------------------------------
(* amz_admanager: campaigns to pause never reach the runner, AdState       *)
(* declares no "approvals".                                                *)

AdScan ==
    /\ Node("admanager", "start")
    /\ \E S \in Top(Advertisable, ScanLimit, LAMBDA a : Sold(catalog[a])) \cup {{}} :
          GoOn([work EXCEPT !.step = "scanned", !.rows = [a \in S |-> catalog[a]]])
    /\ UNCHANGED World

\* node_diff
New == DOMAIN work.rows \ seen["admanager"]

Tiered == { a \in New : Tier(work.rows[a]) # "none" }

AdEmit ==
    /\ Node("admanager", "scanned")
    /\ \/ /\ Report("admanager", Tiered, New)
          /\ End([runs[cur] EXCEPT !.state = "completed"])
       \/ /\ \E E \in Partial(Tiered) : Report("admanager", E, New)
          /\ CutShort([runs[cur] EXCEPT !.state = "failed"])
    /\ UNCHANGED <<lastPrices, observed, events>>

-----------------------------------------------------------------------------
(* amz_crosslister.                                                        *)

\* Mutant: the batch is cut from all of the stranded inventory.
Batch_Stranded(S, new) == S

\* stranded_items
Batch(S, new) == new

\* node_scan_rules and node_diff; the batch is the head of what is new.
CrossScan ==
    /\ Node("crosslister", "start")
    /\ \E S \in Top(stranded, ScanLimit, LAMBDA a : catalog[a].price) \cup {{}} :
          LET new == S \ seen["crosslister"]
              batch == SetToSeq(Batch(S, new))
          IN GoOn([work EXCEPT !.step = "listing", !.new = new,
                   !.queue = SubSeq(batch, 1, IF Len(batch) <= BatchMax
                                              THEN Len(batch) ELSE BatchMax)])
    /\ UNCHANGED World

Item == Head(work.queue)

\* create_draft answers; it fails; or it works and the answer is lost.
CreateDraft ==
    /\ Node("crosslister", "listing") /\ work.queue # <<>>
    /\ \E made \in BOOLEAN, heard \in BOOLEAN :
          /\ heard => made
          /\ drafts' = [drafts EXCEPT ![Item] = @ + (IF made THEN 1 ELSE 0)]
          /\ GoOn(IF heard THEN [work EXCEPT !.step = "drafted", !.called = TRUE]
                  ELSE [work EXCEPT !.queue = Tail(@), !.called = TRUE])
    /\ UNCHANGED <<catalog, stranded, live, moves, faults>>

\* publish_listing, heard or not: the item is not tried again.
Publish ==
    /\ Node("crosslister", "drafted")
    /\ \/ /\ drafts' = [drafts EXCEPT ![Item] = @ - 1]
          /\ live' = [live EXCEPT ![Item] = @ + 1]
       \/ UNCHANGED <<drafts, live>>
    /\ GoOn([work EXCEPT !.step = "listing", !.queue = Tail(@)])
    /\ UNCHANGED <<catalog, stranded, moves, faults>>

\* node_emit and the commit.
CrossEmit ==
    /\ Node("crosslister", "listing") /\ work.queue = <<>>
    /\ \/ /\ Report("crosslister", work.new, work.new)
          /\ End([runs[cur] EXCEPT !.state = "completed"])
       \/ /\ \E E \in Partial(work.new) : Report("crosslister", E, work.new)
          /\ CutShort([runs[cur] EXCEPT !.state = "failed"])
    /\ UNCHANGED <<lastPrices, observed, events>>

-----------------------------------------------------------------------------
(* amz_analyst.                                                            *)

\* node_load_context: the product, the settings, and the risk; each read may
\* fail, and without a product every signal is unknown.
AnalystLoad ==
    /\ Node("analyst", "start")
    /\ \E found \in {Lookup({runs[cur].asin}), <<>>}, rate \in Maybe(Rates) :
          GoOn([work EXCEPT !.step = "loaded", !.rows = found,
                !.settings = IF rate = Unknown THEN Defaults
                             ELSE [Defaults EXCEPT !.rate = rate],
                !.risk = IF DOMAIN found = {} THEN 1 + 3 + FxRisk(rate) + 2 + 5
                         ELSE RiskTotal(found[runs[cur].asin], rate)])
    /\ UNCHANGED World

Matrix ==
    IF DOMAIN work.rows = {} THEN "GEC"
    ELSE Verdict(work.risk, work.rows[runs[cur].asin], work.settings)

\* node_decide: the LLM's answer, or the matrix's when it gave up.
Decision(answer) ==
    IF answer.verdict # "uncertain" THEN answer
    ELSE [verdict |-> ToAnalyst(Matrix),
          sure |-> ToAnalyst(Matrix) # "uncertain" /\ Confident(Matrix, work.risk)]

\* Mutant: an unsure acceptance is announced too.
Settles_Acceptance(d) == (d.verdict = "accept" \/ d.sure) /\ runs[cur].asin # None

\* A verdict with a confidence of one half or more is an event.
Settles(d) == d.sure /\ runs[cur].asin # None

\* Everything else asks a person, a task of the CEO that names no product too.
Asks(d) == ~(d.sure /\ runs[cur].asin # None)

AnalystDecide ==
    /\ Node("analyst", "loaded")
    /\ \E answer \in [verdict : {"accept", "reject", "uncertain"}, sure : BOOLEAN] :
          LET d == Decision(answer)
              says == IF Settles(d) THEN 1 ELSE 0
          IN /\ answer.verdict = "uncertain" => ~answer.sure
             /\ events' = IF says = 1 /\ d.verdict = "accept"
                            THEN Append(events, [asin |-> runs[cur].asin,
                                                 kind |-> "confirmed"])
                            ELSE events
             /\ End([runs[cur] EXCEPT
                     !.state = IF Asks(d) THEN "awaiting" ELSE "completed",
                     !.asks = IF Asks(d) THEN 1 ELSE 0,
                     !.verdicts = @ + says])
    /\ UNCHANGED <<seen, lastPrices, surfaced, forgotten, observed>>

-----------------------------------------------------------------------------
(* amz_executor tells a person and completes, whether or not it was heard. *)

ExecutorTell ==
    /\ Node("executor", "start")
    /\ End([runs[cur] EXCEPT !.state = "completed"])
    /\ UNCHANGED State

-----------------------------------------------------------------------------
(* People, faults and the world.                                           *)

\* One of the run's approvals is denied or expires, or is granted while another
\* is open.
Settle(r) ==
    /\ runs[r].asks > 0
    /\ \/ runs' = [runs EXCEPT ![r].state = "failed", ![r].asks = @ - 1]
       \/ runs[r].asks > 1 /\ runs' = [runs EXCEPT ![r].asks = @ - 1]
    /\ UNCHANGED <<cur, work, State, World, execs, lostRuns>>

\* The workflow raises or times out, or the process dies under the run (and
\* leaves it "running"): nothing is kept, and it is not executed again.
Fault ==
    /\ cur # 0 /\ faults < MaxFaults
    /\ runs' = [runs EXCEPT ![cur].state = "failed"]
    /\ cur' = 0 /\ work' = NoWork
    /\ faults' = faults + 1
    /\ lostRuns' = lostRuns + (IF work.called THEN 1 ELSE 0)
    /\ UNCHANGED <<State, catalog, stranded, drafts, live, execs, moves>>

Move ==
    /\ moves < MaxMoves
    /\ \/ \E a \in Asins, o \in Situations : catalog' = [catalog EXCEPT ![a] = o]
          /\ UNCHANGED stranded
       \/ \E S \in SUBSET Asins : stranded' = S
          /\ UNCHANGED catalog
    /\ <<catalog, stranded>>' # <<catalog, stranded>>
    /\ moves' = moves + 1
    /\ UNCHANGED <<runs, cur, work, State, drafts, live, execs, faults, lostRuns>>

Execute ==
    \/ ScoutScan \/ ScoutEmit \/ ScoutCut \/ MonitorPick \/ MonitorDetect \/ MonitorCut
    \/ AdScan \/ AdEmit \/ CrossScan \/ CreateDraft \/ Publish \/ CrossEmit
    \/ AnalystLoad \/ AnalystDecide \/ ExecutorTell

Next ==
    \/ \E agent \in Seers \cup {"monitor", "analyst"} : Trigger(agent)
    \/ \E e \in DOMAIN events : Deliver(e)
    \/ \E r \in DOMAIN runs : Rerun(r) \/ Settle(r)
    \/ Execute \/ Fault \/ Move

Spec == Init /\ [][Next]_vars

-----------------------------------------------------------------------------
(* Properties.                                                             *)

TypeOK ==
    /\ catalog \in [Asins -> Situations] /\ stranded \subseteq Asins
    /\ \A s \in Seers : seen[s] \subseteq Asins /\ Cardinality(seen[s]) <= SeenCap
    /\ lastPrices \in [Asins -> Maybe(Nat)]
    /\ cur \in 0 .. Len(runs)
    /\ \A r \in DOMAIN runs :
          /\ runs[r].state \in {"running", "awaiting", "completed", "failed", "stuck"}
          /\ runs[r].state = "running" <=> r = cur
    /\ \A e \in DOMAIN events :
          events[e] \in [asin : Asins, kind : {"discovered", "anomaly", "confirmed"}]
    /\ drafts \in [Asins -> Nat] /\ live \in [Asins -> Nat]

\* Nothing is reported twice, as an event or as a question to the CEO, unless
\* the seen list has dropped it in between: not by the next scan, not by a run
\* that parks and executes again, not after a run that failed.
SurfacedEarned ==
    \A s \in Seers, a \in Asins : surfaced[s][a] <= 1 + forgotten[s][a]

\* A product has one draft or listing on eBay, and one more for every time the
\* crosslister forgot it or died before it could note what it had listed.
ListedEarned ==
    \A a \in Asins :
        drafts[a] + live[a] <= 1 + forgotten["crosslister"][a] + lostRuns

\* A price that has moved by the threshold since the last committed observation
\* of that product, however many scans have failed, been rolled back or missed
\* the product in between, is announced with the commit that observes it, unless
\* that commit records its run as failed; nothing less is announced.
JumpFlagged ==
    [][\A a \in Asins :
          LET flagged == \E e \in DOMAIN events' \ DOMAIN events :
                            events'[e] = [asin |-> a, kind |-> "anomaly"]
          IN /\ flagged => Jump(observed[a], observed'[a])
             /\ Jump(observed[a], observed'[a]) =>
                   flagged \/ (cur # 0 /\ runs'[cur].state = "failed")]_vars

\* One run of the analyst settles its find once, over all its executions: a
\* run that asked, or was refused, has announced nothing.
OneVerdict ==
    \A r \in DOMAIN runs :
        /\ runs[r].verdicts <= 1
        /\ runs[r].state \in {"awaiting", "failed"} => runs[r].verdicts = 0

\* The matrix is monotone: a product that is at least as good in every signal,
\* and costs anything at all, never gets a worse verdict than the one being judged.
BetterIsNotWorse ==
    cur # 0 /\ runs[cur].agent = "analyst" /\ DOMAIN work.rows # {} =>
        \A o \in Situations :
            /\ AtLeastAsGood(Looked(o), work.rows[runs[cur].asin])
            /\ TotalCost(Looked(o), work.settings) > 0
            =>
                Rank(Verdict(RiskTotal(Looked(o), work.settings.rate), Looked(o),
                             work.settings)) >= Rank(Matrix)

=============================================================================
