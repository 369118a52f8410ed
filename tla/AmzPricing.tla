----------------------------- MODULE AmzPricing -----------------------------
(***************************************************************************)
(* The price loop of the AMZ studio: amz_pricer scans the BuyBoxPricer     *)
(* database and recommends prices, each recommendation wakes a run of      *)
(* amz_repricer, which asks a person or calls BuyBoxPricer's engine.       *)
(*                                                                         *)
(* One dispatcher executes one run at a time, so at most one of the runs   *)
(* below is between two of its steps; the clock, the market, the people    *)
(* and the bus move at any time.  A run's state and events are committed   *)
(* together, or not at all, or the state alone when the run times out      *)
(* while it is persisted (RunLifecycle); a call to the engine is not       *)
(* undone.                                                                 *)
(***************************************************************************)
EXTENDS Naturals, FiniteSets, SequencesExt

CONSTANTS
    Listings,     \* rows of BuyBoxPricer's listings table
    Aging,        \* those the aging scan returns: min_age_days old or more
    Old,          \* those 90 days old or more
    Floor, Top,   \* min_price and max_price, in steps of the underbid
    ScanLimit,    \* goals.scan_limit, the LIMIT of the lost-buybox scan
    Cap,          \* DAILY_REPRICE_CAP
    Wait, Day,    \* 15 minutes and 24 hours, in ticks of the clock
    Never,        \* "no time"
    Offers,       \* situations on the market: rival's price, held, comp
    Repricers,    \* identities of the repricer's runs
    MaxTime, MaxRuns, MaxMoves   \* bounds of the model

ASSUME Shelf == Old \subseteq Aging /\ Aging \subseteq Listings /\ IsFiniteSet(Listings)
ASSUME Prices == Floor \in Nat \ {0} /\ Top \in Nat /\ Floor <= Top
ASSUME Limits == {ScanLimit, Cap, MaxTime, MaxRuns, MaxMoves} \subseteq Nat
ASSUME Situations == Offers \subseteq [rival : Nat, held : BOOLEAN,
                                      comp : {"few", "some", "many"}]
ASSUME Clock == Wait \in Nat \ {0} /\ Day \in Nat \ {0} /\ Never \notin Nat

VARIABLES
    now,          \* the clock
    market,       \* per listing: price, the rival's price (0: none), held, comp
    lostSince,    \* agent_state.lost_since
    repriceLog,   \* agent_state.reprice_log
    scan,         \* the pricer's run between its two queries, or NoScan
    events,       \* committed amz.reprice.recommended events, oldest first
    dryRun,       \* the repricer's goals.dry_run
    reprice,      \* per repricer run: its life
    calls,        \* per repricer run: calls it made to the engine
    runs,         \* the pricer's runs so far, a bound of the model too
    moves,        \* moves of the market and the mode, to bound the model
    firstLost     \* history: since when every scan found the buy box lost

vars == <<now, market, lostSince, repriceLog, scan, events,
          dryRun, reprice, calls, runs, moves, firstLost>>

-----------------------------------------------------------------------------
(* Data.                                                                   *)

\* Competitors: at most 3, in between, at least PRICE_WAR_COMPETITOR_THRESHOLD.
Crowds == {"few", "some", "many"}

Row == [price : Floor .. Top, rival : Nat, held : BOOLEAN, comp : Crowds]

\* A listing at price p in situation o.
Offered(p, o) == [price |-> p, rival |-> o.rival, held |-> o.held, comp |-> o.comp]

NoScan == [lost |-> {}, rows |-> <<>>, on |-> FALSE]

NoReprice == [state |-> "none", event |-> 0, asked |-> "no",
              granted |-> FALSE, dry |-> TRUE]

\* A row of the aging scan (it counts no competitors) and one of the lost scan
\* (it has no has_buybox).
AgingRow(l) == [market[l] EXCEPT !.comp = "few"]
LostRow(l) == [market[l] EXCEPT !.held = FALSE]

\* What _LOST_BUYBOX_SQL selects: the buy box is lost to somebody cheaper.
LostBuyBox == { l \in Listings : /\ ~market[l].held
                                 /\ market[l].rival # 0
                                 /\ market[l].rival < market[l].price }

Gap(l) == market[l].price - market[l].rival

\* ORDER BY gap DESC LIMIT n: ties are broken by the database.
TopByGap(S, n) ==
    { T \in SUBSET S :
        /\ Cardinality(T) = (IF Cardinality(S) <= n THEN Cardinality(S) ELSE n)
        /\ \A l \in T, k \in S \ T : Gap(l) >= Gap(k) }

-----------------------------------------------------------------------------
(* amz_pricer: the rules.                                                  *)

\* A log is the set of its entries; a run, by its number, makes one at most.
\* Those that are not older than `age`.
Newer(log, age) == { entry \in log : entry.at + age >= now }

\* Mutant: the cap looks at half of the day.
RecentCount_HalfDay(log) == Cardinality(Newer(log, Day \div 2))

\* _recent_reprice_count
RecentCount(log) == Cardinality(Newer(log, Day))

\* _prune_reprice_log
Pruned(log) == Newer(log, 2 * Day)

\* _pick_strategy
Strategy(l, row) ==
    IF l \in Old THEN "stock_bleed"
    ELSE IF row.comp = "few" /\ row.held THEN "profit_max"
    ELSE "buy_box_win"

\* Mutant: the floor is forgotten.
AtLeast_Unclamped(p, q) == p

AtLeast(p, q) == IF p < q THEN q ELSE p

\* _propose_price: the proposals of a listing, none or one.
Proposals(l, row) ==
    CASE Strategy(l, row) = "buy_box_win" ->
            { p \in {AtLeast(row.rival - 1, Floor)} : row.rival # 0 /\ p < row.price }
      [] Strategy(l, row) = "profit_max"  ->
            { p \in {row.price + 1} : p <= Top }
      [] Strategy(l, row) = "stock_bleed" ->
            { p \in {Floor} : p < row.price }

\* The rows of one run merged by listing: the aging scan's columns win, the
\* number of competitors is known from the lost scan only.
Merged(lost, rows, aging) ==
    [l \in lost \cup aging |->
        IF l \in aging
          THEN [AgingRow(l) EXCEPT !.comp = IF l \in lost THEN rows[l].comp ELSE @]
          ELSE rows[l]]

IsLost(row) == ~row.held /\ row.rival # 0

\* Mutant: listings that recovered keep their stamp.
LostSinceAfter_Kept(merged) ==
    [l \in Listings |->
        IF l \in DOMAIN merged /\ lostSince[l] = Never /\ IsLost(merged[l])
          THEN now ELSE lostSince[l]]

\* lost_since after the run: listings no scan returned are forgotten, fresh
\* losses are stamped.
LostSinceAfter(merged) ==
    [l \in Listings |->
        IF l \notin DOMAIN merged THEN Never
        ELSE IF lostSince[l] = Never /\ IsLost(merged[l]) THEN now
        ELSE lostSince[l]]

\* The 15 minutes a fresh loss is given (wait_15min).
Waiting(l, row) ==
    IsLost(row) /\ (lostSince[l] = Never \/ now < lostSince[l] + Wait)

\* The listings that get as far as the log: not waiting, with a proposal.
Proposed(merged) ==
    { l \in DOMAIN merged : ~Waiting(l, merged[l]) /\ Proposals(l, merged[l]) # {} }

RateLimited(l) == RecentCount(Pruned(repriceLog[l])) >= Cap

\* Many competitors and already repriced within 24 hours.
PriceWar(l, row) ==
    row.comp = "many" /\ RecentCount(Pruned(repriceLog[l])) >= 1

\* A listing in a price war is held back.  The approval node_recommend returns
\* for it is dropped: PricerState declares no "approvals".
Recommended(merged) ==
    { l \in Proposed(merged) : ~RateLimited(l) /\ ~PriceWar(l, merged[l]) }

\* reprice_log after the run; an escalation leaves it alone.
LogAfter(merged) ==
    [l \in Listings |->
        IF l \in Recommended(merged) THEN Pruned(repriceLog[l]) \cup {[at |-> now, run |-> runs]}
        ELSE IF l \in Proposed(merged) /\ RateLimited(l) THEN Pruned(repriceLog[l])
        ELSE repriceLog[l]]

-----------------------------------------------------------------------------
(* The dispatcher, and amz_pricer's run.                                   *)

Busy == scan.on \/ \E r \in Repricers : reprice[r].state \in {"running", "called"}

Init ==
    /\ now = 0
    /\ market \in [Listings -> { Offered(Top, o) : o \in Offers }]
    /\ lostSince = [l \in Listings |-> Never]
    /\ repriceLog = [l \in Listings |-> {}]
    /\ scan = NoScan
    /\ events = <<>>
    /\ dryRun \in BOOLEAN
    /\ reprice = [r \in Repricers |-> NoReprice]
    /\ calls = [r \in Repricers |-> 0]
    /\ runs = 0 /\ moves = 0
    /\ firstLost = [l \in Listings |-> Never]

\* node_scan, first query: the rows are copied; a failed query finds nothing.
ScanLost ==
    /\ ~Busy /\ runs < MaxRuns
    /\ \E T \in TopByGap(LostBuyBox, ScanLimit) \cup {{}} :
          scan' = [on |-> TRUE, lost |-> T, rows |-> [l \in T |-> LostRow(l)]]
    /\ runs' = runs + 1
    /\ UNCHANGED <<now, market, lostSince, repriceLog, events,
                    dryRun, reprice, calls, moves, firstLost>>

\* The agent's state after a run that saw `merged`.
Observe(merged) ==
    /\ lostSince' = LostSinceAfter(merged)
    /\ repriceLog' = LogAfter(merged)
    /\ firstLost' = [l \in Listings |->
           IF l \notin DOMAIN merged \/ ~IsLost(merged[l]) THEN Never
           ELSE IF firstLost[l] = Never THEN now ELSE firstLost[l]]
    /\ scan' = NoScan
    /\ UNCHANGED <<now, market, dryRun, reprice, calls, runs, moves>>

\* node_scan's second query, node_recommend, node_emit and the commit.
Recommend ==
    /\ scan.on
    /\ \E aging \in {Aging, {}} :
          LET merged == Merged(scan.lost, scan.rows, aging)
              price(l) == CHOOSE p \in Proposals(l, merged[l]) : TRUE
              recs == SetToSeq(Recommended(merged))
          IN /\ Observe(merged)
             /\ events' = events \o [i \in DOMAIN recs |->
                    [listing |-> recs[i], at |-> now, price |-> price(recs[i])]]

\* The run times out while it embeds the memory of its digest: its state is
\* committed, its events are not.
PricerTimesOut ==
    /\ scan.on
    /\ \E aging \in {Aging, {}} : Observe(Merged(scan.lost, scan.rows, aging))
    /\ UNCHANGED events

\* The run raises, or times out before it is persisted: nothing of it is kept.
PricerFails ==
    /\ scan.on
    /\ scan' = NoScan
    /\ UNCHANGED <<now, market, lostSince, repriceLog, events, dryRun,
                    reprice, calls, runs, moves, firstLost>>

-----------------------------------------------------------------------------
(* amz_repricer.                                                           *)

\* Run r of the repricer becomes `row`; the pricer's state stays.
Becomes(r, row) ==
    /\ reprice' = [reprice EXCEPT ![r] = row]
    /\ UNCHANGED <<now, lostSince, repriceLog, scan, events, dryRun,
                    runs, moves, firstLost>>

\* The consumer hands an event over, not always for the first time.
Deliver(r, e) ==
    /\ reprice[r].state = "none" /\ e \in DOMAIN events
    /\ Becomes(r, [reprice[r] EXCEPT !.state = "pending", !.event = e])
    /\ UNCHANGED <<market, calls>>

\* Mutant: node_intake looks for approvals that are still open.
Start_Overlooks(r) ==
    /\ ~Busy /\ reprice[r].state = "pending"
    /\ Becomes(r, [reprice[r] EXCEPT !.state = "running", !.dry = dryRun,
                                      !.granted = (reprice[r].asked = "pending")])
    /\ UNCHANGED <<market, calls>>

\* The claim finds the budget used up: the run ends there, granted or not.
\* "failed" is any end that is recorded with an error: failed, timed_out or
\* budget_exceeded.
OutOfBudget(r) ==
    /\ ~Busy /\ reprice[r].state = "pending"
    /\ Becomes(r, [reprice[r] EXCEPT !.state = "failed"])
    /\ UNCHANGED <<market, calls>>

\* The run starts: goals as they are now, and node_intake's look at approvals.
Start(r) ==
    /\ ~Busy /\ reprice[r].state = "pending"
    /\ Becomes(r, [reprice[r] EXCEPT !.state = "running", !.dry = dryRun,
                                      !.granted = (reprice[r].asked = "approved")])
    /\ UNCHANGED <<market, calls>>

\* Mutant: node_decide asks in live mode too, node_act calls all the same.
MustAsk_LiveToo(r) == ~reprice[r].granted

\* node_decide: a dry run that nobody has granted asks.
MustAsk(r) == ~reprice[r].granted /\ reprice[r].dry

\* node_act: what it may do without having asked.
MayAct(r) == reprice[r].granted \/ ~reprice[r].dry

\* A dry run: park with an approval.
Ask(r) ==
    /\ reprice[r].state \in {"running", "called"}
    /\ MayAct(r) => reprice[r].state = "called"
    /\ MustAsk(r)
    /\ Becomes(r, [reprice[r] EXCEPT !.state = "awaiting", !.asked = "pending"])
    /\ UNCHANGED <<market, calls>>

\* A granted dry run says what it would have called.
Acknowledge(r) ==
    /\ reprice[r].state = "running" /\ MayAct(r) /\ reprice[r].dry
    /\ Becomes(r, [reprice[r] EXCEPT !.state = "completed"])
    /\ UNCHANGED <<market, calls>>

\* Live: buyboxpricer.api.run_single_repricing.  The engine sets what price it
\* likes, or none; the answer may be lost, the run goes on either way.
CallEngine(r) ==
    /\ reprice[r].state = "running" /\ MayAct(r) /\ ~reprice[r].dry
    /\ calls' = [calls EXCEPT ![r] = @ + 1]
    /\ \E p \in Floor .. Top :
          market' = [market EXCEPT ![events[reprice[r].event].listing].price = p]
    /\ Becomes(r, [reprice[r] EXCEPT !.state = "called"])

Finish(r) ==
    /\ reprice[r].state = "called" /\ ~MustAsk(r)
    /\ Becomes(r, [reprice[r] EXCEPT !.state = "completed"])
    /\ UNCHANGED <<market, calls>>

\* node_intake's query raises, or the run times out, the engine called or not.
\* It has nothing pending: its only approval is asked for with the last await.
RepricerFails(r) ==
    /\ reprice[r].state \in {"running", "called"}
    /\ Becomes(r, [reprice[r] EXCEPT !.state = "failed"])
    /\ UNCHANGED <<market, calls>>

\* decide_approval, or the reaper after 12 hours.
Settle(r) ==
    /\ reprice[r].state = "awaiting"
    /\ \/ Becomes(r, [reprice[r] EXCEPT !.state = "pending", !.asked = "approved"])
       \/ Becomes(r, [reprice[r] EXCEPT !.state = "failed", !.asked = "refused"])
    /\ UNCHANGED <<market, calls>>

-----------------------------------------------------------------------------
(* The rest of the world.                                                  *)

\* A bound: after the last of the MaxRuns scans nobody reads the clock or the
\* market.
Watched == runs < MaxRuns \/ scan.on

Tick ==
    /\ now < MaxTime /\ Watched
    /\ now' = now + 1
    /\ UNCHANGED <<market, lostSince, repriceLog, scan, events, dryRun,
                    reprice, calls, runs, moves, firstLost>>

\* Sellers come and go, the buy box with them.
MarketMoves(l) ==
    /\ moves < MaxMoves /\ Watched
    /\ \E o \in Offers : market' = [market EXCEPT ![l] = Offered(@.price, o)]
    /\ market' # market
    /\ moves' = moves + 1
    /\ UNCHANGED <<now, lostSince, repriceLog, scan, events, dryRun,
                    reprice, calls, runs, firstLost>>

\* The studio file changes goals.dry_run and is seeded again.
SetMode ==
    /\ moves < MaxMoves
    /\ dryRun' = ~dryRun
    /\ moves' = moves + 1
    /\ UNCHANGED <<now, market, lostSince, repriceLog, scan, events,
                    reprice, calls, runs, firstLost>>

\* The process dies: a run under way stays "running" for good.
Crash ==
    /\ Busy
    /\ scan' = NoScan
    /\ reprice' = [r \in Repricers |->
          IF reprice[r].state \in {"running", "called"}
            THEN [reprice[r] EXCEPT !.state = "stuck"] ELSE reprice[r]]
    /\ UNCHANGED <<now, market, lostSince, repriceLog, events, dryRun,
                    calls, runs, moves, firstLost>>

Execute(r) == Start(r) \/ Ask(r) \/ Acknowledge(r) \/ CallEngine(r) \/ Finish(r)

\* How the dispatcher ends a run that does not get to its end.
CutShort(r) == OutOfBudget(r) \/ RepricerFails(r)

Pricer == ScanLost \/ Recommend \/ PricerTimesOut \/ PricerFails

Next ==
    \/ Pricer
    \/ \E r \in Repricers : \/ \E e \in DOMAIN events : Deliver(r, e)
                            \/ Execute(r) \/ CutShort(r)
                            \/ Settle(r)
    \/ Tick \/ SetMode \/ Crash
    \/ \E l \in Listings : MarketMoves(l)

Spec == Init /\ [][Next]_vars

\* The dispatcher loop goes on: a run under way ends, a queued one is taken.
FairSpec ==
    /\ Spec
    /\ WF_vars(Recommend \/ PricerTimesOut \/ PricerFails)
    /\ \A r \in Repricers : WF_vars(Execute(r)) /\ SF_vars(Start(r))

-----------------------------------------------------------------------------
(* Properties.                                                             *)

Times == 0 .. MaxTime

TypeOK ==
    /\ now \in Times
    /\ market \in [Listings -> Row]
    /\ lostSince \in [Listings -> Times \cup {Never}]
    /\ repriceLog \in [Listings -> SUBSET [at : Times, run : 1 .. MaxRuns]]
    /\ scan.on \in BOOLEAN /\ scan.lost \subseteq Listings
    /\ \A e \in DOMAIN events :
          events[e] \in [listing : Listings, at : Times, price : Floor .. Top]
    /\ \A r \in Repricers :
          /\ reprice[r].state \in {"none", "pending", "running", "called", "awaiting",
                                   "completed", "failed", "stuck"}
          /\ reprice[r].event \in 0 .. Len(events)
    /\ calls \in [Repricers -> Nat]

\* A listing is recommended at most twice in 24 hours ("Günde max 2 fiyat
\* değişikliği"), whatever it went through between the runs: lost and regained,
\* rate limited, absent from a scan, a run that failed in between.
CapKept ==
    \A l \in Listings, t \in Times :
        Cardinality({ e \in DOMAIN events : /\ events[e].listing = l
                                            /\ events[e].at <= t
                                            /\ t <= events[e].at + Day }) <= Cap

\* A fresh listing is recommended for a lost buy box only when every scan of
\* the last 15 minutes or more has found it lost ("Buy Box kaybında 15 dk
\* bekle").  An aging listing may carry a stamp from an earlier loss.
WaitKept ==
    [][\A e \in DOMAIN events' \ DOMAIN events :
          events'[e].listing \in Aging
          \/ /\ firstLost[events'[e].listing] # Never
             /\ firstLost[events'[e].listing] + Wait <= now]_vars

\* A run of the repricer calls the engine at most once, and not at all before
\* the person it asked has answered, nor when the answer is no: asking and
\* acting agree in every mode, though the mode may change between a run's
\* executions and any of them may be cut short.
OneCallPerRun ==
    \A r \in Repricers :
        /\ calls[r] <= 1
        /\ reprice[r].asked \in {"pending", "refused"} => calls[r] = 0

\* What a grant comes to: the run acted, by a call or, dry, by saying so; or
\* the dispatcher wrote down what kept it from that; or the process died.
Answered(r) ==
    \/ reprice[r].state = "completed" /\ (reprice[r].dry \/ calls[r] = 1)
    \/ reprice[r].state \in {"failed", "stuck"}

\* The loop is closed ("the first place in StudioOS we close the approval ->
\* action loop end-to-end"): a granted run does not ask again or wait.
GrantedActs ==
    \A r \in Repricers : reprice[r].asked = "approved" ~> Answered(r)

=============================================================================
