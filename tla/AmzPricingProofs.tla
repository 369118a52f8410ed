-------------------------- MODULE AmzPricingProofs --------------------------
(***************************************************************************)
(* What is proved of AmzPricing for any listings, offers, limits, numbers  *)
(* of runs and crashes: a run of the repricer calls the engine once and    *)
(* never before it is answered; a fresh listing gets its 15 minutes; no    *)
(* listing is recommended more than Cap times in a day.                    *)
(***************************************************************************)
EXTENDS AmzPricing, FiniteSetTheorems, SequenceTheorems, TLAPS

-----------------------------------------------------------------------------
(* The calls of a repricer's run.                                          *)

Lives == {"none", "pending", "running", "called", "awaiting", "completed",
          "failed", "stuck"}

RunRow == [state : Lives, event : Nat, asked : {"no", "pending", "approved", "refused"},
           granted : BOOLEAN, dry : BOOLEAN]

\* A run that may still call has not called yet; one that has was allowed to,
\* so that the answer it gave itself then still stands.
CallInv ==
    /\ reprice \in [Repricers -> RunRow]
    /\ calls \in [Repricers -> Nat]
    /\ dryRun \in BOOLEAN
    /\ \A r \in Repricers :
          /\ calls[r] <= 1
          /\ reprice[r].state \notin {"called", "completed", "failed", "stuck"} => calls[r] = 0
          /\ reprice[r].state = "called" => MayAct(r)
          /\ reprice[r].state \in {"none", "pending", "running", "called"} =>
                reprice[r].asked \in {"no", "approved"}
          /\ reprice[r].asked \in {"pending", "refused"} => calls[r] = 0

\* A run of the repricer that becomes a row consistent with its calls.
LEMMA BecomesKeeps ==
    ASSUME CallInv, NEW r \in Repricers, NEW row \in RunRow, Becomes(r, row),
           calls' \in [Repricers -> Nat],
           \A q \in Repricers \ {r} : calls'[q] = calls[q],
           calls'[r] <= 1,
           row.state \notin {"called", "completed", "failed", "stuck"} => calls'[r] = 0,
           row.state = "called" => row.granted \/ ~row.dry,
           row.state \in {"none", "pending", "running", "called"} =>
              row.asked \in {"no", "approved"},
           row.asked \in {"pending", "refused"} => calls'[r] = 0
    PROVE  CallInv'
<1>1. reprice' = [reprice EXCEPT ![r] = row] /\ dryRun' = dryRun
  BY DEF Becomes
<1>2. reprice' \in [Repricers -> RunRow] /\ dryRun' \in BOOLEAN
  BY <1>1 DEF CallInv
<1>3. reprice'[r] = row /\ \A q \in Repricers \ {r} : reprice'[q] = reprice[q]
  BY <1>1 DEF CallInv
<1>4. ASSUME NEW q \in Repricers
      PROVE  /\ calls'[q] <= 1
             /\ reprice'[q].state \notin {"called", "completed", "failed", "stuck"} => calls'[q] = 0
             /\ reprice'[q].state = "called" => MayAct(q)'
             /\ reprice'[q].state \in {"none", "pending", "running", "called"} =>
                   reprice'[q].asked \in {"no", "approved"}
             /\ reprice'[q].asked \in {"pending", "refused"} => calls'[q] = 0
  <2>1. CASE q = r
    BY <2>1, <1>3 DEF MayAct
  <2>2. CASE q # r
    BY <2>2, <1>3 DEF MayAct, CallInv
  <2> QED
    BY <2>1, <2>2
<1> QED
  BY <1>2, <1>4 DEF CallInv

\* What an execution does to its run.
LEMMA ExecuteKeeps ==
    ASSUME CallInv, NEW r \in Repricers, Execute(r)
    PROVE  CallInv'
<1>0. reprice[r] \in RunRow /\ calls[r] \in Nat
  BY DEF CallInv
<1>1. CASE Start(r)
  <2> DEFINE row == [reprice[r] EXCEPT !.state = "running", !.dry = dryRun,
                                       !.granted = (reprice[r].asked = "approved")]
  <2>1. Becomes(r, row) /\ calls' = calls /\ reprice[r].state = "pending"
    BY <1>1 DEF Start
  <2>2. row \in RunRow /\ row.state = "running" /\ row.asked = reprice[r].asked
    BY <1>0 DEF RunRow, Lives, CallInv
  <2>3. calls[r] = 0
    BY <2>1 DEF CallInv
  <2> QED
    BY <2>1, <2>2, <2>3, BecomesKeeps DEF CallInv
<1>2. CASE Ask(r)
  <2> DEFINE row == [reprice[r] EXCEPT !.state = "awaiting", !.asked = "pending"]
  <2>1. Becomes(r, row) /\ calls' = calls /\ MustAsk(r)
    BY <1>2 DEF Ask
  <2>2. row \in RunRow /\ row.state = "awaiting"
    BY <1>0 DEF RunRow, Lives
  <2>3. reprice[r].state = "running"
    BY <1>2, <2>1 DEF Ask, CallInv, MayAct, MustAsk
  <2>4. calls[r] = 0
    BY <2>3 DEF CallInv
  <2> QED
    BY <2>1, <2>2, <2>4, BecomesKeeps DEF CallInv
<1>3. CASE Acknowledge(r) \/ Finish(r)
  <2> DEFINE row == [reprice[r] EXCEPT !.state = "completed"]
  <2>1. Becomes(r, row) /\ calls' = calls
    BY <1>3 DEF Acknowledge, Finish
  <2>2. row \in RunRow /\ row.state = "completed" /\ row.asked = reprice[r].asked
    BY <1>0 DEF RunRow, Lives
  <2> QED
    BY <2>1, <2>2, BecomesKeeps DEF CallInv
<1>4. CASE CallEngine(r)
  <2> DEFINE row == [reprice[r] EXCEPT !.state = "called"]
  <2>1. /\ Becomes(r, row) /\ calls' = [calls EXCEPT ![r] = @ + 1]
        /\ reprice[r].state = "running" /\ MayAct(r)
    BY <1>4 DEF CallEngine
  <2>2. /\ row \in RunRow /\ row.state = "called" /\ (row.granted \/ ~row.dry)
        /\ row.asked = reprice[r].asked /\ row.asked \in {"no", "approved"}
    BY <1>0, <2>1 DEF RunRow, Lives, MayAct, CallInv
  <2>3. calls[r] = 0
    BY <2>1 DEF CallInv
  <2>4. /\ calls' \in [Repricers -> Nat] /\ calls'[r] = 1 /\ calls'[r] <= 1
        /\ \A q \in Repricers \ {r} : calls'[q] = calls[q]
    BY <2>1, <2>3 DEF CallInv
  <2> QED
    BY <2>1, <2>2, <2>4, BecomesKeeps
<1> QED
  BY <1>1, <1>2, <1>3, <1>4 DEF Execute

\* A run that is cut short keeps the calls it made.
LEMMA CutShortKeeps ==
    ASSUME CallInv, NEW r \in Repricers, CutShort(r)
    PROVE  CallInv'
<1> DEFINE row == [reprice[r] EXCEPT !.state = "failed"]
<1>1. Becomes(r, row) /\ calls' = calls /\ reprice[r] \in RunRow
  BY DEF CutShort, OutOfBudget, RepricerFails, CallInv
<1>2. row \in RunRow /\ row.state = "failed" /\ row.asked = reprice[r].asked
  BY <1>1 DEF RunRow, Lives
<1> QED
  BY <1>1, <1>2, BecomesKeeps DEF CallInv

\* What happens to a run from outside.
LEMMA DeliverSettleKeep ==
    ASSUME CallInv, NEW r \in Repricers,
           Settle(r) \/ \E e \in DOMAIN events : e \in Nat /\ Deliver(r, e)
    PROVE  CallInv'
<1>0. reprice[r] \in RunRow /\ calls[r] \in Nat
  BY DEF CallInv
<1>1. ASSUME NEW e \in DOMAIN events, e \in Nat, Deliver(r, e)
      PROVE  CallInv'
  <2> DEFINE row == [reprice[r] EXCEPT !.state = "pending", !.event = e]
  <2>1. Becomes(r, row) /\ calls' = calls /\ reprice[r].state = "none"
    BY <1>1 DEF Deliver
  <2>2. row \in RunRow /\ row.state = "pending" /\ row.asked = reprice[r].asked
    BY <1>0, <1>1 DEF RunRow, Lives
  <2>3. calls[r] = 0
    BY <2>1 DEF CallInv
  <2> QED
    BY <2>1, <2>2, <2>3, BecomesKeeps DEF CallInv
<1>2. CASE Settle(r)
  <2> DEFINE yes == [reprice[r] EXCEPT !.state = "pending", !.asked = "approved"]
             no  == [reprice[r] EXCEPT !.state = "failed", !.asked = "refused"]
  <2>1. (Becomes(r, yes) \/ Becomes(r, no)) /\ calls' = calls /\ reprice[r].state = "awaiting"
    BY <1>2 DEF Settle
  <2>2. /\ yes \in RunRow /\ yes.state = "pending" /\ yes.asked = "approved"
        /\ no \in RunRow /\ no.state = "failed" /\ no.asked = "refused"
    BY <1>0 DEF RunRow, Lives
  <2>3. calls[r] = 0
    BY <2>1 DEF CallInv
  <2>4. CASE Becomes(r, yes)
    BY <2>1, <2>2, <2>3, <2>4, BecomesKeeps DEF CallInv
  <2>5. CASE Becomes(r, no)
    BY <2>1, <2>2, <2>3, <2>5, BecomesKeeps DEF CallInv
  <2> QED
    BY <2>1, <2>4, <2>5
<1> QED
  BY <1>1, <1>2

\* A crash leaves the runs under way stuck, their calls made.
LEMMA CrashKeeps ==
    ASSUME CallInv, Crash
    PROVE  CallInv'
<1>1. /\ reprice' = [r \in Repricers |->
             IF reprice[r].state \in {"running", "called"}
               THEN [reprice[r] EXCEPT !.state = "stuck"] ELSE reprice[r]]
      /\ calls' = calls /\ dryRun' = dryRun
  BY DEF Crash
<1>2. ASSUME NEW r \in Repricers
      PROVE  /\ reprice'[r] \in RunRow
             /\ reprice'[r].state # "stuck" => reprice'[r] = reprice[r]
             /\ reprice'[r].asked = reprice[r].asked
  <2>1. reprice[r] \in RunRow
    BY DEF CallInv
  <2>2. [reprice[r] EXCEPT !.state = "stuck"] \in RunRow
    BY <2>1 DEF RunRow, Lives
  <2>3. /\ [reprice[r] EXCEPT !.state = "stuck"].state = "stuck"
        /\ [reprice[r] EXCEPT !.state = "stuck"].asked = reprice[r].asked
    BY <2>1 DEF RunRow
  <2> QED
    BY <1>1, <2>1, <2>2, <2>3
<1>3. reprice' \in [Repricers -> RunRow]
  BY <1>1, <1>2
<1>4. \A r \in Repricers : reprice'[r].state = "called" => MayAct(r)'
  BY <1>2 DEF CallInv, MayAct
<1>5. \A r \in Repricers :
         reprice'[r].state \notin {"called", "completed", "failed", "stuck"} => calls[r] = 0
  BY <1>2 DEF CallInv
<1>6. \A r \in Repricers :
         /\ reprice'[r].state \in {"none", "pending", "running", "called"} =>
               reprice'[r].asked \in {"no", "approved"}
         /\ reprice'[r].asked \in {"pending", "refused"} => calls[r] = 0
  BY <1>2 DEF CallInv
<1> QED
  BY <1>1, <1>3, <1>4, <1>5, <1>6 DEF CallInv

-----------------------------------------------------------------------------
(* The pricer's view of a fresh listing.                                   *)

EventOf == [listing : Listings, at : Times, price : Floor .. Top]

\* What the lost scan copied is lost, whatever the market does meanwhile.
ScanInv ==
    /\ market \in [Listings -> Row]
    /\ scan.on \in BOOLEAN /\ scan.lost \subseteq Listings
    /\ \A l \in scan.lost : scan.rows[l] \in Row /\ IsLost(scan.rows[l])

\* The stamp of a listing that no aging scan returns says since when it is lost.
StampInv ==
    /\ now \in Times
    /\ lostSince \in [Listings -> Times \cup {Never}]
    /\ firstLost \in [Listings -> Times \cup {Never}]
    /\ \A l \in Listings \ Aging : firstLost[l] = lostSince[l]

PricerInv == events \in Seq(EventOf) /\ ScanInv /\ StampInv

LEMMA TimesNat == Times \subseteq Nat /\ MaxTime \in Nat
BY Limits DEF Times

\* SetToSeq lists a finite set, every element once.
LEMMA Listed ==
    ASSUME NEW S, IsFiniteSet(S)
    PROVE  /\ Cardinality(S) \in Nat
           /\ SetToSeq(S) \in [1 .. Cardinality(S) -> S]
           /\ \A i, j \in 1 .. Cardinality(S) : SetToSeq(S)[i] = SetToSeq(S)[j] => i = j
<1> DEFINE n == Cardinality(S)
           q == SetToSeq(S)
<1>1. n \in Nat /\ ExistsBijection(1 .. n, S)
  BY FS_CardinalityType
<1>2. PICK f \in [1 .. n -> S] : IsInjective(f)
  BY <1>1 DEF ExistsBijection, Bijection, Injection, IsInjective
<1>3. q \in [1 .. n -> S] /\ IsInjective(q)
  BY <1>1, <1>2 DEF SetToSeq
<1> HIDE DEF q, n
<1>4. \A i, j \in 1 .. n : q[i] = q[j] => i = j
  BY <1>3 DEF IsInjective
<1> QED
  BY <1>1, <1>3, <1>4 DEF n, q

\* What a list has gained when another went behind it.
LEMMA Appended ==
    ASSUME NEW T, NEW old \in Seq(T), NEW n \in Nat, NEW new \in [1 .. n -> T]
    PROVE  /\ old \o new \in Seq(T) /\ Len(old \o new) = Len(old) + n
           /\ \A k \in DOMAIN old : k \in DOMAIN (old \o new) /\ (old \o new)[k] = old[k]
           /\ \A k \in DOMAIN (old \o new) \ DOMAIN old :
                 k \in Nat /\ k - Len(old) \in 1 .. n /\ (old \o new)[k] = new[k - Len(old)]
<1>1. new \in Seq(T)
  BY SeqDef
<1>2. Len(new) = n
  BY <1>1, LenProperties
<1> QED
  BY <1>1, <1>2

\* The prices a listing may get.
LEMMA ProposalsInRange ==
    ASSUME NEW l, NEW row \in Row, NEW p \in Proposals(l, row)
    PROVE  p \in Floor .. Top
<1>1. /\ row.price \in Floor .. Top /\ row.rival \in Nat
      /\ Floor \in Nat \ {0} /\ Top \in Nat
  BY Prices DEF Row
<1>2. CASE Strategy(l, row) = "buy_box_win"
  <2>1. p = AtLeast(row.rival - 1, Floor) /\ p < row.price
    BY <1>2 DEF Proposals
  <2>2. p \in Int /\ p >= Floor
    BY <1>1, <2>1 DEF AtLeast
  <2> QED
    BY <1>1, <2>1, <2>2
<1>3. CASE Strategy(l, row) = "profit_max"
  <2>1. p = row.price + 1 /\ p <= Top
    BY <1>3 DEF Proposals
  <2> QED
    BY <1>1, <2>1
<1>4. CASE Strategy(l, row) = "stock_bleed"
  <2>1. p = Floor
    BY <1>4 DEF Proposals
  <2> QED
    BY <1>1, <2>1, Prices
<1> QED
  BY <1>2, <1>3, <1>4 DEF Strategy

LEMMA MergedShape ==
    ASSUME PricerInv, NEW aging \in {Aging, {}}
    PROVE  LET merged == Merged(scan.lost, scan.rows, aging)
           IN /\ DOMAIN merged \subseteq Listings
              /\ \A l \in DOMAIN merged : merged[l] \in Row
              /\ \A l \in DOMAIN merged \ Aging : IsLost(merged[l])
              /\ IsFiniteSet(Recommended(merged))
              /\ Recommended(merged) \subseteq Proposed(merged)
              /\ Proposed(merged) \subseteq DOMAIN merged
<1> DEFINE merged == Merged(scan.lost, scan.rows, aging)
<1>1. DOMAIN merged = scan.lost \cup aging /\ aging \subseteq Listings
  BY Shelf DEF Merged
<1>2. \A l \in DOMAIN merged \ Aging : l \in scan.lost /\ merged[l] = scan.rows[l]
  BY <1>1 DEF Merged
<1>3. Recommended(merged) \subseteq Proposed(merged) /\ Proposed(merged) \subseteq DOMAIN merged
  BY DEF Recommended, Proposed
<1>4. DOMAIN merged \subseteq Listings
  BY <1>1 DEF PricerInv, ScanInv
<1>5. IsFiniteSet(Recommended(merged))
  BY <1>3, <1>4, FS_Subset, Shelf
<1>6. ASSUME NEW l \in DOMAIN merged PROVE merged[l] \in Row
  <2>1. market[l] \in Row /\ (l \in scan.lost => scan.rows[l] \in Row)
    BY <1>4 DEF PricerInv, ScanInv
  <2>2. PICK a : a = AgingRow(l)
    OBVIOUS
  <2>3. a \in Row
    BY <2>1, <2>2 DEF AgingRow, Row, Crowds
  <2>4. CASE l \in aging
    <3>1. merged[l] = [a EXCEPT !.comp = IF l \in scan.lost THEN scan.rows[l].comp ELSE @]
      BY <1>1, <2>2, <2>4 DEF Merged
    <3>2. l \in scan.lost => scan.rows[l].comp \in Crowds
      BY <2>1 DEF Row
    <3> QED
      BY <2>3, <3>1, <3>2 DEF Row
  <2>5. CASE l \notin aging
    BY <1>1, <2>1, <2>5 DEF Merged
  <2> QED
    BY <2>4, <2>5
<1> QED
  BY <1>2, <1>3, <1>4, <1>5, <1>6 DEF PricerInv, ScanInv

\* What a run of the pricer commits that merged its scans to this: at most one
\* event for a listing.
Commits(merged) ==
    /\ lostSince' = LostSinceAfter(merged) /\ repriceLog' = LogAfter(merged)
    /\ firstLost' = [l \in Listings |->
           IF l \notin DOMAIN merged \/ ~IsLost(merged[l]) THEN Never
           ELSE IF firstLost[l] = Never THEN now ELSE firstLost[l]]
    /\ events' \in Seq(EventOf) /\ Len(events) <= Len(events')
    /\ \A k \in DOMAIN events : k \in DOMAIN events' /\ events'[k] = events[k]
    /\ \A k \in DOMAIN events' \ DOMAIN events :
          events'[k].listing \in Recommended(merged) /\ events'[k].at = now
    /\ \A j, k \in DOMAIN events' \ DOMAIN events :
          events'[j].listing = events'[k].listing => j = k

LEMMA RecommendCommits ==
    ASSUME PricerInv, Recommend
    PROVE  \E aging \in {Aging, {}} : Commits(Merged(scan.lost, scan.rows, aging))
<1>1. PICK aging \in {Aging, {}} :
         LET merged == Merged(scan.lost, scan.rows, aging)
             price(l) == CHOOSE p \in Proposals(l, merged[l]) : TRUE
             recs == SetToSeq(Recommended(merged))
         IN /\ lostSince' = LostSinceAfter(merged)
            /\ repriceLog' = LogAfter(merged)
            /\ events' = events \o [i \in DOMAIN recs |->
                   [listing |-> recs[i], at |-> now, price |-> price(recs[i])]]
            /\ firstLost' = [l \in Listings |->
                   IF l \notin DOMAIN merged \/ ~IsLost(merged[l]) THEN Never
                   ELSE IF firstLost[l] = Never THEN now ELSE firstLost[l]]
  BY DEF Recommend, Observe
<1> DEFINE merged == Merged(scan.lost, scan.rows, aging)
           S == Recommended(merged)
           recs == SetToSeq(S)
           price(l) == CHOOSE p \in Proposals(l, merged[l]) : TRUE
           event(l) == [listing |-> l, at |-> now, price |-> price(l)]
           new == [i \in DOMAIN recs |-> event(recs[i])]
           n == Cardinality(S)
<1>2. /\ \A l \in DOMAIN merged : merged[l] \in Row
      /\ IsFiniteSet(S) /\ S \subseteq Proposed(merged)
      /\ Proposed(merged) \subseteq DOMAIN merged /\ DOMAIN merged \subseteq Listings
  BY MergedShape
<1>3. \A l \in S : event(l) \in EventOf /\ event(l).listing = l /\ event(l).at = now
  <2> SUFFICES ASSUME NEW l \in S
               PROVE  event(l) \in EventOf /\ event(l).listing = l /\ event(l).at = now
    OBVIOUS
  <2>1. l \in Listings /\ merged[l] \in Row /\ Proposals(l, merged[l]) # {}
    BY <1>2 DEF Proposed
  <2>2. price(l) \in Proposals(l, merged[l])
    BY <2>1
  <2>3. price(l) \in Floor .. Top
    BY <2>1, <2>2, ProposalsInRange
  <2> QED
    BY <2>1, <2>3 DEF EventOf, PricerInv, StampInv
<1>4. events' = events \o new
  BY <1>1
<1> HIDE DEF event
<1>5. /\ n \in Nat /\ recs \in [1 .. n -> S]
      /\ \A i, j \in 1 .. n : recs[i] = recs[j] => i = j
  BY <1>2, Listed
<1> HIDE DEF S, recs, n
<1>6. /\ new \in [1 .. n -> EventOf]
      /\ \A i \in 1 .. n : new[i].listing = recs[i] /\ recs[i] \in S /\ new[i].at = now
  BY <1>3, <1>5
<1> HIDE DEF new
<1>7. events \in Seq(EventOf)
  BY DEF PricerInv
<1>8. /\ events' \in Seq(EventOf) /\ Len(events') = Len(events) + n
      /\ \A k \in DOMAIN events : k \in DOMAIN events' /\ events'[k] = events[k]
      /\ \A k \in DOMAIN events' \ DOMAIN events :
            k \in Nat /\ k - Len(events) \in 1 .. n /\ events'[k] = new[k - Len(events)]
  BY <1>4, <1>5, <1>6, <1>7, Appended
<1>9. Len(events) \in Nat /\ Len(events) <= Len(events')
  BY <1>5, <1>7, <1>8, LenProperties
<1>10. \A k \in DOMAIN events' \ DOMAIN events : events'[k].listing \in S /\ events'[k].at = now
  BY <1>6, <1>8
<1>11. ASSUME NEW j \in DOMAIN events' \ DOMAIN events, NEW k \in DOMAIN events' \ DOMAIN events,
              events'[j].listing = events'[k].listing
       PROVE  j = k
  <2>1. /\ j - Len(events) \in 1 .. n /\ events'[j] = new[j - Len(events)] /\ j \in Nat
        /\ k - Len(events) \in 1 .. n /\ events'[k] = new[k - Len(events)] /\ k \in Nat
    BY <1>8
  <2>2. recs[j - Len(events)] = recs[k - Len(events)]
    BY <1>6, <1>11, <2>1
  <2>3. j - Len(events) = k - Len(events)
    BY <1>5, <2>1, <2>2
  <2> QED
    BY <1>9, <2>1, <2>3
<1> QED
  BY <1>1, <1>8, <1>9, <1>10, <1>11 DEF Commits, S

\* A run that ends with its state committed, with its events or, timed out,
\* without them.
Persists == Recommend \/ PricerTimesOut

LEMMA Recommends ==
    ASSUME PricerInv, Persists
    PROVE  \E aging \in {Aging, {}} : Commits(Merged(scan.lost, scan.rows, aging))
<1>1. CASE Recommend
  BY <1>1, RecommendCommits
<1>2. CASE PricerTimesOut
  <2>1. PICK aging \in {Aging, {}} : Observe(Merged(scan.lost, scan.rows, aging))
    BY <1>2 DEF PricerTimesOut
  <2>2. events' = events /\ events \in Seq(EventOf) /\ Len(events) \in Nat
    BY <1>2, LenProperties DEF PricerTimesOut, PricerInv
  <2>3. PICK merged : merged = Merged(scan.lost, scan.rows, aging)
    OBVIOUS
  <2>4. Commits(merged)
    BY <2>1, <2>2, <2>3 DEF Commits, Observe
  <2> QED
    BY <2>3, <2>4
<1> QED
  BY <1>1, <1>2 DEF Persists

\* The pricer recommends: its stamps stay true, and a fresh listing it
\* recommends has been lost for as long as it has to be.
LEMMA RecommendKeeps ==
    ASSUME PricerInv, Persists
    PROVE  /\ PricerInv'
           /\ \A e \in DOMAIN events' \ DOMAIN events :
                 \/ events'[e].listing \in Aging
                 \/ /\ firstLost[events'[e].listing] # Never
                    /\ firstLost[events'[e].listing] + Wait <= now
<1>1. PICK aging \in {Aging, {}} : Commits(Merged(scan.lost, scan.rows, aging))
  BY Recommends
<1> DEFINE merged == Merged(scan.lost, scan.rows, aging)
           S == Recommended(merged)
<1>2. /\ DOMAIN merged \subseteq Listings
      /\ \A l \in DOMAIN merged \ Aging : IsLost(merged[l])
      /\ S \subseteq Proposed(merged) /\ Proposed(merged) \subseteq DOMAIN merged
  BY MergedShape
<1>3. \A l \in S \ Aging : firstLost[l] # Never /\ firstLost[l] + Wait <= now
  <2> SUFFICES ASSUME NEW l \in S \ Aging
               PROVE  firstLost[l] # Never /\ firstLost[l] + Wait <= now
    OBVIOUS
  <2>1. l \in Listings /\ IsLost(merged[l]) /\ ~Waiting(l, merged[l])
    BY <1>2 DEF Proposed
  <2>2. lostSince[l] # Never /\ ~(now < lostSince[l] + Wait)
    BY <2>1 DEF Waiting
  <2>3. firstLost[l] = lostSince[l] /\ lostSince[l] \in Nat /\ now \in Nat
    BY <2>1, <2>2, TimesNat DEF PricerInv, StampInv
  <2> QED
    BY <2>2, <2>3, Clock
<1>4. now' = now /\ market' = market /\ scan' = NoScan
  BY DEF Persists, Recommend, PricerTimesOut, Observe
<1> HIDE DEF merged, S
<1>5. /\ lostSince' = LostSinceAfter(merged)
      /\ firstLost' = [l \in Listings |->
             IF l \notin DOMAIN merged \/ ~IsLost(merged[l]) THEN Never
             ELSE IF firstLost[l] = Never THEN now ELSE firstLost[l]]
      /\ events' \in Seq(EventOf)
      /\ \A k \in DOMAIN events' \ DOMAIN events : events'[k].listing \in S
  BY <1>1 DEF Commits, merged, S
<1>6. StampInv'
  <2>1. /\ lostSince' \in [Listings -> Times \cup {Never}]
        /\ firstLost' \in [Listings -> Times \cup {Never}]
    BY <1>5 DEF LostSinceAfter, PricerInv, StampInv
  <2>2. \A l \in Listings \ Aging : firstLost'[l] = lostSince'[l]
    BY <1>2, <1>5 DEF LostSinceAfter, PricerInv, StampInv
  <2> QED
    BY <1>4, <2>1, <2>2 DEF PricerInv, StampInv
<1>7. ScanInv'
  BY <1>4 DEF NoScan, PricerInv, ScanInv
<1> QED
  BY <1>3, <1>5, <1>6, <1>7 DEF PricerInv

\* The lost scan copies lost rows.
LEMMA ScanLostKeeps ==
    ASSUME PricerInv, ScanLost
    PROVE  PricerInv' /\ events' = events
<1>1. PICK T \in TopByGap(LostBuyBox, ScanLimit) \cup {{}} :
         scan' = [on |-> TRUE, lost |-> T, rows |-> [l \in T |-> LostRow(l)]]
  BY DEF ScanLost
<1>2. T \subseteq LostBuyBox
  BY DEF TopByGap
<1>3. \A l \in T : l \in Listings /\ scan'.rows[l] = LostRow(l)
  BY <1>1, <1>2 DEF LostBuyBox
<1>4. \A l \in T : LostRow(l) \in Row /\ IsLost(LostRow(l))
  BY <1>2 DEF LostBuyBox, LostRow, IsLost, PricerInv, ScanInv, Row
<1>5. /\ market' = market /\ now' = now /\ lostSince' = lostSince /\ firstLost' = firstLost
      /\ events' = events
  BY DEF ScanLost
<1>6. ScanInv'
  <2>1. scan'.on = TRUE /\ scan'.lost = T /\ T \subseteq Listings
    BY <1>1, <1>3
  <2>2. \A l \in T : scan'.rows[l] \in Row /\ IsLost(scan'.rows[l])
    BY <1>3, <1>4
  <2> QED
    BY <1>5, <2>1, <2>2 DEF PricerInv, ScanInv, IsLost
<1> QED
  BY <1>5, <1>6 DEF PricerInv, StampInv

\* Every other step leaves the pricer's state alone, or forgets its scan.
LEMMA ElsewhereKeeps ==
    ASSUME PricerInv, [Next]_vars, ~Persists, ~ScanLost
    PROVE  PricerInv' /\ events' = events
<1>1. /\ events' = events /\ lostSince' = lostSince /\ firstLost' = firstLost
      /\ scan' = scan \/ scan' = NoScan
      /\ now' = now \/ (now < MaxTime /\ now' = now + 1)
  BY DEF Persists, Next, Pricer, PricerFails, Deliver, Execute, Start, Ask, Acknowledge, CallEngine,
         Finish, Settle, Becomes, Tick, SetMode, Crash, MarketMoves,
       CutShort, OutOfBudget, RepricerFails, vars
<1>2. market' \in [Listings -> Row]
  <2>1. CASE \E r \in Repricers : CallEngine(r)
    <3>1. PICK r \in Repricers, p \in Floor .. Top :
             market' = [market EXCEPT ![events[reprice[r].event].listing].price = p]
      BY <2>1 DEF CallEngine
    <3> QED
      BY <3>1 DEF PricerInv, ScanInv, Row
  <2>2. CASE \E l \in Listings : MarketMoves(l)
    <3>1. PICK l \in Listings, o \in Offers :
             market' = [market EXCEPT ![l] = Offered(@.price, o)]
      BY <2>2 DEF MarketMoves
    <3>2. Offered(market[l].price, o) \in Row
      BY Situations DEF Offered, PricerInv, ScanInv, Row, Crowds
    <3> QED
      BY <3>1, <3>2 DEF PricerInv, ScanInv
  <2>3. CASE market' = market
    BY <2>3 DEF PricerInv, ScanInv
  <2> QED
    BY <2>1, <2>2, <2>3 DEF Persists, Next, Pricer, PricerFails, Deliver, Execute, Start, Ask,
       Acknowledge, Finish, CutShort, OutOfBudget, RepricerFails, Settle, Tick, SetMode, Crash,
       vars
<1>3. ScanInv'
  <2>1. CASE scan' = scan
    BY <1>2, <2>1 DEF PricerInv, ScanInv, IsLost
  <2>2. CASE scan' = NoScan
    <3>1. NoScan.on = FALSE /\ NoScan.lost = {}
      BY DEF NoScan
    <3> QED
      BY <1>2, <2>2, <3>1 DEF ScanInv
  <2> QED
    BY <1>1, <2>1, <2>2
<1>4. now' \in Times
  BY <1>1, Limits DEF PricerInv, StampInv, Times
<1> QED
  BY <1>1, <1>3, <1>4 DEF PricerInv, StampInv

LEMMA PricerStart == Init => PricerInv
<1> SUFFICES ASSUME Init PROVE PricerInv
  OBVIOUS
<1>1. events \in Seq(EventOf)
  BY EmptySeq DEF Init
<1>2. market \in [Listings -> Row]
  <2>1. \A o \in Offers : Offered(Top, o) \in Row
    BY Situations, Prices DEF Offered, Row, Crowds
  <2> QED
    BY <2>1 DEF Init
<1>3. NoScan.on = FALSE /\ NoScan.lost = {}
  BY DEF NoScan
<1>4. ScanInv
  BY <1>2, <1>3 DEF Init, ScanInv
<1>5. StampInv
  BY Limits DEF Init, StampInv, Times
<1> QED
  BY <1>1, <1>4, <1>5 DEF PricerInv

LEMMA PricerKeeps == PricerInv /\ [Next]_vars => PricerInv'
BY RecommendKeeps, ScanLostKeeps, ElsewhereKeeps

-----------------------------------------------------------------------------
(* The log of a listing, and the cap.                                      *)

Entry == [at : Times, run : 1 .. MaxRuns]

\* An entry names the run that made it, and no run makes two for one listing.
LogInv ==
    /\ runs \in 0 .. MaxRuns /\ (scan.on => runs > 0)
    /\ repriceLog \in [Listings -> SUBSET Entry]
    /\ \A l \in Listings : \A x \in repriceLog[l] : x.run <= runs /\ (scan.on => x.run < runs)

\* The recommendations and the log entries not older than a day at time u; the
\* recommendations that count at time t.
Recent(l, u) == { k \in DOMAIN events : events[k].listing = l /\ events[k].at + Day >= u }
Logged(l, u) == { x \in repriceLog[l] : x.at + Day >= u }
Window(l, t) == { k \in DOMAIN events : /\ events[k].listing = l
                                        /\ events[k].at <= t
                                        /\ t <= events[k].at + Day }

\* Pruning, absence from a scan or a rate limit drop no entry that still counts,
\* now or later: the log has one for every recommendation of the last day.
CapInv ==
    /\ \A k \in DOMAIN events : events[k].at <= now
    /\ \A l \in Listings, u \in Nat :
          u >= now => Cardinality(Recent(l, u)) <= Cardinality(Logged(l, u))
    /\ \A l \in Listings, t \in Times : Cardinality(Window(l, t)) <= Cap

LEMMA Elsewhere ==
    ASSUME [Next]_vars, ~Persists, ~ScanLost
    PROVE  /\ UNCHANGED <<events, repriceLog, runs>>
           /\ scan' = scan \/ scan' = NoScan
BY DEF Persists, Next, Pricer, PricerFails, Deliver, Execute, Start, Ask, Acknowledge, CallEngine,
       Finish, Settle, Becomes, Tick, SetMode, Crash, MarketMoves,
       CutShort, OutOfBudget, RepricerFails, vars

LEMMA EntriesFinite ==
    ASSUME LogInv, NEW l \in Listings
    PROVE  /\ IsFiniteSet(repriceLog[l])
           /\ \A x \in repriceLog[l] : x.at \in Nat /\ x.run \in Nat
<1>1. \A x \in repriceLog[l] : x \in Entry
  BY DEF LogInv
<1>2. \A x \in Entry : x.at \in Times /\ x.run \in 1 .. MaxRuns
  BY DEF Entry
<1>3. IsFiniteSet(Times) /\ IsFiniteSet(1 .. MaxRuns)
  BY FS_Interval, Limits DEF Times
<1>4. IsFiniteSet(Times \X (1 .. MaxRuns))
  BY <1>3, FS_Product
<1> DEFINE P == Times \X (1 .. MaxRuns)
           f == [y \in P |-> [at |-> y[1], run |-> y[2]]]
<1>5. f \in [P -> Entry] /\ \A x \in Entry : \E y \in P : f[y] = x
  <2>1. f \in [P -> Entry]
    BY DEF Entry
  <2>2. ASSUME NEW x \in Entry PROVE \E y \in P : f[y] = x
    <3>1. <<x.at, x.run>> \in P
      BY <1>2
    <3>2. f[<<x.at, x.run>>] = x
      BY <3>1 DEF Entry
    <3> QED
      BY <3>1, <3>2
  <2> QED
    BY <2>1, <2>2
<1> HIDE DEF f, P
<1>6. f \in Surjection(P, Entry)
  BY <1>5 DEF Surjection
<1>7. IsFiniteSet(Entry)
  BY <1>4, <1>6, FS_Surjection DEF P
<1>8. IsFiniteSet(repriceLog[l])
  BY <1>1, <1>7, FS_Subset
<1>9. \A x \in repriceLog[l] : x.at \in Times /\ x.run \in 1 .. MaxRuns
  BY <1>1, <1>2
<1>10. 1 .. MaxRuns \subseteq Nat
  BY Limits
<1> QED
  BY <1>8, <1>9, <1>10, TimesNat

LEMMA LogKeeps ==
    ASSUME PricerInv, LogInv, [Next]_vars
    PROVE  LogInv'
<1>0. MaxRuns \in Nat /\ runs \in Nat
  BY Limits DEF LogInv
<1>1. CASE Persists
  <2>1. PICK aging \in {Aging, {}} : Commits(Merged(scan.lost, scan.rows, aging))
    BY <1>1, Recommends
  <2>2. PICK merged : merged = Merged(scan.lost, scan.rows, aging)
    OBVIOUS
  <2>3. /\ repriceLog' = LogAfter(merged) /\ runs' = runs /\ scan' = NoScan /\ scan.on
    BY <1>1, <2>1, <2>2 DEF Commits, Persists, Recommend, PricerTimesOut, Observe
  <2>4. PICK e : e = [at |-> now, run |-> runs]
    OBVIOUS
  <2>5. e \in Entry /\ e.run = runs
    BY <1>0, <2>3, <2>4 DEF Entry, LogInv, PricerInv, StampInv
  <2>6. ASSUME NEW l \in Listings
        PROVE  /\ repriceLog'[l] \subseteq repriceLog[l] \cup {e}
    BY <2>3, <2>4 DEF LogAfter, Pruned, Newer
  <2>7. \A l \in Listings : repriceLog[l] \subseteq Entry
    BY DEF LogInv
  <2>8. repriceLog' \in [Listings -> SUBSET Entry]
    <3>1. \A l \in Listings : repriceLog'[l] \in SUBSET Entry
      BY <2>5, <2>6, <2>7
    <3>2. repriceLog' = [l \in Listings |-> repriceLog'[l]]
      BY <2>3 DEF LogAfter
    <3> QED
      BY <3>1, <3>2
  <2>9. \A l \in Listings : \A x \in repriceLog'[l] : x.run <= runs
    BY <1>0, <2>5, <2>6 DEF LogInv
  <2>10. scan'.on = FALSE
    BY <2>3 DEF NoScan
  <2> QED
    BY <2>3, <2>8, <2>9, <2>10 DEF LogInv
<1>2. CASE ScanLost
  <2>1. /\ runs < MaxRuns /\ runs' = runs + 1 /\ repriceLog' = repriceLog
    BY <1>2 DEF ScanLost
  <2>2. \A l \in Listings : \A x \in repriceLog[l] : x.run \in Nat /\ x.run <= runs
    BY EntriesFinite DEF LogInv
  <2>3. \A l \in Listings : \A x \in repriceLog[l] : x.run <= runs + 1 /\ x.run < runs + 1
    BY <1>0, <2>2
  <2>4. runs + 1 \in 0 .. MaxRuns /\ runs + 1 > 0
    BY <1>0, <2>1
  <2> QED
    BY <2>1, <2>3, <2>4 DEF LogInv
<1>3. CASE ~Persists /\ ~ScanLost
  <2>1. /\ UNCHANGED <<repriceLog, runs>>
        /\ scan'.on => scan.on
    BY <1>3, Elsewhere DEF NoScan
  <2> QED
    BY <2>1 DEF LogInv
<1> QED
  BY <1>1, <1>2, <1>3

\* What a recommendation does to one listing: its event comes with an entry, and
\* only when less than Cap of them counted.
LEMMA CapOne ==
    ASSUME PricerInv, LogInv, CapInv, NEW merged, Commits(merged), scan.on, now' = now,
           NEW l \in Listings
    PROVE  /\ \A u \in Nat : u >= now => Cardinality(Recent(l, u)') <= Cardinality(Logged(l, u)')
           /\ \A t \in Times : Cardinality(Window(l, t)') <= Cap
<1> DEFINE S == Recommended(merged)
           N == DOMAIN events' \ DOMAIN events
           log == repriceLog[l]
<1>1. /\ now \in Nat /\ Day \in Nat \ {0} /\ Cap \in Nat /\ runs \in Nat
      /\ \A t \in Times : t \in Nat
  BY Clock, Limits, TimesNat DEF PricerInv, StampInv, LogInv
<1>2. /\ \A k \in DOMAIN events : k \in DOMAIN events' /\ events'[k] = events[k]
      /\ \A k \in N : events'[k].listing \in S /\ events'[k].at = now
      /\ \A j, k \in N : events'[j].listing = events'[k].listing => j = k
      /\ repriceLog' = LogAfter(merged)
  BY DEF Commits
<1>3. /\ events \in Seq(EventOf) /\ events' \in Seq(EventOf)
      /\ \A k \in DOMAIN events : events[k].at \in Nat /\ events[k].at <= now
  <2>1. events \in Seq(EventOf) /\ events' \in Seq(EventOf)
    BY DEF PricerInv, Commits
  <2>2. \A k \in DOMAIN events : events[k] \in EventOf
    BY <2>1, ElementOfSeq, LenProperties
  <2> QED
    BY <2>1, <2>2, TimesNat DEF EventOf, CapInv
<1>4. \A A : A \subseteq DOMAIN events => IsFiniteSet(A) /\ Cardinality(A) \in Nat
  <2>1. IsFiniteSet(DOMAIN events)
    <3>1. DOMAIN events = 1 .. Len(events) /\ Len(events) \in Nat
      BY <1>3, LenProperties
    <3> QED
      BY <3>1, FS_Interval
  <2> QED
    BY <2>1, FS_Subset, FS_CardinalityType
<1>5. /\ IsFiniteSet(log) /\ \A x \in log : x.at \in Nat /\ x.run \in Nat
  BY EntriesFinite
<1>6. \A A : A \subseteq log => IsFiniteSet(A) /\ Cardinality(A) \in Nat
  BY <1>5, FS_Subset, FS_CardinalityType
<1>7. /\ \A u : Recent(l, u) \subseteq DOMAIN events
      /\ \A u : Logged(l, u) \subseteq log
      /\ \A t : Window(l, t) \subseteq DOMAIN events
  BY DEF Recent, Logged, Window
<1>8. \A u \in Nat : u >= now => { x \in Pruned(log) : x.at + Day >= u } = Logged(l, u)
  <2> SUFFICES ASSUME NEW u \in Nat, u >= now, NEW x \in log, x.at + Day >= u
               PROVE  x.at + 2 * Day >= now
    BY DEF Pruned, Newer, Logged
  <2> QED
    BY <1>1, <1>5
<1>9. CASE l \notin S
  <2>1. /\ \A u : Recent(l, u)' = Recent(l, u)
        /\ \A t : Window(l, t)' = Window(l, t)
    BY <1>2, <1>9 DEF Recent, Window
  <2>2. repriceLog'[l] \in {log, Pruned(log)}
    BY <1>2, <1>9 DEF LogAfter
  <2>3. \A u \in Nat : u >= now => Logged(l, u)' = Logged(l, u)
    BY <1>8, <2>2 DEF Logged
  <2> QED
    BY <2>1, <2>3 DEF CapInv
<1>10. CASE l \in S
  <2> DEFINE e == [at |-> now, run |-> runs]
  <2>1. /\ repriceLog'[l] = Pruned(log) \cup {e} /\ ~RateLimited(l)
        /\ e.at = now /\ e.run = runs
    BY <1>2, <1>10 DEF LogAfter, Recommended
  <2>2. e \notin log
    <3> SUFFICES ASSUME e \in log PROVE FALSE
      OBVIOUS
    <3>1. e.run < runs
      BY DEF LogInv
    <3> QED
      BY <1>1, <2>1, <3>1
  <2> HIDE DEF e
  <2>3. PICK k : \A j \in N : events'[j].listing = l => j = k
    <3>1. CASE \E j \in N : events'[j].listing = l
      BY <1>2, <3>1
    <3>2. CASE ~\E j \in N : events'[j].listing = l
      BY <3>2
    <3> QED
      BY <3>1, <3>2
  <2>4. ASSUME NEW A, NEW B, A \subseteq DOMAIN events, B \subseteq A \cup {k}
        PROVE  Cardinality(B) \in Nat /\ Cardinality(B) <= Cardinality(A) + 1
    <3>1. IsFiniteSet(A) /\ Cardinality(A) \in Nat
      BY <1>4, <2>4
    <3>2. /\ IsFiniteSet(A \cup {k})
          /\ Cardinality(A \cup {k}) = IF k \in A THEN Cardinality(A) ELSE Cardinality(A) + 1
      BY <3>1, FS_AddElement
    <3>3. Cardinality(A \cup {k}) \in Nat /\ Cardinality(A \cup {k}) <= Cardinality(A) + 1
      BY <3>1, <3>2
    <3>4. Cardinality(B) <= Cardinality(A \cup {k}) /\ IsFiniteSet(B)
      BY <2>4, <3>2, FS_Subset
    <3>5. Cardinality(B) \in Nat
      BY <3>4, FS_CardinalityType
    <3> QED
      BY <3>1, <3>3, <3>4, <3>5
  <2>5. ASSUME NEW u \in Nat, u >= now, now + Day >= u
        PROVE  Cardinality(Recent(l, u)') <= Cardinality(Logged(l, u)')
    <3>1. Recent(l, u)' \subseteq Recent(l, u) \cup {k}
      BY <1>2, <2>3 DEF Recent
    <3>2. Logged(l, u)' = Logged(l, u) \cup {e}
      <4>1. Logged(l, u)' = { x \in Pruned(log) \cup {e} : x.at + Day >= u }
        BY <2>1 DEF Logged
      <4> QED
        BY <1>8, <2>1, <2>5, <4>1
    <3>3. e \notin Logged(l, u)
      BY <1>7, <2>2
    <3>4. /\ Cardinality(Logged(l, u) \cup {e}) = Cardinality(Logged(l, u)) + 1
      BY <1>6, <1>7, <3>3, FS_AddElement
    <3>5. Cardinality(Recent(l, u)) <= Cardinality(Logged(l, u))
      BY <2>5 DEF CapInv
    <3>6. Cardinality(Recent(l, u)') \in Nat /\ Cardinality(Recent(l, u)') <= Cardinality(Recent(l, u)) + 1
      BY <1>7, <2>4, <3>1
    <3>7. Cardinality(Recent(l, u)) \in Nat /\ Cardinality(Logged(l, u)) \in Nat
      BY <1>4, <1>6, <1>7
    <3> QED
      BY <3>2, <3>4, <3>5, <3>6, <3>7
  <2>6. ASSUME NEW u \in Nat, u >= now, ~(now + Day >= u)
        PROVE  Cardinality(Recent(l, u)') <= Cardinality(Logged(l, u)')
    <3>1. Recent(l, u)' = Recent(l, u)
      BY <1>2, <2>6 DEF Recent
    <3>2. Logged(l, u)' = Logged(l, u)
      <4>1. Logged(l, u)' = { x \in Pruned(log) \cup {e} : x.at + Day >= u }
        BY <2>1 DEF Logged
      <4> QED
        BY <1>8, <2>1, <2>6, <4>1
    <3> QED
      BY <2>6, <3>1, <3>2 DEF CapInv
  <2>7. ASSUME NEW t \in Times, now <= t, t <= now + Day
        PROVE  Cardinality(Window(l, t)') <= Cap
    <3>1. Window(l, t)' \subseteq Window(l, t) \cup {k}
      BY <1>2, <2>3 DEF Window
    <3>2. Window(l, t) \subseteq Recent(l, now)
      BY <1>1, <1>3, <2>7 DEF Window, Recent
    <3>3. Cardinality(Recent(l, now)) <= Cardinality(Logged(l, now))
      BY <1>1 DEF CapInv
    <3>4. RecentCount(Pruned(log)) = Cardinality(Logged(l, now))
      BY <1>1, <1>8 DEF RecentCount, Newer
    <3>5. ~(RecentCount(Pruned(log)) >= Cap)
      BY <2>1 DEF RateLimited
    <3>6. Cardinality(Window(l, t)) <= Cardinality(Recent(l, now))
      BY <1>4, <1>7, <3>2, FS_Subset
    <3>7. /\ Cardinality(Window(l, t)) \in Nat /\ Cardinality(Recent(l, now)) \in Nat
          /\ Cardinality(Logged(l, now)) \in Nat
      BY <1>4, <1>6, <1>7
    <3>8. Cardinality(Window(l, t)') \in Nat /\ Cardinality(Window(l, t)') <= Cardinality(Window(l, t)) + 1
      BY <1>7, <2>4, <3>1
    <3>9. Cardinality(Logged(l, now)) < Cap
      BY <1>1, <3>4, <3>5, <3>7
    <3> QED
      BY <1>1, <3>3, <3>6, <3>7, <3>8, <3>9
  <2>8. ASSUME NEW t \in Times, ~(now <= t /\ t <= now + Day)
        PROVE  Cardinality(Window(l, t)') <= Cap
    <3>1. Window(l, t)' = Window(l, t)
      BY <1>2, <2>8 DEF Window
    <3> QED
      BY <3>1 DEF CapInv
  <2> QED
    BY <2>5, <2>6, <2>7, <2>8
<1> QED
  BY <1>9, <1>10

LEMMA CapKeeps ==
    ASSUME PricerInv, LogInv, CapInv, [Next]_vars
    PROVE  CapInv'
<1>0. now \in Nat /\ now' \in Nat /\ now <= now'
  <2>1. now \in Nat
    BY TimesNat DEF PricerInv, StampInv
  <2>2. now' = now \/ now' = now + 1
    BY DEF Next, Pricer, ScanLost, Recommend, PricerTimesOut, Observe, PricerFails, Deliver,
           Execute, Start, Ask, Acknowledge, CallEngine, Finish, CutShort, OutOfBudget,
           RepricerFails, Settle, Becomes, Tick, SetMode, Crash, MarketMoves, vars
  <2> QED
    BY <2>1, <2>2
<1>1. CASE Persists
  <2>1. PICK aging \in {Aging, {}} : Commits(Merged(scan.lost, scan.rows, aging))
    BY <1>1, Recommends
  <2>2. scan.on /\ now' = now
    BY <1>1 DEF Persists, Recommend, PricerTimesOut, Observe
  <2>3. ASSUME NEW l \in Listings
        PROVE  /\ \A u \in Nat : u >= now => Cardinality(Recent(l, u)') <= Cardinality(Logged(l, u)')
               /\ \A t \in Times : Cardinality(Window(l, t)') <= Cap
    BY <2>1, <2>2, CapOne
  <2>4. \A k \in DOMAIN events' : events'[k].at <= now
    BY <1>0, <2>1 DEF Commits, CapInv
  <2> QED
    BY <2>2, <2>3, <2>4 DEF CapInv
<1>2. CASE ~Persists
  <2>1. UNCHANGED <<events, repriceLog>>
    BY <1>2, Elsewhere DEF ScanLost
  <2>2. \A l : /\ \A u : Recent(l, u)' = Recent(l, u) /\ Logged(l, u)' = Logged(l, u)
               /\ \A t : Window(l, t)' = Window(l, t)
    BY <2>1 DEF Recent, Logged, Window
  <2>3. \A k \in DOMAIN events : events[k].at \in Nat
    <3>1. \A k \in DOMAIN events : events[k] \in EventOf
      BY ElementOfSeq, LenProperties DEF PricerInv
    <3> QED
      BY <3>1, TimesNat DEF EventOf
  <2>4. \A k \in DOMAIN events' : events'[k].at <= now'
    BY <1>0, <2>1, <2>3 DEF CapInv
  <2>5. \A u \in Nat : u >= now' => u >= now
    BY <1>0
  <2> QED
    BY <2>2, <2>4, <2>5 DEF CapInv
<1> QED
  BY <1>1, <1>2

LEMMA CapStart == Init => LogInv /\ CapInv
<1> SUFFICES ASSUME Init PROVE LogInv /\ CapInv
  OBVIOUS
<1>1. /\ events = <<>> /\ repriceLog = [l \in Listings |-> {}] /\ runs = 0
      /\ scan.on = FALSE /\ DOMAIN events = {}
  BY DEF Init, NoScan
<1>2. LogInv
  BY <1>1, Limits DEF LogInv
<1>3. /\ \A l \in Listings : \A u : Recent(l, u) = {} /\ Logged(l, u) = {}
      /\ \A l \in Listings : \A t : Window(l, t) = {}
  BY <1>1 DEF Recent, Logged, Window
<1>4. Cardinality({}) = 0 /\ Cap \in Nat
  BY FS_EmptySet, Limits
<1>5. 0 <= 0 /\ 0 <= Cap
  BY <1>4
<1>6. \A l \in Listings : \A u : Cardinality(Recent(l, u)) <= Cardinality(Logged(l, u))
  <2> SUFFICES ASSUME NEW l \in Listings, NEW u
               PROVE  Cardinality(Recent(l, u)) <= Cardinality(Logged(l, u))
    OBVIOUS
  <2>1. Recent(l, u) = {} /\ Logged(l, u) = {}
    BY <1>3
  <2> QED
    BY <1>4, <1>5, <2>1
<1>7. \A l \in Listings : \A t : Cardinality(Window(l, t)) <= Cap
  <2> SUFFICES ASSUME NEW l \in Listings, NEW t PROVE Cardinality(Window(l, t)) <= Cap
    OBVIOUS
  <2>1. Window(l, t) = {}
    BY <1>3
  <2> QED
    BY <1>4, <1>5, <2>1
<1> QED
  BY <1>1, <1>2, <1>6, <1>7 DEF CapInv

-----------------------------------------------------------------------------
(* The theorems.                                                           *)

LEMMA CallStart == Init => CallInv
BY DEF Init, CallInv, RunRow, Lives, NoReprice, MayAct

LEMMA CallKeeps == CallInv /\ PricerInv /\ [Next]_vars => CallInv'
<1> SUFFICES ASSUME CallInv, PricerInv, [Next]_vars PROVE CallInv'
  OBVIOUS
<1>1. CASE \E r \in Repricers : Execute(r) \/ CutShort(r)
  BY <1>1, ExecuteKeeps, CutShortKeeps
<1>2. CASE \E r \in Repricers : Settle(r) \/ \E e \in DOMAIN events : Deliver(r, e)
  <2>1. \A e \in DOMAIN events : e \in Nat
    BY DEF PricerInv
  <2> QED
    BY <1>2, <2>1, DeliverSettleKeep
<1>3. CASE Crash
  BY <1>3, CrashKeeps
<1>4. CASE SetMode
  BY <1>4 DEF SetMode, CallInv, MayAct
<1>5. CASE Pricer \/ Tick \/ (\E l \in Listings : MarketMoves(l)) \/ UNCHANGED vars
  <2>1. reprice' = reprice /\ calls' = calls /\ dryRun' = dryRun
    BY <1>5 DEF Pricer, ScanLost, Recommend, PricerTimesOut, Observe, PricerFails,
                Tick, MarketMoves, vars
  <2> QED
    BY <2>1 DEF CallInv, MayAct
<1> QED
  BY <1>1, <1>2, <1>3, <1>4, <1>5 DEF Next

\* A repricer's run calls the engine at most once, and not before the person
\* it asked has answered, whenever the mode changes and whatever crashes.
THEOREM OneCallPerRunHolds == Spec => []OneCallPerRun
<1>1. CallInv => OneCallPerRun
  BY DEF CallInv, OneCallPerRun
<1> QED
  BY <1>1, CallStart, CallKeeps, PricerStart, PricerKeeps, PTL DEF Spec

\* A fresh listing is recommended only when every scan since the wait began,
\* or longer ago, has found its buy box lost.
THEOREM WaitKeptHolds == Spec => WaitKept
<1>1. PricerInv /\ [Next]_vars =>
             [\A e \in DOMAIN events' \ DOMAIN events :
                 events'[e].listing \in Aging
                 \/ /\ firstLost[events'[e].listing] # Never
                    /\ firstLost[events'[e].listing] + Wait <= now]_vars
  <2> SUFFICES ASSUME PricerInv, [Next]_vars
               PROVE  \A e \in DOMAIN events' \ DOMAIN events :
                         events'[e].listing \in Aging
                         \/ /\ firstLost[events'[e].listing] # Never
                            /\ firstLost[events'[e].listing] + Wait <= now
    OBVIOUS
  <2>1. CASE Persists
    BY <2>1, RecommendKeeps
  <2>2. CASE ~Persists
    <3>1. events' = events
      BY <2>2, ScanLostKeeps, ElsewhereKeeps
    <3> QED
      BY <3>1
  <2> QED
    BY <2>1, <2>2
<1> QED
  BY <1>1, PricerStart, PricerKeeps, PTL DEF Spec, WaitKept

\* A listing is recommended at most Cap times in a day, whatever it went through
\* between the runs (node_recommend's rate limit over its pruned log).
THEOREM CapHolds == Spec => []CapKept
<1>1. CapInv => CapKept
  BY DEF CapInv, CapKept, Window
<1>2. PricerInv /\ LogInv /\ CapInv /\ [Next]_vars => LogInv' /\ CapInv'
  BY LogKeeps, CapKeeps
<1> QED
  BY <1>1, <1>2, CapStart, PricerStart, PricerKeeps, PTL DEF Spec

\* An event that a run of the repricer was woken by is there.
EventInv == \A r \in Repricers : reprice[r].event \in 0 .. Len(events)

LEMMA EventKeeps == CallInv /\ PricerInv /\ EventInv /\ [Next]_vars => EventInv'
<1> SUFFICES ASSUME CallInv, PricerInv, EventInv, [Next]_vars PROVE EventInv'
  OBVIOUS
<1>1. Len(events) \in Nat /\ Len(events') \in Nat /\ Len(events) <= Len(events')
  <2>1. events \in Seq(EventOf) /\ events' \in Seq(EventOf)
    BY PricerKeeps DEF PricerInv
  <2>2. Len(events) <= Len(events')
    <3>1. CASE Persists
      BY <3>1, Recommends DEF Commits
    <3>2. CASE ~Persists
      <4>1. events' = events
        BY <3>2, Elsewhere DEF ScanLost
      <4> QED
        BY <2>1, <4>1, LenProperties
    <3> QED
      BY <3>1, <3>2
  <2> QED
    BY <2>1, <2>2, LenProperties
<1>2. ASSUME NEW r \in Repricers
      PROVE  reprice'[r].event = reprice[r].event \/ reprice'[r].event \in DOMAIN events
  <2>1. reprice[r] \in RunRow /\ DOMAIN reprice = Repricers
    BY DEF CallInv
  <2>2. CASE \E q \in Repricers : \E row : Becomes(q, row) /\ row.event = reprice[q].event
    BY <2>1, <2>2 DEF Becomes
  <2>3. CASE \E q \in Repricers : \E e \in DOMAIN events : Deliver(q, e)
    <3>1. PICK q \in Repricers, e \in DOMAIN events : Deliver(q, e)
      BY <2>3
    <3>2. PICK row : row = [reprice[q] EXCEPT !.state = "pending", !.event = e]
      OBVIOUS
    <3>3. reprice' = [reprice EXCEPT ![q] = row] /\ reprice[q] \in RunRow
      BY <3>1, <3>2 DEF Deliver, Becomes, CallInv
    <3>4. row.event = e
      BY <3>2, <3>3 DEF RunRow
    <3> QED
      BY <2>1, <3>3, <3>4
  <2>4. CASE \E q \in Repricers : Execute(q) \/ CutShort(q) \/ Settle(q)
    <3>1. PICK q \in Repricers : Execute(q) \/ CutShort(q) \/ Settle(q)
      BY <2>4
    <3>2. reprice[q] \in RunRow
      BY DEF CallInv
    <3>3. CASE Start(q)
      <4>1. PICK row : row = [reprice[q] EXCEPT !.state = "running", !.dry = dryRun,
                                                !.granted = (reprice[q].asked = "approved")]
        OBVIOUS
      <4>2. Becomes(q, row) /\ row.event = reprice[q].event
        BY <3>2, <3>3, <4>1 DEF Start, RunRow
      <4> QED
        BY <2>2, <4>2
    <3>4. ASSUME NEW s, NEW a, NEW row, row = [reprice[q] EXCEPT !.state = s, !.asked = a],
                 Becomes(q, row)
          PROVE  reprice'[r].event = reprice[r].event
      <4>1. row.event = reprice[q].event
        BY <3>2, <3>4 DEF RunRow
      <4> QED
        BY <2>1, <3>4, <4>1 DEF Becomes
    <3>5. CASE Ask(q) \/ Settle(q)
      BY <3>4, <3>5 DEF Ask, Settle
    <3>6. CASE Acknowledge(q) \/ CallEngine(q) \/ Finish(q) \/ CutShort(q)
      <4>1. PICK s, row : row = [reprice[q] EXCEPT !.state = s] /\ Becomes(q, row)
        BY <3>6 DEF Acknowledge, CallEngine, Finish, CutShort, OutOfBudget, RepricerFails
      <4>2. row.event = reprice[q].event
        BY <3>2, <4>1 DEF RunRow
      <4> QED
        BY <2>2, <4>1, <4>2
    <3> QED
      BY <3>1, <3>3, <3>5, <3>6 DEF Execute
  <2>5. CASE Crash
    <3>1. [reprice[r] EXCEPT !.state = "stuck"].event = reprice[r].event
      BY <2>1 DEF RunRow
    <3> QED
      BY <2>5, <3>1 DEF Crash
  <2>6. CASE reprice' = reprice
    BY <2>6
  <2> QED
    BY <2>3, <2>4, <2>5, <2>6 DEF Next, Pricer, ScanLost, Recommend, PricerTimesOut, Observe,
       PricerFails, Tick,
       SetMode, MarketMoves, vars
<1>3. DOMAIN events = 1 .. Len(events)
  BY LenProperties DEF PricerInv
<1> QED
  BY <1>1, <1>2, <1>3 DEF EventInv

\* Every price is between the floor and the top, every time has been, and a run
\* of the repricer knows an event there is.
THEOREM TypesHold == Spec => []TypeOK
<1> DEFINE Inv == PricerInv /\ LogInv /\ CallInv /\ EventInv
<1>1. Init => Inv
  <2> SUFFICES ASSUME Init PROVE EventInv
    BY PricerStart, CapStart, CallStart
  <2>1. Len(events) = 0
    BY DEF Init
  <2> QED
    BY <2>1 DEF Init, EventInv, NoReprice
<1>2. Inv /\ [Next]_vars => Inv'
  BY PricerKeeps, LogKeeps, CallKeeps, EventKeeps
<1>3. Inv => TypeOK
  <2> SUFFICES ASSUME Inv PROVE TypeOK
    OBVIOUS
  <2>1. \A e \in DOMAIN events :
           events[e] \in [listing : Listings, at : Times, price : Floor .. Top]
    BY ElementOfSeq, LenProperties DEF PricerInv, EventOf
  <2>2. \A r \in Repricers :
           /\ reprice[r].state \in {"none", "pending", "running", "called", "awaiting",
                                    "completed", "failed", "stuck"}
           /\ reprice[r].event \in 0 .. Len(events)
    BY DEF CallInv, EventInv, RunRow, Lives
  <2> QED
    BY <2>1, <2>2 DEF TypeOK, PricerInv, StampInv, ScanInv, LogInv, Entry, CallInv
<1> QED
  BY <1>1, <1>2, <1>3, PTL DEF Spec

=============================================================================
