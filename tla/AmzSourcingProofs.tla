-------------------------- MODULE AmzSourcingProofs --------------------------
(***************************************************************************)
(* What is proved of AmzSourcing for any products, situations, limits and  *)
(* numbers of runs: the lists the scans keep and what they earn, and of    *)
(* the analyst's verdict, for products, settings and rates of any size.    *)
(***************************************************************************)
EXTENDS AmzSourcing, FiniteSetTheorems, SequenceTheorems, TLAPS

-----------------------------------------------------------------------------
(* The arithmetic of the verdict.                                          *)

LEMMA DivMonotone ==
    ASSUME NEW a \in Nat, NEW b \in Nat, NEW n \in Nat \ {0}, a <= b
    PROVE  a \div n \in Nat /\ b \div n \in Nat /\ a \div n <= b \div n
OBVIOUS

LEMMA TimesMonotone ==
    ASSUME NEW a \in Nat, NEW b \in Nat, NEW n \in Nat, a <= b
    PROVE  a * n \in Nat /\ b * n \in Nat /\ a * n <= b * n
OBVIOUS

\* A cheaper, lighter product costs no more.
LEMMA CostMonotone ==
    ASSUME NEW q \in Product, NEW p \in Product, NEW s \in Settings, AtLeastAsGood(q, p)
    PROVE  /\ TotalCost(q, s) \in Nat /\ TotalCost(p, s) \in Nat
           /\ TotalCost(q, s) <= TotalCost(p, s)
<1>1. /\ q.tr \in Nat /\ p.tr \in Nat /\ q.fees \in Nat /\ p.fees \in Nat
      /\ q.weight \in Nat /\ p.weight \in Nat
      /\ q.tr <= p.tr /\ q.fees <= p.fees /\ q.weight <= p.weight
  BY DEF Product, Maybe, AtLeastAsGood, Priced
<1>2. s.rate \in Nat \ {0} /\ s.customs \in Nat /\ s.flat \in Nat /\ s.perKg \in Nat
  BY DEF Settings
<1>3. TrUsd(q, s) \in Nat /\ TrUsd(p, s) \in Nat /\ TrUsd(q, s) <= TrUsd(p, s)
  BY <1>1, <1>2, DivMonotone DEF TrUsd
<1> DEFINE duty(x) == (TrUsd(x, s) * s.customs) \div 100
<1>4. duty(q) \in Nat /\ duty(p) \in Nat /\ duty(q) <= duty(p)
  <2>1. /\ TrUsd(q, s) * s.customs \in Nat /\ TrUsd(p, s) * s.customs \in Nat
        /\ TrUsd(q, s) * s.customs <= TrUsd(p, s) * s.customs
    BY <1>2, <1>3, TimesMonotone
  <2> QED
    BY <2>1, DivMonotone
<1>5. Shipping(q, s) \in Nat /\ Shipping(p, s) \in Nat /\ Shipping(q, s) <= Shipping(p, s)
  <2>1. /\ q.weight * s.perKg \in Nat /\ p.weight * s.perKg \in Nat
        /\ q.weight * s.perKg <= p.weight * s.perKg
    BY <1>1, <1>2, TimesMonotone
  <2>2. /\ (q.weight * s.perKg) \div 1000 \in Nat /\ (p.weight * s.perKg) \div 1000 \in Nat
        /\ (q.weight * s.perKg) \div 1000 <= (p.weight * s.perKg) \div 1000
    BY <2>1, DivMonotone
  <2> QED
    BY <1>2, <2>2 DEF Shipping, Larger
<1> HIDE DEF duty
<1>6. \A x \in {q, p} : TotalCost(x, s) = TrUsd(x, s) + duty(x) + Shipping(x, s) + x.fees
  BY DEF TotalCost, duty
<1> QED
  BY <1>1, <1>3, <1>4, <1>5, <1>6

\* It earns at least as much on it, if it costs anything: a product that costs
\* nothing has no ROI, and counts as one that earns nothing.
LEMMA RoiMonotone ==
    ASSUME NEW q \in Product, NEW p \in Product, NEW s \in Settings, AtLeastAsGood(q, p),
           TotalCost(q, s) > 0, NEW x \in {20, 30, 40}, RoiAbove(p, s, x)
    PROVE  RoiAbove(q, s, x)
<1>1. /\ TotalCost(q, s) \in Nat /\ TotalCost(p, s) \in Nat
      /\ TotalCost(q, s) <= TotalCost(p, s)
  BY CostMonotone
<1>2. /\ q.price \in Nat /\ p.price \in Nat /\ q.price >= p.price /\ Priced(q)
  BY DEF Product, Maybe, AtLeastAsGood, Priced
<1>3. 100 * (p.price - TotalCost(p, s)) > x * TotalCost(p, s)
  BY DEF RoiAbove, NetProfit
<1>4. 100 * (q.price - TotalCost(q, s)) > x * TotalCost(q, s)
  BY <1>1, <1>2, <1>3
<1> QED
  BY <1>1, <1>2, <1>4 DEF RoiAbove, NetProfit

\* It carries no more risk in any dimension.
LEMMA RiskMonotone ==
    ASSUME NEW q \in Product, NEW p \in Product, NEW rate \in Int, AtLeastAsGood(q, p)
    PROVE  /\ RiskTotal(q, rate) \in Int /\ RiskTotal(p, rate) \in Int
           /\ RiskTotal(q, rate) <= RiskTotal(p, rate)
<1>1. /\ q.offers \in Nat /\ p.offers \in Nat /\ q.offers <= p.offers
      /\ q.sold \in Nat /\ p.sold \in Nat /\ q.sold >= p.sold
      /\ q.rating \in Nat /\ p.rating \in Nat /\ q.rating >= p.rating
      /\ q.reviews \in Nat /\ p.reviews \in Nat /\ q.reviews >= p.reviews
  BY DEF Product, Maybe, Unknown, AtLeastAsGood
<1>2. PriceRisk(q) \in Int /\ PriceRisk(p) \in Int /\ PriceRisk(q) <= PriceRisk(p)
  BY <1>1 DEF PriceRisk
<1>3. DemandRisk(q) \in Int /\ DemandRisk(p) \in Int /\ DemandRisk(q) <= DemandRisk(p)
  BY <1>1 DEF DemandRisk, Unknown
<1>4. QualityRisk(q) \in Int /\ QualityRisk(p) \in Int /\ QualityRisk(q) <= QualityRisk(p)
  BY <1>1 DEF QualityRisk, Unknown
<1>5. CategoryRisk(q) \in Int /\ CategoryRisk(p) \in Int
  BY DEF CategoryRisk, Product
<1>6. CategoryRisk(q) <= CategoryRisk(p)
  BY DEF AtLeastAsGood
<1>7. FxRisk(rate) \in Int
  BY DEF FxRisk
<1> QED
  BY <1>2, <1>3, <1>4, <1>5, <1>6, <1>7 DEF RiskTotal

\* The matrix of decide is monotone: a product at least as good in every signal
\* never gets a worse verdict, whatever the settings and the rate, so long as it
\* costs anything at all.
THEOREM VerdictMonotone ==
    ASSUME NEW q \in Product, NEW p \in Product, NEW s \in Settings, NEW rate \in Int,
           AtLeastAsGood(q, p), TotalCost(q, s) > 0
    PROVE  Rank(Verdict(RiskTotal(q, rate), q, s)) >= Rank(Verdict(RiskTotal(p, rate), p, s))
<1> DEFINE a == RiskTotal(q, rate)
           b == RiskTotal(p, rate)
<1>1. a \in Int /\ b \in Int /\ a <= b
  BY RiskMonotone
<1>2. Sold(q) \in Nat /\ Sold(p) \in Nat /\ Sold(q) >= Sold(p)
  BY DEF Product, Maybe, Unknown, AtLeastAsGood, Sold
<1>3. \A x \in {20, 30, 40} : RoiAbove(p, s, x) => RoiAbove(q, s, x)
  BY RoiMonotone
<1> HIDE DEF a, b
<1>4. CASE b < 10 /\ RoiAbove(p, s, 40) /\ Sold(p) > 50
  <2>1. Verdict(a, q, s) = "GUCLU_AL"
    BY <1>1, <1>2, <1>3, <1>4 DEF Verdict
  <2>2. Verdict(b, p, s) = "GUCLU_AL"
    BY <1>4 DEF Verdict
  <2> QED
    BY <2>1, <2>2 DEF Rank, a, b
<1>5. CASE /\ b < 15 /\ RoiAbove(p, s, 30) /\ Sold(p) > 30
           /\ ~(b < 10 /\ RoiAbove(p, s, 40) /\ Sold(p) > 50)
  <2>1. Verdict(a, q, s) \in {"GUCLU_AL", "AL"}
    BY <1>1, <1>2, <1>3, <1>5 DEF Verdict
  <2>2. Verdict(b, p, s) = "AL"
    BY <1>5 DEF Verdict
  <2> QED
    BY <2>1, <2>2 DEF Rank, a, b
<1>6. CASE /\ b < 15 /\ RoiAbove(p, s, 20)
           /\ ~(b < 15 /\ RoiAbove(p, s, 30) /\ Sold(p) > 30)
           /\ ~(b < 10 /\ RoiAbove(p, s, 40) /\ Sold(p) > 50)
  <2>1. Verdict(a, q, s) \in {"GUCLU_AL", "AL", "IZLE"}
    BY <1>1, <1>2, <1>3, <1>6 DEF Verdict
  <2>2. Verdict(b, p, s) = "IZLE"
    BY <1>6 DEF Verdict
  <2> QED
    BY <2>1, <2>2 DEF Rank, a, b
<1>7. CASE /\ ~(b < 15 /\ RoiAbove(p, s, 20))
           /\ ~(b < 15 /\ RoiAbove(p, s, 30) /\ Sold(p) > 30)
           /\ ~(b < 10 /\ RoiAbove(p, s, 40) /\ Sold(p) > 50)
  <2>1. Rank(Verdict(b, p, s)) = 0
    BY <1>7 DEF Verdict, Rank
  <2>2. Rank(Verdict(a, q, s)) \in 0 .. 3
    BY DEF Rank
  <2> QED
    BY <2>1, <2>2 DEF a, b
<1> QED
  BY <1>4, <1>5, <1>6, <1>7
-----------------------------------------------------------------------------
(* The inductive invariant.                                                *)

RunRow == [agent : Seers \cup {"monitor", "analyst", "executor"},
           asin : Asins \cup {None},
           state : {"running", "awaiting", "completed", "failed", "stuck"},
           asks : Nat, said : SUBSET Asins, verdicts : Nat]

\* Rows of some of the products.
Viewed == UNION {[S -> Product] : S \in SUBSET Asins}

WorkRow == [step : {"start", "scanned", "picked", "listing", "drafted", "loaded"},
            rows : Viewed, new : SUBSET Asins, queue : Seq(Asins), called : BOOLEAN,
            risk : Int, settings : Settings]

EventRow == [asin : Asins, kind : {"discovered", "anomaly", "confirmed"}]

\* A run settles once, and one that may yet run, ask or fail has not settled.
Unsettled(row) ==
    /\ row.verdicts <= 1
    /\ row.state \in {"running", "awaiting", "failed"} => row.verdicts = 0
    /\ row.asks > 0 => row.state \in {"awaiting", "failed"}

RunInv ==
    /\ runs \in Seq(RunRow) /\ cur \in 0 .. Len(runs)
    /\ \A r \in 1 .. Len(runs) :
          Unsettled(runs[r]) /\ (runs[r].state = "running" <=> r = cur)
    /\ work \in WorkRow /\ (cur = 0 => work = NoWork)

WorldInv ==
    /\ catalog \in [Asins -> Situations] /\ stranded \subseteq Asins
    /\ drafts \in [Asins -> Nat] /\ live \in [Asins -> Nat] /\ lostRuns \in Nat

\* What a seer has surfaced is on its list, or the list has dropped it since.
SeenInv ==
    /\ seen \in [Seers -> SUBSET Asins]
    /\ surfaced \in [Seers -> [Asins -> Nat]] /\ forgotten \in [Seers -> [Asins -> Nat]]
    /\ \A s \in Seers :
          /\ Cardinality(seen[s]) <= SeenCap
          /\ \A a \in Asins :
                surfaced[s][a] <= forgotten[s][a] + (IF a \in seen[s] THEN 1 ELSE 0)

PriceInv ==
    /\ lastPrices \in [Asins -> Maybe(Nat)] /\ observed = lastPrices
    /\ events \in Seq(EventRow)

\* The crosslister has noted nothing of what it works through; a draft it is
\* about to publish is there.
BatchInv ==
    /\ work.called => work.step \in {"listing", "drafted"}
    /\ work.step = "drafted" => work.queue # <<>> /\ work.called /\ drafts[Item] >= 1
    /\ work.step \in {"listing", "drafted"} =>
          /\ work.new \cap seen["crosslister"] = {}
          /\ \A i, j \in 1 .. Len(work.queue) :
                work.queue[i] \in work.new /\ (work.queue[i] = work.queue[j] => i = j)

\* This run may have listed a, and has not noted it yet.
Pending(a) ==
    /\ work.called /\ a \in work.new
    /\ \A i \in 1 .. Len(work.queue) :
          work.queue[i] = a => i = 1 /\ work.step = "drafted"

ListInv ==
    \A a \in Asins :
        drafts[a] + live[a] <=
            forgotten["crosslister"][a] + lostRuns +
            (IF a \in seen["crosslister"] \/ Pending(a) THEN 1 ELSE 0)

\* What the analyst has loaded is its product, with that product's risk.
LoadInv ==
    cur # 0 /\ runs[cur].agent = "analyst" /\ DOMAIN work.rows # {} =>
        /\ DOMAIN work.rows = {runs[cur].asin}
        /\ work.risk = RiskTotal(work.rows[runs[cur].asin], work.settings.rate)

IInv == RunInv /\ WorldInv /\ SeenInv /\ PriceInv /\ BatchInv /\ ListInv /\ LoadInv

-----------------------------------------------------------------------------
(* Operators the actions use.                                              *)

\* SetToSeq lists a finite set, every element once.
LEMMA Listed ==
    ASSUME NEW S, IsFiniteSet(S)
    PROVE  /\ Cardinality(S) \in Nat
           /\ SetToSeq(S) \in [1 .. Cardinality(S) -> S]
           /\ \A i, j \in 1 .. Cardinality(S) :
                 SetToSeq(S)[i] = SetToSeq(S)[j] => i = j
           /\ \A a \in S : \E i \in 1 .. Cardinality(S) : SetToSeq(S)[i] = a
<1> DEFINE n == Cardinality(S)
           q == SetToSeq(S)
<1>1. n \in Nat /\ ExistsBijection(1 .. n, S)
  BY FS_CardinalityType
<1>2. PICK f \in [1 .. n -> S] : IsInjective(f)
  BY <1>1 DEF ExistsBijection, Bijection, Injection, IsInjective
<1>3. q \in [1 .. n -> S] /\ IsInjective(q)
  BY <1>1, <1>2 DEF SetToSeq
<1> HIDE DEF q, n
<1>4. \A i, j \in 1 .. n : q[i] = q[j] => i = j
  BY <1>3 DEF IsInjective
<1>5. q \in Injection(1 .. n, S)
  BY <1>3, <1>4 DEF Injection
<1>6. Cardinality(1 .. n) = n /\ Cardinality(S) = n
  BY <1>1, FS_Interval DEF n
<1>7. q \in Surjection(1 .. n, S)
  BY <1>5, <1>6, FS_Injection
<1>8. \A a \in S : \E i \in 1 .. n : q[i] = a
  BY <1>7 DEF Surjection
<1> QED
  BY <1>1, <1>3, <1>4, <1>8 DEF n, q

\* What a list has gained when another went behind it.
LEMMA Appended ==
    ASSUME NEW T, NEW old \in Seq(T), NEW n \in Nat, NEW new \in [1 .. n -> T]
    PROVE  /\ old \o new \in Seq(T)
           /\ DOMAIN (old \o new) \ DOMAIN old = Len(old) + 1 .. Len(old) + n
           /\ \A i \in 1 .. n : (old \o new)[Len(old) + i] = new[i]
<1>1. new \in Seq(T) /\ Len(new) = n
  BY SeqDef, LenProperties
<1>2. Len(old) \in Nat /\ DOMAIN old = 1 .. Len(old)
  BY LenProperties
<1>3. /\ old \o new \in Seq(T) /\ Len(old \o new) = Len(old) + n
      /\ \A i \in 1 .. Len(old) + n :
            (old \o new)[i] = IF i <= Len(old) THEN old[i] ELSE new[i - Len(old)]
  BY <1>1, ConcatProperties
<1>4. DOMAIN (old \o new) = 1 .. Len(old) + n
  BY <1>3, LenProperties
<1>5. ASSUME NEW i \in 1 .. n
      PROVE  (old \o new)[Len(old) + i] = new[i]
  <2>1. Len(old) + i \in 1 .. Len(old) + n /\ ~(Len(old) + i <= Len(old))
        /\ Len(old) + i - Len(old) = i
    BY <1>2
  <2> QED
    BY <1>3, <2>1
<1> QED
  BY <1>2, <1>3, <1>4, <1>5

\* What Announce adds to the events.
LEMMA Announced ==
    ASSUME NEW S \in SUBSET Asins, NEW kind \in {"discovered", "anomaly", "confirmed"},
           events \in Seq(EventRow), Announce(S, kind)
    PROVE  /\ events' \in Seq(EventRow)
           /\ \A e \in DOMAIN events' \ DOMAIN events : events'[e].kind = kind
           /\ \A a \in Asins :
                 (\E e \in DOMAIN events' \ DOMAIN events :
                     events'[e] = [asin |-> a, kind |-> kind]) <=> a \in S
<1> DEFINE n == Cardinality(S)
           q == SetToSeq(S)
           new == [i \in DOMAIN q |-> [asin |-> q[i], kind |-> kind]]
<1>1. IsFiniteSet(S)
  BY Products, FS_Subset
<1>2. /\ n \in Nat /\ q \in [1 .. n -> S]
      /\ \A a \in S : \E i \in 1 .. n : q[i] = a
  BY <1>1, Listed
<1>3. events' = events \o new
  BY DEF Announce
<1> HIDE DEF n, q
<1>4. new \in [1 .. n -> EventRow]
  BY <1>2 DEF EventRow
<1>5. \A i \in 1 .. n : new[i] = [asin |-> q[i], kind |-> kind]
  BY <1>2
<1> HIDE DEF new
<1>6. /\ events' \in Seq(EventRow) /\ Len(events) \in Nat
      /\ DOMAIN events' \ DOMAIN events = Len(events) + 1 .. Len(events) + n
      /\ \A i \in 1 .. n : events'[Len(events) + i] = new[i]
  BY <1>2, <1>3, <1>4, Appended, LenProperties
<1>7. ASSUME NEW e \in DOMAIN events' \ DOMAIN events
      PROVE  \E i \in 1 .. n : events'[e] = [asin |-> q[i], kind |-> kind]
  <2>1. e - Len(events) \in 1 .. n /\ e = Len(events) + (e - Len(events))
    BY <1>2, <1>6
  <2> QED
    BY <2>1, <1>5, <1>6
<1>8. ASSUME NEW a \in S
      PROVE  \E e \in DOMAIN events' \ DOMAIN events :
                 events'[e] = [asin |-> a, kind |-> kind]
  <2>1. PICK i \in 1 .. n : q[i] = a
    BY <1>2
  <2>2. Len(events) + i \in DOMAIN events' \ DOMAIN events
    <3>1. Len(events) \in Nat /\ n \in Nat /\ i \in Nat /\ 1 <= i /\ i <= n
      BY <1>2, <1>6, <2>1
    <3>2. Len(events) + i \in Len(events) + 1 .. Len(events) + n
      BY <3>1
    <3> QED
      BY <1>6, <3>2
  <2> QED
    BY <2>1, <2>2, <1>5, <1>6
<1>9. \A i \in 1 .. n : q[i] \in S
  BY <1>2
<1> QED
  BY <1>6, <1>7, <1>8, <1>9

\* A seer reports what it has not seen, and marks it: what it has surfaced is on
\* its list or has dropped off it.
LEMMA Reported ==
    ASSUME SeenInv, NEW s \in Seers, NEW M \in SUBSET Asins, NEW N \in SUBSET M,
           N \cap seen[s] = {}, Report(s, N, M)
    PROVE  /\ SeenInv'
           /\ \A q \in Seers \ {s} : seen'[q] = seen[q] /\ forgotten'[q] = forgotten[q]
           /\ \A a \in Asins :
                 /\ forgotten'[s][a] >= forgotten[s][a]
                 /\ a \in seen[s] \cup M =>
                       \/ a \in seen'[s]
                       \/ forgotten'[s][a] = forgotten[s][a] + 1
<1>1. PICK T \in Kept(seen[s] \cup M) :
          /\ seen' = [seen EXCEPT ![s] = T]
          /\ forgotten' = [forgotten EXCEPT ![s] =
                [a \in Asins |-> @[a] + (IF a \in (seen[s] \cup M) \ T THEN 1 ELSE 0)]]
  BY DEF Report
<1>2. surfaced' = [surfaced EXCEPT ![s] =
                [a \in Asins |-> @[a] + (IF a \in N THEN 1 ELSE 0)]]
  BY DEF Report
<1>3. T \subseteq seen[s] \cup M /\ T \subseteq Asins /\ Cardinality(T) <= SeenCap
  <2> DEFINE S == seen[s] \cup M
  <2>1. S \subseteq Asins
    BY DEF SeenInv
  <2> HIDE DEF S
  <2>2. T \in Kept(S)
    BY <1>1 DEF S
  <2>3. SeenCap \in Nat
    BY Bounds
  <2>4. CASE Cardinality(S) <= SeenCap
    BY <2>1, <2>2, <2>4 DEF Kept, S
  <2>5. CASE ~(Cardinality(S) <= SeenCap)
    BY <2>1, <2>2, <2>3, <2>5 DEF Kept, S
  <2> QED
    BY <2>4, <2>5
<1>4. /\ seen'[s] = T /\ seen' \in [Seers -> SUBSET Asins]
      /\ \A q \in Seers \ {s} : seen'[q] = seen[q]
  BY <1>1, <1>3 DEF SeenInv
<1>5. /\ forgotten' \in [Seers -> [Asins -> Nat]]
      /\ \A q \in Seers \ {s} : forgotten'[q] = forgotten[q]
      /\ \A a \in Asins : forgotten'[s][a] =
            forgotten[s][a] + (IF a \in (seen[s] \cup M) \ T THEN 1 ELSE 0)
  BY <1>1 DEF SeenInv
<1>6. /\ surfaced' \in [Seers -> [Asins -> Nat]]
      /\ \A q \in Seers \ {s} : surfaced'[q] = surfaced[q]
      /\ \A a \in Asins : surfaced'[s][a] =
            surfaced[s][a] + (IF a \in N THEN 1 ELSE 0)
  BY <1>2 DEF SeenInv
<1>7. ASSUME NEW q \in Seers
      PROVE  /\ Cardinality(seen'[q]) <= SeenCap
             /\ \A a \in Asins : surfaced'[q][a] <=
                   forgotten'[q][a] + (IF a \in seen'[q] THEN 1 ELSE 0)
  <2>1. CASE q = s
    <3>1. ASSUME NEW a \in Asins
          PROVE  surfaced'[s][a] <= forgotten'[s][a] + (IF a \in seen'[s] THEN 1 ELSE 0)
      <4>1. /\ surfaced[s][a] \in Nat /\ forgotten[s][a] \in Nat
            /\ surfaced[s][a] <= forgotten[s][a] + (IF a \in seen[s] THEN 1 ELSE 0)
        BY DEF SeenInv
      <4>2. a \in N => a \in M /\ a \notin seen[s]
        OBVIOUS
      <4> QED
        BY <4>1, <4>2, <1>3, <1>4, <1>5, <1>6
    <3> QED
      BY <2>1, <3>1, <1>3, <1>4
  <2>2. CASE q # s
    BY <2>2, <1>4, <1>5, <1>6 DEF SeenInv
  <2> QED
    BY <2>1, <2>2
<1>8. SeenInv'
  BY <1>4, <1>5, <1>6, <1>7 DEF SeenInv
<1>9. ASSUME NEW a \in Asins
      PROVE  /\ forgotten'[s][a] >= forgotten[s][a]
             /\ a \in seen[s] \cup M =>
                   a \in seen'[s] \/ forgotten'[s][a] = forgotten[s][a] + 1
  <2>1. forgotten[s][a] \in Nat
    BY DEF SeenInv
  <2> QED
    BY <2>1, <1>4, <1>5
<1> QED
  BY <1>4, <1>5, <1>8, <1>9

-----------------------------------------------------------------------------
(* What the frame of every action keeps.                                   *)

LEMMA NoWorkType ==
    /\ NoWork \in WorkRow /\ NoWork.step = "start" /\ ~NoWork.called
    /\ DOMAIN NoWork.rows = {}
<1>1. <<>> \in Seq(Product) /\ <<>> \in Seq(Asins) /\ Len(<<>>) = 0
  BY EmptySeq
<1>2. <<>> \in [1 .. 0 -> Product] /\ DOMAIN <<>> = 1 .. 0
  BY <1>1, LenProperties
<1>3. 1 .. 0 = {}
  OBVIOUS
<1>4. <<>> \in Viewed
  BY <1>2, <1>3 DEF Viewed
<1>5. Defaults \in Settings
  BY DEF Defaults, Settings
<1> QED
  BY <1>1, <1>2, <1>3, <1>4, <1>5 DEF NoWork, WorkRow

\* The columns of a run that its own commit changes.
LEMMA RowParked ==
    ASSUME NEW old \in RunRow, old.verdicts = 0,
           NEW state \in {"awaiting", "completed", "failed", "stuck"},
           NEW said \in SUBSET Asins, NEW asks \in Nat,
           asks > 0 => state \in {"awaiting", "failed"},
           NEW row, row = [old EXCEPT !.state = state, !.asks = asks, !.said = said]
    PROVE  row \in RunRow /\ row.state # "running" /\ Unsettled(row)
<1>1. row.state = state /\ row.verdicts = 0 /\ row.asks = asks
  BY DEF RunRow
<1>2. row \in RunRow
  BY DEF RunRow
<1> QED
  BY <1>1, <1>2 DEF Unsettled

LEMMA RowSettled ==
    ASSUME NEW old \in RunRow, NEW state \in {"awaiting", "completed"},
           NEW verdicts \in 0 .. 1, state = "awaiting" => verdicts = 0,
           NEW asks \in 0 .. 1, asks > 0 => state = "awaiting",
           NEW row, row = [old EXCEPT !.state = state, !.asks = asks,
                                      !.verdicts = verdicts]
    PROVE  row \in RunRow /\ row.state # "running" /\ Unsettled(row)
<1>1. row.state = state /\ row.verdicts = verdicts /\ row.asks = asks
  BY DEF RunRow
<1>2. verdicts \in Nat /\ asks \in Nat
  OBVIOUS
<1>3. row \in RunRow
  BY <1>2 DEF RunRow
<1> QED
  BY <1>1, <1>3 DEF Unsettled

\* What RunInv says of the run under execution.
LEMMA Current ==
    ASSUME RunInv, cur # 0
    PROVE  /\ runs[cur] \in RunRow /\ cur \in 1 .. Len(runs) /\ DOMAIN runs = 1 .. Len(runs)
           /\ runs[cur].verdicts = 0 /\ runs[cur].asks = 0 /\ work \in WorkRow
<1>1. Len(runs) \in Nat /\ DOMAIN runs = 1 .. Len(runs) /\ runs \in [1 .. Len(runs) -> RunRow]
  BY LenProperties DEF RunInv
<1>2. cur \in 1 .. Len(runs)
  BY <1>1 DEF RunInv
<1>3. runs[cur] \in RunRow /\ runs[cur].state = "running" /\ Unsettled(runs[cur])
  BY <1>1, <1>2 DEF RunInv
<1>4. runs[cur].asks \in Nat /\ ~(runs[cur].asks > 0)
  BY <1>3 DEF RunRow, Unsettled
<1> QED
  BY <1>1, <1>2, <1>3, <1>4 DEF RunInv, Unsettled

\* An action of the run under execution.
LEMMA GoneOn ==
    ASSUME RunInv, cur # 0, NEW next \in WorkRow, GoOn(next)
    PROVE  RunInv'
BY DEF RunInv, GoOn, Unsettled

\* A run that changes into a row of its type which says when it has settled.
LEMMA RowChanged ==
    ASSUME RunInv, NEW r \in 1 .. Len(runs), NEW row \in RunRow, Unsettled(row),
           runs' = [runs EXCEPT ![r] = row]
    PROVE  /\ runs' \in Seq(RunRow) /\ Len(runs') = Len(runs)
           /\ \A q \in 1 .. Len(runs) :
                 Unsettled(runs'[q]) /\ runs'[q] = IF q = r THEN row ELSE runs[q]
<1>1. runs \in Seq(RunRow)
  BY DEF RunInv
<1>2. /\ runs' \in Seq(RunRow) /\ Len(runs') = Len(runs)
      /\ \A q \in 1 .. Len(runs) : runs'[q] = IF q = r THEN row ELSE runs[q]
  BY <1>1, ExceptSeq
<1> QED
  BY <1>2 DEF RunInv, Unsettled

LEMMA Ended ==
    ASSUME RunInv, cur # 0, NEW row \in RunRow, row.state # "running", Unsettled(row),
           runs' = [runs EXCEPT ![cur] = row], cur' = 0, work' = NoWork
    PROVE  RunInv'
<1>1. cur \in 1 .. Len(runs) /\ Len(runs) \in Nat
  BY Current, LenProperties DEF RunInv
<1>2. /\ runs' \in Seq(RunRow) /\ Len(runs') = Len(runs)
      /\ \A q \in 1 .. Len(runs) :
            Unsettled(runs'[q]) /\ runs'[q] = IF q = cur THEN row ELSE runs[q]
  BY <1>1, RowChanged
<1>3. ASSUME NEW q \in 1 .. Len(runs)
      PROVE  runs'[q].state = "running" <=> q = cur'
  BY <1>1, <1>2, <1>3 DEF RunInv
<1> QED
  BY <1>1, <1>2, <1>3, NoWorkType DEF RunInv

\* No batch, no product and no call is under way once there is no work.
LEMMA Idle ==
    ASSUME work' = NoWork
    PROVE  BatchInv' /\ LoadInv' /\ ~work'.called
BY NoWorkType DEF BatchInv, LoadInv

\* Nothing but the crosslister's own steps touches what it has listed.
LEMMA ListKept ==
    ASSUME WorldInv, ListInv, SeenInv, work.called = FALSE, work'.called = FALSE,
           UNCHANGED <<drafts, live, lostRuns>>,
           seen'["crosslister"] = seen["crosslister"],
           forgotten'["crosslister"] = forgotten["crosslister"]
    PROVE  ListInv'
<1>1. \A a \in Asins : ~Pending(a) /\ ~Pending(a)'
  BY DEF Pending
<1> QED
  BY <1>1 DEF ListInv

\* The world may move, and the rest of the run's transaction is not its business.
LEMMA WorldKept ==
    ASSUME WorldInv, UNCHANGED <<catalog, stranded, drafts, live>>, lostRuns' = lostRuns
    PROVE  WorldInv'
BY DEF WorldInv

LEMMA StateKept ==
    ASSUME SeenInv, PriceInv, UNCHANGED State
    PROVE  SeenInv' /\ PriceInv'
BY DEF SeenInv, PriceInv, State

-----------------------------------------------------------------------------
(* The runs: who takes them and how they end.                              *)

LEMMA NotCalled ==
    ASSUME RunInv, BatchInv, work.step \notin {"listing", "drafted"}
    PROVE  work.called = FALSE
BY DEF RunInv, BatchInv, WorkRow

\* A new run, and the dispatcher takes it.
LEMMA NewTaken ==
    ASSUME RunInv, NEW agent \in Seers \cup {"monitor", "analyst", "executor"},
           NEW asin \in Asins \cup {None},
           runs' = Append(runs, NewRun(agent, asin)), Take(Len(runs) + 1)
    PROVE  RunInv'
<1> DEFINE n == Len(runs)
           new == NewRun(agent, asin)
<1>1. runs \in Seq(RunRow) /\ n \in Nat /\ cur = 0 /\ cur' = n + 1 /\ work' = NoWork
  BY LenProperties DEF RunInv, Take
<1>2. new \in RunRow /\ Unsettled(new) /\ new.state = "running"
  BY DEF NewRun, RunRow, Unsettled
<1> HIDE DEF new
<1>3. /\ runs' \in Seq(RunRow) /\ Len(runs') = n + 1 /\ runs'[n + 1] = new
      /\ \A i \in 1 .. n : runs'[i] = runs[i]
  BY <1>1, <1>2, AppendProperties DEF new
<1>4. ASSUME NEW i \in 1 .. n + 1
      PROVE  Unsettled(runs'[i]) /\ (runs'[i].state = "running" <=> i = cur')
  <2>1. CASE i = n + 1
    BY <2>1, <1>1, <1>2, <1>3
  <2>2. CASE i # n + 1
    <3>1. i \in 1 .. n /\ i # cur /\ i # cur'
      BY <2>2, <1>1
    <3> QED
      BY <3>1, <1>3 DEF RunInv
  <2> QED
    BY <2>1, <2>2
<1> QED
  BY <1>1, <1>3, <1>4, NoWorkType DEF RunInv

\* An approved run, and the dispatcher takes it.
LEMMA OldTaken ==
    ASSUME RunInv, NEW r \in DOMAIN runs, Rerun(r)
    PROVE  RunInv'
<1> DEFINE row == [runs[r] EXCEPT !.state = "running", !.asks = 0]
<1>1. /\ runs[r].asks = 1 /\ cur = 0 /\ cur' = r /\ work' = NoWork
      /\ runs' = [runs EXCEPT ![r] = row]
  BY DEF Rerun, Take
<1>2. r \in 1 .. Len(runs) /\ runs[r] \in RunRow /\ Unsettled(runs[r]) /\ Len(runs) \in Nat
  BY LenProperties, ElementOfSeq DEF RunInv
<1>3. row \in RunRow /\ Unsettled(row) /\ row.state = "running"
  <2>1. runs[r].asks > 0 /\ runs[r].verdicts = 0
    BY <1>1, <1>2 DEF Unsettled
  <2>2. row.asks = 0 /\ row.verdicts = 0 /\ row.state = "running" /\ row \in RunRow
    BY <1>2, <2>1 DEF RunRow
  <2> QED
    BY <2>2 DEF Unsettled
<1> HIDE DEF row
<1>4. /\ runs' \in Seq(RunRow) /\ Len(runs') = Len(runs)
      /\ \A q \in 1 .. Len(runs) :
            Unsettled(runs'[q]) /\ runs'[q] = IF q = r THEN row ELSE runs[q]
  BY <1>1, <1>2, <1>3, RowChanged
<1>5. \A q \in 1 .. Len(runs) : runs'[q].state = "running" <=> q = cur'
  BY <1>1, <1>2, <1>3, <1>4 DEF RunInv
<1> QED
  BY <1>1, <1>2, <1>4, <1>5, NoWorkType DEF RunInv

\* Taking a run changes nothing else.
LEMMA Taken ==
    ASSUME IInv, NEW r, Take(r), RunInv'
    PROVE  IInv'
<1>1. /\ work' = NoWork /\ work = NoWork
      /\ UNCHANGED State /\ UNCHANGED <<catalog, stranded, drafts, live>> /\ lostRuns' = lostRuns
  BY DEF Take, IInv, RunInv, World
<1>2. WorldInv' /\ SeenInv' /\ PriceInv' /\ BatchInv' /\ LoadInv' /\ ~work'.called
  BY <1>1, WorldKept, StateKept, Idle DEF IInv
<1>3. work.called = FALSE /\ work'.called = FALSE
  BY <1>1 DEF NoWork
<1>4. ListInv'
  BY <1>1, <1>3, ListKept DEF IInv, State, World
<1> QED
  BY <1>2, <1>4 DEF IInv

\* A read of the world, which changes what the run holds and nothing else.
LEMMA ReadOn ==
    ASSUME IInv, cur # 0, NEW next \in WorkRow, GoOn(next), UNCHANGED World,
           work.step = "start", ~next.called, next.step \notin {"listing", "drafted"},
           \/ runs[cur].agent # "analyst"
           \/ DOMAIN next.rows = {}
           \/ /\ DOMAIN next.rows = {runs[cur].asin}
              /\ next.risk = RiskTotal(next.rows[runs[cur].asin], next.settings.rate)
    PROVE  IInv'
<1>1. /\ work' = next /\ runs' = runs /\ cur' = cur /\ lostRuns' = lostRuns
      /\ UNCHANGED State
  BY DEF GoOn
<1>2. RunInv' /\ WorldInv' /\ SeenInv' /\ PriceInv'
  BY <1>1, GoneOn, WorldKept, StateKept DEF IInv, World
<1>3. work.called = FALSE /\ work'.called = FALSE
  BY <1>1, NotCalled DEF IInv, WorkRow
<1>4. BatchInv'
  BY <1>1 DEF BatchInv
<1>5. ListInv'
  BY <1>1, <1>3, ListKept DEF IInv, State, World
<1>6. LoadInv'
  BY <1>1 DEF LoadInv
<1> QED
  BY <1>2, <1>4, <1>5, <1>6 DEF IInv

\* A commit, which leaves the world alone.
LEMMA Committed ==
    ASSUME IInv, cur # 0, NEW row \in RunRow, row.state # "running", Unsettled(row),
           Commit(row), SeenInv', PriceInv', ListInv'
    PROVE  IInv'
<1>1. /\ runs' = [runs EXCEPT ![cur] = row] /\ cur' = 0 /\ work' = NoWork
      /\ UNCHANGED <<catalog, stranded, drafts, live>> /\ lostRuns' = lostRuns
  BY DEF Commit
<1>2. RunInv' /\ WorldInv' /\ BatchInv' /\ LoadInv'
  BY <1>1, Ended, WorldKept, Idle DEF IInv
<1> QED
  BY <1>2 DEF IInv

\* A commit of a run that is not the crosslister's.
LEMMA CommittedElse ==
    ASSUME IInv, cur # 0, NEW row \in RunRow, row.state # "running", Unsettled(row),
           Commit(row), SeenInv', PriceInv', work.step \notin {"listing", "drafted"},
           seen'["crosslister"] = seen["crosslister"],
           forgotten'["crosslister"] = forgotten["crosslister"]
    PROVE  IInv'
<1>1. /\ work.called = FALSE /\ work' = NoWork
      /\ UNCHANGED <<drafts, live>> /\ lostRuns' = lostRuns
  BY NotCalled DEF IInv, Commit
<1>2. work'.called = FALSE
  BY <1>1 DEF NoWork
<1>3. ListInv'
  BY <1>1, <1>2, ListKept DEF IInv
<1> QED
  BY <1>3, Committed

-----------------------------------------------------------------------------
(* The steps of the runs that scan, watch, judge and tell.                 *)

LEMMA ScansKeep ==
    ASSUME IInv, ScoutScan \/ AdScan
    PROVE  IInv'
<1>1. PICK S \in SUBSET Asins :
          GoOn([work EXCEPT !.step = "scanned", !.rows = [a \in S |-> catalog[a]]])
  BY DEF ScoutScan, AdScan, Answers, Top, Scoutable, Advertisable
<1>2. /\ cur # 0 /\ runs[cur].agent # "analyst" /\ work.step = "start" /\ UNCHANGED World
  BY DEF ScoutScan, AdScan, Node
<1>3. work \in WorkRow /\ work.called = FALSE
  BY <1>2, Current, NotCalled DEF IInv
<1>4. [a \in S |-> catalog[a]] \in Viewed
  BY Known DEF IInv, WorldInv, Viewed
<1> DEFINE next == [work EXCEPT !.step = "scanned", !.rows = [a \in S |-> catalog[a]]]
<1>5. next \in WorkRow /\ ~next.called /\ next.step = "scanned"
  BY <1>3, <1>4 DEF WorkRow
<1>6. GoOn(next)
  BY <1>1
<1> HIDE DEF next
<1> QED
  BY <1>2, <1>5, <1>6, ReadOn

LEMMA PickKeeps ==
    ASSUME IInv, MonitorPick
    PROVE  IInv'
<1>1. PICK S \in SUBSET Asins : GoOn([work EXCEPT !.step = "picked", !.new = S])
  <2>1. PICK carried \in SUBSET Asins, thin \in SUBSET Watched :
           \E S \in IF carried # {} THEN {carried} ELSE Answers(Watched \ thin) :
              GoOn([work EXCEPT !.step = "picked", !.new = S])
    BY DEF MonitorPick
  <2>2. \A S \in Answers(Watched \ thin) : S \in SUBSET Asins
    BY DEF Answers, Top, Watched
  <2> QED
    BY <2>1, <2>2
<1>2. /\ cur # 0 /\ runs[cur].agent # "analyst" /\ work.step = "start" /\ UNCHANGED World
  BY DEF MonitorPick, Node
<1>3. work \in WorkRow /\ work.called = FALSE
  BY <1>2, Current, NotCalled DEF IInv
<1> DEFINE next == [work EXCEPT !.step = "picked", !.new = S]
<1>4. next \in WorkRow /\ ~next.called /\ next.step = "picked"
  BY <1>3 DEF WorkRow
<1>5. GoOn(next)
  BY <1>1
<1> HIDE DEF next
<1> QED
  BY <1>2, <1>4, <1>5, ReadOn

\* A look-up finds rows of products it was asked for.
LEMMA LookedUp ==
    ASSUME WorldInv, NEW S, NEW found \in {Lookup(S), <<>>}
    PROVE  /\ DOMAIN found \subseteq S \cap Asins
           /\ \A a \in DOMAIN found : found[a] \in Product /\ found[a].price \in Nat
           /\ found \in Viewed
<1>1. CASE found = <<>>
  <2>1. /\ NoWork.rows = <<>> /\ DOMAIN NoWork.rows = {}
        /\ NoWork.rows \in Viewed
    BY NoWorkType DEF NoWork, WorkRow
  <2> QED
    BY <1>1, <2>1
<1>2. CASE found = Lookup(S)
  <2> DEFINE D == { b \in S \cap Asins : catalog[b].price # Unknown }
  <2>1. ASSUME NEW a \in D
        PROVE  Looked(catalog[a]) \in Product /\ Looked(catalog[a]).price \in Nat
    <3>1. catalog[a] \in Product /\ catalog[a].price # Unknown
      BY Known DEF WorldInv
    <3> QED
      BY <3>1 DEF Looked, Product, Maybe
  <2>2. found = [a \in D |-> Looked(catalog[a])]
    BY <1>2 DEF Lookup
  <2>3. D \in SUBSET Asins /\ D \subseteq S \cap Asins
    OBVIOUS
  <2> HIDE DEF D
  <2> QED
    BY <2>1, <2>2, <2>3 DEF Viewed
<1> QED
  BY <1>1, <1>2

LEMMA FxOfDefault == FxRisk(Unknown) = FxRisk(Defaults.rate)
BY DEF FxRisk, Unknown, Defaults

LEMMA LoadKeeps ==
    ASSUME IInv, AnalystLoad
    PROVE  IInv'
<1> DEFINE asin == runs[cur].asin
           settings(rate) == IF rate = Unknown THEN Defaults ELSE [Defaults EXCEPT !.rate = rate]
           risk(found, rate) == IF DOMAIN found = {} THEN 1 + 3 + FxRisk(rate) + 2 + 5
                                ELSE RiskTotal(found[asin], rate)
           next(found, rate) == [work EXCEPT !.step = "loaded", !.rows = found,
                                     !.settings = settings(rate), !.risk = risk(found, rate)]
<1>1. PICK found \in {Lookup({asin}), <<>>}, rate \in Maybe(Rates) : GoOn(next(found, rate))
  BY DEF AnalystLoad
<1>2. cur # 0 /\ work.step = "start" /\ UNCHANGED World
  BY DEF AnalystLoad, Node
<1>3. work \in WorkRow /\ work.called = FALSE
  BY <1>2, Current, NotCalled DEF IInv
<1>4. /\ DOMAIN found \subseteq {asin}
      /\ \A a \in DOMAIN found : found[a] \in Product
      /\ found \in Viewed
  <2>1. found \in {Lookup({asin}), <<>>} /\ WorldInv
    BY <1>1 DEF IInv
  <2> HIDE DEF asin, next
  <2> DEFINE S == {asin}
  <2>2. found \in {Lookup(S), <<>>}
    BY <2>1
  <2> HIDE DEF S
  <2>3. /\ DOMAIN found \subseteq S \cap Asins
        /\ \A a \in DOMAIN found : found[a] \in Product /\ found[a].price \in Nat
        /\ found \in Viewed
    BY <2>1, <2>2, LookedUp
  <2> QED
    BY <2>3 DEF S
<1>5. rate \in Int /\ settings(rate) \in Settings
  BY <1>1, Goals DEF Maybe, Unknown, Settings, Defaults
<1>6. FxRisk(rate) = FxRisk(settings(rate).rate) /\ FxRisk(rate) \in Int
  <2>1. CASE rate = Unknown
    BY <2>1, FxOfDefault DEF FxRisk
  <2>2. CASE rate # Unknown
    BY <2>2 DEF FxRisk, Defaults
  <2> QED
    BY <2>1, <2>2
<1>7. risk(found, rate) \in Int
  <2>1. CASE DOMAIN found = {}
    BY <1>6, <2>1
  <2>2. CASE DOMAIN found # {}
    <3>1. found[asin] \in Product
      BY <1>4, <2>2
    <3>2. RiskTotal(found[asin], rate) \in Int
      <4> DEFINE p == found[asin]
      <4>1. PriceRisk(p) \in Int
        BY <3>1 DEF PriceRisk, Product
      <4>2. DemandRisk(p) \in Int /\ CategoryRisk(p) \in Int /\ QualityRisk(p) \in Int
        BY DEF DemandRisk, CategoryRisk, QualityRisk
      <4> QED
        BY <1>6, <4>1, <4>2 DEF RiskTotal
    <3> QED
      BY <2>2, <3>2
  <2> QED
    BY <2>1, <2>2
<1> HIDE DEF settings, risk
<1>8. /\ next(found, rate) \in WorkRow /\ ~next(found, rate).called
      /\ next(found, rate).step = "loaded" /\ next(found, rate).rows = found
      /\ next(found, rate).risk = risk(found, rate)
      /\ next(found, rate).settings = settings(rate)
  BY <1>3, <1>4, <1>5, <1>7 DEF WorkRow
<1>9. DOMAIN found # {} =>
          /\ DOMAIN found = {asin}
          /\ risk(found, rate) = RiskTotal(found[asin], settings(rate).rate)
  BY <1>4, <1>6 DEF risk, RiskTotal
<1> HIDE DEF next, asin
<1> QED
  BY <1>1, <1>2, <1>8, <1>9, ReadOn DEF asin

\* What the scout commits of its output: the list, some of the finds, and the row.
LEMMA ScoutCommits ==
    ASSUME IInv, cur # 0, work.step = "scanned",
           NEW E \in SUBSET (Fresh \ Wild), NEW A \in SUBSET Wild,
           NEW state \in {"awaiting", "completed", "failed"},
           state = "completed" => A = {},
           Report("scout", E \cup A, ScoutMarks), Announce(E, "discovered"),
           Commit([runs[cur] EXCEPT !.state = state, !.asks = Cardinality(A),
                                    !.said = @ \cup E]),
           UNCHANGED <<lastPrices, observed>>
    PROVE  IInv'
<1> DEFINE row == [runs[cur] EXCEPT !.state = state, !.asks = Cardinality(A),
                                    !.said = @ \cup E]
<1>1. /\ runs[cur] \in RunRow /\ runs[cur].verdicts = 0 /\ work \in WorkRow
      /\ "scout" \in Seers
  BY Current DEF IInv, Seers
<1>2. /\ Fresh \in SUBSET Asins /\ Fresh \cap seen["scout"] = {} /\ Wild \subseteq Fresh
      /\ E \cup A \in SUBSET Fresh
  BY <1>1 DEF Fresh, Wild, WorkRow, Viewed
<1>3. row \in RunRow /\ row.state # "running" /\ Unsettled(row)
  <2> DEFINE said == runs[cur].said \cup E
             asks == Cardinality(A)
  <2>1. said \in SUBSET Asins
    BY <1>1, <1>2 DEF RunRow
  <2>2. asks \in Nat /\ (A = {} => asks = 0)
    <3>1. IsFiniteSet(A)
      BY <1>2, Products, FS_Subset
    <3> QED
      BY <3>1, FS_CardinalityType, FS_EmptySet
  <2>3. row = [runs[cur] EXCEPT !.state = state, !.asks = asks, !.said = said]
    BY <1>1 DEF RunRow
  <2> HIDE DEF asks, said, row
  <2>4. asks > 0 => state \in {"awaiting", "failed"}
    BY <2>2
  <2> QED
    BY <1>1, <2>1, <2>2, <2>3, <2>4, RowParked
<1>4. Commit(row)
  OBVIOUS
<1> HIDE DEF row
<1> DEFINE N == E \cup A
<1>5. N \in SUBSET Fresh /\ N \cap seen["scout"] = {} /\ Report("scout", N, Fresh)
  BY <1>2 DEF ScoutMarks
<1> HIDE DEF N
<1>6. SeenInv' /\ \A q \in Seers \ {"scout"} : seen'[q] = seen[q] /\ forgotten'[q] = forgotten[q]
  BY <1>1, <1>2, <1>5, Reported DEF IInv
<1>7. seen'["crosslister"] = seen["crosslister"]
      /\ forgotten'["crosslister"] = forgotten["crosslister"]
  BY <1>6 DEF Seers
<1>8. events' \in Seq(EventRow)
  BY <1>2, Announced DEF IInv, PriceInv
<1>9. PriceInv'
  BY <1>8 DEF IInv, PriceInv
<1> QED
  BY <1>3, <1>4, <1>6, <1>7, <1>9, CommittedElse

LEMMA ScoutKeeps ==
    ASSUME IInv, ScoutEmit
    PROVE  IInv'
<1>1. cur # 0 /\ work.step = "scanned"
  BY DEF ScoutEmit, Node
<1>2. CASE (Fresh \ Wild) \cap runs[cur].said # {}
  <2> DEFINE row == [runs[cur] EXCEPT !.state = "stuck"]
  <2>1. Commit(row) /\ UNCHANGED State
    BY <1>2 DEF ScoutEmit, End
  <2>2. runs[cur] \in RunRow /\ runs[cur].verdicts = 0 /\ runs[cur].asks = 0
    BY <1>1, Current DEF IInv
  <2>3. row \in RunRow /\ row.state = "stuck" /\ Unsettled(row)
    BY <2>2 DEF RunRow, Unsettled
  <2> HIDE DEF row
  <2>4. SeenInv' /\ PriceInv' /\ seen' = seen /\ forgotten' = forgotten
    BY <2>1, StateKept DEF IInv, State
  <2> QED
    BY <1>1, <2>1, <2>3, <2>4, CommittedElse
<1>3. CASE ~((Fresh \ Wild) \cap runs[cur].said # {})
  <2> DEFINE state == IF Wild = {} THEN "completed" ELSE "awaiting"
             E == Fresh \ Wild
             A == Wild
  <2>1. Fresh = E \cup A /\ E \in SUBSET (Fresh \ Wild) /\ A \in SUBSET Wild
    BY DEF Wild
  <2>2. /\ Report("scout", Fresh, ScoutMarks) /\ Announce(E, "discovered")
        /\ Commit([runs[cur] EXCEPT !.state = state, !.asks = Cardinality(A), !.said = @ \cup E])
        /\ UNCHANGED <<lastPrices, observed>>
    BY <1>3 DEF ScoutEmit, End
  <2>3. Report("scout", E \cup A, ScoutMarks)
    BY <2>1, <2>2
  <2>4. state \in {"awaiting", "completed", "failed"} /\ (state = "completed" => A = {})
    OBVIOUS
  <2> HIDE DEF state, E, A
  <2> QED
    BY <1>1, <2>1, <2>2, <2>3, <2>4, ScoutCommits
<1> QED
  BY <1>2, <1>3

LEMMA ScoutCutKeeps ==
    ASSUME IInv, ScoutCut
    PROVE  IInv'
<1>1. cur # 0 /\ work.step = "scanned" /\ UNCHANGED <<lastPrices, observed>>
  BY DEF ScoutCut, Node
<1>2. PICK E \in SUBSET (Fresh \ Wild), A \in SUBSET Wild :
          /\ Report("scout", E \cup A, ScoutMarks) /\ Announce(E, "discovered")
          /\ Commit([runs[cur] EXCEPT !.state = "failed", !.asks = Cardinality(A),
                                      !.said = @ \cup E])
  BY DEF ScoutCut, CutShort
<1> QED
  BY <1>1, <1>2, ScoutCommits

\* A run that ends and changes nothing else of itself.
LEMMA Completes ==
    ASSUME IInv, cur # 0, NEW state \in {"completed", "failed"}
    PROVE  LET row == [runs[cur] EXCEPT !.state = state]
           IN  row \in RunRow /\ row.state # "running" /\ Unsettled(row)
<1>1. runs[cur] \in RunRow /\ runs[cur].verdicts = 0 /\ runs[cur].asks = 0
  BY Current DEF IInv
<1> QED
  BY <1>1 DEF RunRow, Unsettled

\* The monitor's commit, with all of its anomalies or some.
LEMMA MonitorCommits ==
    ASSUME IInv, MonitorDetect \/ MonitorCut
    PROVE  /\ cur # 0 /\ work.step = "picked"
           /\ \E state \in {"completed", "failed"} : Commit([runs[cur] EXCEPT !.state = state])
           /\ \E found \in Found, E \in SUBSET Asins :
                 /\ Observe(found) /\ Announce(E, "anomaly")
                 /\ DOMAIN found \subseteq Asins
                 /\ \A a \in DOMAIN found : found[a].price \in Nat
                 /\ E \subseteq Anomalies(found)
                 /\ E # Anomalies(found) => runs'[cur].state = "failed"
<1>1. cur # 0 /\ work.step = "picked"
  BY DEF MonitorDetect, MonitorCut, Node
<1>2. PICK state \in {"completed", "failed"} :
          /\ Commit([runs[cur] EXCEPT !.state = state])
          /\ MonitorCut => state = "failed"
  <2>1. CASE MonitorDetect /\ ~MonitorCut
    BY <2>1 DEF MonitorDetect, End
  <2>2. CASE MonitorCut
    BY <2>2 DEF MonitorCut, CutShort
  <2> QED
    BY <2>1, <2>2
<1>3. runs'[cur].state = state
  <2> DEFINE row == [runs[cur] EXCEPT !.state = state]
  <2>1. runs[cur] \in RunRow /\ cur \in DOMAIN runs
    BY <1>1, Current DEF IInv
  <2>2. row.state = state
    BY <2>1 DEF RunRow
  <2>3. runs' = [runs EXCEPT ![cur] = row]
    BY <1>2 DEF Commit
  <2> HIDE DEF row
  <2> QED
    BY <2>1, <2>2, <2>3
<1>4. PICK found \in Found :
          /\ Observe(found)
          /\ \E E \in SUBSET Anomalies(found) :
                Announce(E, "anomaly") /\ (E # Anomalies(found) => MonitorCut)
  <2>1. CASE MonitorDetect
    BY <2>1 DEF MonitorDetect
  <2>2. CASE MonitorCut
    BY <2>2 DEF MonitorCut
  <2> QED
    BY <2>1, <2>2
<1>5. DOMAIN found \subseteq Asins /\ \A a \in DOMAIN found : found[a].price \in Nat
  BY <1>4, LookedUp DEF IInv, Found
<1>6. PICK E \in SUBSET Anomalies(found) :
          Announce(E, "anomaly") /\ (E # Anomalies(found) => MonitorCut)
  BY <1>4
<1>7. E \in SUBSET Asins
  BY <1>5 DEF Anomalies
<1> QED
  BY <1>1, <1>2, <1>3, <1>4, <1>5, <1>6, <1>7

LEMMA DetectKeeps ==
    ASSUME IInv, MonitorDetect \/ MonitorCut
    PROVE  IInv'
<1>1. cur # 0 /\ work.step = "picked"
  BY MonitorCommits
<1>2. PICK state \in {"completed", "failed"} : Commit([runs[cur] EXCEPT !.state = state])
  BY MonitorCommits
<1> DEFINE row == [runs[cur] EXCEPT !.state = state]
<1>3. Commit(row) /\ row \in RunRow /\ row.state # "running" /\ Unsettled(row)
  BY <1>1, <1>2, Completes
<1> HIDE DEF row
<1>4. PICK found \in Found, E \in SUBSET Asins :
          /\ Observe(found) /\ Announce(E, "anomaly")
          /\ DOMAIN found \subseteq Asins
          /\ \A a \in DOMAIN found : found[a].price \in Nat
  BY MonitorCommits
<1>5. events' \in Seq(EventRow)
  BY <1>4, Announced DEF IInv, PriceInv
<1>6. /\ lastPrices' \in [Asins -> Maybe(Nat)] /\ observed' = lastPrices'
      /\ UNCHANGED <<seen, surfaced, forgotten>>
  BY <1>4 DEF IInv, PriceInv, Observe, PricesAfter, Maybe
<1>7. SeenInv' /\ PriceInv'
  BY <1>5, <1>6 DEF IInv, SeenInv, PriceInv
<1> QED
  BY <1>1, <1>3, <1>6, <1>7, CommittedElse

\* The ad manager's commit.
LEMMA AdKeeps ==
    ASSUME IInv, AdEmit
    PROVE  IInv'
<1>1. PICK state \in {"completed", "failed"}, E \in SUBSET Tiered :
          /\ Commit([runs[cur] EXCEPT !.state = state])
          /\ Report("admanager", E, New)
  BY DEF AdEmit, End, CutShort, Partial
<1>2. /\ cur # 0 /\ work.step = "scanned" /\ "admanager" \in Seers
      /\ UNCHANGED <<lastPrices, observed, events>>
  BY DEF AdEmit, Node, Seers
<1> DEFINE row == [runs[cur] EXCEPT !.state = state]
<1>3. Commit(row) /\ row \in RunRow /\ row.state # "running" /\ Unsettled(row)
  BY <1>1, <1>2, Completes
<1> HIDE DEF row
<1>4. work \in WorkRow
  BY <1>2, Current DEF IInv
<1>5. New \in SUBSET Asins /\ E \in SUBSET New /\ E \cap seen["admanager"] = {}
  BY <1>4 DEF WorkRow, Viewed, New, Tiered
<1>6. SeenInv' /\ \A q \in Seers \ {"admanager"} : seen'[q] = seen[q] /\ forgotten'[q] = forgotten[q]
  BY <1>1, <1>2, <1>5, Reported DEF IInv
<1>7. seen'["crosslister"] = seen["crosslister"] /\ forgotten'["crosslister"] = forgotten["crosslister"]
  BY <1>6 DEF Seers
<1>8. PriceInv'
  BY <1>2 DEF IInv, PriceInv
<1> QED
  BY <1>2, <1>3, <1>6, <1>7, <1>8, CommittedElse

\* The analyst's commit: an event that settles, or a question.
LEMMA DecideKeeps ==
    ASSUME IInv, AnalystDecide
    PROVE  IInv'
<1>1. cur # 0 /\ work.step = "loaded" /\ UNCHANGED <<seen, lastPrices, surfaced, forgotten, observed>>
  BY DEF AnalystDecide, Node
<1>2. runs[cur] \in RunRow /\ runs[cur].verdicts = 0
  BY <1>1, Current DEF IInv
<1>3. PICK answer \in [verdict : {"accept", "reject", "uncertain"}, sure : BOOLEAN] :
          LET d == Decision(answer)
              says == IF Settles(d) THEN 1 ELSE 0
          IN /\ events' = IF says = 1 /\ d.verdict = "accept"
                            THEN Append(events, [asin |-> runs[cur].asin, kind |-> "confirmed"])
                            ELSE events
             /\ Commit([runs[cur] EXCEPT !.state = IF Asks(d) THEN "awaiting" ELSE "completed",
                                         !.asks = IF Asks(d) THEN 1 ELSE 0,
                                         !.verdicts = @ + says])
  BY DEF AnalystDecide, End
<1> DEFINE d == Decision(answer)
           says == IF Settles(d) THEN 1 ELSE 0
           row == [runs[cur] EXCEPT !.state = IF Asks(d) THEN "awaiting" ELSE "completed",
                                    !.asks = IF Asks(d) THEN 1 ELSE 0,
                                    !.verdicts = @ + says]
<1> HIDE DEF d
<1>4. /\ events' = IF says = 1 /\ d.verdict = "accept"
                     THEN Append(events, [asin |-> runs[cur].asin, kind |-> "confirmed"])
                     ELSE events
      /\ Commit(row)
  BY <1>3 DEF d
<1>5. Asks(d) => says = 0
  BY DEF Asks, Settles
<1>6. row \in RunRow /\ row.state # "running" /\ Unsettled(row)
  <2> DEFINE state == IF Asks(d) THEN "awaiting" ELSE "completed"
             asks == IF Asks(d) THEN 1 ELSE 0
  <2>1. /\ state \in {"completed", "awaiting"} /\ says \in 0 .. 1 /\ asks \in 0 .. 1
        /\ state = "awaiting" => says = 0
        /\ asks > 0 => state = "awaiting"
    BY <1>5
  <2>2. row = [runs[cur] EXCEPT !.state = state, !.asks = asks, !.verdicts = says]
    BY <1>2 DEF RunRow
  <2> HIDE DEF state, asks, says, row
  <2> QED
    BY <1>2, <2>1, <2>2, RowSettled
<1>7. events' \in Seq(EventRow)
  <2>1. events \in Seq(EventRow)
    BY DEF IInv, PriceInv
  <2>2. CASE says = 1 /\ d.verdict = "accept"
    <3>1. runs[cur].asin \in Asins
      BY <1>2, <2>2 DEF Settles, RunRow
    <3> DEFINE e == [asin |-> runs[cur].asin, kind |-> "confirmed"]
    <3>2. e \in EventRow
      BY <3>1 DEF EventRow
    <3>3. events' = Append(events, e)
      BY <1>4, <2>2
    <3> HIDE DEF e
    <3> QED
      BY <2>1, <3>2, <3>3, AppendProperties
  <2>3. CASE ~(says = 1 /\ d.verdict = "accept")
    BY <1>4, <2>1, <2>3
  <2> QED
    BY <2>2, <2>3
<1> HIDE DEF row
<1>8. SeenInv' /\ PriceInv'
  BY <1>1, <1>7 DEF IInv, SeenInv, PriceInv
<1> QED
  BY <1>1, <1>4, <1>6, <1>8, CommittedElse

LEMMA TellKeeps ==
    ASSUME IInv, ExecutorTell
    PROVE  IInv'
<1> DEFINE row == [runs[cur] EXCEPT !.state = "completed"]
<1>1. cur # 0 /\ work.step = "start" /\ Commit(row) /\ UNCHANGED State
  BY DEF ExecutorTell, Node, End
<1>2. row \in RunRow /\ row.state # "running" /\ Unsettled(row)
  BY <1>1, Completes
<1> HIDE DEF row
<1>3. SeenInv' /\ PriceInv' /\ seen' = seen /\ forgotten' = forgotten
  BY <1>1, StateKept DEF IInv, State
<1> QED
  BY <1>1, <1>2, <1>3, CommittedElse

-----------------------------------------------------------------------------
(* The steps of the crosslister.                                           *)

\* The head of a list of new products, every one of them once.
LEMMA BatchCut ==
    ASSUME NEW S \in SUBSET Asins, NEW k \in Nat,
           NEW q, q = SubSeq(SetToSeq(S), 1, IF Len(SetToSeq(S)) <= k
                                              THEN Len(SetToSeq(S)) ELSE k)
    PROVE  /\ q \in Seq(Asins)
           /\ \A i, j \in 1 .. Len(q) : q[i] \in S /\ (q[i] = q[j] => i = j)
<1> DEFINE all == SetToSeq(S)
           n == Cardinality(S)
<1>1. /\ n \in Nat /\ all \in [1 .. n -> S]
      /\ \A i, j \in 1 .. n : all[i] = all[j] => i = j
  BY Products, FS_Subset, Listed
<1>2. all \in Seq(S)
  BY <1>1, SeqDef
<1>3. Len(all) \in Nat /\ DOMAIN all = 1 .. Len(all) /\ DOMAIN all = 1 .. n
  BY <1>1, <1>2, LenProperties
<1>4. Len(all) = n
  BY <1>1, <1>3
<1> DEFINE m == IF n <= k THEN n ELSE k
<1>5. m \in 0 .. n /\ m \in Nat
  BY <1>1
<1>6. q = SubSeq(all, 1, m)
  BY <1>4
<1> HIDE DEF all, n, m
<1>7. \A i \in 1 .. m : all[i] \in S
  BY <1>1, <1>5
<1>8. q \in Seq(S) /\ Len(q) = m /\ \A i \in 1 .. m : q[i] = all[i]
  <2>1. /\ q \in Seq(S) /\ Len(q) = (IF 1 <= m THEN m - 1 + 1 ELSE 0)
        /\ \A i \in 1 .. m - 1 + 1 : q[i] = all[1 + i - 1]
    BY <1>5, <1>6, <1>7, SubSeqProperties
  <2> QED
    BY <1>5, <2>1
<1>9. q \in Seq(Asins)
  BY <1>8, SeqMonotonic
<1> QED
  BY <1>1, <1>5, <1>7, <1>8, <1>9

LEMMA CrossScanKeeps ==
    ASSUME IInv, CrossScan
    PROVE  IInv'
<1>1. /\ cur # 0 /\ work.step = "start" /\ UNCHANGED World
      /\ runs[cur].agent = "crosslister" /\ "crosslister" \in Seers
  BY DEF CrossScan, Node, Seers
<1>2. work \in WorkRow /\ work.called = FALSE
  BY <1>1, Current, NotCalled DEF IInv
<1>3. PICK S \in SUBSET Asins :
          LET new == S \ seen["crosslister"]
              batch == SetToSeq(new)
          IN GoOn([work EXCEPT !.step = "listing", !.new = new,
                   !.queue = SubSeq(batch, 1, IF Len(batch) <= BatchMax
                                              THEN Len(batch) ELSE BatchMax)])
  BY DEF CrossScan, Top, Batch, IInv, WorldInv
<1> DEFINE new == S \ seen["crosslister"]
           batch == SetToSeq(new)
           q == SubSeq(batch, 1, IF Len(batch) <= BatchMax THEN Len(batch) ELSE BatchMax)
           next == [work EXCEPT !.step = "listing", !.new = new, !.queue = q]
<1>4. GoOn(next)
  BY <1>3
<1>5. new \in SUBSET Asins /\ new \cap seen["crosslister"] = {}
  OBVIOUS
<1> HIDE DEF new
<1>6. /\ q \in Seq(Asins)
      /\ \A i, j \in 1 .. Len(q) : q[i] \in new /\ (q[i] = q[j] => i = j)
  <2>1. /\ BatchMax \in Nat
        /\ q = SubSeq(SetToSeq(new), 1, IF Len(SetToSeq(new)) <= BatchMax
                                          THEN Len(SetToSeq(new)) ELSE BatchMax)
    BY Bounds
  <2> HIDE DEF q, batch
  <2> QED
    BY <1>5, <2>1, BatchCut
<1> HIDE DEF q
<1>7. /\ next \in WorkRow /\ next.called = FALSE /\ next.step = "listing"
      /\ next.new = new /\ next.queue = q
  BY <1>2, <1>5, <1>6 DEF WorkRow
<1> HIDE DEF next
<1>8. /\ work' = next /\ runs' = runs /\ cur' = cur /\ lostRuns' = lostRuns
      /\ UNCHANGED State
  BY <1>4 DEF GoOn
<1>9. RunInv' /\ WorldInv' /\ SeenInv' /\ PriceInv'
  BY <1>1, <1>4, <1>7, <1>8, GoneOn, WorldKept, StateKept DEF IInv, World
<1>10. BatchInv'
  BY <1>5, <1>6, <1>7, <1>8 DEF BatchInv, State
<1>11. ListInv'
  BY <1>1, <1>2, <1>7, <1>8, ListKept DEF IInv, State, World
<1>12. LoadInv'
  BY <1>1, <1>8 DEF LoadInv
<1> QED
  BY <1>9, <1>10, <1>11, <1>12 DEF IInv

\* The item under way is new, and the rest of the queue does not hold it.
LEMMA ItemOf ==
    ASSUME RunInv, BatchInv, work.step \in {"listing", "drafted"}, work.queue # <<>>
    PROVE  /\ Item = work.queue[1] /\ Item \in Asins /\ Item \in work.new
           /\ Item \notin seen["crosslister"]
           /\ Tail(work.queue) \in Seq(Asins) /\ Len(work.queue) \in Nat \ {0}
           /\ Len(Tail(work.queue)) = Len(work.queue) - 1
           /\ \A i \in 1 .. Len(Tail(work.queue)) :
                 Tail(work.queue)[i] = work.queue[i + 1]
<1> DEFINE q == work.queue
<1>1. q \in Seq(Asins) /\ work.new \subseteq Asins
  BY DEF RunInv, WorkRow
<1>2. Len(q) \in Nat \ {0}
  BY <1>1, EmptySeq
<1>3. Head(q) = q[1]
  BY <1>1
<1>4. q[1] \in work.new /\ work.new \cap seen["crosslister"] = {}
  BY <1>2 DEF BatchInv
<1> QED
  BY <1>1, <1>2, <1>3, <1>4, HeadTailProperties DEF Item

\* What is left of a queue is a queue.
LEMMA QueueCut ==
    ASSUME RunInv, BatchInv, work.step \in {"listing", "drafted"}, work.queue # <<>>
    PROVE  LET q == Tail(work.queue)
           IN  \A i, j \in 1 .. Len(q) :
                  /\ q[i] \in work.new /\ q[i] # Item
                  /\ q[i] = q[j] => i = j
<1> DEFINE q == Tail(work.queue)
<1>1. /\ Len(work.queue) \in Nat \ {0} /\ Len(q) = Len(work.queue) - 1
      /\ \A i \in 1 .. Len(q) : q[i] = work.queue[i + 1]
      /\ Item = work.queue[1]
  BY ItemOf
<1> HIDE DEF q
<1>2. ASSUME NEW i \in 1 .. Len(q), NEW j \in 1 .. Len(q)
      PROVE  q[i] \in work.new /\ q[i] # Item /\ (q[i] = q[j] => i = j)
  <2>1. i + 1 \in 1 .. Len(work.queue) /\ j + 1 \in 1 .. Len(work.queue)
        /\ 1 \in 1 .. Len(work.queue) /\ i + 1 # 1
    BY <1>1
  <2> QED
    BY <1>1, <2>1 DEF BatchInv
<1> QED
  BY <1>2 DEF q

\* The products this run has been through are pending, whatever the call did:
\* the one at the head too.
LEMMA StillPending ==
    ASSUME RunInv, BatchInv, work.step \in {"listing", "drafted"}, work.queue # <<>>,
           work'.called, work'.new = work.new,
           \/ work'.queue = Tail(work.queue)
           \/ work'.queue = work.queue /\ work'.step = "drafted",
           NEW b \in Asins, b = Item \/ Pending(b)
    PROVE  Pending(b)'
<1>1. /\ Item = work.queue[1] /\ Item \in work.new /\ Len(work.queue) \in Nat \ {0}
      /\ Len(Tail(work.queue)) = Len(work.queue) - 1
      /\ \A i \in 1 .. Len(Tail(work.queue)) : Tail(work.queue)[i] = work.queue[i + 1]
  BY ItemOf
<1>2. \A i, j \in 1 .. Len(work.queue) : work.queue[i] = work.queue[j] => i = j
  BY DEF BatchInv
<1>3. ASSUME NEW i \in 1 .. Len(work.queue), work.queue[i] = b
      PROVE  i = 1
  <2>1. 1 \in 1 .. Len(work.queue)
    BY <1>1
  <2>2. CASE b = Item
    BY <1>1, <1>2, <1>3, <2>1, <2>2
  <2>3. CASE Pending(b)
    BY <1>3, <2>3 DEF Pending
  <2> QED
    BY <2>2, <2>3
<1>4. b \in work.new
  BY <1>1 DEF Pending
<1>5. CASE work'.queue = Tail(work.queue)
  <2>1. ASSUME NEW i \in 1 .. Len(Tail(work.queue))
        PROVE  Tail(work.queue)[i] # b
    <3>1. i + 1 \in 1 .. Len(work.queue) /\ i + 1 # 1
      BY <1>1
    <3> QED
      BY <1>1, <1>3, <3>1
  <2> QED
    BY <1>4, <1>5, <2>1 DEF Pending
<1>6. CASE work'.queue = work.queue /\ work'.step = "drafted"
  BY <1>3, <1>4, <1>6 DEF Pending
<1> QED
  BY <1>5, <1>6

\* A call to eBay, heard or not, changes what it changes and leads on.
LEMMA CallKeeps ==
    ASSUME IInv, cur # 0, runs[cur].agent = "crosslister", work.step \in {"listing", "drafted"}, work.queue # <<>>,
           NEW next \in WorkRow, GoOn(next), UNCHANGED <<catalog, stranded>>,
           next.called, next.new = work.new,
           \/ next.queue = Tail(work.queue) /\ next.step = "listing"
           \/ next.queue = work.queue /\ next.step = "drafted" /\ drafts'[Item] >= 1,
           drafts' \in [Asins -> Nat], live' \in [Asins -> Nat],
           \A b \in Asins : drafts'[b] + live'[b] <=
               drafts[b] + live[b] + (IF b = Item /\ ~Pending(b) THEN 1 ELSE 0)
    PROVE  IInv'
<1>1. /\ work' = next /\ runs' = runs /\ cur' = cur /\ lostRuns' = lostRuns
      /\ UNCHANGED State
  BY DEF GoOn
<1>2. RunInv' /\ SeenInv' /\ PriceInv'
  BY <1>1, GoneOn, StateKept DEF IInv
<1>3. WorldInv'
  BY <1>1 DEF IInv, WorldInv
<1>4. BatchInv'
  <2>1. CASE next.queue = Tail(work.queue) /\ next.step = "listing"
    <3>1. \A i, j \in 1 .. Len(next.queue) :
             next.queue[i] \in work.new /\ (next.queue[i] = next.queue[j] => i = j)
      BY <2>1, QueueCut DEF IInv
    <3>2. work.new \cap seen["crosslister"] = {}
      BY DEF IInv, BatchInv
    <3> QED
      BY <1>1, <2>1, <3>1, <3>2 DEF BatchInv, State
  <2>2. CASE next.queue = work.queue /\ next.step = "drafted" /\ drafts'[Item] >= 1
    <3>1. Item' = Item
      BY <1>1, <2>2 DEF Item
    <3>2. /\ work.new \cap seen["crosslister"] = {}
          /\ \A i, j \in 1 .. Len(work.queue) :
                work.queue[i] \in work.new /\ (work.queue[i] = work.queue[j] => i = j)
      BY DEF IInv, BatchInv
    <3>3. seen' = seen
      BY <1>1 DEF State
    <3>4. /\ work'.queue = work.queue /\ work'.new = work.new /\ work'.called
          /\ work'.step = "drafted" /\ work'.queue # <<>> /\ drafts'[Item'] >= 1
      BY <1>1, <2>2, <3>1
    <3> QED
      BY <3>2, <3>3, <3>4 DEF BatchInv
  <2> QED
    BY <2>1, <2>2
<1>5. ASSUME NEW b \in Asins
      PROVE  drafts'[b] + live'[b] <=
                forgotten'["crosslister"][b] + lostRuns' +
                (IF b \in seen'["crosslister"] \/ Pending(b)' THEN 1 ELSE 0)
  <2>1. /\ drafts[b] \in Nat /\ live[b] \in Nat /\ drafts'[b] \in Nat /\ live'[b] \in Nat
        /\ forgotten["crosslister"][b] \in Nat /\ lostRuns \in Nat
    BY DEF IInv, WorldInv, SeenInv, Seers
  <2>2. forgotten' = forgotten /\ seen' = seen /\ lostRuns' = lostRuns
    BY <1>1 DEF State
  <2>3. drafts[b] + live[b] <= forgotten["crosslister"][b] + lostRuns +
            (IF b \in seen["crosslister"] \/ Pending(b) THEN 1 ELSE 0)
    BY DEF IInv, ListInv
  <2>4. drafts'[b] + live'[b] <=
            drafts[b] + live[b] + (IF b = Item /\ ~Pending(b) THEN 1 ELSE 0)
    OBVIOUS
  <2>5. b = Item \/ Pending(b) => Pending(b)'
    BY <1>1, StillPending DEF IInv
  <2>6. Item \notin seen["crosslister"]
    BY ItemOf DEF IInv
  <2>7. CASE b = Item \/ Pending(b)
    <3>1. (IF b \in seen'["crosslister"] \/ Pending(b)' THEN 1 ELSE 0) = 1
      BY <2>5, <2>7
    <3>2. drafts'[b] + live'[b] <= forgotten["crosslister"][b] + lostRuns + 1
      <4>1. CASE Pending(b)
        BY <2>1, <2>3, <2>4, <4>1
      <4>2. CASE b = Item /\ ~Pending(b)
        BY <2>1, <2>3, <2>4, <2>6, <4>2
      <4> QED
        BY <2>7, <4>1, <4>2
    <3> QED
      BY <2>2, <3>1, <3>2
  <2>8. CASE ~(b = Item \/ Pending(b))
    <3>1. drafts'[b] + live'[b] <= drafts[b] + live[b]
      BY <2>1, <2>4, <2>8
    <3>2. /\ (IF b \in seen["crosslister"] \/ Pending(b) THEN 1 ELSE 0) =
                (IF b \in seen["crosslister"] THEN 1 ELSE 0)
          /\ (IF b \in seen["crosslister"] THEN 1 ELSE 0) <=
                (IF b \in seen'["crosslister"] \/ Pending(b)' THEN 1 ELSE 0)
      BY <2>2, <2>8
    <3> DEFINE x == IF b \in seen["crosslister"] \/ Pending(b) THEN 1 ELSE 0
               y == IF b \in seen'["crosslister"] \/ Pending(b)' THEN 1 ELSE 0
    <3>3. x \in 0 .. 1 /\ y \in 0 .. 1 /\ x <= y
      BY <3>2
    <3>4. drafts[b] + live[b] <= forgotten["crosslister"][b] + lostRuns + x
      BY <2>3
    <3> HIDE DEF x, y
    <3>5. drafts'[b] + live'[b] <= forgotten["crosslister"][b] + lostRuns + y
      <4>1. x \in Int /\ y \in Int /\ x <= y
        BY <3>3
      <4>2. forgotten["crosslister"][b] + lostRuns + x <= forgotten["crosslister"][b] + lostRuns + y
        BY <2>1, <4>1
      <4> DEFINE m == drafts[b] + live[b]
                 k == forgotten["crosslister"][b] + lostRuns
      <4>3. m \in Int /\ k \in Int /\ drafts'[b] + live'[b] \in Int
        BY <2>1
      <4>4. m <= k + x /\ drafts'[b] + live'[b] <= m /\ k + x <= k + y
        BY <3>1, <3>4, <4>2
      <4> HIDE DEF m, k
      <4>5. drafts'[b] + live'[b] <= k + y
        BY <4>1, <4>3, <4>4
      <4> QED
        BY <4>5 DEF k
    <3> QED
      BY <2>2, <3>5 DEF y
  <2> QED
    BY <2>7, <2>8
<1>6. ListInv'
  BY <1>5 DEF ListInv
<1>7. LoadInv'
  BY <1>1 DEF LoadInv
<1> QED
  BY <1>2, <1>3, <1>4, <1>6, <1>7 DEF IInv

LEMMA CreateKeeps ==
    ASSUME IInv, CreateDraft
    PROVE  IInv'
<1>1. /\ cur # 0 /\ runs[cur].agent = "crosslister" /\ work.step = "listing"
      /\ work.queue # <<>> /\ UNCHANGED <<catalog, stranded, live>>
  BY DEF CreateDraft, Node
<1>2. PICK made \in BOOLEAN, heard \in BOOLEAN :
          /\ heard => made
          /\ drafts' = [drafts EXCEPT ![Item] = @ + (IF made THEN 1 ELSE 0)]
          /\ GoOn(IF heard THEN [work EXCEPT !.step = "drafted", !.called = TRUE]
                  ELSE [work EXCEPT !.queue = Tail(@), !.called = TRUE])
  BY DEF CreateDraft
<1>3. work \in WorkRow
  BY <1>1, Current DEF IInv
<1>4. Item \in Asins /\ Item = work.queue[1] /\ Tail(work.queue) \in Seq(Asins)
      /\ 1 \in 1 .. Len(work.queue)
  BY <1>1, ItemOf DEF IInv
<1>5. ~Pending(Item)
  BY <1>1, <1>4 DEF Pending
<1>6. /\ drafts' \in [Asins -> Nat] /\ live' \in [Asins -> Nat]
      /\ \A b \in Asins : drafts[b] \in Nat /\ live'[b] = live[b] /\ live[b] \in Nat
      /\ \A b \in Asins : drafts'[b] =
            drafts[b] + (IF b = Item /\ made THEN 1 ELSE 0)
  BY <1>1, <1>2, <1>4 DEF IInv, WorldInv
<1>7. \A b \in Asins : drafts'[b] + live'[b] <=
          drafts[b] + live[b] + (IF b = Item /\ ~Pending(b) THEN 1 ELSE 0)
  <2> TAKE b \in Asins
  <2>1. CASE b = Item
    BY <1>5, <1>6, <2>1
  <2>2. CASE b # Item
    BY <1>6, <2>2
  <2> QED
    BY <2>1, <2>2
<1>8. CASE heard
  <2> DEFINE next == [work EXCEPT !.step = "drafted", !.called = TRUE]
  <2>1. GoOn(next) /\ drafts'[Item] >= 1
    BY <1>2, <1>4, <1>6, <1>8
  <2>2. /\ next \in WorkRow /\ next.called /\ next.new = work.new
        /\ next.queue = work.queue /\ next.step = "drafted"
    BY <1>3 DEF WorkRow
  <2> HIDE DEF next
  <2> QED
    BY <1>1, <1>6, <1>7, <2>1, <2>2, CallKeeps
<1>9. CASE ~heard
  <2> DEFINE next == [work EXCEPT !.queue = Tail(@), !.called = TRUE]
  <2>1. GoOn(next)
    BY <1>2, <1>9
  <2>2. /\ next \in WorkRow /\ next.called /\ next.new = work.new
        /\ next.queue = Tail(work.queue) /\ next.step = "listing"
    BY <1>1, <1>3, <1>4 DEF WorkRow
  <2> HIDE DEF next
  <2> QED
    BY <1>1, <1>6, <1>7, <2>1, <2>2, CallKeeps
<1> QED
  BY <1>8, <1>9

LEMMA PublishKeeps ==
    ASSUME IInv, Publish
    PROVE  IInv'
<1> DEFINE next == [work EXCEPT !.step = "listing", !.queue = Tail(@)]
<1>1. /\ cur # 0 /\ runs[cur].agent = "crosslister" /\ work.step = "drafted"
      /\ GoOn(next) /\ UNCHANGED <<catalog, stranded>>
  BY DEF Publish, Node
<1>2. /\ work.queue # <<>> /\ work.called /\ drafts[Item] >= 1
  BY <1>1 DEF IInv, BatchInv
<1>3. Item \in Asins /\ Tail(work.queue) \in Seq(Asins)
  BY <1>1, <1>2, ItemOf DEF IInv
<1>4. work \in WorkRow
  BY <1>1, Current DEF IInv
<1>5. /\ next \in WorkRow /\ next.called /\ next.new = work.new
      /\ next.queue = Tail(work.queue) /\ next.step = "listing"
  BY <1>2, <1>3, <1>4 DEF WorkRow
<1> HIDE DEF next
<1>6. \A b \in Asins : drafts[b] \in Nat /\ live[b] \in Nat
  BY DEF IInv, WorldInv
<1>7. /\ drafts' \in [Asins -> Nat] /\ live' \in [Asins -> Nat]
      /\ \A b \in Asins : drafts'[b] + live'[b] = drafts[b] + live[b]
  <2>1. CASE /\ drafts' = [drafts EXCEPT ![Item] = @ - 1]
             /\ live' = [live EXCEPT ![Item] = @ + 1]
    <3>1. drafts[Item] - 1 \in Nat
      BY <1>2, <1>3, <1>6
    <3>2. drafts \in [Asins -> Nat] /\ live \in [Asins -> Nat]
      BY DEF IInv, WorldInv
    <3>3. drafts' \in [Asins -> Nat] /\ live' \in [Asins -> Nat]
      BY <1>3, <2>1, <3>1, <3>2
    <3>4. ASSUME NEW b \in Asins
          PROVE  drafts'[b] + live'[b] = drafts[b] + live[b]
      <4>1. CASE b = Item
        BY <1>3, <1>6, <2>1, <3>2, <4>1
      <4>2. CASE b # Item
        BY <2>1, <3>2, <4>2
      <4> QED
        BY <4>1, <4>2
    <3> QED
      BY <3>3, <3>4
  <2>2. CASE UNCHANGED <<drafts, live>>
    BY <2>2 DEF IInv, WorldInv
  <2> QED
    BY <2>1, <2>2 DEF Publish
<1>8. \A b \in Asins : drafts'[b] + live'[b] <=
          drafts[b] + live[b] + (IF b = Item /\ ~Pending(b) THEN 1 ELSE 0)
  BY <1>6, <1>7
<1> QED
  BY <1>1, <1>2, <1>5, <1>7, <1>8, CallKeeps

\* The crosslister's commit: what it went through is on the list.
LEMMA CrossEmitKeeps ==
    ASSUME IInv, CrossEmit
    PROVE  IInv'
<1>1. /\ cur # 0 /\ work.step = "listing" /\ "crosslister" \in Seers
      /\ UNCHANGED <<lastPrices, observed, events>>
  BY DEF CrossEmit, Node, Seers
<1>2. PICK state \in {"completed", "failed"}, E \in SUBSET work.new :
          /\ Commit([runs[cur] EXCEPT !.state = state])
          /\ Report("crosslister", E, work.new)
  BY DEF CrossEmit, End, CutShort, Partial
<1> DEFINE row == [runs[cur] EXCEPT !.state = state]
<1>9. Commit(row) /\ row \in RunRow /\ row.state # "running" /\ Unsettled(row)
  BY <1>1, <1>2, Completes
<1> HIDE DEF row
<1>3. work.new \in SUBSET Asins /\ E \cap seen["crosslister"] = {}
  BY <1>1, Current DEF IInv, WorkRow, BatchInv
<1>4. /\ SeenInv'
      /\ \A a \in Asins :
            /\ forgotten'["crosslister"][a] >= forgotten["crosslister"][a]
            /\ a \in seen["crosslister"] \cup work.new =>
                  \/ a \in seen'["crosslister"]
                  \/ forgotten'["crosslister"][a] = forgotten["crosslister"][a] + 1
  BY <1>1, <1>2, <1>3, Reported DEF IInv
<1>5. PriceInv'
  BY <1>1 DEF IInv, PriceInv
<1>6. drafts' = drafts /\ live' = live /\ lostRuns' = lostRuns
  BY <1>2 DEF Commit
<1>7. ASSUME NEW a \in Asins
      PROVE  drafts'[a] + live'[a] <=
                forgotten'["crosslister"][a] + lostRuns' +
                (IF a \in seen'["crosslister"] \/ Pending(a)' THEN 1 ELSE 0)
  <2> DEFINE f == forgotten["crosslister"][a]
             g == forgotten'["crosslister"][a]
             x == IF a \in seen["crosslister"] \/ Pending(a) THEN 1 ELSE 0
             y == IF a \in seen'["crosslister"] \/ Pending(a)' THEN 1 ELSE 0
  <2>1. /\ drafts[a] \in Nat /\ live[a] \in Nat /\ f \in Nat /\ g \in Nat /\ lostRuns \in Nat
    BY <1>4 DEF IInv, WorldInv, SeenInv, Seers
  <2>2. drafts[a] + live[a] <= f + lostRuns + x
    BY DEF IInv, ListInv
  <2>3. x \in 0 .. 1 /\ y \in 0 .. 1 /\ g >= f
    BY <1>4
  <2>4. x = 1 => y = 1 \/ g = f + 1
    BY <1>4 DEF Pending
  <2> HIDE DEF f, g, x, y
  <2>5. drafts[a] + live[a] <= g + lostRuns + y
    BY <2>1, <2>2, <2>3, <2>4
  <2> QED
    BY <1>6, <2>5 DEF g, y
<1>8. ListInv'
  BY <1>7 DEF ListInv
<1> QED
  BY <1>1, <1>9, <1>4, <1>5, <1>8, Committed

-----------------------------------------------------------------------------
(* People, faults and the world.                                           *)

LEMMA SettleKeeps ==
    ASSUME IInv, NEW r \in DOMAIN runs, Settle(r)
    PROVE  IInv'
<1>1. /\ runs[r].asks > 0 /\ cur' = cur /\ work' = work /\ lostRuns' = lostRuns
      /\ UNCHANGED State /\ UNCHANGED World
  BY DEF Settle
<1>2. /\ r \in 1 .. Len(runs) /\ runs[r] \in RunRow /\ Unsettled(runs[r]) /\ Len(runs) \in Nat
      /\ r # cur
  <2>1. r \in 1 .. Len(runs) /\ runs[r] \in RunRow /\ Unsettled(runs[r]) /\ Len(runs) \in Nat
        /\ (runs[r].state = "running" <=> r = cur)
    BY LenProperties, ElementOfSeq DEF IInv, RunInv
  <2> QED
    BY <1>1, <2>1 DEF Unsettled
<1>3. PICK row \in RunRow :
          /\ Unsettled(row) /\ row.state # "running" /\ runs' = [runs EXCEPT ![r] = row]
  <2>1. runs[r].asks \in Nat /\ runs[r].asks - 1 \in Nat
    BY <1>1, <1>2 DEF RunRow
  <2>2. CASE runs' = [runs EXCEPT ![r].state = "failed", ![r].asks = @ - 1]
    <3> DEFINE row == [runs[r] EXCEPT !.state = "failed", !.asks = @ - 1]
    <3>1. runs' = [runs EXCEPT ![r] = row]
      BY <2>2
    <3>2. row \in RunRow /\ Unsettled(row) /\ row.state # "running"
      BY <1>1, <1>2, <2>1 DEF RunRow, Unsettled
    <3> HIDE DEF row
    <3> QED
      BY <3>1, <3>2
  <2>3. CASE runs' = [runs EXCEPT ![r].asks = @ - 1]
    <3> DEFINE row == [runs[r] EXCEPT !.asks = @ - 1]
    <3>1. runs' = [runs EXCEPT ![r] = row]
      BY <2>3
    <3>2. row \in RunRow /\ Unsettled(row) /\ row.state # "running"
      BY <1>1, <1>2, <2>1 DEF RunRow, Unsettled
    <3> HIDE DEF row
    <3> QED
      BY <3>1, <3>2
  <2> QED
    BY <2>2, <2>3 DEF Settle
<1>4. /\ runs' \in Seq(RunRow) /\ Len(runs') = Len(runs)
      /\ \A q \in 1 .. Len(runs) :
            Unsettled(runs'[q]) /\ runs'[q] = IF q = r THEN row ELSE runs[q]
  BY <1>2, <1>3, RowChanged DEF IInv
<1>5. \A q \in 1 .. Len(runs) : runs'[q].state = "running" <=> q = cur'
  BY <1>1, <1>2, <1>3, <1>4 DEF IInv, RunInv
<1>6. RunInv'
  BY <1>1, <1>4, <1>5 DEF IInv, RunInv
<1>7. WorldInv' /\ SeenInv' /\ PriceInv'
  BY <1>1, WorldKept, StateKept DEF IInv, World
<1>8. BatchInv' /\ ListInv'
  BY <1>1 DEF IInv, BatchInv, ListInv, Pending, Item, State, World
<1>9. LoadInv'
  <2>1. cur # 0 => cur \in 1 .. Len(runs)
    BY Current DEF IInv
  <2>2. cur # 0 => runs'[cur'] = runs[cur]
    BY <1>1, <1>2, <1>4, <2>1
  <2> QED
    BY <1>1, <2>2 DEF IInv, LoadInv
<1> QED
  BY <1>6, <1>7, <1>8, <1>9 DEF IInv

LEMMA FaultKeeps ==
    ASSUME IInv, Fault
    PROVE  IInv'
<1> DEFINE row == [runs[cur] EXCEPT !.state = "failed"]
<1>1. /\ cur # 0 /\ runs' = [runs EXCEPT ![cur] = row] /\ cur' = 0 /\ work' = NoWork
      /\ lostRuns' = lostRuns + (IF work.called THEN 1 ELSE 0)
      /\ UNCHANGED State /\ UNCHANGED <<catalog, stranded, drafts, live>>
  BY DEF Fault
<1>3. row \in RunRow /\ row.state # "running" /\ Unsettled(row)
  BY <1>1, Completes
<1> HIDE DEF row
<1>4. RunInv' /\ SeenInv' /\ PriceInv' /\ BatchInv' /\ LoadInv'
  BY <1>1, <1>3, Ended, StateKept, Idle DEF IInv
<1>5. lostRuns \in Nat /\ lostRuns' \in Nat
  BY <1>1 DEF IInv, WorldInv
<1>6. WorldInv'
  BY <1>1, <1>5 DEF IInv, WorldInv
<1>7. ASSUME NEW a \in Asins
      PROVE  drafts'[a] + live'[a] <=
                forgotten'["crosslister"][a] + lostRuns' +
                (IF a \in seen'["crosslister"] \/ Pending(a)' THEN 1 ELSE 0)
  <2> DEFINE f == forgotten["crosslister"][a]
             x == IF a \in seen["crosslister"] \/ Pending(a) THEN 1 ELSE 0
             y == IF a \in seen'["crosslister"] \/ Pending(a)' THEN 1 ELSE 0
             c == IF work.called THEN 1 ELSE 0
  <2>1. /\ drafts[a] \in Nat /\ live[a] \in Nat /\ f \in Nat
    BY DEF IInv, WorldInv, SeenInv, Seers
  <2>2. drafts[a] + live[a] <= f + lostRuns + x
    BY DEF IInv, ListInv
  <2>3. x \in 0 .. 1 /\ y \in 0 .. 1 /\ c \in 0 .. 1
    OBVIOUS
  <2>4. seen' = seen /\ forgotten' = forgotten /\ drafts' = drafts /\ live' = live
    BY <1>1 DEF State
  <2>5. x = 1 => y = 1 \/ c = 1
    BY <2>4 DEF Pending
  <2>6. lostRuns' = lostRuns + c
    BY <1>1
  <2> HIDE DEF f, x, y, c
  <2>7. drafts[a] + live[a] <= f + lostRuns' + y
    BY <1>5, <2>1, <2>2, <2>3, <2>5, <2>6
  <2> QED
    BY <2>4, <2>7 DEF f, y
<1>8. ListInv'
  BY <1>7 DEF ListInv
<1> QED
  BY <1>4, <1>6, <1>8 DEF IInv

LEMMA MoveKeeps ==
    ASSUME IInv, Move
    PROVE  IInv'
<1>1. UNCHANGED <<runs, cur, work, drafts, live, lostRuns>> /\ UNCHANGED State
  BY DEF Move
<1>2. catalog' \in [Asins -> Situations] /\ stranded' \subseteq Asins
  BY DEF Move, IInv, WorldInv
<1>3. RunInv' /\ BatchInv' /\ ListInv' /\ LoadInv'
  BY <1>1 DEF IInv, RunInv, BatchInv, ListInv, LoadInv, Pending, Item, Unsettled, State
<1>4. WorldInv' /\ SeenInv' /\ PriceInv'
  BY <1>1, <1>2, StateKept DEF IInv, WorldInv
<1> QED
  BY <1>3, <1>4 DEF IInv

-----------------------------------------------------------------------------
(* The invariant, and what follows.                                        *)

LEMMA InitHolds == Init => IInv
<1> SUFFICES ASSUME Init
             PROVE  IInv
  OBVIOUS
<1>1. /\ runs = <<>> /\ events = <<>> /\ cur = 0 /\ work = NoWork /\ lostRuns = 0
      /\ catalog \in Catalogs /\ stranded = Asins
      /\ seen = [s \in Seers |-> {}]
      /\ surfaced = [s \in Seers |-> [a \in Asins |-> 0]]
      /\ forgotten = [s \in Seers |-> [a \in Asins |-> 0]]
      /\ drafts = [a \in Asins |-> 0] /\ live = [a \in Asins |-> 0]
      /\ lastPrices = [a \in Asins |-> Unknown] /\ observed = [a \in Asins |-> Unknown]
  BY DEF Init
<1>2. runs \in Seq(RunRow) /\ events \in Seq(EventRow) /\ Len(runs) = 0
  BY <1>1, EmptySeq
<1>3. RunInv
  BY <1>1, <1>2, NoWorkType DEF RunInv
<1>4. WorldInv
  BY <1>1, Known DEF WorldInv
<1>5. SeenInv
  BY <1>1, Bounds, FS_EmptySet DEF SeenInv
<1>6. PriceInv
  BY <1>1, <1>2 DEF PriceInv, Maybe
<1>7. BatchInv /\ LoadInv
  BY <1>1, NoWorkType DEF BatchInv, LoadInv
<1>8. ListInv
  BY <1>1, NoWorkType DEF ListInv, Pending, Seers
<1> QED
  BY <1>3, <1>4, <1>5, <1>6, <1>7, <1>8 DEF IInv

LEMMA ExecuteKeeps ==
    ASSUME IInv, Execute
    PROVE  IInv'
BY ScansKeep, ScoutKeeps, ScoutCutKeeps, PickKeeps, DetectKeeps, AdKeeps, CrossScanKeeps, CreateKeeps,
   PublishKeeps, CrossEmitKeeps, LoadKeeps, DecideKeeps, TellKeeps DEF Execute

LEMMA TakesKeep ==
    ASSUME IInv,
           \/ \E agent \in Seers \cup {"monitor", "analyst"} : Trigger(agent)
           \/ \E e \in DOMAIN events : Deliver(e)
           \/ \E r \in DOMAIN runs : Rerun(r)
    PROVE  IInv'
<1>1. ASSUME NEW agent \in Seers \cup {"monitor", "analyst"}, Trigger(agent)
      PROVE  IInv'
  <2>1. runs' = Append(runs, NewRun(agent, None)) /\ Take(Len(runs) + 1)
    BY <1>1 DEF Trigger
  <2>2. RunInv'
    BY <2>1, NewTaken DEF IInv
  <2> QED
    BY <2>1, <2>2, Taken
<1>2. ASSUME NEW e \in DOMAIN events, Deliver(e)
      PROVE  IInv'
  <2> DEFINE agent == Subscriber(events[e].kind)
             asin == events[e].asin
  <2>1. runs' = Append(runs, NewRun(agent, asin)) /\ Take(Len(runs) + 1)
    BY <1>2 DEF Deliver
  <2>2. events[e] \in EventRow
    BY LenProperties, ElementOfSeq DEF IInv, PriceInv
  <2>3. agent \in {"analyst", "executor"} /\ asin \in Asins
    BY <2>2 DEF Subscriber, EventRow
  <2> HIDE DEF agent, asin
  <2>4. RunInv'
    BY <2>1, <2>3, NewTaken DEF IInv
  <2> QED
    BY <2>1, <2>4, Taken
<1>3. ASSUME NEW r \in DOMAIN runs, Rerun(r)
      PROVE  IInv'
  <2>1. Take(r)
    BY <1>3 DEF Rerun
  <2>2. RunInv'
    BY <1>3, OldTaken DEF IInv
  <2> QED
    BY <2>1, <2>2, Taken
<1> QED
  BY <1>1, <1>2, <1>3

LEMMA StepKeeps == IInv /\ [Next]_vars => IInv'
<1> SUFFICES ASSUME IInv, [Next]_vars
             PROVE  IInv'
  OBVIOUS
<1>1. CASE UNCHANGED vars
  BY <1>1 DEF vars, IInv, RunInv, WorldInv, SeenInv, PriceInv, BatchInv, ListInv, LoadInv,
              Pending, Item, Unsettled
<1>2. CASE Next
  BY <1>2, TakesKeep, ExecuteKeeps, SettleKeeps, FaultKeeps, MoveKeeps DEF Next
<1> QED
  BY <1>1, <1>2

LEMMA Invariance == Spec => []IInv
<1>1. Init => IInv
  BY InitHolds
<1>2. IInv /\ [Next]_vars => IInv'
  BY StepKeeps
<1> QED
  BY <1>1, <1>2, PTL DEF Spec

\* Every variable has its type, and no list outgrows its cap.
THEOREM TypesHold == Spec => []TypeOK
<1>1. IInv => TypeOK
  <2> SUFFICES ASSUME IInv
               PROVE  TypeOK
    OBVIOUS
  <2>1. /\ DOMAIN runs = 1 .. Len(runs) /\ runs \in [1 .. Len(runs) -> RunRow]
        /\ DOMAIN events = 1 .. Len(events) /\ events \in [1 .. Len(events) -> EventRow]
    BY LenProperties DEF IInv, RunInv, PriceInv
  <2>2. \A r \in DOMAIN runs :
           /\ runs[r].state \in {"running", "awaiting", "completed", "failed", "stuck"}
           /\ runs[r].state = "running" <=> r = cur
    BY <2>1 DEF IInv, RunInv, RunRow
  <2>3. \A e \in DOMAIN events :
           events[e] \in [asin : Asins, kind : {"discovered", "anomaly", "confirmed"}]
    BY <2>1 DEF EventRow
  <2> QED
    BY <2>2, <2>3 DEF TypeOK, IInv, RunInv, WorldInv, SeenInv, PriceInv
<1> QED
  BY <1>1, Invariance, PTL

\* No scan reports a product again that its list still holds.
THEOREM SurfacedOnce == Spec => []SurfacedEarned
<1>1. IInv => SurfacedEarned
  <2> SUFFICES ASSUME IInv, NEW s \in Seers, NEW a \in Asins
               PROVE  surfaced[s][a] <= 1 + forgotten[s][a]
    BY DEF SurfacedEarned
  <2>1. /\ surfaced[s][a] \in Nat /\ forgotten[s][a] \in Nat
        /\ surfaced[s][a] <= forgotten[s][a] + (IF a \in seen[s] THEN 1 ELSE 0)
    BY DEF IInv, SeenInv
  <2> QED
    BY <2>1
<1> QED
  BY <1>1, Invariance, PTL

\* A product is listed once, and again only for a list that forgot it or a run
\* that died on it.
THEOREM ListedOnce == Spec => []ListedEarned
<1>1. IInv => ListedEarned
  <2> SUFFICES ASSUME IInv, NEW a \in Asins
               PROVE  drafts[a] + live[a] <= 1 + forgotten["crosslister"][a] + lostRuns
    BY DEF ListedEarned
  <2> DEFINE x == IF a \in seen["crosslister"] \/ Pending(a) THEN 1 ELSE 0
  <2>1. /\ drafts[a] \in Nat /\ live[a] \in Nat /\ forgotten["crosslister"][a] \in Nat
        /\ lostRuns \in Nat
    BY DEF IInv, WorldInv, SeenInv, Seers
  <2>2. drafts[a] + live[a] <= forgotten["crosslister"][a] + lostRuns + x /\ x \in 0 .. 1
    BY DEF IInv, ListInv
  <2> HIDE DEF x
  <2> QED
    BY <2>1, <2>2
<1> QED
  BY <1>1, Invariance, PTL

\* A run of the analyst settles its find at most once, and not when it asks.
THEOREM SettledOnce == Spec => []OneVerdict
<1>1. IInv => OneVerdict
  <2> SUFFICES ASSUME IInv, NEW r \in DOMAIN runs
               PROVE  /\ runs[r].verdicts <= 1
                      /\ runs[r].state \in {"awaiting", "failed"} => runs[r].verdicts = 0
    BY DEF OneVerdict
  <2>1. r \in 1 .. Len(runs)
    BY LenProperties DEF IInv, RunInv
  <2> QED
    BY <2>1 DEF IInv, RunInv, Unsettled
<1> QED
  BY <1>1, Invariance, PTL

\* The verdict under way is no better than that of a product at least as good
\* in every signal.
THEOREM BetterNotWorse == Spec => []BetterIsNotWorse
<1>1. IInv => BetterIsNotWorse
  <2> SUFFICES ASSUME IInv, cur # 0, runs[cur].agent = "analyst", DOMAIN work.rows # {},
                      NEW o \in Situations,
                      AtLeastAsGood(Looked(o), work.rows[runs[cur].asin]),
                      TotalCost(Looked(o), work.settings) > 0
               PROVE  Rank(Verdict(RiskTotal(Looked(o), work.settings.rate), Looked(o),
                                   work.settings)) >= Rank(Matrix)
    BY DEF BetterIsNotWorse
  <2> DEFINE q == Looked(o)
             p == work.rows[runs[cur].asin]
             s == work.settings
  <2>1. q \in Product
    BY Known DEF Looked, Product
  <2>2. /\ work \in WorkRow /\ DOMAIN work.rows = {runs[cur].asin}
        /\ work.risk = RiskTotal(p, s.rate)
    BY Current DEF IInv, LoadInv
  <2>3. p \in Product
    BY <2>2 DEF WorkRow, Viewed
  <2>4. s \in Settings /\ s.rate \in Int
    BY <2>2 DEF WorkRow, Settings
  <2>5. Matrix = Verdict(RiskTotal(p, s.rate), p, s)
    BY <2>2 DEF Matrix
  <2> HIDE DEF q, p, s
  <2>6. AtLeastAsGood(q, p) /\ TotalCost(q, s) > 0
    BY DEF q, p, s
  <2>7. Rank(Verdict(RiskTotal(q, s.rate), q, s)) >= Rank(Verdict(RiskTotal(p, s.rate), p, s))
    BY <2>1, <2>3, <2>4, <2>6, VerdictMonotone
  <2> QED
    BY <2>5, <2>7 DEF q, s
<1> QED
  BY <1>1, Invariance, PTL

\* A price that stands still has not moved by the threshold.
LEMMA NoJump ==
    ASSUME NEW p \in Maybe(Nat)
    PROVE  ~Jump(p, p)
<1>1. p \in Int /\ Threshold \in Int /\ Threshold > 0 /\ 100 * Larger(p - p, p - p) = 0
  BY Goals DEF Maybe, Unknown, Larger
<1>2. p > 0 => Threshold * p \in Int /\ Threshold * p > 0
  BY <1>1
<1> QED
  BY <1>1, <1>2 DEF Jump

\* A step announces an anomaly of the product a.
Flagged(a) ==
    \E e \in DOMAIN events' \ DOMAIN events :
        events'[e] = [asin |-> a, kind |-> "anomaly"]

\* A step that observes no price and announces no anomaly.
LEMMA Quiet ==
    ASSUME IInv, observed' = observed,
           \A e \in DOMAIN events' \ DOMAIN events : events'[e].kind # "anomaly"
    PROVE  \A a \in Asins : ~Jump(observed[a], observed'[a]) /\ ~Flagged(a)
<1> TAKE a \in Asins
<1>1. ~Jump(observed[a], observed'[a])
  BY NoJump DEF IInv, PriceInv
<1>2. ~Flagged(a)
  BY DEF Flagged
<1> QED
  BY <1>1, <1>2

\* The monitor announces nothing but what has jumped since it last observed it,
\* and all of it unless its run is recorded as failed.
LEMMA DetectFlags ==
    ASSUME IInv, MonitorDetect \/ MonitorCut
    PROVE  \A a \in Asins :
              /\ Flagged(a) => Jump(observed[a], observed'[a])
              /\ Jump(observed[a], observed'[a]) =>
                    Flagged(a) \/ (cur # 0 /\ runs'[cur].state = "failed")
<1>1. PICK found \in Found, E \in SUBSET Asins :
          /\ Observe(found) /\ Announce(E, "anomaly") /\ E \subseteq Anomalies(found)
          /\ E # Anomalies(found) => runs'[cur].state = "failed"
  BY MonitorCommits
<1>2. cur # 0
  BY MonitorCommits
<1>3. ASSUME NEW a \in Asins
      PROVE  Jump(observed[a], observed'[a]) <=> a \in Anomalies(found)
  <2>1. observed[a] = lastPrices[a] /\ observed[a] \in Maybe(Nat)
    BY DEF IInv, PriceInv
  <2>2. CASE a \in DOMAIN found
    BY <1>1, <2>1, <2>2 DEF Observe, Anomalies
  <2>3. CASE a \notin DOMAIN found
    BY <1>1, <2>1, <2>3, NoJump DEF Observe, Anomalies
  <2> QED
    BY <2>2, <2>3
<1>4. \A a \in Asins : Flagged(a) <=> a \in E
  BY <1>1, Announced DEF IInv, PriceInv, Flagged
<1> QED
  BY <1>1, <1>2, <1>3, <1>4

\* Every other step is quiet.
LEMMA OthersQuiet ==
    ASSUME IInv, Next, ~MonitorDetect, ~MonitorCut
    PROVE  /\ observed' = observed
           /\ \A e \in DOMAIN events' \ DOMAIN events : events'[e].kind # "anomaly"
<1>1. CASE ScoutEmit \/ ScoutCut
  <2>1. cur # 0
    BY <1>1 DEF ScoutEmit, ScoutCut, Node
  <2>2. work \in WorkRow
    BY <2>1, Current DEF IInv
  <2>3. CASE UNCHANGED State
    BY <2>3 DEF State
  <2>4. ASSUME NEW S \in SUBSET (Fresh \ Wild), Announce(S, "discovered"),
               UNCHANGED <<lastPrices, observed>>
        PROVE  /\ observed' = observed
               /\ \A e \in DOMAIN events' \ DOMAIN events : events'[e].kind # "anomaly"
    <3>1. S \in SUBSET Asins
      BY <2>2 DEF Fresh, WorkRow, Viewed
    <3>2. \A e \in DOMAIN events' \ DOMAIN events : events'[e].kind = "discovered"
      BY <2>4, <3>1, Announced DEF IInv, PriceInv
    <3> QED
      BY <2>4, <3>2
  <2>5. CASE ScoutCut
    BY <2>4, <2>5 DEF ScoutCut
  <2>6. CASE ScoutEmit
    BY <2>3, <2>4, <2>6 DEF ScoutEmit
  <2> QED
    BY <1>1, <2>5, <2>6
<1>2. CASE AnalystDecide
  <2>1. observed' = observed /\ events \in Seq(EventRow)
    BY <1>2 DEF AnalystDecide, IInv, PriceInv
  <2> DEFINE e == [asin |-> runs[cur].asin, kind |-> "confirmed"]
  <2>2. events' = Append(events, e) \/ events' = events
    BY <1>2 DEF AnalystDecide
  <2>3. CASE events' = Append(events, e)
    <3> DEFINE T == EventRow \cup {e}
    <3>1. events \in Seq(T) /\ e \in T
      BY <2>1, SeqMonotonic
    <3>2. e.kind = "confirmed"
      OBVIOUS
    <3> HIDE DEF e, T
    <3>3. /\ events' \in Seq(T) /\ Len(events') = Len(events) + 1
          /\ events'[Len(events) + 1] = e
      BY <2>3, <3>1, AppendProperties
    <3>4. /\ DOMAIN events' = 1 .. Len(events) + 1 /\ DOMAIN events = 1 .. Len(events)
          /\ Len(events) \in Nat
      BY <3>1, <3>3, LenProperties
    <3> QED
      BY <2>1, <3>2, <3>3, <3>4
  <2> QED
    BY <2>1, <2>2, <2>3
<1>3. CASE ~ScoutEmit /\ ~ScoutCut /\ ~AnalystDecide
  <2>1. observed' = observed /\ events' = events
    BY <1>3 DEF Next, Execute, Trigger, Deliver, Rerun, Settle, Fault, Move, Take, GoOn, State,
                ScoutScan, MonitorPick, AdScan, AdEmit, CrossScan, CreateDraft, Publish,
                CrossEmit, AnalystLoad, ExecutorTell
  <2> QED
    BY <2>1
<1> QED
  BY <1>1, <1>2, <1>3

\* Nothing is announced that has not moved by the threshold since the last
\* committed observation, and whatever has is, by a run that did not fail.
THEOREM JumpsFlagged == Spec => JumpFlagged
<1>1. IInv /\ [Next]_vars =>
        [\A a \in Asins :
          LET flagged == \E e \in DOMAIN events' \ DOMAIN events :
                            events'[e] = [asin |-> a, kind |-> "anomaly"]
          IN /\ flagged => Jump(observed[a], observed'[a])
             /\ Jump(observed[a], observed'[a]) =>
                   flagged \/ (cur # 0 /\ runs'[cur].state = "failed")]_vars
  <2> SUFFICES ASSUME IInv, Next
               PROVE  \A a \in Asins :
                        /\ Flagged(a) => Jump(observed[a], observed'[a])
                        /\ Jump(observed[a], observed'[a]) =>
                              Flagged(a) \/ (cur # 0 /\ runs'[cur].state = "failed")
    BY DEF Flagged
  <2> QED
    BY Quiet, DetectFlags, OthersQuiet
<1> QED
  BY <1>1, Invariance, PTL DEF Spec, JumpFlagged

=============================================================================
