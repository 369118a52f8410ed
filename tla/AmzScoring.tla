----------------------------- MODULE AmzScoring -----------------------------
(***************************************************************************)
(* The arithmetic of the AMZ studio: amz_analyst_scoring's profit, risk    *)
(* and verdict, amz_admanager's budget tiers.                              *)
(* Money is in whole dollars (tr in liras), ratings in tenths of a star,   *)
(* rates in percent; the code's floats round later and less.               *)
(***************************************************************************)
EXTENDS Integers

\* A column that is NULL.
Unknown == -1

Maybe(S) == S \cup {Unknown}

\* A row of pricefinder.db.lookup_asins: the signals of the scoring, and the
\* calculator's return and profit.
Product == [price : Maybe(Nat), tr : Maybe(Nat), fees : Nat, weight : Nat,
            offers : Nat, sold : Maybe(Nat), rating : Maybe(Nat), reviews : Nat,
            category : {"gated", "none", "other"}, roi : Int, profit : Int]

\* global_settings: liras per dollar, customs in percent, shipping flat and
\* per kilogram.
Settings == [rate : Nat \ {0}, customs : Nat, flat : Nat, perKg : Nat]

\* compute_profit's defaults, when the settings could not be read.
Defaults == [rate |-> 30, customs |-> 40, flat |-> 6, perKg |-> 6]

Larger(a, b) == IF a >= b THEN a ELSE b

-----------------------------------------------------------------------------
(* compute_profit                                                          *)

Priced(p) == p.price # Unknown /\ p.tr # Unknown

TrUsd(p, s) == p.tr \div s.rate

Shipping(p, s) == Larger(s.flat, (p.weight * s.perKg) \div 1000)

TotalCost(p, s) ==
    TrUsd(p, s) + (TrUsd(p, s) * s.customs) \div 100 + Shipping(p, s) + p.fees

NetProfit(p, s) == p.price - TotalCost(p, s)

\* roi_pct > x; an unknown ROI counts as 0.
RoiAbove(p, s, x) ==
    /\ Priced(p) /\ TotalCost(p, s) > 0
    /\ 100 * NetProfit(p, s) > x * TotalCost(p, s)

-----------------------------------------------------------------------------
(* compute_risk: five dimensions, 1 (good) to 5.                           *)

PriceRisk(p) ==
    CASE p.offers >= 15 -> 5
      [] p.offers \in 10 .. 14 -> 4
      [] p.offers \in 7 .. 9 -> 3
      [] p.offers \in 3 .. 6 -> 2
      [] OTHER -> 1

\* Mutant: two tiers of the cascade swapped.
DemandRisk_Swapped(p) ==
    CASE p.sold = Unknown -> 3
      [] p.sold \in 0 .. 9 -> 5
      [] p.sold \in 10 .. 19 -> 4
      [] p.sold \in 20 .. 49 -> 2
      [] p.sold \in 50 .. 99 -> 3
      [] OTHER -> 1

DemandRisk(p) ==
    CASE p.sold = Unknown -> 3
      [] p.sold \in 0 .. 9 -> 5
      [] p.sold \in 10 .. 19 -> 4
      [] p.sold \in 20 .. 49 -> 3
      [] p.sold \in 50 .. 99 -> 2
      [] OTHER -> 1

\* The rate is Unknown when the settings could not be read.
FxRisk(rate) ==
    CASE rate <= 0 -> 3
      [] rate \in 1 .. 29 -> 2
      [] rate \in 30 .. 32 -> 3
      [] rate \in 33 .. 35 -> 4
      [] OTHER -> 5

CategoryRisk(p) ==
    CASE p.category = "gated" -> 4
      [] p.category = "none"  -> 2
      [] OTHER -> 1

QualityRisk(p) ==
    IF (p.rating # Unknown /\ p.rating < 35) \/ p.reviews < 10 THEN 5
    ELSE IF (p.rating # Unknown /\ p.rating < 40) \/ p.reviews < 30 THEN 3
    ELSE 1

RiskTotal(p, rate) ==
    PriceRisk(p) + DemandRisk(p) + FxRisk(rate) + CategoryRisk(p) + QualityRisk(p)

-----------------------------------------------------------------------------
(* decide, and what the analyst makes of it.                               *)

Sold(p) == IF p.sold = Unknown THEN 0 ELSE p.sold

\* From good to bad.
Verdict(risk, p, s) ==
    IF risk < 10 /\ RoiAbove(p, s, 40) /\ Sold(p) > 50 THEN "GUCLU_AL"
    ELSE IF risk < 15 /\ RoiAbove(p, s, 30) /\ Sold(p) > 30 THEN "AL"
    ELSE IF risk < 15 /\ RoiAbove(p, s, 20) THEN "IZLE"
    ELSE "GEC"

Rank(verdict) ==
    CASE verdict = "GUCLU_AL" -> 3
      [] verdict = "AL" -> 2
      [] verdict = "IZLE" -> 1
      [] OTHER -> 0

\* VERDICT_TO_ANALYST
ToAnalyst(verdict) ==
    CASE verdict \in {"GUCLU_AL", "AL"} -> "accept"
      [] verdict = "IZLE" -> "uncertain"
      [] OTHER -> "reject"

\* verdict_confidence, as "at least one half or not".
Confident(verdict, risk) ==
    \/ verdict \in {"GUCLU_AL", "AL"}
    \/ verdict = "GEC" /\ 4 * risk <= 50

\* One product is at least as good as another in every signal.
AtLeastAsGood(q, p) ==
    /\ q.price >= p.price /\ Priced(q) /\ Priced(p) /\ q.tr <= p.tr
    /\ q.fees <= p.fees /\ q.weight <= p.weight /\ q.offers <= p.offers
    /\ p.sold # Unknown /\ q.sold >= p.sold
    /\ p.rating # Unknown /\ q.rating >= p.rating
    /\ q.reviews >= p.reviews
    /\ CategoryRisk(q) <= CategoryRisk(p)

-----------------------------------------------------------------------------
(* classify_budget_tier: "none" below 50 a month, the rest by rating.      *)

Tier(p) ==
    LET rating == IF p.rating = Unknown THEN 0 ELSE p.rating
    IN CASE Sold(p) > 200 /\ rating > 40 -> "high"
         [] Sold(p) \in 50 .. 200 /\ rating > 35 -> "medium"
         [] Sold(p) < 50 -> "none"
         [] OTHER -> "low"

=============================================================================
