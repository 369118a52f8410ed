--------------------------- MODULE MCAmzSourcing ----------------------------
(* An instance of AmzSourcing for TLC: two products, three situations.      *)
EXTENDS AmzSourcing

MCAsins == {"a", "b"}

Good == [price |-> 100, tr |-> 900, fees |-> 10, weight |-> 500, offers |-> 12,
         sold |-> 60, rating |-> 45, reviews |-> 80, category |-> "other",
         roi |-> 60, profit |-> 40]

\* The calculator's return calls for the CEO.
Wildly == [Good EXCEPT !.roi = 150, !.sold = 30, !.price = 99]

\* Too heavy for its return, and its price has jumped.
Heavy == [Good EXCEPT !.weight = 3000, !.roi = 30, !.price = 110, !.sold = 40]

MCSituations == {Good, Wildly, Heavy}

MCCatalogs == { ("a" :> Good) @@ ("b" :> o) : o \in {Wildly, Heavy} }

=============================================================================
