---------------------------- MODULE MCAmzPricing ----------------------------
(* An instance of AmzPricing for TLC: one fresh listing, one old one.      *)
EXTENDS AmzPricing

MCListings == {"fresh", "old"}
MCAging == {"old"}
MCOld == {"old"}
MCRepricers == {1}

\* Alone with the buy box; lost to a cheaper seller among many.
MCOffers == { [rival |-> 0, held |-> TRUE, comp |-> "few"],
              [rival |-> 1, held |-> FALSE, comp |-> "many"] }

=============================================================================
