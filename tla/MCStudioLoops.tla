--------------------------- MODULE MCStudioLoops ----------------------------
(* An instance of StudioLoops for TLC.                                      *)
EXTENDS StudioLoops, TLC

MCScheduled == {"ceo", "reflector"}

MCTriggered == {"reflector", "growth-intel", "qa", "analyst-daily",
                "marketing"}

MCNamed == {"growth-exec", "hub-dev", "scout"}

MCMetrics == {"roi"}

Sym == Permutations(Processes)

=============================================================================
