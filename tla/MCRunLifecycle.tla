--------------------------- MODULE MCRunLifecycle ---------------------------
(***************************************************************************)
(* Small instances of RunLifecycle: every constant a configuration cannot  *)
(* write as a model value is named here.                                   *)
(***************************************************************************)
EXTENDS RunLifecycle

OneMode     == {"normal"}
NormalOrDegraded == {"normal", "degraded"}

Routine     == {50}
HighAndLow  == {HighPriority, 50}

Either      == BOOLEAN
Always      == {TRUE}
Never       == {FALSE}

NoFault     == {}
HalfApplied == {"bad_event", "late_timeout"}
EveryFault  == AllFaults
=============================================================================
