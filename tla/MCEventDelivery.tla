--------------------------- MODULE MCEventDelivery ---------------------------
(***************************************************************************)
(* Small instances of EventDelivery.                                       *)
(***************************************************************************)
EXTENDS EventDelivery

CONSTANTS g1, g2

\* Every group wants every event.
All == Groups \X Events

\* The process stays up.
Undisturbed == AllFaults \ {"crash"}

AnyFault == AllFaults
=============================================================================
