---------------------------- MODULE MCGovernance ----------------------------
(***************************************************************************)
(* Small instances of Governance.                                          *)
(***************************************************************************)
EXTENDS Governance

CONSTANTS a1, a2, acme, o1, o2

Set(o, s, p, l) == [by |-> o, scope |-> s, period |-> p, limit |-> l]

\* Months of two days.
Pairs(d) == (d \div 2) * 2

\* A daily limit of one agent, which two operators set and one raises, and a
\* monthly one of the studio, which the other agent charges too.
DayAndMonth ==
    {Set(o1, {a1}, "day", 1), Set(o2, {a1}, "day", 0), Set(o1, {acme}, "month", 1)}
=============================================================================
