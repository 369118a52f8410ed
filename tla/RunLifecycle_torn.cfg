SPECIFICATION Spec
CONSTANTS
    a1 = a1
    d1 = d1
    k1 = k1
    p1 = p1
    MaxRuns = 2
    Agents = {a1}
    Modes <- OneMode
    Priorities <- Routine
    Approvals = {p1}
    MaxAsk = 1
    MayExpire <- Either
    Deciders = {d1}
    EventKeys = {k1}
    Faults <- HalfApplied
INVARIANT StateAndEventsAtomic
CHECK_DEADLOCK FALSE
