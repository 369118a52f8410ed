SPECIFICATION Spec
CONSTANTS
    a1 = a1
    d1 = d1
    k1 = k1
    p1 = p1
    p2 = p2
    MaxRuns = 2
    Agents = {a1}
    Modes <- OneMode
    Priorities <- Routine
    Approvals = {p1, p2}
    MaxAsk = 2
    MayExpire <- Either
    Deciders = {d1}
    EventKeys = {k1}
    Faults <- EveryFault
INVARIANT TypeOK
INVARIANT SettledBeforeRequeue
INVARIANT NoLostWakeup
INVARIANT HoldInv
INVARIANT TornIsMarked
PROPERTY KeepsContract
CHECK_DEADLOCK FALSE
