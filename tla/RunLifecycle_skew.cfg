SPECIFICATION Spec
CONSTANTS
    a1 = a1
    d1 = d1
    d2 = d2
    k1 = k1
    p1 = p1
    p2 = p2
    MaxRuns = 1
    Agents = {a1}
    Modes <- OneMode
    Priorities <- Routine
    Approvals = {p1, p2}
    MaxAsk = 2
    MayExpire <- Never
    Deciders = {d1, d2}
    EventKeys = {k1}
    Faults <- NoFault
INVARIANT NoLostWakeup
CHECK_DEADLOCK FALSE
