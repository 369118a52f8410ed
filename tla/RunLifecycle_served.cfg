SPECIFICATION FairSpec
CONSTANTS
    a1 = a1
    a2 = a2
    d1 = d1
    p1 = p1
    MaxRuns = 2
    Agents = {a1, a2}
    Modes <- NormalOrDegraded
    Priorities <- HighAndLow
    Approvals = {p1}
    MaxAsk = 1
    MayExpire <- Always
    Deciders = {d1}
    EventKeys = {}
    Faults <- NoFault
PROPERTY HighRunsEnd
PROPERTY EveryRunEnds
CHECK_DEADLOCK FALSE
