SPECIFICATION FairSpec
CONSTANTS
    g1 = g1
    g2 = g2
    MaxEvents = 1
    Groups = {g1, g2}
    Wants <- All
    BatchLimit = 1
    FetchLimit = 1
    MaxAttempts = 2
    Backend = "redis"
    Faults <- AnyFault
    MaxFaults = 2
CHECK_DEADLOCK FALSE
INVARIANTS TypeOK Accounted DuplicatesEarned
PROPERTY EventuallyHandled
