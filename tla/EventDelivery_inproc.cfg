SPECIFICATION Spec
CONSTANTS
    g1 = g1
    g2 = g2
    MaxEvents = 3
    Groups = {g1}
    Wants <- All
    BatchLimit = 2
    FetchLimit = 2
    MaxAttempts = 1
    Backend = "inproc"
    Faults <- Undisturbed
    MaxFaults = 3
CHECK_DEADLOCK FALSE
INVARIANTS Accounted DeadLetterEarned RetriesBounded
