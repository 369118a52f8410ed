SPECIFICATION Spec
CONSTANTS
    Studios = {"amz", "app"}
    Processes = {p1, p2}
    Scheduled <- MCScheduled
    Triggered <- MCTriggered
    Apps = {"a", "b"}
    Metrics <- MCMetrics
    Named <- MCNamed
    Titles = {"t"}
    MaxTasks = 2
    MaxDay = 2
    MaxRuns = 3
    MaxManual = 1
    MaxFaults = 1
SYMMETRY Sym
INVARIANTS
    TypeOK
    OnePlaybook
    TasksReach
    RecommendedOnce
    FiredOnce
CHECK_DEADLOCK FALSE
