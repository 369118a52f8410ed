SPECIFICATION Spec
CONSTANTS
    a1 = a1
    a2 = a2
    acme = acme
    o1 = o1
    o2 = o2
    Agents = {a1, a2}
    Studio = acme
    Operators = {o1, o2}
    Settings <- DayAndMonth
    Costs = {0, 2}
    MaxRuns = 2
    MaxCalls = 1
    MaxDay = 1
    MonthStart <- Pairs
    TopLimit = 1
    TopCost = 2
CHECK_DEADLOCK FALSE
INVARIANTS TypeOK OverspendBounded BooksMatchLedger
