SPECIFICATION FairSpec
CONSTANTS
    Listings <- MCListings
    Aging <- MCAging
    Old <- MCOld
    Floor = 1
    Top = 2
    ScanLimit = 1
    Cap = 2
    Wait = 1
    Day = 2
    Never = Never
    Offers <- MCOffers
    Repricers <- MCRepricers
    MaxTime = 2
    MaxRuns = 3
    MaxMoves = 2
INVARIANTS
    TypeOK
    CapKept
    OneCallPerRun
PROPERTIES
    WaitKept
    GrantedActs
CHECK_DEADLOCK FALSE
