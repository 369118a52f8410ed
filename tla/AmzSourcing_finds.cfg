SPECIFICATION Spec
CONSTANTS
    Asins <- MCAsins
    Situations <- MCSituations
    Catalogs <- MCCatalogs
    ScanLimit = 2
    SeenCap = 1
    BatchMax = 1
    Threshold = 2
    Aggressive = 100
    Marginal = 40
    Rates = {36}
    MaxExecs = 3
    MaxMoves = 1
    MaxFaults = 1
INVARIANTS
    TypeOK
    SurfacedEarned
    ListedEarned
    OneVerdict
    BetterIsNotWorse
PROPERTIES
    JumpFlagged
CHECK_DEADLOCK FALSE
