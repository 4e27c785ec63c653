SPECIFICATION ScanSpec
CONSTANTS
    Branches = 2
    MaxChain = 3
    MaxMoves = 2
    MaxBadAnswers = 0
    MaxRescans = 0
    PageSize = 2
    ReorgDepth = 2
    WindowSize = 3
INVARIANT StopsOnlyForGood
