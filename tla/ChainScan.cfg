SPECIFICATION ScanFairSpec
CONSTANTS
    Branches = 2
    MaxChain = 3
    MaxMoves = 3
    MaxBadAnswers = 1
    MaxRescans = 1
    PageSize = 2
    ReorgDepth = 2
    WindowSize = 2
INVARIANTS
    ScannedIsAChain
    ScannedIsReal
PROPERTIES
    ReachesTip
