SPECIFICATION ScanFairSpec
CONSTANTS
    Branches = 2
    MaxChain = 2
    MaxMoves = 0
    MaxBadAnswers = 1
    MaxRescans = 0
    PageSize = 2
    ReorgDepth = 2
    WindowSize = 2
PROPERTY WrongSourceStops
