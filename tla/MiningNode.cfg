SPECIFICATION FairSpec
CONSTANTS
    Threads = {t1, t2}
    MaxHeight = 1
INVARIANTS
    NodeGone
    WinnerOfRound
PROPERTY
    StopsReturn
