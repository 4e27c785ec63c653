SPECIFICATION Spec
CONSTANTS
    Sessions = {s1, s2, s3}
    Traded = s1
    Routes <- MCRoutes
    Solvers <- MCSolvers
    Quotes <- MCQuotes
    QuoteDeadlines = {1}
    Deadlines = {1}
    MaxSwapSessions = 3
    MaxLegIndex = 5
    GapLimit = 1
    MaxFaults = 0
    MaxRestores = 1
    MaxSequence = 4
    MaxFrames = 1
    MaxRefusals = 0
INVARIANT PhraseFindsLegs
