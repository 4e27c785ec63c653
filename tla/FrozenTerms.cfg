SPECIFICATION Spec
CONSTANTS
    Sessions = {s1}
    Traded = s1
    Routes <- MCRoutes
    Solvers <- MCSolvers
    Quotes <- MCQuotes
    QuoteDeadlines = {1}
    Deadlines = {1, 2}
    MaxSwapSessions = 2
    MaxLegIndex = 2
    GapLimit = 1
    MaxFaults = 0
    MaxRestores = 0
    MaxSequence = 4
    MaxFrames = 1
    MaxRefusals = 0
INVARIANT TermsAreFrozen
