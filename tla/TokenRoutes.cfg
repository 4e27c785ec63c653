SPECIFICATION Spec
CONSTANTS
    Sessions = {s1, s2}
    Traded = s1
    Routes <- TokenRoutes
    Solvers <- MCSolvers
    Quotes <- MCQuotes
    QuoteDeadlines = {1}
    Deadlines = {1}
    MaxSwapSessions = 2
    MaxLegIndex = 2
    GapLimit = 1
    MaxFaults = 1
    MaxRestores = 1
    MaxSequence = 4
    MaxFrames = 1
    MaxRefusals = 1
INVARIANT RouteIsQuotable
