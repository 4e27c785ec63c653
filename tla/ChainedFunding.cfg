CONSTANTS
    Inputs = {i1}
    Payers = {s1, s2}
    Claimers = {}
    Refunders = {}
    Offsets = {o1, o2}
    Shares = {r1, r2}
    Templates = {t1, t2}
    None = None
    MaxHeight = 3
    MaxReorgs = 1
    Chained = TRUE
SPECIFICATION Spec
SYMMETRY Names
CHECK_DEADLOCK FALSE
INVARIANT BatchesCommit
