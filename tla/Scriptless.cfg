CONSTANTS
    Inputs = {i1}
    Payers = {s1}
    Claimers = {s1}
    Refunders = {}
    Offsets = {o1, o2}
    Shares = {r1, r2}
    Templates = {t1, t2}
    None = None
    MaxHeight = 3
    MaxReorgs = 1
    Chained = FALSE
SPECIFICATION Spec
SYMMETRY Names
INVARIANTS
    RetainedInputsHeld
    OneComposition
    BatchesCommit
CHECK_DEADLOCK FALSE
