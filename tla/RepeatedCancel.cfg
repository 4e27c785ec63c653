SPECIFICATION Spec
CONSTANTS
    MaxTxs = 2
    MaxHeight = 2
    MaxBlocks = 2
    Funds = 1
    PageSize = 2
    Features = {"recancel"}
INVARIANT InputsHeld
CHECK_DEADLOCK FALSE
