SPECIFICATION Spec
CONSTANTS
    MaxTxs = 2
    MaxHeight = 2
    MaxBlocks = 2
    Funds = 1
    PageSize = 2
    Features = {"rescan"}
INVARIANT NoSharedInput
CHECK_DEADLOCK FALSE
