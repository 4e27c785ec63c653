SPECIFICATION Spec
CONSTANTS
    MaxTxs = 1
    MaxHeight = 3
    MaxBlocks = 4
    Funds = 1
    PageSize = 2
    Features = {"reorg", "reconcile"}
INVARIANT ConfirmedAtTipIsOnChain
CHECK_DEADLOCK FALSE
