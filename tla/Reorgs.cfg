SPECIFICATION Spec
CONSTANTS
    MaxTxs = 1
    MaxHeight = 3
    MaxBlocks = 4
    Funds = 1
    PageSize = 2
    Features = {"reorg", "rescan"}
INVARIANTS
    ProjectionFaithful
    OnChainIsSettled
    ConfirmedInScannedBlock
PROPERTIES
    SyncCatchesUp
CHECK_DEADLOCK FALSE
