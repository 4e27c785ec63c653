SPECIFICATION Spec
CONSTANTS
    MaxTxs = 2
    MaxHeight = 2
    MaxBlocks = 2
    Funds = 2
    PageSize = 1
    Features = {"reconcile", "export"}
INVARIANTS
    HandedIsExposed
    CancelledNeverHanded
    InputsHeld
PROPERTIES
    ExposureMonotone
CHECK_DEADLOCK FALSE
