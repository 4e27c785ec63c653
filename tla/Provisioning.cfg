SPECIFICATION ProvisioningSpec
CONSTANTS
    Names = {n1}
    Seeds = {s1, s2}
    MaxBlocks = 3
INVARIANTS AtomicActivation StagedIsComplete
PROPERTIES WalletKept
