SPECIFICATION ProvisioningSpec
CONSTANTS
    Names = {n1}
    Seeds = {s1}
    MaxBlocks = 1
INVARIANTS InterruptedCreateRecoverable
