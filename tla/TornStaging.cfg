SPECIFICATION Spec
CONSTANTS
    Updates = {u1}
    MaxGeneration = 2
    MaxAttempts = 2
    MaxFaults = 2
INVARIANT IncompleteStagingIgnored
