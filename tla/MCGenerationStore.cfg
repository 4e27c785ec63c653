SPECIFICATION Spec
CONSTANTS
    Updates = {u1, u2}
    MaxGeneration = 3
    MaxAttempts = 2
    MaxFaults = 2
INVARIANTS
    AlwaysLoadable
    AckedIsDurable
PROPERTIES
    PublishedImmutable
    AtomicCommits
    StaleSyncCommits
