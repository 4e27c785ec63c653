\* Three releases, three sequences.
SPECIFICATION ManagedSpec
CONSTANTS
    MaxRevision = 3
    MaxSequence = 3
INVARIANTS
    AcceptedIsProven
    RunsThePointer
PROPERTIES
    AcceptedAdvances
