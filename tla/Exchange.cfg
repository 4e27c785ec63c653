SPECIFICATION SlateSpec
CONSTANTS
    Slates = {s1, s2}
    MaxCoordinate = 2
    Parts = {0, 1}
    Expiring = {s2}
    Scanned = {s1}
INVARIANTS
    OneTransaction
    ResponsesBacked
    OnlyWholeTexts
CHECK_DEADLOCK FALSE
