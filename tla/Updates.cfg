\* Two concurrent update tasks and three releases.
SPECIFICATION UpdateFairSpec
CONSTANTS
    Tasks = {t1, t2}
    MaxVersion = 3
PROPERTIES
    OnlyValidatedIsInstalled
    FlagIsReleased
