SPECIFICATION Spec
CONSTANTS
    SlotCount = 2
    IdMod = 5
    Period = 2
    Data <- MCData
    Weekly <- MCWeekly
    Horizon = 2
    MaxBack = 1
    MaxFaults = 1
INVARIANTS
    TypeOK
    DistinctIds
    SavedMatchesRam
PROPERTIES
    RunsOncePerMinute
    OneShotNeverRepeats
