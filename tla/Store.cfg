CONSTANTS
    MaxStoredSnapshots = 1
    MaxStoredEvents = 3
    HistoryMax = 1
    EventsMax = 1
    HistoryDefault = 1
    PruneEvery = 2
    Gap = 1
    MaxTies = 2
    MaxClock = 4
    MaxRows = 6
    MaxLapses = 1
SPECIFICATION StoreSpec
INVARIANTS
    HistoryComplete
    EventsComplete
    Spaced
    GrowthIsBounded
CHECK_DEADLOCK FALSE
