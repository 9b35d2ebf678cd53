CONSTANTS
    MaxSnaps = 2
    MaxEvents = 2
    SnapCap = 1
    EventCap = 1
    QueueCap = 1
    SeriesCap = 1
    TimelineCap = 1
SPECIFICATION FairSpec
INVARIANTS
    FramesAgree
    LatestCoversSent
    NoLateWrite
PROPERTIES
    DiskNeverBlocks
    AllIsBroadcast
    Terminates
CHECK_DEADLOCK FALSE
