CONSTANTS
    Socket = {1, 2}
    MaxMounts = 1
    MaxFrame = 3
    EventFrames = {2}
    Interval = {2}
    MaxEvents = 1
SPECIFICATION FeedSpec
INVARIANTS
    OneConnection
    StatusTrue
PROPERTIES
    NeverBackwards
    Reconnects
    CatchesUp
CHECK_DEADLOCK FALSE
