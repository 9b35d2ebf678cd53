CONSTANTS
    Client = {c1, c2}
    Max = 1
    BroadcastCap = 1
    SendCap = 1
    MaxFrames = 1
    Starve = FALSE
SPECIFICATION FairSpec
INVARIANT
    Admission
PROPERTIES
    WindsUp
    FramesArrive
CHECK_DEADLOCK FALSE
