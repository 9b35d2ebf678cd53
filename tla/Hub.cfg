CONSTANTS
    Client = {c1, c2}
    Max = 2
    BroadcastCap = 1
    SendCap = 1
    MaxFrames = 3
    Starve = TRUE
SPECIFICATION Spec
INVARIANTS
    NoPanic
    KeepsUp
PROPERTY
    ImplementsFanOut
CHECK_DEADLOCK FALSE
