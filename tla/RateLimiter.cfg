CONSTANTS
    Key = {k1, k2}
    Caller = {c1, c2}
    Cost = 2
    Burst = 3
    GcEvery = 1
    GcIdle = 5
    MaxLag = 1
    MaxTime = 8
    MaxCalls = 6
    Absent = Absent
SPECIFICATION LimiterSpec
INVARIANTS
    WindowBound
    DenialJustified
CHECK_DEADLOCK FALSE
