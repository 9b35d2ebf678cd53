CONSTANTS
    pa = pa
    pb = pb
    a1 = a1
    a2 = a2
    b1 = b1
    read = read
    write = write
    Proc = {pa, pb}
    Thread = {a1, a2, b1}
    Owner <- MCOwner
    MayExit = {a1, a2, b1}
    PidReuse = TRUE
    Nr = {read, write}
    StatsCap = 1
    NrCap = 1
    Modulus = 16
    MaxCalls = 2
SPECIFICATION Spec
INVARIANTS
    RatesTrueIfOrderly
    NothingLost
    LossIsBounded
SYMMETRY MCSymmetry
CHECK_DEADLOCK FALSE
