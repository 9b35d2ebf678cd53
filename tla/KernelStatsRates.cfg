CONSTANTS
    pa = pa
    pb = pb
    a1 = a1
    a2 = a2
    b1 = b1
    read = read
    write = write
    Proc = {pa, pb}
    Thread = {a1, a2, b1}
    Owner <- MCOwner
    MayExit = {a1}
    PidReuse = FALSE
    Nr = {read}
    StatsCap = 2
    NrCap = 1
    Modulus = 16
    MaxCalls = 3
SPECIFICATION Spec
INVARIANT RatesTrue
CHECK_DEADLOCK FALSE
