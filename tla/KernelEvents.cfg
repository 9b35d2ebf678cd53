CONSTANTS
    Thread = {t1, t2}
    Arg = {x, y}
    None = None
    RingCap = 2
    MaxCalls = 3
SPECIFICATION Spec
SYMMETRY Symmetric
INVARIANTS
    EventsTrueUnlessLeft
    FlowsAreReal
    ErrorsAreReal
    EntriesAreCurrent
CHECK_DEADLOCK FALSE
