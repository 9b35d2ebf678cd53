CONSTANTS
    Pid = {p1, p2}
    Target = p1
    MinGap = 1
    MaxRun = 2
    MaxTime = 3
    Modulus = 16
    None = None
SPECIFICATION SamplingSpec
INVARIANTS
    CpuNeverInvented
    AgentIoNeverInvented
CHECK_DEADLOCK FALSE
