CONSTANTS
    None = None
    Inside <- MCInside
    Query = {"node", "12", "ghost"}
    TypedPid = {12}
    MaxShown = 2
    Question <- MCQuestion
    ChartType = {"line"}
    MaxHistory = 1
    World <- MCWorld
    HostNet <- MCHostNet
    InitialTarget <- MCInitialTarget
    MaxGestures = 3
SPECIFICATION DashSpec
INVARIANTS
    ChoiceStands
    
    Alternates
    HelpOpens
PROPERTIES
    ChatKept
CHECK_DEADLOCK FALSE
