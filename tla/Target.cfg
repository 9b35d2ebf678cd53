CONSTANTS
    Pid = {p1, p2}
    Name = {a, b}
    Handler = {h1}
    None = None
    Empty = Empty
    BadPid = BadPid
    BadComm = BadComm
    Default = a
    MaxPosts = 2
    MaxStarts = 1
SPECIFICATION FairSpec
INVARIANTS
    PublishedWasInstalled
    FilterIsJustified
PROPERTY
    Settles
CHECK_DEADLOCK FALSE
