SPECIFICATION Spec
CONSTANTS
    SessionIds = {1}
    Tokens = {1}
    AuthRequests = {"p"}
    AuthOps = {}
    MaxSessions = 1
    GraceHops = 2
    MaxAuth = 0
    MaxAuthFaults = 0
    Conns = {"c1", "c2"}
    Rooms = {"r"}
    SendBuf = 1
    ReplayLimit = 1
    MaxSlowDrops = 1
    MaxEvents = 2
    MaxLeaves = 1
    Sides = {"sockets"}
PROPERTIES ReplayFillsShortGap
CHECK_DEADLOCK FALSE
