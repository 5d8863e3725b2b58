SPECIFICATION Spec
CONSTANTS
    SessionIds = {1, 2, 3}
    Tokens = {1, 2, 3, 4}
    AuthRequests = {"p", "q"}
    AuthOps = {"login", "refresh", "logout", "logout_all", "logout_others", "deactivate", "touch", "expire", "list"}
    MaxSessions = 1
    GraceHops = 2
    MaxAuth = 4
    MaxAuthFaults = 1
    Conns = {"c1", "c2"}
    Rooms = {"r"}
    SendBuf = 1
    ReplayLimit = 1
    MaxSlowDrops = 1
    MaxEvents = 2
    MaxLeaves = 2
    Sides = {"tokens", "limits", "sockets", "evict", "presence"}
INVARIANTS StragglerKeepsSession RevokedStaysOut ReplayFillsTheGap LiveSessionIsOnline
PROPERTIES RevokedSocketCloses
CHECK_DEADLOCK FALSE
