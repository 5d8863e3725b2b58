SPECIFICATION MCSpec
CONSTANTS
    Users = {"o", "m", "r"}
    Owners = {"o"}
    Admins = {"m"}
    RoleIds = {"x"}
    AdminRequests = {"q", "s"}
    AdminOps = {"invite", "role", "remove", "suspend", "reactivate", "define", "undefine", "assign", "unassign"}
    MaxAdmin = 3
    Docs = {"c"}
    Indexers = {}
    JobAttempts = 1
    MaxIndexFaults = 0
    MaxReindex = 0
    Chans = {"c"}
    Remotes = {"r"}
    Invites = {"i"}
    ChannelRequests = {"p", "q"}
    ChannelOps = {"create", "rename", "archive", "unarchive", "join", "leave", "add", "kick", "dm", "accept", "block", "invite", "redeem"}
    MaxChannelReqs = 3
    InviteUses = 1
    FileUsers = {"u", "v"}
    FileIds = {1, 2, 3, 4}
    FileSizes = {1, 2}
    Quota = 3
    UploadCap = 2
    PageLimit = 2
    FileRequests = {"p", "q"}
    MaxFileOps = 3
    MaxFileFaults = 1
    Requests = {"q1", "q2", "q3"}
    Contents = {"a", "b"}
    Skipped = {"b"}
    None = None
    Unreliable = TRUE
    Sides = {"channels", "invites", "store", "library", "retries"}
INVARIANTS
    ChannelJobsCurrent
    RemovedAreUnlisted
    AuditExplainsRoles
    RowHasItsObject
    PagesComplete
    ReplayTellsTheTruth
    FailureIsNotReplayed
PROPERTIES SpentInviteGivesNothing
CHECK_DEADLOCK FALSE
