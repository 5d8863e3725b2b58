SPECIFICATION Spec
CONSTANTS
    Users = {"o", "m"}
    Owners = {"o"}
    Admins = {"m"}
    RoleIds = {}
    AdminRequests = {}
    AdminOps = {}
    MaxAdmin = 0
    Docs = {"a", "b", "c", "d"}
    Indexers = {"w", "v"}
    JobAttempts = 2
    MaxIndexFaults = 1
    MaxReindex = 1
    Chans = {"c", "d"}
    Remotes = {}
    Invites = {}
    ChannelRequests = {"p"}
    ChannelOps = {"archive"}
    MaxChannelReqs = 1
    InviteUses = 1
    Msgs = {"a", "b"}
    Files = {"f"}
    MessageRequests = {"p", "q"}
    MessageOps = {"send", "edit", "delete", "detach", "move", "pin", "unpin", "react", "unreact", "read"}
    MaxMessageReqs = 3
    IndexOps = {"edit", "delete", "move"}
    MaxIndexReqs = 1
    Sides = {"rows", "index"}
INVARIANTS DeletedStaysEmpty QuotesAreMarked IndexTellsTruth
 
CHECK_DEADLOCK FALSE
