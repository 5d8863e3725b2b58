SPECIFICATION MCSpec
CONSTANTS
    Users = {host, member, guest}
    Creator = host
    Guests = {guest}
    Requests = {r1, r2}
    Ops = {"join", "admit", "admitAll", "reject", "invite", "decline", "leave", "end", "cancel", "makeCoHost", "makeParticipant", "transfer", "remove", "hookJoined", "hookLeft", "roomFinished", "sweep"}
    EntryMode = "manual_admit"
    OneToOne = FALSE
    Cap = 2
    BUsers = {"h", "u"}
    BHost = "h"
    BRooms = {"b1", "b2"}
    MaxBreakouts = 2
    MaxBOps = 3
    MaxBFaults = 1
    CMembers = {u, v}
    CSources = {"mic", "screen"}
    MaxShares = 1
    MaxCOps = 2
    MaxCFaults = 1
    Sides = {"guests"}
INVARIANTS
    OnlyAdmittedReconnect
CHECK_DEADLOCK FALSE
