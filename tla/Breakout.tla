------------------------------ MODULE Breakout ------------------------------
(* Breakout rooms of a call (service/call/breakout, breakout_timer,        *)
(* breakout_autoclose, repository/postgres/breakout_room).                 *)
(*                                                                        *)
(* A room has a row, an assignment in the row of each participant, and a   *)
(* LiveKit room of its own.  A client that moves between rooms leaves one  *)
(* LiveKit room for another, so LiveKit reports a leave that is none; the  *)
(* reports come late and in any order.  Requests check, then write.        *)
EXTENDS Integers, FiniteSets

CONSTANTS
    BUsers, BHost,
    BRooms,
    MaxBreakouts,       \* max_breakout_rooms
    MaxBOps, MaxBFaults

ASSUME BreakoutAssumption == BHost \in BUsers /\ {"main", "gone", "none"} \cap BRooms = {}

VARIABLES
    bcall,              \* "active" | "ended"
    broom,              \* "none" | "active" | "closed"
    timed,              \* rooms with closes_at
    due,                \* rooms whose closes_at is past
    member,             \* [on, room, ver]: ver counts the changes of room
    client,             \* the LiveKit room a client is in: "main", a room or "gone"
    lefts,              \* participant_left reports under way: [u, from, ver]
    lkRooms,            \* LiveKit rooms of breakouts
    timers, firing,     \* deferred deletes: waiting, and past their cancellation
    breq,               \* requests at work
    bops, bfaults,
    crossed             \* users whose assignment changed behind a move or a report

breakoutVars == <<bcall, broom, timed, due, member, client, lefts, lkRooms, timers, firing, breq, bops, bfaults, crossed>>

ActiveRooms == {r \in BRooms : broom[r] = "active"}
MayStart == bops < MaxBOps /\ bops' = bops + 1
Begins(x) == breq' = breq \cup {x}
Goes(x, y) == breq' = (breq \ {x}) \cup {y}
Ends(x) == breq' = breq \ {x}
Req(op, u, r, at) == [op |-> op, u |-> u, r |-> r, at |-> at, todo |-> {}, id |-> bops]

\* The assignments after users us are put in room r ("none": main).
Put(us, r) ==
    [u \in BUsers |-> IF u \in us /\ member[u].room # r THEN [member[u] EXCEPT !.room = r, !.ver = @ + 1] ELSE member[u]]

\* A client appears in a room, or nowhere: it leaves the one it was in.
Moves(u, to) ==
    /\ client' = [client EXCEPT ![u] = to]
    /\ lefts' = IF client[u] \in {to, "gone"} THEN lefts
                ELSE lefts \cup {[u |-> u, from |-> client[u], ver |-> member[u].ver]}
------------------------------------------------------------------------------
(* Rooms are created and joined.                                          *)

\* CreateRoomsWithinCap counts and inserts under a lock.
WithinCap == Cardinality(ActiveRooms) + 1 <= MaxBreakouts

\* CreateBreakoutRooms: the row, then the LiveKit room, then participants the
\* host named are assigned.
CreateBreakoutRooms(r, limit, u) ==
    /\ bcall = "active" /\ broom[r] = "none" /\ WithinCap /\ MayStart
    /\ broom' = [broom EXCEPT ![r] = "active"]
    /\ timed' = IF limit THEN timed \cup {r} ELSE timed
    /\ lkRooms' = lkRooms \cup {r} /\ timers' = timers \ {r}
    /\ IF u # BHost /\ member[u].on THEN Begins(Req("preassign", u, r, "assign")) ELSE UNCHANGED breq
    /\ UNCHANGED <<bcall, due, member, client, lefts, firing, bfaults, crossed>>

\* activeBreakoutRoomForCall and the other checks of a join or an assignment.
activeBreakoutRoomForCall(u, r) == bcall = "active" /\ broom[r] = "active" /\ member[u].on

JoinBreakoutRoom(u, r) ==
    /\ activeBreakoutRoomForCall(u, r) /\ client[u] # "gone" /\ MayStart
    /\ Begins(Req("join", u, r, "assign"))
    /\ UNCHANGED <<bcall, broom, timed, due, member, client, lefts, lkRooms, timers, firing, bfaults, crossed>>

AssignParticipantToRoom(u, r) ==
    /\ activeBreakoutRoomForCall(u, r) /\ u # BHost /\ MayStart
    /\ Begins(Req("assign", u, r, "assign"))
    /\ UNCHANGED <<bcall, broom, timed, due, member, client, lefts, lkRooms, timers, firing, bfaults, crossed>>

\* AssignParticipant: whatever became of the room.
AssignParticipant(x) ==
    /\ x.at = "assign"
    /\ member' = IF member[x.u].on THEN Put({x.u}, x.r) ELSE member
    /\ IF x.op = "join" /\ member[x.u].on THEN Goes(x, [x EXCEPT !.at = "ensure"]) ELSE Ends(x)
    /\ UNCHANGED <<bcall, broom, timed, due, client, lefts, lkRooms, timers, firing, bops, bfaults, crossed>>

\* EnsureLiveKitBreakoutRoom: a deferred delete is called off,
EnsureLiveKitBreakoutRoom(x) ==
    /\ x.at = "ensure" /\ lkRooms' = lkRooms \cup {x.r} /\ timers' = timers \ {x.r}
    /\ Goes(x, [x EXCEPT !.at = "token"])
    /\ UNCHANGED <<bcall, broom, timed, due, member, client, lefts, firing, bops, bfaults, crossed>>

\* and a connected participant gets a token, with which its client moves.
IssueLiveKitBreakoutJoinInfo(x) ==
    /\ x.at = "token" /\ Ends(x)
    /\ IF member[x.u].on /\ client[x.u] # "gone"
       THEN Moves(x.u, x.r) /\ crossed' = IF member[x.u].room # x.r THEN crossed \cup {x.u} ELSE crossed
       ELSE UNCHANGED <<client, lefts, crossed>>
    /\ UNCHANGED <<bcall, broom, timed, due, member, lkRooms, timers, firing, bops, bfaults>>

\* ReturnToMainRoom clears the assignment, if it saw one, and the client moves.
ReturnToMainRoom(u) ==
    /\ bcall = "active" /\ client[u] # "gone" /\ MayStart
    /\ IF member[u].room = "none" THEN Begins(Req("return", u, "none", "token")) ELSE Begins(Req("return", u, "none", "clear"))
    /\ UNCHANGED <<bcall, broom, timed, due, member, client, lefts, lkRooms, timers, firing, bfaults, crossed>>

UnassignParticipant(x) ==
    /\ x.at = "clear" /\ member' = Put({x.u}, "none") /\ Goes(x, [x EXCEPT !.at = "token"])
    /\ UNCHANGED <<bcall, broom, timed, due, client, lefts, lkRooms, timers, firing, bops, bfaults, crossed>>

IssueLiveKitJoinInfo(x) ==
    /\ x.at = "token" /\ Ends(x)
    /\ IF member[x.u].on /\ client[x.u] # "gone"
       THEN Moves(x.u, "main") /\ crossed' = IF member[x.u].room # "none" THEN crossed \cup {x.u} ELSE crossed
       ELSE UNCHANGED <<client, lefts, crossed>>
    /\ UNCHANGED <<bcall, broom, timed, due, member, lkRooms, timers, firing, bops, bfaults>>
------------------------------------------------------------------------------
(* Rooms are closed.                                                      *)

CloseBreakoutRoom(r) ==
    /\ broom[r] = "active" /\ MayStart /\ Begins([Req("close", BHost, r, "unassign") EXCEPT !.todo = {r}])
    /\ UNCHANGED <<bcall, broom, timed, due, member, client, lefts, lkRooms, timers, firing, bfaults, crossed>>

CloseAllBreakoutRooms ==
    /\ ActiveRooms # {} /\ MayStart /\ Begins([Req("close_all", BHost, "none", "unassign") EXCEPT !.todo = ActiveRooms])
    /\ UNCHANGED <<bcall, broom, timed, due, member, client, lefts, lkRooms, timers, firing, bfaults, crossed>>

\* ListCallsWithExpiredActiveBreakouts: the sweeper closes all rooms of a call
\* one of whose rooms is due.
Expired == ActiveRooms \cap timed \cap due

CloseExpiredBreakoutRooms ==
    /\ Expired # {} /\ ~\E x \in breq : x.op = "sweep"
    /\ Begins([op |-> "sweep", u |-> BHost, r |-> "none", at |-> "unassign", todo |-> ActiveRooms, id |-> 0])
    /\ UNCHANGED <<bcall, broom, timed, due, member, client, lefts, lkRooms, timers, firing, bops, bfaults, crossed>>

\* A room's participants are sent back, unless that fails, and its LiveKit room
\* will be deleted after a while.
scheduleBreakoutLiveKitDelete(x, r) ==
    /\ x.at = "unassign" /\ r \in x.todo
    /\ \/ member' = Put({u \in BUsers : member[u].room = r}, "none") /\ UNCHANGED bfaults
       \/ bfaults < MaxBFaults /\ bfaults' = bfaults + 1 /\ UNCHANGED member
    /\ timers' = timers \cup {r}
    /\ Goes(x, [x EXCEPT !.todo = @ \ {r}, !.at = IF x.todo = {r} THEN "close" ELSE "unassign"])
    /\ UNCHANGED <<bcall, broom, timed, due, client, lefts, lkRooms, firing, bops, crossed>>

\* Close, and CloseAllByCall, which also closes rooms created meanwhile; a failed
\* update leaves them active.
CloseAllByCall(x) ==
    LET rs == IF x.op = "close" THEN {x.r} ELSE BRooms
    IN  /\ x.at = "close" /\ Ends(x)
        /\ \/ broom' = [r \in BRooms |-> IF r \in rs /\ broom[r] = "active" THEN "closed" ELSE broom[r]] /\ UNCHANGED bfaults
           \/ bfaults < MaxBFaults /\ bfaults' = bfaults + 1 /\ UNCHANGED broom
        /\ UNCHANGED <<bcall, timed, due, member, client, lefts, lkRooms, timers, firing, bops, crossed>>

\* The timer has fired and can no longer be called off,
TimerFires(r) ==
    /\ r \in timers /\ timers' = timers \ {r} /\ firing' = firing \cup {r}
    /\ UNCHANGED <<bcall, broom, timed, due, member, client, lefts, lkRooms, breq, bops, bfaults, crossed>>

\* and the room goes, with whoever is in it.
DeleteRoomByName(r) ==
    LET inside == {u \in BUsers : client[u] = r}
    IN  /\ r \in firing /\ firing' = firing \ {r} /\ lkRooms' = lkRooms \ {r}
        /\ client' = [u \in BUsers |-> IF u \in inside THEN "gone" ELSE client[u]]
        /\ lefts' = lefts \cup {[u |-> u, from |-> r, ver |-> member[u].ver] : u \in inside}
        /\ UNCHANGED <<bcall, broom, timed, due, member, timers, breq, bops, bfaults, crossed>>

ClosesAtPasses(r) ==
    /\ r \in ActiveRooms \cap timed /\ r \notin due /\ due' = due \cup {r}
    /\ UNCHANGED <<bcall, broom, timed, member, client, lefts, lkRooms, timers, firing, breq, bops, bfaults, crossed>>
------------------------------------------------------------------------------
(* Leaving.                                                               *)

\* A client closes its tab, or crashes.
ClientDrops(u) ==
    /\ client[u] # "gone" /\ MayStart /\ Moves(u, "gone")
    /\ UNCHANGED <<bcall, broom, timed, due, member, lkRooms, timers, firing, breq, bfaults, crossed>>

\* The call ends with its last participant: closeAllBreakoutSFURooms deletes the
\* rooms that are active and closes them.
closeAllBreakoutSFURooms ==
    /\ bcall' = "ended"
    /\ timers' = timers \ ActiveRooms /\ lkRooms' = lkRooms \ ActiveRooms
    /\ broom' = [r \in BRooms |-> IF broom[r] = "active" THEN "closed" ELSE broom[r]]

autoEndAfterLiveKitParticipantLeft(off) ==
    IF \A u \in BUsers \ {off} : ~member[u].on THEN closeAllBreakoutSFURooms ELSE UNCHANGED <<bcall, timers, lkRooms, broom>>

MarkLeft(h) ==
    /\ crossed' = IF h.ver # member[h.u].ver THEN crossed \cup {h.u} ELSE crossed
    /\ autoEndAfterLiveKitParticipantLeft(h.u)

\* A report of the main room: one who is in a breakout has not left the call.
handleLiveKitParticipantLeft_Always(h) ==
    /\ h.from = "main" /\ lefts' = lefts \ {h}
    /\ IF bcall = "ended" THEN UNCHANGED <<bcall, broom, member, lkRooms, timers, crossed>>
       ELSE member' = [member EXCEPT ![h.u].on = FALSE] /\ MarkLeft(h)
    /\ UNCHANGED <<timed, due, client, firing, breq, bops, bfaults>>

handleLiveKitParticipantLeft(h) ==
    /\ h.from = "main" /\ lefts' = lefts \ {h}
    /\ IF bcall = "ended" \/ member[h.u].room # "none" THEN UNCHANGED <<bcall, broom, member, lkRooms, timers, crossed>>
       ELSE member' = [member EXCEPT ![h.u].on = FALSE] /\ MarkLeft(h)
    /\ UNCHANGED <<timed, due, client, firing, breq, bops, bfaults>>

\* A report of a breakout room counts for one still assigned to it; it may come
\* again.
handleLiveKitBreakoutWebhook(h) ==
    /\ h.from # "main" /\ lefts' \in {lefts, lefts \ {h}}
    /\ IF member[h.u].room # h.from THEN lefts' # lefts /\ UNCHANGED <<bcall, broom, member, lkRooms, timers, crossed>>
       ELSE /\ member' = [member EXCEPT ![h.u] = [on |-> FALSE, room |-> "none", ver |-> @.ver + 1]]
            /\ MarkLeft(h)
    /\ UNCHANGED <<timed, due, client, firing, breq, bops, bfaults>>
------------------------------------------------------------------------------
BreakoutInit ==
    /\ bcall = "active" /\ broom = [r \in BRooms |-> "none"] /\ timed = {} /\ due = {}
    /\ member = [u \in BUsers |-> [on |-> TRUE, room |-> "none", ver |-> 0]]
    /\ client = [u \in BUsers |-> "main"] /\ lefts = {} /\ lkRooms = {} /\ timers = {} /\ firing = {}
    /\ breq = {} /\ bops = 0 /\ bfaults = 0 /\ crossed = {}

BreakoutNext ==
    \/ \E r \in BRooms : \/ \E u \in BUsers : \/ \E limit \in BOOLEAN : CreateBreakoutRooms(r, limit, u)
                                              \/ JoinBreakoutRoom(u, r) \/ AssignParticipantToRoom(u, r)
                         \/ CloseBreakoutRoom(r) \/ TimerFires(r) \/ DeleteRoomByName(r) \/ ClosesAtPasses(r)
    \/ \E u \in BUsers : ReturnToMainRoom(u) \/ ClientDrops(u)
    \/ CloseAllBreakoutRooms \/ CloseExpiredBreakoutRooms
    \/ \E x \in breq :
        \/ AssignParticipant(x) \/ UnassignParticipant(x)
        \/ x.op = "join" /\ (EnsureLiveKitBreakoutRoom(x) \/ IssueLiveKitBreakoutJoinInfo(x))
        \/ x.op = "return" /\ IssueLiveKitJoinInfo(x)
        \/ \E r \in BRooms : scheduleBreakoutLiveKitDelete(x, r)
        \/ CloseAllByCall(x)
    \/ \E h \in lefts : handleLiveKitParticipantLeft(h) \/ handleLiveKitBreakoutWebhook(h)

BreakoutSpec == BreakoutInit /\ [][BreakoutNext]_breakoutVars
------------------------------------------------------------------------------
\* Moving between rooms is not leaving: while the call goes on, a participant whose
\* client is in one of its rooms counts as connected, unless the assignment changed
\* between the move and its report.
MoversStay ==
    bcall = "active" => \A u \in BUsers : ~member[u].on /\ client[u] # "gone" => u \in crossed
=============================================================================
