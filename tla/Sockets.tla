------------------------------- MODULE Sockets -------------------------------
(* The WebSocket hub of an instance, its handler, the subscription state  *)
(* kept in Redis for reconnects, and presence: platform/ws, handler/ws,   *)
(* service/presence, with the session events of service/auth.             *)
(*                                                                        *)
(* A device reconnects under its resume key; the hub forgets a socket     *)
(* when it closes, is too slow, or its session is revoked.  The outbox    *)
(* numbers the durable events of a room, publishes them in any order and  *)
(* more than once, and marks them published.                              *)
EXTENDS Sessions, Sequences, SequencesExt

CONSTANTS
    Conns,          \* sockets of one device, which has one resume key
    Rooms,          \* rooms it subscribes to
    SendBuf,        \* sendBufSize
    ReplayLimit,    \* events of a room replayed at most
    MaxSlowDrops,   \* maxSlowDrops
    MaxEvents,      \* bound on the events of a room
    MaxLeaves       \* bound on disconnects, restarts, typing events and failed restores

ASSUME SocketsAssumption == "none" \notin Rooms /\ SendBuf \in Nat /\ ReplayLimit \in Nat

VARIABLES
    conn,           \* sockets: [at, s, todo, room, events]
    clients,        \* Hub.clients
    rooms,          \* Hub.rooms: pairs <<room, socket>>
    send,           \* the Send channels
    drops,          \* consecutive drops of a client
    slow,           \* clients to evict
    subs,           \* persisted subscriptions of the device
    log,            \* durable events of a room committed to the outbox
    marked,         \* those marked published
    cast,           \* those broadcast
    access,         \* rooms the user may subscribe to
    forwarded,      \* revocations the instance has handled
    leaves,
    got,            \* events the device received
    owed,           \* events broadcast while its subscription to the room stood
    missed,         \* of those, the ones its present socket dropped or could not ask for
    cut,            \* ... and the ones beyond the limit of its replay
    pres,           \* presence records of sessions
    usess,          \* presence sessions of the user
    online,         \* the user is in the online set
    agg,            \* aggregations in progress: what they read
    overtaken       \* sessions that beat after an aggregation had passed them

outboxVars == <<log, marked>>
deviceVars == <<got, owed, missed, cut>>
hubVars == <<conn, clients, rooms, send, drops, slow, subs, outboxVars, cast, access, forwarded, leaves, deviceVars>>
presenceVars == <<pres, usess, online, agg, overtaken>>
socketVars == <<hubVars, presenceVars>>

NoAgg == [at |-> "idle", todo |-> {}, dead |-> 0, latest |-> 0]
NoConn == [at |-> "none", s |-> 0, todo |-> {}, room |-> "none", events |-> {}]
------------------------------------------------------------------------------
(* The hub.                                                               *)

\* removeClientLocked: the channel is closed; what it holds may still be written.
removeClientLocked(cs) ==
    /\ clients' = clients \ cs
    /\ rooms' = {p \in rooms : p[2] \notin cs}

\* Subscribe: only for a client the hub still has.
Subscribe(c, r) == IF c \in clients THEN rooms \cup {<<r, c>>} ELSE rooms

Full(c) == Len(send[c]) >= SendBuf

\* A message is queued, or dropped when the buffer is full; a client that
\* dropped too many in a row is to be evicted.
Queue(members, m) ==
    LET ok == {c \in members : ~Full(c)}  late == members \ ok
    IN  /\ slow = {}
        /\ send' = [c \in Conns |-> IF c \in ok THEN Append(send[c], m) ELSE send[c]]
        /\ drops' = [c \in Conns |-> IF c \in ok THEN 0 ELSE IF c \in late THEN drops[c] + 1 ELSE drops[c]]
        /\ slow' = {c \in late : drops[c] + 1 >= MaxSlowDrops}

Members(r) == {c \in clients : <<r, c>> \in rooms}

Add(f, r, S) == [f EXCEPT ![r] = @ \cup S]

\* recordDelivery returns at once: a body is marshalled before its row has a sequence.
recordDelivery(r) == UNCHANGED <<subs, access, forwarded, leaves, got, cut>>

\* An event arrives from the broker, again while it is not marked published.
BroadcastToRoom(r, n) ==
    /\ n \in 1 .. log[r] /\ (n \in marked[r] => n \notin cast[r])
    /\ cast' = Add(cast, r, {n})
    /\ Queue(Members(r), [room |-> r, n |-> n])
    /\ owed' = Add(owed, r, IF r \in subs THEN {n} ELSE {})
    /\ missed' = Add(missed, r, IF \E c \in Members(r) : Full(c) THEN {n} ELSE {})
    /\ recordDelivery(r)
    /\ UNCHANGED <<conn, clients, rooms, outboxVars>>

\* A typing event has no row: it is queued, never replayed.
handleTyping(r) ==
    /\ leaves < MaxLeaves /\ leaves' = leaves + 1
    /\ Members(r) # {} /\ Queue(Members(r), [room |-> r, n |-> 0])
    /\ UNCHANGED <<conn, clients, rooms, subs, outboxVars, cast, access, forwarded, deviceVars>>

\* The state store.
AddSubscription(r) == subs \cup {r}
RemoveSubscription(r) == subs \ {r}
ListSubscriptions == subs

evictSlowClients ==
    /\ slow # {}
    /\ removeClientLocked(slow) /\ slow' = {}
    /\ UNCHANGED <<conn, send, drops, subs, outboxVars, cast, access, forwarded, leaves, deviceVars>>

OfSession_Open(s) == {c \in clients : conn[c].s = s /\ conn[c].at = "open"}

OfSession(s) == {c \in clients : conn[c].s = s}

\* SessionRevoked reached the instance: forwardSessionEvictions, EvictSession.
EvictSession(s) ==
    /\ s \in announced \ forwarded
    /\ removeClientLocked(OfSession(s))
    /\ forwarded' = forwarded \cup {s}
    /\ UNCHANGED <<conn, send, drops, slow, subs, outboxVars, cast, access, leaves, deviceVars>>
------------------------------------------------------------------------------
(* The handler.                                                           *)

authorizeSubscription(r) == r \in access

\* A call of a restore to Redis or Postgres fails, and is only logged.
RestoreFails == leaves < MaxLeaves /\ leaves' = leaves + 1

\* ServeHTTP behind the authentication middleware, one socket after another.
Accept(c, s) ==
    /\ conn[c].at = "none" /\ Live(s)
    /\ \A d \in Conns : conn[d].at \in {"none", "closed"}
    /\ conn' = [conn EXCEPT ![c] = [NoConn EXCEPT !.at = "accepted", !.s = s]]
    /\ missed' = [r \in Rooms |-> {}] /\ cut' = [r \in Rooms |-> {}]
    /\ UNCHANGED <<clients, rooms, send, drops, slow, subs, outboxVars, cast, access, forwarded, leaves, got, owed>>

\* Without the list of its rooms a socket restores none.
Register(c) ==
    /\ conn[c].at = "accepted"
    /\ clients' = clients \cup {c}
    /\ \/ /\ conn' = [conn EXCEPT ![c].at = "restore", ![c].todo = ListSubscriptions]
          /\ UNCHANGED leaves
       \/ conn' = [conn EXCEPT ![c].at = "open"] /\ RestoreFails
    /\ UNCHANGED <<rooms, send, drops, slow, subs, outboxVars, cast, access, forwarded, deviceVars>>

\* restoreSubscriptions, per room: access is checked again, then the room is
\* subscribed to ...
RestoreRoom(c, r) ==
    /\ conn[c].at = "restore" /\ r \in conn[c].todo /\ conn[c].room = "none"
    /\ IF authorizeSubscription(r)
       THEN /\ rooms' = Subscribe(c, r) /\ UNCHANGED subs
            /\ conn' = [conn EXCEPT ![c].todo = @ \ {r}, ![c].room = r]
       ELSE /\ subs' = RemoveSubscription(r) /\ UNCHANGED rooms
            /\ conn' = [conn EXCEPT ![c].todo = @ \ {r}]
    /\ UNCHANGED <<clients, send, drops, slow, outboxVars, cast, access, forwarded, leaves, deviceVars>>

\* No delivery was ever recorded.
LastDeliveredSequence == 0

ReplayRoom_After(r, from) ==
    {n \in marked[r] : n > from + 1 /\ Cardinality({m \in marked[r] : m < n}) <= ReplayLimit}

\* The first events after a sequence that are marked published.
ReplayRoom(r, from) ==
    LET after == {n \in marked[r] : n > from}
    IN  {n \in after : Cardinality({m \in after : m < n}) < ReplayLimit}

\* What the limit of a replay from the start leaves out.
BeyondLimit(r) == {n \in marked[r] : ~(Cardinality({m \in marked[r] : m < n}) < ReplayLimit)}

\* ... the events to replay are read, or the room is left without ...
ReadReplay(c) ==
    LET r == conn[c].room  events == ReplayRoom(r, LastDeliveredSequence)
    IN  /\ conn[c].at = "restore" /\ r # "none"
        /\ \/ /\ conn' = [conn EXCEPT ![c].at = "replay", ![c].events = events]
              /\ missed' = Add(missed, r, owed[r] \ marked[r]) /\ cut' = Add(cut, r, BeyondLimit(r))
              /\ UNCHANGED leaves
           \/ /\ conn' = [conn EXCEPT ![c].room = "none"]
              /\ missed' = Add(missed, r, owed[r])
              /\ RestoreFails /\ UNCHANGED cut
        /\ UNCHANGED <<clients, rooms, send, drops, slow, subs, outboxVars, cast, access, forwarded, got, owed>>

\* ... and queued in order; a full buffer ends the restore.  The channel of a
\* removed client is closed: the send panics and the socket is given up.
restoreSubscriptions(c, n) ==
    LET r == conn[c].room
    IN  /\ conn[c].at = "replay" /\ n \in conn[c].events /\ \A m \in conn[c].events : n <= m
        /\ \/ /\ c \notin clients
              /\ conn' = [conn EXCEPT ![c].at = "leaving", ![c].todo = {}, ![c].room = "none", ![c].events = {}]
              /\ UNCHANGED <<send, missed>>
           \/ /\ c \in clients /\ Full(c)
              /\ conn' = [conn EXCEPT ![c].at = "open", ![c].todo = {}, ![c].room = "none", ![c].events = {}]
              /\ missed' = Add(missed, r, conn[c].events) /\ UNCHANGED send
           \/ /\ c \in clients /\ ~Full(c)
              /\ conn' = [conn EXCEPT ![c].events = @ \ {n}]
              /\ send' = [send EXCEPT ![c] = Append(@, [room |-> r, n |-> n])] /\ UNCHANGED missed
        /\ UNCHANGED <<clients, rooms, drops, slow, subs, outboxVars, cast, access, forwarded, leaves, got, owed, cut>>

\* The next room, or the reader starts.
Restored(c) ==
    /\ \/ /\ conn[c].at = "replay" /\ conn[c].events = {}
          /\ conn' = [conn EXCEPT ![c].at = "restore", ![c].room = "none"]
       \/ /\ conn[c].at = "restore" /\ conn[c].todo = {} /\ conn[c].room = "none"
          /\ conn' = [conn EXCEPT ![c].at = "open"]
    /\ UNCHANGED <<clients, rooms, send, drops, slow, subs, outboxVars, cast, access, forwarded, leaves, deviceVars>>

\* Nothing is replayed, and an evicted client's subscription is not kept.
handleSubscribe(c, r) ==
    /\ conn[c].at = "open" /\ <<r, c>> \notin rooms /\ authorizeSubscription(r)
    /\ rooms' = Subscribe(c, r)
    /\ subs' = IF c \in clients THEN AddSubscription(r) ELSE subs
    /\ missed' = Add(missed, r, owed[r])
    /\ UNCHANGED <<conn, clients, send, drops, slow, outboxVars, cast, access, forwarded, leaves, got, owed, cut>>

handleUnsubscribe(c, r) ==
    /\ conn[c].at = "open" /\ <<r, c>> \in rooms
    /\ rooms' = rooms \ {<<r, c>>} /\ subs' = RemoveSubscription(r)
    /\ UNCHANGED <<conn, clients, send, drops, slow, outboxVars, cast, access, forwarded, leaves, deviceVars>>

writePump(c) ==
    /\ conn[c].at \in {"restore", "replay", "open"} /\ send[c] # <<>>
    /\ got' = got \cup {Head(send[c])}
    /\ send' = [send EXCEPT ![c] = Tail(@)]
    /\ UNCHANGED <<conn, clients, rooms, drops, slow, subs, outboxVars, cast, access, forwarded, leaves, owed, missed, cut>>

\* The network fails, the client leaves, or the hub closed the socket: readPump
\* returns and Unregister follows.
readPump(c) ==
    /\ conn[c].at \in {"restore", "open"}
    /\ c \in clients => leaves < MaxLeaves
    /\ conn' = [conn EXCEPT ![c].at = "leaving", ![c].room = "none", ![c].todo = {}]
    /\ leaves' = IF c \in clients THEN leaves + 1 ELSE leaves
    /\ UNCHANGED <<clients, rooms, send, drops, slow, subs, outboxVars, cast, access, forwarded, deviceVars>>

\* The instance stops: Run closes every client; what Redis holds stays.
Run ==
    /\ clients # {} /\ leaves < MaxLeaves /\ leaves' = leaves + 1
    /\ removeClientLocked(clients)
    /\ conn' = [c \in Conns |-> IF conn[c].at = "none" THEN NoConn ELSE [NoConn EXCEPT !.at = "closed", !.s = conn[c].s]]
    /\ send' = [c \in Conns |-> <<>>] /\ slow' = {}
    /\ UNCHANGED <<drops, subs, outboxVars, cast, access, forwarded, deviceVars>>

Unregister(c) ==
    /\ conn[c].at = "leaving"
    /\ conn' = [conn EXCEPT ![c].at = "closed"]
    /\ removeClientLocked({c})
    /\ send' = [send EXCEPT ![c] = <<>>]
    /\ UNCHANGED <<drops, slow, subs, outboxVars, cast, access, forwarded, leaves, deviceVars>>

\* The outbox worker marks an event it has published, in whatever order.
MarkPublished(r, n) ==
    /\ n \in (1 .. log[r]) \ marked[r]
    /\ marked' = Add(marked, r, {n})
    /\ UNCHANGED <<conn, clients, rooms, send, drops, slow, subs, log, cast, access, forwarded, leaves, deviceVars>>

PublishDurable(r) ==
    /\ log[r] < MaxEvents
    /\ log' = [log EXCEPT ![r] = @ + 1]
    /\ UNCHANGED <<conn, clients, rooms, send, drops, slow, subs, marked, cast, access, forwarded, leaves, deviceVars>>

\* The user loses access to a room while away.
LoseAccess(r) ==
    /\ r \in access /\ access' = access \ {r}
    /\ UNCHANGED <<conn, clients, rooms, send, drops, slow, subs, outboxVars, cast, forwarded, leaves, deviceVars>>
------------------------------------------------------------------------------
(* Presence of the user in a workspace.                                   *)

\* A heartbeat, and a status, saves the record, its entry in the set and the user.
saveSession(s, status) ==
    /\ pres' = [pres EXCEPT ![s] = status] /\ usess' = usess \cup {s} /\ online' = TRUE

\* An aggregation that is past the session may still undo that.
Passed(s) ==
    \E a \in AuthRequests :
        agg[a].at = "visit" /\ s \notin agg[a].todo /\ (agg[a].dead = s \/ agg[a].latest = 0)

setPresence(s, status) ==
    /\ saveSession(s, status)
    /\ overtaken' = IF Passed(s) THEN overtaken \cup {s} ELSE overtaken \ {s}
    /\ UNCHANGED agg

\* Heartbeat: without a record the session is online again.
Heartbeat(s) == setPresence(s, IF pres[s] = "none" THEN "online" ELSE pres[s])

\* Records expire on their own.
PresenceExpire(s) ==
    /\ pres[s] # "none" /\ pres' = [pres EXCEPT ![s] = "none"]
    /\ UNCHANGED <<usess, online, agg, overtaken>>

\* A custom status keeps the status, or makes the session online.
SetCustomStatus(s) == Heartbeat(s)

removeSessionPresence_Hides(a, s) ==
    /\ agg[a] = NoAgg
    /\ pres' = [pres EXCEPT ![s] = "none"] /\ usess' = usess \ {s} /\ online' = FALSE
    /\ agg' = [agg EXCEPT ![a].at = "list"]
    /\ UNCHANGED overtaken

\* The session is removed, then the user's presence is aggregated.
removeSessionPresence(a, s) ==
    /\ agg[a] = NoAgg
    /\ pres' = [pres EXCEPT ![s] = "none"] /\ usess' = usess \ {s}
    /\ agg' = [agg EXCEPT ![a].at = "list"]
    /\ UNCHANGED <<online, overtaken>>

SetOffline(a, s) == s \in usess /\ removeSessionPresence(a, s)

\* Of a revoked session; without a record it has no user and nothing is done.
ClearSession(a, s) == pres[s] # "none" /\ removeSessionPresence(a, s)

\* GetPresence aggregates as well.
GetPresence(a) ==
    /\ agg[a] = NoAgg /\ agg' = [agg EXCEPT ![a].at = "list"]
    /\ UNCHANGED <<pres, usess, online, overtaken>>

\* The members of the online set are aggregated one by one.
GetWorkspacePresence(a) == online /\ GetPresence(a)

\* aggregatePresence lists the sessions ...
aggregateList(a) ==
    /\ agg[a].at = "list"
    /\ agg' = [agg EXCEPT ![a].at = "visit", ![a].todo = usess]
    /\ UNCHANGED <<pres, usess, online, overtaken>>

\* ... reads the record of each ...
getSession(a, s) ==
    /\ agg[a].at = "visit" /\ agg[a].dead = 0 /\ s \in agg[a].todo
    /\ agg' = [agg EXCEPT ![a] = [at |-> "visit", todo |-> agg[a].todo \ {s},
                                   dead |-> IF pres[s] = "none" THEN s ELSE 0,
                                   latest |-> IF pres[s] = "none" THEN agg[a].latest ELSE s]]
    /\ UNCHANGED <<pres, usess, online, overtaken>>

\* ... takes one without a record off the set ...
aggregateClean(a) ==
    /\ agg[a].dead # 0
    /\ usess' = usess \ {agg[a].dead}
    /\ agg' = [agg EXCEPT ![a].dead = 0]
    /\ UNCHANGED <<pres, online, overtaken>>

\* ... and sets the membership by what it has read.
aggregatePresence(a) ==
    /\ agg[a].at = "visit" /\ agg[a].dead = 0 /\ agg[a].todo = {}
    /\ online' = (agg[a].latest # 0)
    /\ agg' = [agg EXCEPT ![a] = NoAgg]
    /\ UNCHANGED <<pres, usess, overtaken>>
------------------------------------------------------------------------------
SocketsInit ==
    /\ conn = [c \in Conns |-> NoConn] /\ clients = {} /\ rooms = {}
    /\ send = [c \in Conns |-> <<>>] /\ drops = [c \in Conns |-> 0]
    /\ subs = {} /\ log = [r \in Rooms |-> 0] /\ marked = [r \in Rooms |-> {}] /\ cast = [r \in Rooms |-> {}]
    /\ slow = {} /\ access = Rooms /\ forwarded = {} /\ leaves = 0
    /\ got = {} /\ owed = [r \in Rooms |-> {}] /\ missed = [r \in Rooms |-> {}] /\ cut = [r \in Rooms |-> {}]
    /\ pres = [s \in SessionIds |-> "none"] /\ usess = {} /\ online = FALSE
    /\ agg = [a \in AuthRequests |-> NoAgg] /\ overtaken = {}

HubNext ==
    \/ \E c \in Conns :
        \/ \E s \in SessionIds : Accept(c, s)
        \/ Register(c) \/ ReadReplay(c) \/ Restored(c) \/ writePump(c) \/ readPump(c) \/ Unregister(c)
        \/ \E n \in conn[c].events : restoreSubscriptions(c, n)
        \/ \E r \in Rooms : RestoreRoom(c, r) \/ handleSubscribe(c, r) \/ handleUnsubscribe(c, r)
    \/ \E r \in Rooms :
        \/ PublishDurable(r) \/ LoseAccess(r) \/ handleTyping(r)
        \/ \E n \in 1 .. MaxEvents : BroadcastToRoom(r, n) \/ MarkPublished(r, n)
    \/ evictSlowClients \/ Run
    \/ \E s \in SessionIds : EvictSession(s)

\* Sessions and presence may change in any way in between.
HubSpec == SocketsInit /\ [][HubNext]_hubVars

PresenceNext ==
    \/ \E s \in SessionIds :
        \/ Heartbeat(s) \/ SetCustomStatus(s) \/ PresenceExpire(s)
        \/ \E status \in {"online", "away"} : setPresence(s, status)
        \/ \E a \in AuthRequests : SetOffline(a, s) \/ ClearSession(a, s)
    \/ \E a \in AuthRequests :
        \/ GetPresence(a) \/ GetWorkspacePresence(a)
        \/ aggregateList(a) \/ aggregateClean(a) \/ aggregatePresence(a)
        \/ \E s \in SessionIds : getSession(a, s)

PresenceSpec == SocketsInit /\ [][PresenceNext]_presenceVars
------------------------------------------------------------------------------
\* The device is back, and everything sent to it was written.
Settled(c, r) == conn[c].at = "open" /\ <<r, c>> \in rooms /\ send[c] = <<>>
Received(r) == {m.n : m \in {x \in got : x.room = r}}

\* When the device is back and its buffer is drained, it has every event that was
\* broadcast while its subscription stood, live or by replay, in whatever order the
\* outbox published and marked them and whatever was lost with earlier sockets.
\* Excepted is what this socket dropped on a full buffer, what was not yet marked
\* when the replay read, what a failed restore did not ask for, and what is beyond
\* the limit of the replay.
ReplayFillsTheGap ==
    \A c \in Conns, r \in Rooms : Settled(c, r) => owed[r] \subseteq Received(r) \cup missed[r] \cup cut[r]

\* "If a client reconnects after missing durable room events, replay fills the gap":
\* a replay that could hold every event the device lacks leaves none of them out.
ReplayFillsShortGap ==
    [][\A c \in Conns : conn[c].at = "restore" /\ conn'[c].at = "replay" =>
        LET r == conn[c].room  lacks == (owed[r] \cap marked[r]) \ Received(r)
        IN  Cardinality(lacks) <= ReplayLimit => lacks \subseteq conn'[c].events]_hubVars

\* A socket registered when the revocation of its session is published is closed.
RevokedSocketCloses ==
    \A c \in Conns : [](c \in clients /\ conn[c].s \in announced \ forwarded => <>(c \notin clients))

\* While a session's record lives the session is in the user's set and the user in
\* the online set: no other device that goes offline, no cleanup of dead sessions
\* and no reader takes them off, unless an aggregation had passed the session when
\* it last beat.
LiveSessionIsOnline ==
    \A s \in SessionIds \ overtaken : pres[s] # "none" => s \in usess /\ online
=============================================================================
