---------------------------- MODULE CallLifecycle ----------------------------
(***************************************************************************)
(* One call: its row in calls, its rows in call_participants, and the      *)
(* requests, LiveKit webhooks and cleanup sweeps that read and write them  *)
(* (internal/service/call, internal/repository/postgres/call.go).          *)
(*                                                                         *)
(* A service method is a goroutine that first reads the call, then the     *)
(* participant rows, and then writes; each SQL statement commits on its    *)
(* own unless the method opens a transaction (READ COMMITTED).  A request  *)
(* here takes one step for each of these, so any number of other requests  *)
(* may come in between.  LiveKit is external: its webhooks may arrive at   *)
(* any time, late, twice or not at all.                                    *)
(***************************************************************************)
EXTENDS Integers, FiniteSets

CONSTANTS
    Users,         \* the people who can reach the call
    Creator,       \* calls.created_by
    Guests,        \* the users isGuestUser holds of
    Requests,      \* slots for requests, webhooks and sweeps in flight
    Ops,           \* the operations a model explores
    EntryMode,     \* "open" (or the right password) or "manual_admit"
    OneToOne,      \* call type one_to_one
    Cap            \* effectiveParticipantCap, 0 for none

AllOps == {"join", "admit", "admitAll", "reject", "invite", "decline", "leave",
           "end", "cancel", "makeCoHost", "makeParticipant", "transfer", "remove",
           "hookJoined", "hookLeft", "roomFinished", "sweep"}

ASSUME CallAssumption ==
    /\ IsFiniteSet(Users)
    /\ Creator \in Users
    /\ Guests \subseteq Users \ {Creator}
    /\ Ops \subseteq AllOps
    /\ EntryMode \in {"open", "manual_admit"}
    /\ OneToOne \in BOOLEAN
    /\ Cap \in Nat

VARIABLES
    callStatus,   \* calls.status, "none" before StartCall
    endReason,    \* calls.end_reason
    pstatus,      \* call_participants.status, "absent" without a row
    role,         \* call_participants.role, "none" without a row
    left,         \* call_participants.left_at against the 30 s guestReconnectGrace
    req,          \* the request in each slot
    announced,    \* call.ended events enqueued so far
    approved,     \* history: guests a host or co-host admitted, until the grace in
                  \* which they may come back by themselves has run out
    graced        \* history: guests nobody admitted that left the waiting room and may
                  \* use the grace all the same, and those whose join read the
                  \* participant's row before the grace ran out

callVars == <<callStatus, endReason, announced>>
rowVars == <<pstatus, role, left, graced>>
vars == <<callStatus, endReason, pstatus, role, left, req, announced, approved, graced>>

CallStatuses == {"none", "ringing", "active", "ended"}
Reasons == {"none", "host_ended", "cancelled", "all_left", "missed"}
\* "joining" is read by the code but never written by it.
Statuses == {"absent", "invited", "waiting", "connected", "disconnected", "declined"}
Roles == {"none", "host", "co_host", "participant"}
LeftAt == {"none", "recent", "old"}
Steps == {"idle", "read", "insert", "accept", "reconnect", "knock", "write",
          "lock", "commit", "commitEnd", "autoEnd", "end", "publish", "activate"}

\* actor asks for op on user's row; ringing is what the request read of the
\* call; rows are the rows it read and holds by id, gone those deleted since.
Idle == [op |-> "none", step |-> "idle", actor |-> Creator, user |-> Creator,
         ringing |-> FALSE, rows |-> {}, gone |-> {}]
Request == [op : AllOps \cup {"none"}, step : Steps, actor : Users, user : Users,
            ringing : BOOLEAN, rows : SUBSET Users, gone : SUBSET Users]

TypeOK ==
    /\ callStatus \in CallStatuses
    /\ endReason \in Reasons
    /\ pstatus \in [Users -> Statuses]
    /\ role \in [Users -> Roles]
    /\ left \in [Users -> LeftAt]
    /\ req \in [Requests -> Request]
    /\ announced \in Nat
    /\ approved \subseteq Users
    /\ graced \subseteq Users
    /\ \A u \in Users : pstatus[u] = "absent" <=> role[u] = "none"

Init ==
    /\ callStatus = "none"
    /\ endReason = "none"
    /\ pstatus = [u \in Users |-> "absent"]
    /\ role = [u \in Users |-> "none"]
    /\ left = [u \in Users |-> "none"]
    /\ req = [r \in Requests |-> Idle]
    /\ announced = 0
    /\ approved = {}
    /\ graced = {}

-----------------------------------------------------------------------------
(* The repository's statements. *)

\* Statuses that shouldAutoEndAfterLeave and the capacity check count.
Active(ps) == {u \in Users : ps[u] = "connected"}

\* The rows endCallQuery and cancelRingingQuery disconnect.
Live(ps) == {u \in Users : ps[u] \in {"connected", "waiting"}}

\* Rows locked by a leave transaction that has not committed yet.
Locked == {u \in Users : \E r \in Requests :
              req[r].step \in {"commit", "commitEnd"} /\ req[r].user = u}

UpdateParticipantStatus(u, st) ==
    /\ u \notin Locked
    /\ pstatus' = [pstatus EXCEPT ![u] = st]
    /\ left' = [left EXCEPT ![u] = IF st = "connected" THEN "none" ELSE @]
    /\ UNCHANGED <<role, graced>>

AddParticipant(u, st) ==
    /\ pstatus' = [pstatus EXCEPT ![u] = st]
    /\ role' = [role EXCEPT ![u] = "participant"]
    /\ left' = [left EXCEPT ![u] = "none"]
    /\ UNCHANGED graced

\* COALESCE(left_at, now())
Leaving(l, S) == [u \in Users |-> IF u \in S /\ l[u] = "none" THEN "recent" ELSE l[u]]
Slips(S) == graced' = graced \cup {g \in S \cap Guests : left[g] = "none" /\ g \notin approved}
Disconnected(ps, S) == [u \in Users |-> IF u \in S THEN "disconnected" ELSE ps[u]]

\* DisconnectParticipantIfConnectedWithReason: any row that is not disconnected.
DisconnectIfConnected(u) ==
    /\ u \notin Locked
    /\ pstatus' = Disconnected(pstatus, {u})
    /\ left' = Leaving(left, {u})
    /\ Slips({u})
    /\ UNCHANGED role

ActivateRinging == callStatus' = IF callStatus = "ringing" THEN "active" ELSE callStatus

\* Mutant: the end statement overwrites the reason and the time of an ended call.
EndWithReason_Again(reason) ==
    /\ callStatus' = "ended"
    /\ endReason' = reason

\* The call's half of endCallQuery and cancelRingingQuery.  The same statement
\* makes the durable call.started event unreplayable, so that one is replayable
\* exactly while callStatus is ringing or active.
EndWithReason(reason) ==
    /\ callStatus \in {"ringing", "active"}
    /\ callStatus' = "ended"
    /\ endReason' = reason

\* Ends the call and disconnects the rows in S and the live ones, atomically;
\* waits for rows that another transaction holds.
EndAndDisconnect(reason, S) ==
    /\ Locked \cap (Live(pstatus) \ S) = {}
    /\ EndWithReason(reason)
    /\ pstatus' = Disconnected(pstatus, S \cup Live(pstatus))
    /\ left' = Leaving(left, S \cup Live(pstatus))
    /\ Slips(S \cup Live(pstatus))
    /\ UNCHANGED role

-----------------------------------------------------------------------------
(* Requests. *)

At(r, op, step) == req[r].op = op /\ req[r].step = step
Goto(r, step, rows) == req' = [req EXCEPT ![r].step = step, ![r].rows = rows]
Finish(r) == req' = [req EXCEPT ![r] = Idle]
Held(r, u) == u \in req[r].rows \ req[r].gone
Moderates(u) == role[u] \in {"host", "co_host"}

\* StartCallWithAccess: call and host row in one transaction.
StartCall ==
    /\ callStatus = "none"
    /\ callStatus' = "ringing"
    /\ pstatus' = [pstatus EXCEPT ![Creator] = "connected"]
    /\ role' = [role EXCEPT ![Creator] = "host"]
    /\ UNCHANGED <<endReason, left, req, announced, approved, graced>>

SelfOps == {"join", "decline", "leave", "end", "cancel", "roomFinished", "sweep",
            "admitAll"}
IgnoreEndedOps == {"admit", "admitAll", "reject", "decline"}
FirstStep(op) == CASE op = "roomFinished" -> "end"
                   [] op \in {"cancel", "sweep"} -> "write"
                   [] OTHER -> "read"

\* requireCallAccess, and for webhooks GetByID: the request reads the call.
Begin(r, op, a, u) ==
    /\ req[r] = Idle
    /\ op \in Ops
    /\ \/ callStatus \in {"ringing", "active"}
       \/ callStatus = "ended" /\ op \in IgnoreEndedOps
    /\ op \in SelfOps \cup {"hookJoined", "hookLeft"} => a = u
    /\ op \in {"transfer", "remove"} => a # u
    /\ op \in {"roomFinished", "sweep"} => a = Creator
    /\ op = "cancel" => callStatus = "ringing" /\ a = Creator
    /\ req' = [req EXCEPT ![r] =
                 [Idle EXCEPT !.op = op, !.actor = a, !.user = u,
                              !.ringing = (callStatus = "ringing"),
                              !.step = FirstStep(op)]]
    /\ UNCHANGED <<callVars, rowVars, approved>>

\* The request fails: a lost connection, a deadlock victim, a crashed server.
\* An open transaction is rolled back.
Abort(r) ==
    /\ req[r] # Idle
    /\ Finish(r)
    /\ UNCHANGED <<callVars, rowVars, approved>>

-----------------------------------------------------------------------------
(* JoinCall *)

Full == Cap > 0 /\ Cardinality(Active(pstatus)) >= Cap

Knocks(u) == u \in Guests \/ EntryMode = "manual_admit"

\* Mutant: the grace never runs out.
guestWithinReconnectGrace_Ever(u) == left[u] # "none"

guestWithinReconnectGrace(u) == left[u] = "recent"

JoinRead(r) ==
    LET u == req[r].user
        guest == u \in Guests
    IN  /\ At(r, "join", "read")
        /\ \/ (Full \/ pstatus[u] \in {"declined", "waiting"}) /\ Finish(r)
           \/ ~Full /\ pstatus[u] = "absent" /\ Goto(r, "insert", {})
           \/ ~Full /\ pstatus[u] = "invited" /\ ~guest /\ Goto(r, "accept", {u})
           \/ /\ ~Full /\ guest
              /\ pstatus[u] \in {"invited", "disconnected"}
              /\ ~guestWithinReconnectGrace(u)
              /\ Goto(r, "knock", {u})
           \/ /\ ~Full
              /\ \/ pstatus[u] = "connected"
                 \/ pstatus[u] = "disconnected" /\ (guest => guestWithinReconnectGrace(u))
                 \/ pstatus[u] = "invited" /\ guest /\ guestWithinReconnectGrace(u)
              /\ Goto(r, "reconnect", {u})
        /\ UNCHANGED <<callVars, rowVars, approved>>

\* A transaction: the new row, and the call activated if it was read ringing;
\* the loser of a race for either is rolled back.
JoinInsert(r) ==
    LET u == req[r].user
    IN  /\ At(r, "join", "insert")
        /\ \/ /\ pstatus[u] = "absent" /\ Knocks(u)
              /\ AddParticipant(u, "waiting")
              /\ UNCHANGED callStatus
           \/ /\ pstatus[u] = "absent" /\ ~Knocks(u)
              /\ req[r].ringing => callStatus = "ringing"
              /\ AddParticipant(u, "connected")
              /\ callStatus' = IF req[r].ringing THEN "active" ELSE callStatus
           \/ /\ \/ pstatus[u] # "absent"
                 \/ ~Knocks(u) /\ req[r].ringing /\ callStatus # "ringing"
              /\ UNCHANGED <<rowVars, callStatus>>
        /\ Finish(r)
        /\ UNCHANGED <<endReason, announced, approved>>

\* connectInvitedParticipant: a transaction that also activates the call.
JoinAccept(r) ==
    LET u == req[r].user
    IN  /\ At(r, "join", "accept")
        /\ \/ /\ Held(r, u)
              /\ UpdateParticipantStatus(u, "connected")
              /\ IF req[r].ringing THEN ActivateRinging ELSE UNCHANGED callStatus
           \/ ~Held(r, u) /\ UNCHANGED <<rowVars, callStatus>>
        /\ Finish(r)
        /\ UNCHANGED <<endReason, announced, approved>>

JoinUpdate(r) ==
    LET u == req[r].user
    IN  /\ req[r].op = "join"
        /\ req[r].step \in {"reconnect", "knock"}
        /\ \/ /\ Held(r, u)
              /\ UpdateParticipantStatus(u, IF req[r].step = "knock" THEN "waiting"
                                                                     ELSE "connected")
           \/ ~Held(r, u) /\ UNCHANGED rowVars
        /\ Finish(r)
        /\ UNCHANGED <<callVars, approved>>

-----------------------------------------------------------------------------
(* The waiting room: AdmitParticipant, AdmitAll, RejectParticipant.  None of *)
(* them looks at the call's status or opens a transaction.                   *)

AdmitRead(r) ==
    LET waiting == {u \in Users : pstatus[u] = "waiting"}
    IN  /\ \/ /\ At(r, "admit", "read")
              /\ Moderates(req[r].actor) /\ req[r].user \in waiting
              /\ Goto(r, "write", {req[r].user})
           \/ /\ At(r, "admitAll", "read")
              /\ Moderates(req[r].actor)
              /\ Goto(r, "write", waiting)
           \/ /\ At(r, "admit", "read") \/ At(r, "admitAll", "read")
              /\ \/ ~Moderates(req[r].actor)
                 \/ req[r].op = "admit" /\ req[r].user \notin waiting
              /\ Finish(r)
        /\ UNCHANGED <<callVars, rowVars, approved>>

\* AdmitAll goes on when one row fails, AdmitParticipant gives up.
AdmitWrite(r, u) ==
    /\ req[r].op \in {"admit", "admitAll"}
    /\ req[r].step = "write"
    /\ u \in req[r].rows
    /\ \/ /\ Held(r, u)
          /\ UpdateParticipantStatus(u, "connected")
          /\ approved' = approved \cup ({u} \cap Guests)
          /\ Goto(r, "write", req[r].rows \ {u})
       \/ /\ ~Held(r, u)
          /\ IF req[r].op = "admit" THEN Finish(r) ELSE Goto(r, "write", req[r].rows \ {u})
          /\ UNCHANGED <<rowVars, approved>>
    /\ UNCHANGED callVars

AdmitActivate(r) ==
    /\ req[r].op \in {"admit", "admitAll"}
    /\ req[r].step = "write"
    /\ req[r].rows = {}
    /\ IF req[r].ringing THEN ActivateRinging ELSE UNCHANGED callStatus
    /\ Finish(r)
    /\ UNCHANGED <<endReason, announced, rowVars, approved>>

RejectRead(r) ==
    LET u == req[r].user
    IN  /\ At(r, "reject", "read")
        /\ IF Moderates(req[r].actor) /\ pstatus[u] = "waiting"
           THEN Goto(r, "write", {u})
           ELSE Finish(r)
        /\ UNCHANGED <<callVars, rowVars, approved>>

\* RemoveParticipant of the repository deletes by call and user, whatever the
\* row has become; requests that hold its id will find it gone.
DeleteRow(r, u) ==
    /\ u \notin Locked
    /\ pstatus' = [pstatus EXCEPT ![u] = "absent"]
    /\ role' = [role EXCEPT ![u] = "none"]
    /\ left' = [left EXCEPT ![u] = "none"]
    /\ UNCHANGED graced
    /\ req' = [q \in Requests |->
                 IF q = r THEN Idle
                 ELSE [req[q] EXCEPT !.gone = @ \cup ({u} \cap req[q].rows)]]

RejectWrite(r) ==
    LET u == req[r].user
    IN  /\ At(r, "reject", "write")
        /\ \/ u \in Guests /\ Held(r, u) /\ UpdateParticipantStatus(u, "declined") /\ Finish(r)
           \/ u \notin Guests /\ pstatus[u] # "absent" /\ DeleteRow(r, u)
           \/ /\ IF u \in Guests THEN ~Held(r, u) ELSE pstatus[u] = "absent"
              /\ UNCHANGED rowVars /\ Finish(r)
        /\ UNCHANGED <<callVars, approved>>

-----------------------------------------------------------------------------
(* InviteParticipants (one target) and DeclineCall *)

InviteRead(r) ==
    LET u == req[r].user
    IN  /\ At(r, "invite", "read")
        /\ \/ Moderates(req[r].actor) /\ pstatus[u] = "absent" /\ Goto(r, "insert", {})
           \/ /\ Moderates(req[r].actor)
              /\ pstatus[u] \in {"declined", "disconnected"}
              /\ Goto(r, "write", {u})
           \/ /\ ~Moderates(req[r].actor) \/ pstatus[u] \in {"connected", "waiting", "invited"}
              /\ Finish(r)
        /\ UNCHANGED <<callVars, rowVars, approved>>

InviteWrite(r) ==
    LET u == req[r].user
    IN  /\ req[r].op = "invite"
        /\ \/ req[r].step = "insert" /\ pstatus[u] = "absent" /\ AddParticipant(u, "invited")
           \/ req[r].step = "write" /\ Held(r, u) /\ UpdateParticipantStatus(u, "invited")
           \/ /\ \/ req[r].step = "insert" /\ pstatus[u] # "absent"
                 \/ req[r].step = "write" /\ ~Held(r, u)
              /\ UNCHANGED rowVars
        /\ Finish(r)
        /\ UNCHANGED <<callVars, approved>>

DeclineRead(r) ==
    LET u == req[r].user
    IN  /\ At(r, "decline", "read")
        /\ IF pstatus[u] \in {"invited", "waiting"} THEN Goto(r, "write", {u}) ELSE Finish(r)
        /\ UNCHANGED <<callVars, rowVars, approved>>

DeclineWrite(r) ==
    LET u == req[r].user
    IN  /\ At(r, "decline", "write")
        /\ IF Held(r, u) THEN UpdateParticipantStatus(u, "declined") ELSE UNCHANGED rowVars
        /\ Finish(r)
        /\ UNCHANGED <<callVars, approved>>

-----------------------------------------------------------------------------
(* LeaveCall: a transaction that disconnects the caller's row and then, from *)
(* the rows it can see, decides whether the call is over.                    *)

\* shouldAutoEndAfterLeave, S being the active participants
AutoEnds(S) == IF OneToOne THEN Cardinality(S) < 2 ELSE S = {}

LeaveRead(r) ==
    LET u == req[r].user
    IN  /\ At(r, "leave", "read")
        /\ IF pstatus[u] \in {"absent", "disconnected"} THEN Finish(r) ELSE Goto(r, "lock", {u})
        /\ UNCHANGED <<callVars, rowVars, approved>>

LeaveLock(r) ==
    LET u == req[r].user
    IN  /\ At(r, "leave", "lock")
        /\ u \notin Locked
        /\ IF Held(r, u) /\ pstatus[u] # "disconnected"
           THEN Goto(r, IF AutoEnds(Active(pstatus) \ {u}) THEN "commitEnd" ELSE "commit", {u})
           ELSE Finish(r)
        /\ UNCHANGED <<callVars, rowVars, approved>>

LeaveCommit(r) ==
    LET u == req[r].user
    IN  /\ req[r].op = "leave"
        /\ \/ /\ req[r].step = "commitEnd"
              /\ EndAndDisconnect("all_left", {u})
              /\ announced' = announced + 1
           \/ /\ \/ req[r].step = "commit"
                 \/ req[r].step = "commitEnd" /\ callStatus = "ended"
              /\ pstatus' = Disconnected(pstatus, {u})
              /\ left' = Leaving(left, {u})
              /\ Slips({u})
              /\ UNCHANGED <<callVars, role>>
        /\ Finish(r)
        /\ UNCHANGED approved

-----------------------------------------------------------------------------
(* EndCall, CancelCall *)

EndRead(r) ==
    /\ At(r, "end", "read")
    /\ IF Moderates(req[r].actor) THEN Goto(r, "write", {}) ELSE Finish(r)
    /\ UNCHANGED <<callVars, rowVars, approved>>

EndWrite(r) ==
    /\ At(r, "end", "write")
    /\ \/ EndAndDisconnect("host_ended", {}) /\ announced' = announced + 1
       \/ callStatus = "ended" /\ UNCHANGED <<callVars, rowVars>>
    /\ Finish(r)
    /\ UNCHANGED approved

CancelWrite(r) ==
    /\ At(r, "cancel", "write")
    /\ \/ /\ callStatus = "ringing"
          /\ EndAndDisconnect("cancelled", {})
          /\ announced' = announced + 1
       \/ callStatus # "ringing" /\ UNCHANGED <<callVars, rowVars>>
    /\ Finish(r)
    /\ UNCHANGED approved

-----------------------------------------------------------------------------
(* UpdateParticipantRole, TransferHost, RemoveParticipant *)

RoleRead(r) ==
    LET a == req[r].actor
        u == req[r].user
        allowed == IF req[r].op = "makeCoHost" THEN role[a] = "host" ELSE Moderates(a)
    IN  /\ req[r].op \in {"makeCoHost", "makeParticipant"}
        /\ req[r].step = "read"
        /\ IF allowed /\ pstatus[u] # "absent" /\ role[u] # "host"
           THEN Goto(r, "write", {u})
           ELSE Finish(r)
        /\ UNCHANGED <<callVars, rowVars, approved>>

\* UPDATE ... WHERE id = $1 AND role <> 'host'
RoleWrite(r) ==
    LET u == req[r].user
        new == IF req[r].op = "makeCoHost" THEN "co_host" ELSE "participant"
    IN  /\ req[r].op \in {"makeCoHost", "makeParticipant"}
        /\ req[r].step = "write"
        /\ u \notin Locked
        /\ role' = IF Held(r, u) /\ role[u] # "host" THEN [role EXCEPT ![u] = new] ELSE role
        /\ Finish(r)
        /\ UNCHANGED <<callVars, pstatus, left, approved, graced>>

TransferRead(r) ==
    LET u == req[r].user
    IN  /\ At(r, "transfer", "read")
        /\ IF role[req[r].actor] = "host" /\ pstatus[u] = "connected" /\ role[u] # "host"
           THEN Goto(r, "write", {})
           ELSE Finish(r)
        /\ UNCHANGED <<callVars, rowVars, approved>>

\* Mutant: the swap trusts the service's earlier reads.
Transferable_Stale(a, u) == pstatus[u] # "absent"

\* What the swap checks again under FOR UPDATE.
Transferable(a, u) == role[a] = "host" /\ role[u] # "host" /\ pstatus[u] = "connected"

TransferWrite(r) ==
    LET a == req[r].actor
        u == req[r].user
    IN  /\ At(r, "transfer", "write")
        /\ {a, u} \cap Locked = {}
        /\ role' = IF Transferable(a, u)
                   THEN [role EXCEPT ![a] = "participant", ![u] = "host"]
                   ELSE role
        /\ Finish(r)
        /\ UNCHANGED <<callVars, pstatus, left, approved, graced>>

RemoveRead(r) ==
    LET u == req[r].user
    IN  /\ At(r, "remove", "read")
        /\ IF role[req[r].actor] = "host" /\ pstatus[u] # "absent"
           THEN Goto(r, "write", {u})
           ELSE Finish(r)
        /\ UNCHANGED <<callVars, rowVars, approved>>

RemoveWrite(r) ==
    LET u == req[r].user
    IN  /\ At(r, "remove", "write")
        /\ \/ Held(r, u) /\ DisconnectIfConnected(u)
           \/ ~Held(r, u) /\ UNCHANGED rowVars
        /\ Finish(r)
        /\ UNCHANGED <<callVars, approved>>

-----------------------------------------------------------------------------
(* LiveKit webhooks and the stale-call sweep.  No transaction but the        *)
(* sweep's: the event is enqueued after the call was ended.                  *)

HookJoinedRead(r) ==
    LET u == req[r].user
    IN  /\ At(r, "hookJoined", "read")
        /\ IF pstatus[u] = "connected" /\ req[r].ringing /\ u # Creator
           THEN Goto(r, "activate", {})
           ELSE Finish(r)
        /\ UNCHANGED <<callVars, rowVars, approved>>

HookJoinedActivate(r) ==
    /\ At(r, "hookJoined", "activate")
    /\ ActivateRinging
    /\ Finish(r)
    /\ UNCHANGED <<endReason, announced, rowVars, approved>>

HookLeftRead(r) ==
    LET u == req[r].user
    IN  /\ At(r, "hookLeft", "read")
        /\ \/ pstatus[u] = "absent" /\ Finish(r)
           \/ pstatus[u] = "disconnected" /\ Goto(r, "autoEnd", {})
           \/ pstatus[u] \notin {"absent", "disconnected"} /\ Goto(r, "write", {u})
        /\ UNCHANGED <<callVars, rowVars, approved>>

HookLeftWrite(r) ==
    LET u == req[r].user
    IN  /\ At(r, "hookLeft", "write")
        /\ \/ Held(r, u) /\ DisconnectIfConnected(u) /\ Goto(r, "autoEnd", {})
           \/ ~Held(r, u) /\ UNCHANGED rowVars /\ Finish(r)
        /\ UNCHANGED <<callVars, approved>>

\* autoEndAfterLiveKitParticipantLeft lists the rows, and only then ends.
HookAutoEnd(r) ==
    /\ At(r, "hookLeft", "autoEnd")
    /\ IF AutoEnds(Active(pstatus)) THEN Goto(r, "end", {}) ELSE Finish(r)
    /\ UNCHANGED <<callVars, rowVars, approved>>

HookEnd(r) ==
    /\ req[r].op \in {"hookLeft", "roomFinished"}
    /\ req[r].step = "end"
    /\ \/ EndAndDisconnect("all_left", {}) /\ Goto(r, "publish", {})
       \/ callStatus = "ended" /\ UNCHANGED <<callStatus, endReason, rowVars>> /\ Finish(r)
    /\ UNCHANGED <<announced, approved>>

HookPublish(r) ==
    /\ req[r].step = "publish"
    /\ announced' = announced + 1
    /\ Finish(r)
    /\ UNCHANGED <<callStatus, endReason, rowVars, approved>>

\* endStaleOpenCallTx: reads the call again and disconnects every row, the
\* invited and the declined too.
SweepWrite(r) ==
    /\ At(r, "sweep", "write")
    /\ \/ /\ Locked = {}
          /\ EndAndDisconnect(IF callStatus = "ringing" THEN "missed" ELSE "all_left",
                              {u \in Users : pstatus[u] # "absent"})
          /\ announced' = announced + 1
       \/ callStatus = "ended" /\ UNCHANGED <<callVars, rowVars>>
    /\ Finish(r)
    /\ UNCHANGED approved

-----------------------------------------------------------------------------
Reconnecting(u) == \E r \in Requests : req[r].step = "reconnect" /\ req[r].user = u

\* A guest's reconnect grace of 30 seconds runs out.
GraceExpires(u) ==
    /\ left[u] = "recent"
    /\ left' = [left EXCEPT ![u] = "old"]
    /\ approved' = approved \ {u}
    /\ graced' = IF Reconnecting(u) THEN graced \cup {u} ELSE graced \ {u}
    /\ UNCHANGED <<callVars, pstatus, role, req>>

JoinNext(r) == JoinRead(r) \/ JoinInsert(r) \/ JoinAccept(r) \/ JoinUpdate(r)

RoomNext(r) ==
    \/ AdmitRead(r) \/ (\E u \in Users : AdmitWrite(r, u)) \/ AdmitActivate(r)
    \/ RejectRead(r) \/ RejectWrite(r)
    \/ InviteRead(r) \/ InviteWrite(r) \/ DeclineRead(r) \/ DeclineWrite(r)

LeaveNext(r) ==
    \/ LeaveRead(r) \/ LeaveLock(r) \/ LeaveCommit(r)
    \/ EndRead(r) \/ EndWrite(r) \/ CancelWrite(r)

RoleNext(r) ==
    \/ RoleRead(r) \/ RoleWrite(r) \/ TransferRead(r) \/ TransferWrite(r)
    \/ RemoveRead(r) \/ RemoveWrite(r)

HookNext(r) ==
    \/ HookJoinedRead(r) \/ HookJoinedActivate(r)
    \/ HookLeftRead(r) \/ HookLeftWrite(r) \/ HookAutoEnd(r) \/ HookEnd(r) \/ HookPublish(r)
    \/ SweepWrite(r)

RequestNext(r) ==
    \/ \E op \in AllOps, a, u \in Users : Begin(r, op, a, u)
    \/ JoinNext(r) \/ RoomNext(r) \/ LeaveNext(r) \/ RoleNext(r) \/ HookNext(r)
    \/ Abort(r)

Next ==
    \/ StartCall
    \/ \E r \in Requests : RequestNext(r)
    \/ \E u \in Users : GraceExpires(u)

Spec == Init /\ [][Next]_vars

-----------------------------------------------------------------------------
(* Properties. *)

\* The host slot is never held twice, whatever transfers, role changes, rejects
\* and joins race (TransferHost, UpdateParticipantRole; ALK-696).
AtMostOneHost == \A u, v \in Users : role[u] = "host" /\ role[v] = "host" => u = v

\* A call only moves forward, ringing to active to ended, and once it is ended
\* its end reason is settled, although six handlers try to end it.
CallMovesForward ==
    [][/\ callStatus = "ended" => callStatus' = "ended" /\ endReason' = endReason
       /\ callStatus = "active" => callStatus' \in {"active", "ended"}]_vars

\* Clients hear of the end of a call at most once and never before it, whichever
\* handlers race to end it: only the one whose statement ended the call enqueues
\* call.ended.
AnnouncedOnce == announced <= (IF callStatus = "ended" THEN 1 ELSE 0)

\* left_at agrees with the status: NULL for a connected participant, set for a
\* disconnected one; guestWithinReconnectGrace relies on it.
LeftAtMatchesStatus ==
    \A u \in Users :
        /\ pstatus[u] = "connected" => left[u] = "none"
        /\ pstatus[u] = "disconnected" => left[u] # "none"

\* A guest in the call was admitted by a moderator and has not been out of it for
\* longer than the grace since, whatever joins, admissions, leaves, removals and late
\* webhooks race: only the admission and the guests the grace lets back connect one
\* (JoinCall, ALK-700).  Not so for the guests in graced: those who left the waiting
\* room itself within the last 30 seconds, and those whose join had read the row
\* when the grace ran out.
GuestsAreApproved == \A g \in Guests : pstatus[g] = "connected" => g \in approved \cup graced

\* What guestReconnectGrace promises: "an already-admitted guest may silently
\* reconnect instead of re-knocking".  A guest who knocks, leaves the waiting room
\* and joins again within the grace is connected, though nobody ever admitted them.
OnlyAdmittedReconnect == \A g \in Guests : pstatus[g] = "connected" => g \in approved
=============================================================================
