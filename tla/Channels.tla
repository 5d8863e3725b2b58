------------------------------ MODULE Channels ------------------------------
(***************************************************************************)
(* The channels of a workspace, who is in them and who may act in them     *)
(* (service/chat, repository/postgres/channel.go, security/accesspolicy),  *)
(* guest invites (service/guest) and connections to another workspace      *)
(* (service/collaboration).  A request reads and decides first, and        *)
(* commits its transaction later; the copy it has read is in chreq.        *)
(***************************************************************************)
EXTENDS Workspace, SearchIndex

CONSTANTS
    Chans,            \* channel ids
    Remotes,          \* users who belong to the connected workspace
    Invites,          \* guest invite ids
    ChannelRequests, ChannelOps, MaxChannelReqs,
    InviteUses        \* max_uses of an invite

\* Resources of all kinds have jobs; ids are UUIDs.
ASSUME ChansAssumption == "none" \notin Chans /\ Chans \subseteq Docs

VARIABLES
    chan,        \* channels rows
    mem,         \* channel_members: mem[c][u]
    shared,      \* channel_access_grants: pairs <<channel, remote user>>
    connection,  \* workspace_connections.status of the pair of workspaces
    invite,      \* guest_invites rows
    grants,      \* guest_access_grants rows
    chreq,       \* requests between their checks and their transactions
    chCount

channelVars == <<chan, mem, shared, connection, invite, grants, chreq, chCount>>

NoChannel == [type |-> "none", archived |-> FALSE, name |-> 0]
Absent == [role |-> "none", dm |-> "accepted"]
NoInvite == [status |-> "none", uses |-> 0, chans |-> {}, call |-> FALSE, expired |-> FALSE]
IdleChannel == [op |-> "idle"]

ChannelsInit ==
    /\ chan = [c \in Chans |-> NoChannel]
    /\ mem = [c \in Chans |-> [u \in Users |-> Absent]]
    /\ shared = {}
    /\ connection = "none"
    /\ invite = [i \in Invites |-> NoInvite]
    /\ grants = {}
    /\ chreq = [q \in ChannelRequests |-> IdleChannel]
    /\ chCount = 0

Exists(c) == chan[c].type # "none"
InChannel(c, u) == mem[c][u].role # "none"
IsDM(c) == chan[c].type = "dm"

-----------------------------------------------------------------------------
(* Guest grants (security/guestaccess) and connections (collabaccess). *)

activeGrants(u) == {g \in grants : g.user = u /\ ~invite[g.invite].expired}

AllowsChannel(g, c) == ~g.call /\ (g.chans = {} \/ c \in g.chans)

HasChannelAccess(c, u) == \E g \in activeGrants(u) : AllowsChannel(g, c)

HasWorkspaceAccess(u) == \E g \in activeGrants(u) : ~g.call

\* The connection is active and both users are members of their workspaces.
CanShareChannel(u, t) == connection = "active" /\ role[u] # "none" /\ t \in Remotes

\* A channel without grants is not managed by a connection; otherwise one
\* grant that names the user must still be allowed.
authorizeCollaboration(c, u) ==
    \/ ~\E g \in shared : g.chan = c
    \/ \E g \in shared : g.chan = c /\ u \in {g.user, g.source} /\ CanShareChannel(g.source, g.user)

-----------------------------------------------------------------------------
(* Access to a channel (security/accesspolicy). *)

channelDecisionForWorkspaceMember(c, u, capability) ==
    \/ chan[c].type = "public" /\ (capability = "participate" => InChannel(c, u))
    \/ chan[c].type = "private" /\ InChannel(c, u)
    \/ IsDM(c) /\ InChannel(c, u) /\ authorizeCollaboration(c, u)

channelDecisionForCollaborator(c, u) ==
    IsDM(c) /\ InChannel(c, u) /\ authorizeCollaboration(c, u)

authorizeChannel(c, u, capability) ==
    /\ Exists(c)
    /\ chan[c].archived => capability = "manage"
    /\ IF role[u] # "none" THEN channelDecisionForWorkspaceMember(c, u, capability)
       ELSE HasChannelAccess(c, u) \/ channelDecisionForCollaborator(c, u)

\* What the channel lists show: archived channels only in their own list.
ListChannels(u) ==
    {c \in Chans : ~chan[c].archived /\ authorizeChannel(c, u, "view")
                     /\ (role[u] # "none" => InChannel(c, u))}

ListArchivedChannels(u) ==
    {c \in Chans : Exists(c) /\ chan[c].archived /\ role[u] # "none" /\ InChannel(c, u)}

ListDirectory(u) ==
    {c \in Chans : role[u] # "none" /\ authorizeChannel(c, u, "view") /\ ~chan[c].archived
                     /\ chan[c].type \in {"public", "private"}}

-----------------------------------------------------------------------------
(* Search documents of channels: the text is the name. *)

isSearchableChannel(ch) == ch.type \in {"public", "private"} /\ ~ch.archived

ChannelText(ch) == IF isSearchableChannel(ch) THEN ch.name ELSE 0

enqueueChannelSearchTx(c, ch) ==
    IF isSearchableChannel(ch) THEN Enqueue({c}, EnqueueUpsert(c, ch.name))
    ELSE UNCHANGED searchVars

\* Mutant: an archived channel stays in the index.
enqueueChannelSearchSyncTx_KeepsArchived(c, ch) == enqueueChannelSearchTx(c, ch)

enqueueChannelSearchSyncTx(c, ch) ==
    IF isSearchableChannel(ch) THEN enqueueChannelSearchTx(c, ch)
    ELSE Enqueue({c}, EnqueueDelete(c))

-----------------------------------------------------------------------------
(* What the requests check.  u acts in channel c, on user t, with x. *)

CreateChannelCheck(u, T) == \A t \in T \cup {u} : role[t] # "none"

IsUnarchive(ch, x) == x = "unarchive" /\ ch.archived

UpdateChannelCheck(c, u, x) ==
    /\ authorizeChannel(c, u, "manage")
    /\ ~IsDM(c)
    /\ chan[c].archived => IsUnarchive(chan[c], x)
    /\ InChannel(c, u)
    /\ mem[c][u].role = "owner" \/ Senior(role[u])

JoinChannelCheck(c, u) ==
    /\ chan[c].type = "public" /\ role[u] # "none"
    /\ ~chan[c].archived /\ ~InChannel(c, u)

canManageChannelMembers(c, u) ==
    /\ authorizeChannel(c, u, "participate")
    /\ mem[c][u].role = "owner" /\ chan[c].type \in {"public", "private"}

AddChannelMembersCheck(c, u, t) ==
    /\ canManageChannelMembers(c, u)
    /\ t # u /\ role[t] # "none" /\ ~InChannel(c, t)

RemoveChannelMemberCheck(c, u, t) ==
    /\ u # t /\ canManageChannelMembers(c, u)
    /\ mem[c][t].role = "member"

HaveDM(u, t) == \E c \in Chans : IsDM(c) /\ InChannel(c, u) /\ InChannel(c, t)

GetOrCreateDMCheck(u, t) ==
    /\ u # t /\ role[u] # "none"
    /\ IF t \in Remotes THEN CanShareChannel(u, t) ELSE role[t] # "none"
    /\ ~HaveDM(u, t)

DMRequestCheck(c, u) == authorizeChannel(c, u, "view") /\ IsDM(c) /\ InChannel(c, u)

validateInviteChannels(u, C) ==
    \A c \in C : /\ chan[c].type \in {"public", "private"} /\ ~chan[c].archived
                 /\ chan[c].type = "private" => InChannel(c, u)

IsValid(inv) == inv.status = "active" /\ ~inv.expired /\ inv.uses < InviteUses

validateRedeemChannels(C) == \A c \in C : ~chan[c].archived /\ ~IsDM(c)

RedeemInviteCheck(u, i) ==
    /\ IsValid(invite[i]) /\ validateRedeemChannels(invite[i].chans)
    /\ role[u] = "none"

ChannelCheck(r) ==
    \/ r.op = "create" /\ CreateChannelCheck(r.by, {r.on} \ {"none"})
    \/ r.op \in {"rename", "archive", "unarchive"} /\ UpdateChannelCheck(r.chan, r.by, r.op)
    \/ r.op = "join" /\ JoinChannelCheck(r.chan, r.by)
    \/ r.op = "leave" /\ Exists(r.chan)
    \/ r.op = "add" /\ AddChannelMembersCheck(r.chan, r.by, r.on)
    \/ r.op = "kick" /\ RemoveChannelMemberCheck(r.chan, r.by, r.on)
    \/ r.op = "dm" /\ GetOrCreateDMCheck(r.by, r.on)
    \/ r.op \in {"accept", "block"} /\ DMRequestCheck(r.chan, r.by)
    \/ r.op = "redeem" /\ RedeemInviteCheck(r.by, r.inv)

Targets(op) == CASE op \in {"add", "kick", "dm"} -> Users
                 [] op = "create" -> Users \cup {"none"}
                 [] OTHER -> {"none"}
ChansOf(op) == IF op \in {"create", "dm", "redeem"} THEN {"none"} ELSE Chans
InvitesOf(op) == IF op = "redeem" THEN Invites ELSE {"none"}

ChannelAsk(q) ==
    /\ chreq[q] = IdleChannel /\ chCount < MaxChannelReqs
    /\ \E op \in ChannelOps, u \in Users :
       \E t \in Targets(op), c \in ChansOf(op), i \in InvitesOf(op) :
        LET r == [op |-> op, by |-> u, on |-> t, chan |-> c, inv |-> i,
                  copy |-> IF c = "none" THEN NoChannel ELSE chan[c]]
        IN  ChannelCheck(r) /\ chreq' = [chreq EXCEPT ![q] = r]
    /\ chCount' = chCount + 1
    /\ UNCHANGED <<chan, mem, shared, connection, invite, grants>>
    /\ UNCHANGED <<workspaceVars, searchVars>>

-----------------------------------------------------------------------------
(* The transactions. *)

Done(q) == chreq' = [chreq EXCEPT ![q] = IdleChannel] /\ UNCHANGED <<chCount, workspaceVars>>

ChannelRollback(q) ==
    /\ chreq[q] # IdleChannel /\ Done(q)
    /\ UNCHANGED <<chan, mem, shared, connection, invite, grants, searchVars>>

MemberRow(r, dm) == [role |-> r, dm |-> dm]

CreateChannel(q) ==
    /\ chreq[q].op = "create"
    /\ \E c \in Chans, type \in {"public", "private"} :
        LET ch == [type |-> type, archived |-> FALSE, name |-> 1] IN
        /\ ~Exists(c)
        /\ chan' = [chan EXCEPT ![c] = ch]
        /\ mem' = [mem EXCEPT ![c] = [u \in Users |->
                     CASE u = chreq[q].by -> MemberRow("owner", "accepted")
                       [] u = chreq[q].on /\ u # chreq[q].by -> MemberRow("member", "accepted")
                       [] OTHER -> Absent]]
        /\ enqueueChannelSearchTx(c, ch)
    /\ Done(q)
    /\ UNCHANGED <<shared, connection, invite, grants>>

\* The row is written back from the copy: name, topic and the archived flag.
Rewritten(r) ==
    CASE r.op = "rename" -> [r.copy EXCEPT !.name = 3 - @]
      [] r.op = "archive" -> [r.copy EXCEPT !.archived = TRUE]
      [] r.op = "unarchive" -> [r.copy EXCEPT !.archived = FALSE]

UpdateChannel(q) ==
    /\ chreq[q].op \in {"rename", "archive", "unarchive"}
    /\ LET r == chreq[q] IN
        /\ chan' = [chan EXCEPT ![r.chan] = Rewritten(r)]
        /\ enqueueChannelSearchSyncTx(r.chan, Rewritten(r))
    /\ Done(q)
    /\ UNCHANGED <<mem, shared, connection, invite, grants>>

AddMember(c, u, row) == ~InChannel(c, u) /\ mem' = [mem EXCEPT ![c][u] = row]

JoinsChannel(q) ==
    /\ chreq[q].op \in {"join", "add"}
    /\ LET r == chreq[q] IN
       AddMember(r.chan, IF r.op = "join" THEN r.by ELSE r.on, MemberRow("member", "accepted"))
    /\ Done(q)
    /\ UNCHANGED <<chan, shared, connection, invite, grants, searchVars>>

LeavesChannel(q) ==
    /\ chreq[q].op \in {"leave", "kick"}
    /\ LET r == chreq[q] u == IF r.op = "leave" THEN r.by ELSE r.on IN
       InChannel(r.chan, u) /\ mem' = [mem EXCEPT ![r.chan][u] = Absent]
    /\ Done(q)
    /\ UNCHANGED <<chan, shared, connection, invite, grants, searchVars>>

\* A DM is never searchable; the recipient has to accept it.
GetOrCreateDM(q) ==
    /\ chreq[q].op = "dm"
    /\ \E c \in Chans : LET r == chreq[q] IN
        /\ ~Exists(c)
        /\ chan' = [chan EXCEPT ![c] = [type |-> "dm", archived |-> FALSE, name |-> 1]]
        /\ mem' = [mem EXCEPT ![c][r.by] = MemberRow("member", "accepted"),
                              ![c][r.on] = MemberRow("member", "pending")]
        /\ shared' = IF r.on \in Remotes
                     THEN shared \cup {[chan |-> c, source |-> r.by, user |-> r.on]} ELSE shared
    /\ Done(q)
    /\ UNCHANGED <<connection, invite, grants, searchVars>>

updateDMRequestStatus(q) ==
    /\ chreq[q].op \in {"accept", "block"}
    /\ LET r == chreq[q] IN
        /\ InChannel(r.chan, r.by)
        /\ mem' = [mem EXCEPT ![r.chan][r.by].dm =
                     IF r.op = "accept" THEN "accepted" ELSE "blocked"]
    /\ Done(q)
    /\ UNCHANGED <<chan, shared, connection, invite, grants, searchVars>>

\* Mutant: the update trusts the check of the request for what is left.
IncrementUseCount_Any(i) ==
    /\ invite[i].status = "active"
    /\ invite' = [invite EXCEPT ![i].uses = @ + 1]

IncrementUseCount(i) ==
    /\ invite[i].uses < InviteUses /\ invite[i].status = "active"
    /\ invite' = [invite EXCEPT ![i].uses = @ + 1]

\* The grant and the counter are one transaction; (invite, user) is unique.
RedeemInvite(q) ==
    /\ chreq[q].op = "redeem"
    /\ LET r == chreq[q] IN
        /\ ~\E g \in grants : g.invite = r.inv /\ g.user = r.by
        /\ grants' = grants \cup {[invite |-> r.inv, user |-> r.by,
                                   chans |-> invite[r.inv].chans, call |-> invite[r.inv].call]}
        /\ IncrementUseCount(r.inv)
    /\ Done(q)
    /\ UNCHANGED <<chan, mem, shared, connection, searchVars>>

-----------------------------------------------------------------------------
(* One statement each. *)

CreateInvite(i, u, C, call) ==
    /\ invite[i] = NoInvite /\ "invite" \in ChannelOps
    /\ role[u] \notin {"none", "guest"} /\ validateInviteChannels(u, C)
    /\ invite' = [invite EXCEPT ![i] = [status |-> "active", uses |-> 0, chans |-> C,
                                        call |-> call, expired |-> FALSE]]
    /\ UNCHANGED <<chan, mem, shared, connection, grants, chreq, chCount, workspaceVars, searchVars>>

RevokeInvite(i) ==
    /\ invite[i].status = "active" /\ \E u \in Users : Senior(role[u])
    /\ invite' = [invite EXCEPT ![i].status = "revoked"]
    /\ UNCHANGED <<chan, mem, shared, connection, grants, chreq, chCount, workspaceVars, searchVars>>

InviteExpires(i) ==
    /\ invite[i] # NoInvite /\ ~invite[i].expired
    /\ invite' = [invite EXCEPT ![i].expired = TRUE]
    /\ UNCHANGED <<chan, mem, shared, connection, grants, chreq, chCount, workspaceVars, searchVars>>

RequestConnection ==
    /\ connection = "none" /\ Remotes # {} /\ \E u \in Users : Senior(role[u])
    /\ connection' = "pending"
    /\ UNCHANGED <<chan, mem, shared, invite, grants, chreq, chCount, workspaceVars, searchVars>>

ApproveConnection ==
    /\ connection = "pending"
    /\ connection' = "active"
    /\ UNCHANGED <<chan, mem, shared, invite, grants, chreq, chCount, workspaceVars, searchVars>>

ConnectionExpires ==
    /\ connection = "active"
    /\ connection' = "expired"
    /\ UNCHANGED <<chan, mem, shared, invite, grants, chreq, chCount, workspaceVars, searchVars>>

ChannelsNext ==
    \/ \E q \in ChannelRequests :
        \/ ChannelAsk(q) \/ ChannelRollback(q)
        \/ CreateChannel(q) \/ UpdateChannel(q) \/ JoinsChannel(q) \/ LeavesChannel(q)
        \/ GetOrCreateDM(q) \/ updateDMRequestStatus(q) \/ RedeemInvite(q)
    \/ \E i \in Invites :
        \/ \E u \in Users, C \in SUBSET Chans, call \in BOOLEAN : CreateInvite(i, u, C, call)
        \/ RevokeInvite(i) \/ InviteExpires(i)
    \/ RequestConnection \/ ApproveConnection \/ ConnectionExpires

\* The workers of the index, without the rebuilds.
WorkersNext ==
    \/ \E w \in Indexers : IndexerNext(w)
    \/ \E d \in Docs : JobLeaseExpire(d) \/ JobRetryDue(d)

\* The administration, the channels and the index workers of a workspace whose
\* index nobody rebuilds.
ChannelsSpec ==
    /\ WorkspaceInit /\ SearchInit /\ ChannelsInit
    /\ [][\/ ChannelsNext
          \/ WorkspaceNext /\ UNCHANGED <<searchVars, channelVars>>
          \/ WorkersNext /\ UNCHANGED <<workspaceVars, channelVars>>]_<<workspaceVars, searchVars, channelVars>>

-----------------------------------------------------------------------------
\* The newest job of a channel says what the row says, whichever of several
\* updates made from stale copies committed last (enqueueChannelSearchSyncTx
\* writes the copy the row was written from, in the same transaction).
ChannelJobsCurrent ==
    \A c \in Chans : Exists(c) =>
        /\ job[c].status # "none" => job[c].text = ChannelText(chan[c])
        /\ job[c].status = "none" => ChannelText(chan[c]) = 0

GrantsOf(i) == {g \in grants : g.invite = i}

\* A redemption that saw the invite valid gives nothing once the invite is
\* revoked, or once others who saw the same have redeemed it as often as it
\* may be (the grant and IncrementUseCount's guard are one transaction).
\* Expiry is looked at before the transaction only: a redemption that was in
\* time then may give a grant afterwards.
SpentInviteGivesNothing ==
    [][\A g \in grants' \ grants :
         /\ invite[g.invite].status = "active"
         /\ Cardinality(GrantsOf(g.invite)) < InviteUses]_<<grants, invite>>
=============================================================================
