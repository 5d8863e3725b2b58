---------------------------- MODULE CallControls ----------------------------
(* What members of a call may publish (service/call/settings, sharing,     *)
(* livekit): the settings of the call, a grant to share the screen in each *)
(* participant's row, and the permission LiveKit holds for each client.    *)
(*                                                                        *)
(* The three are written one after another: a settings update that takes   *)
(* something away cuts it in LiveKit first, then stores, then looks again  *)
(* for members who came in between.  Tokens carry what was allowed when    *)
(* they were issued.  Hosts and co-hosts, who are never restricted, and    *)
(* breakout rooms (another LiveKit room) are outside.                      *)
EXTENDS Integers, FiniteSets

CONSTANTS
    CMembers,           \* participants who are neither host, co-host nor viewer
    CSources,           \* subset of {"mic", "screen"}: the camera is like the microphone
    MaxShares,          \* media.MaxScreenSharesPerCall
    MaxCOps, MaxCFaults

VARIABLES
    policy,             \* the sources the stored settings allow members
    granted,            \* members with can_screen_share
    joined,             \* members whose row is connected (the others have left)
    muted, sharing,     \* members with audio_muted, with screen_sharing
    featured, pinned,   \* the host's picks: a member or "none"
    token,              \* the sources of an issued token, or {"none"}
    lk,                 \* LiveKit's view of a client: [in, perm, live]
    tracks,             \* screen-track webhooks under way: [u, on]
    creq,               \* requests at work
    cops, cfaults,
    strayed             \* members whose LiveKit permission nothing will put right

controlVars == <<policy, granted, joined, muted, sharing, featured, pinned, token, lk, tracks, creq, cops, cfaults, strayed>>
flagVars == <<granted, joined, muted, sharing>>
pickVars == <<featured, pinned>>

NoToken == {"none"}
Gone == [in |-> FALSE, perm |-> {}, live |-> {}]

\* resolveMemberPublish, for a member.
resolveMemberPublish(settings, grant) == settings \ (IF grant THEN {} ELSE {"screen"})
Allowed(u) == resolveMemberPublish(policy, u \in granted)

Work == [op : {"settings", "grant", "revoke", "mute", "media", "track"}, at : {"list", "cut", "store", "again", "recut"},
         s : SUBSET CSources, todo : SUBSET CMembers, g : SUBSET CMembers, m : BOOLEAN, sh : BOOLEAN, id : 0 .. MaxCOps]

Order(op, at, s, todo) ==
    [op |-> op, at |-> at, s |-> s, todo |-> todo, g |-> granted,
     m |-> todo \subseteq muted, sh |-> todo \subseteq sharing, id |-> cops]
Asks(x) == cops < MaxCOps /\ cops' = cops + 1 /\ creq' = creq \cup {x}
Continues(x, y) == creq' = (creq \ {x}) \cup {y}
Finishes(x) == creq' = creq \ {x}

\* Moderators' requests that write permissions: one about the settings is about
\* everybody.
About(x) == IF x.op = "settings" THEN CMembers ELSE IF x.op \in {"grant", "revoke"} THEN x.todo ELSE {}

\* Requests about the same member at work at once are not ordered: what each
\* writes to LiveKit and to the rows may be out of step for good.
Overlaps(x) == strayed' = strayed \cup UNION {About(x) \cap About(y) : y \in creq}

\* UpdateParticipant: LiveKit replaces the permission and unpublishes what it no
\* longer covers, which it reports later.
UpdateParticipant(u, perm) ==
    /\ lk' = [lk EXCEPT ![u] = [in |-> TRUE, perm |-> perm, live |-> lk[u].live \cap perm]]
    /\ tracks' = IF "screen" \in lk[u].live \ perm THEN tracks \cup {[u |-> u, on |-> FALSE]} ELSE tracks
------------------------------------------------------------------------------
(* Clients.                                                               *)

JoinCall(u) ==
    /\ u \notin joined
    /\ joined' = joined \cup {u}
    /\ UNCHANGED <<policy, granted, muted, sharing, pickVars, token, lk, tracks, creq, cops, cfaults, strayed>>

\* The handler reads the call again and issues a token with what it allows now.
mintLiveKitToken(u) ==
    /\ u \in joined /\ ~lk[u].in /\ token[u] = NoToken
    /\ token' = [token EXCEPT ![u] = Allowed(u)]
    /\ UNCHANGED <<policy, flagVars, pickVars, lk, tracks, creq, cops, cfaults, strayed>>

\* A client connects with its token, however old.  It strays when the token allows
\* more than the call does by now, or while its grant is being changed.
Connects(u) ==
    /\ token[u] # NoToken /\ ~lk[u].in
    /\ lk' = [lk EXCEPT ![u] = [in |-> TRUE, perm |-> token[u], live |-> {}]]
    /\ token' = [token EXCEPT ![u] = NoToken]
    /\ strayed' = IF token[u] \subseteq Allowed(u) /\ \A x \in creq : x.op = "settings" \/ u \notin About(x)
                  THEN strayed ELSE strayed \cup {u}
    /\ UNCHANGED <<policy, flagVars, pickVars, tracks, creq, cops, cfaults>>

\* A client starts or stops sending; only screen tracks are reported.
Publishes(u, src) ==
    /\ lk[u].in /\ src \in lk[u].perm \ lk[u].live
    /\ lk' = [lk EXCEPT ![u].live = @ \cup {src}]
    /\ tracks' = IF src = "screen" THEN tracks \cup {[u |-> u, on |-> TRUE]} ELSE tracks
    /\ UNCHANGED <<policy, flagVars, pickVars, token, creq, cops, cfaults, strayed>>

\* clearPinnedParticipantIfMatches
clearPinnedParticipantIfMatches(u) == pinned' = IF pinned = u THEN "none" ELSE pinned

LeaveCall(u) ==
    /\ u \in joined /\ cops < MaxCOps /\ cops' = cops + 1
    /\ joined' = joined \ {u} /\ clearPinnedParticipantIfMatches(u)
    /\ lk' = [lk EXCEPT ![u] = Gone]
    /\ token' = [token EXCEPT ![u] = NoToken]
    /\ tracks' = IF "screen" \in lk[u].live THEN tracks \cup {[u |-> u, on |-> FALSE]} ELSE tracks
    /\ UNCHANGED <<policy, granted, muted, sharing, featured, creq, cfaults, strayed>>
------------------------------------------------------------------------------
(* Settings.                                                              *)

publishRestrictionTightened(old, next) == ~(old \subseteq next)
publishAffectingChanged(old, next) == old # next

\* UpdateCallSettings: what takes something away is enforced before it is stored.
UpdateCallSettings(s) ==
    LET x == Order("settings", IF publishRestrictionTightened(policy, s) THEN "list" ELSE "store", s, {})
    IN  /\ publishAffectingChanged(policy, s)
        /\ Asks(x) /\ Overlaps(x)
        /\ UNCHANGED <<policy, flagVars, pickVars, token, lk, tracks, cfaults>>

\* enforceMemberPublishPolicy lists the rows, then goes through them; a member
\* not in the LiveKit room yet makes UpdateParticipant fail.
isPolicyEnforceableMember(u) == u \in joined

ListParticipants(x) ==
    /\ x.op = "settings" /\ x.at \in {"list", "again"}
    /\ Continues(x, [x EXCEPT !.at = IF x.at = "list" THEN "cut" ELSE "recut",
                              !.todo = {u \in CMembers : isPolicyEnforceableMember(u)}, !.g = granted])
    /\ UNCHANGED <<policy, flagVars, pickVars, token, lk, tracks, cops, cfaults, strayed>>

enforceMemberPublishPolicy(x) ==
    /\ x.op = "settings" /\ x.at \in {"cut", "recut"}
    /\ \E u \in x.todo :
        /\ lk[u].in
        /\ UpdateParticipant(u, resolveMemberPublish(x.s, u \in x.g))
        /\ Continues(x, [x EXCEPT !.todo = @ \ {u}])
    /\ UNCHANGED <<policy, flagVars, pickVars, token, cops, cfaults, strayed>>

\* What becomes of a request whose next step fails: before the settings are stored
\* they stay as they were (but members reached already keep what the same patch
\* would have allowed); afterwards the failure is only logged, and the members not
\* reached yet stray.
LeftOver(x) ==
    {u \in CMembers :
        \/ x.op = "settings" /\ x.at = "cut" /\ ~(x.s \subseteq policy) /\ u \notin x.todo
        \/ x.op = "settings" /\ x.at = "again" /\ u \in joined
        \/ x.op = "settings" /\ x.at = "recut" /\ u \in x.todo
        \/ x.op = "grant" /\ x.at = "store" /\ u \in x.todo}

Abandons(x) ==
    /\ Finishes(x)
    /\ strayed' = strayed \cup LeftOver(x)
    /\ UNCHANGED <<policy, flagVars, pickVars, token, lk, tracks, cops>>

NotThere(x) ==
    /\ x.op \in {"settings", "grant", "revoke"} /\ x.at \in {"cut", "recut"}
    /\ \E u \in x.todo : ~lk[u].in
    /\ Abandons(x) /\ UNCHANGED cfaults

\* A database or LiveKit call fails, or the process dies.
StepFails(x) == cfaults < MaxCFaults /\ cfaults' = cfaults + 1 /\ Abandons(x)

\* Mutant: no second look.
persistCallSettingsAndAccess_Once(x) ==
    /\ x.op = "settings" /\ (x.at = "store" \/ (x.at = "cut" /\ x.todo = {}))
    /\ policy' = x.s
    /\ Finishes(x)
    /\ UNCHANGED <<flagVars, pickVars, token, lk, tracks, cops, cfaults, strayed>>

\* persistCallSettingsAndAccess writes all the settings of the request's copy; then
\* reconcileMemberPublishPolicy goes through the members once more.
persistCallSettingsAndAccess(x) ==
    /\ x.op = "settings" /\ (x.at = "store" \/ (x.at = "cut" /\ x.todo = {}))
    /\ policy' = x.s
    /\ Continues(x, [x EXCEPT !.at = "again"])
    /\ UNCHANGED <<flagVars, pickVars, token, lk, tracks, cops, cfaults, strayed>>

SettingsUpdated(x) ==
    /\ x.op = "settings" /\ x.at = "recut" /\ x.todo = {}
    /\ Finishes(x)
    /\ UNCHANGED <<policy, flagVars, pickVars, token, lk, tracks, cops, cfaults, strayed>>
------------------------------------------------------------------------------
(* Grants, mutes and picks.                                               *)

\* A request of the member (RequestScreenShare) changes nothing; approved by the
\* host (ResolveShareRequest) it is a grant.
GrantScreenShare(u) ==
    LET x == Order("grant", "cut", policy, {u})
    IN  /\ Asks(x) /\ Overlaps(x)
        /\ UNCHANGED <<policy, flagVars, pickVars, token, lk, tracks, cfaults>>

RevokeScreenShare(u) ==
    LET x == Order("revoke", "cut", policy, {u})
    IN  /\ Asks(x) /\ Overlaps(x)
        /\ UNCHANGED <<policy, flagVars, pickVars, token, lk, tracks, cfaults>>

\* LiveKit first, with the settings the request read, then the row.
updateLiveKitParticipantPermission(x) ==
    /\ x.op \in {"grant", "revoke"} /\ x.at = "cut"
    /\ \E u \in x.todo :
        lk[u].in /\ UpdateParticipant(u, resolveMemberPublish(x.s, x.op = "grant"))
    /\ Continues(x, [x EXCEPT !.at = "store"])
    /\ UNCHANGED <<policy, flagVars, pickVars, token, cops, cfaults, strayed>>

SetCanScreenShare(x) ==
    /\ x.op \in {"grant", "revoke"} /\ x.at = "store"
    /\ granted' = IF x.op = "grant" THEN granted \cup x.todo ELSE granted \ x.todo
    /\ Finishes(x)
    /\ UNCHANGED <<policy, joined, muted, sharing, pickVars, token, lk, tracks, cops, cfaults, strayed>>

\* MuteParticipant, DisableParticipantCamera: the track, then the row from the
\* copy read first.
MuteParticipant(u) ==
    /\ u \in joined \ muted /\ Asks([Order("mute", "cut", {}, {u}) EXCEPT !.m = TRUE])
    /\ UNCHANGED <<policy, flagVars, pickVars, token, lk, tracks, cfaults, strayed>>

muteLiveKitParticipantTracks(x) ==
    /\ x.op = "mute" /\ x.at = "cut"
    /\ lk' = [u \in CMembers |-> IF u \in x.todo THEN [lk[u] EXCEPT !.live = @ \ {"mic"}] ELSE lk[u]]
    /\ Continues(x, [x EXCEPT !.at = "store"])
    /\ UNCHANGED <<policy, flagVars, pickVars, token, tracks, cops, cfaults, strayed>>

\* checkScreenShareCapacity counts the others who share.
checkScreenShareCapacity(u) == Cardinality((sharing \cap joined) \ {u}) < MaxShares

\* UpdateMedia: a member patches its own row, where the settings allow it.
UpdateMedia(u, field, value) ==
    LET x == Order("media", "store", {}, {u})
    IN  /\ u \in joined
        /\ field = "audio" => (~value => "mic" \in policy)
        /\ field = "screen" /\ value => /\ "screen" \in policy
                                        /\ u \in sharing \/ (checkScreenShareCapacity(u) /\ u \in granted)
        /\ Asks(IF field = "audio" THEN [x EXCEPT !.m = value] ELSE [x EXCEPT !.sh = value])
        /\ UNCHANGED <<policy, flagVars, pickVars, token, lk, tracks, cfaults, strayed>>

\* handleLiveKitTrackChanged: a share that ended is no longer featured; the row
\* follows.
handleLiveKitTrackChanged(t) ==
    /\ tracks' = tracks \ {t}
    /\ featured' = IF ~t.on /\ featured = t.u THEN "none" ELSE featured
    /\ IF t.on = (t.u \in sharing) THEN UNCHANGED creq
       ELSE creq' = creq \cup {[Order("track", "store", {}, {t.u}) EXCEPT !.sh = t.on]}
    /\ UNCHANGED <<policy, flagVars, pinned, token, lk, cops, cfaults, strayed>>

\* UpdateParticipantMedia writes all the flags of the request's copy.
UpdateParticipantMedia(x) ==
    /\ x.op \in {"mute", "media", "track"} /\ x.at = "store"
    /\ muted' = IF x.m THEN muted \cup x.todo ELSE muted \ x.todo
    /\ sharing' = IF x.sh THEN sharing \cup x.todo ELSE sharing \ x.todo
    /\ Finishes(x)
    /\ UNCHANGED <<policy, granted, joined, pickVars, token, lk, tracks, cops, cfaults, strayed>>

\* A row is enough to be featured; to be pinned one has to be connected.
SetFeaturedShare(u) ==
    /\ cops < MaxCOps /\ cops' = cops + 1
    /\ featured' = u /\ u # featured
    /\ UNCHANGED <<policy, flagVars, pinned, token, lk, tracks, creq, cfaults, strayed>>

SetPinnedParticipant(u) ==
    /\ u \in joined \cup {"none"}
    /\ cops < MaxCOps /\ cops' = cops + 1
    /\ pinned' = u /\ u # pinned
    /\ UNCHANGED <<policy, flagVars, featured, token, lk, tracks, creq, cfaults, strayed>>
------------------------------------------------------------------------------
ControlInit ==
    /\ policy = CSources /\ granted \in {{}, CMembers}
    /\ joined = {} /\ muted = {} /\ sharing = {}
    /\ featured = "none" /\ pinned = "none"
    /\ token = [u \in CMembers |-> NoToken] /\ lk = [u \in CMembers |-> Gone]
    /\ tracks = {} /\ creq = {} /\ cops = 0 /\ cfaults = 0 /\ strayed = {}

Client(u) ==
    \/ JoinCall(u) \/ mintLiveKitToken(u) \/ Connects(u) \/ LeaveCall(u)
    \/ \E src \in CSources : Publishes(u, src)
    \/ \E value \in BOOLEAN : UpdateMedia(u, "audio", value) \/ UpdateMedia(u, "screen", value)

Moderator ==
    \/ \E s \in SUBSET CSources : UpdateCallSettings(s)
    \/ \E u \in CMembers : GrantScreenShare(u) \/ RevokeScreenShare(u) \/ MuteParticipant(u)
    \/ \E u \in CMembers \cup {"none"} : SetFeaturedShare(u) \/ SetPinnedParticipant(u)

Serve(x) ==
    \/ ListParticipants(x) \/ enforceMemberPublishPolicy(x) \/ NotThere(x) \/ StepFails(x)
    \/ persistCallSettingsAndAccess(x) \/ SettingsUpdated(x)
    \/ updateLiveKitParticipantPermission(x) \/ SetCanScreenShare(x)
    \/ muteLiveKitParticipantTracks(x) \/ UpdateParticipantMedia(x)

ControlNext ==
    \/ Moderator
    \/ \E u \in CMembers : Client(u)
    \/ \E x \in creq : Serve(x)
    \/ \E t \in tracks : handleLiveKitTrackChanged(t)

ControlSpec == ControlInit /\ [][ControlNext]_controlVars
------------------------------------------------------------------------------
\* Once the moderators' requests are done, with or without errors, no member can
\* publish, or still publishes, what the stored settings and its grant deny:
\* UpdateCallSettings never stores a denial that LiveKit does not enforce, and its
\* second look catches the members who connected while it enforced
\* (settings.go:156-176).  Not covered, because the code has nothing for it: members
\* in `strayed'.
DeniedIsCut ==
    (\A x \in creq : About(x) = {}) =>
        \A u \in joined \ strayed :
            lk[u].in => lk[u].perm \subseteq Allowed(u) /\ lk[u].live \subseteq lk[u].perm
=============================================================================
