--------------------------- MODULE MCCallLifecycle ---------------------------
(* Calls: the lifecycle of a call of several kinds and its breakout rooms,  *)
(* side by side; each behaviour exercises one.                              *)
EXTENDS CallLifecycle, Breakout, CallControls, TLC

CONSTANTS Sides

VARIABLE side

mcVars == <<vars, breakoutVars, controlVars, side>>

\* "roles": waiting room, roles and a full meeting; "guests": a guest who knocks, is
\* admitted, leaves, drops, is removed and comes back; "invites": a one-to-one
\* call; "ending": an open meeting that six handlers end.
Meeting == INSTANCE CallLifecycle
    WITH Ops <- {"join", "admit", "reject", "makeCoHost", "transfer"}, EntryMode <- "open"
Door == INSTANCE CallLifecycle
    WITH Ops <- {"join", "admit", "reject", "invite", "leave", "remove", "hookLeft"}, Cap <- 0
Direct == INSTANCE CallLifecycle
    WITH Ops <- {"join", "invite", "decline", "remove", "admitAll", "leave", "makeParticipant"},
         OneToOne <- TRUE, Cap <- 0
Open == INSTANCE CallLifecycle
    WITH Ops <- {"join", "leave", "end", "cancel", "hookLeft", "hookJoined", "roomFinished", "sweep"},
         EntryMode <- "open", Cap <- 0

\* Bounds: only a moderator asks for what moderators may do, and only a host for
\* changes of roles (it may have lost its role when it is served); guests join
\* meetings only, and only guests are rejected.
\* The host of side "guests" stays in the call.
CallStep ==
    /\ \/ /\ side = "roles" /\ Meeting!Next
          /\ \A r \in Requests : req[r] = Idle /\ req'[r].op \notin {"none", "join"} => Moderates(req'[r].actor)
          /\ \A r \in Requests : req[r] = Idle /\ req'[r].op \in {"makeCoHost", "transfer"} => role[req'[r].actor] = "host"
          /\ \A r \in Requests : req'[r].op = "reject" => req'[r].user \in Guests
       \/ /\ side = "guests" /\ Door!Next
          /\ \A r \in Requests : req[r] = Idle /\ req'[r].op # "none" =>
               /\ {req'[r].actor, req'[r].user} \subseteq Guests \cup {Creator}
               /\ IF req'[r].op \in {"join", "leave", "hookLeft"} THEN req'[r].user # Creator
                                                             ELSE req'[r].actor = Creator /\ req'[r].user # Creator
       \/ /\ side \in {"invites", "ending"}
          /\ \/ side = "invites" /\ Direct!Next
             \/ side = "ending" /\ Open!Next
          /\ \A r \in Requests : {req'[r].actor, req'[r].user} \cap Guests = {}
    /\ UNCHANGED <<breakoutVars, controlVars, side>>

FirstRoom == CHOOSE r \in BRooms : TRUE

\* Bounds: the host only opens and closes rooms, the first before the second, and
\* is the last to go; two requests are at work and one leave unreported at once, and
\* the first room may have a time limit, when the host closes one room at a time.
BreakoutStep ==
    /\ side = "breakouts" /\ BreakoutNext /\ UNCHANGED <<vars, controlVars, side>>
    /\ Cardinality(breq') <= 2 /\ Cardinality(lefts') <= 1 /\ timed' \subseteq {FirstRoom}
    /\ \A r \in BRooms : broom'[r] # "none" => broom'[FirstRoom] # "none"
    /\ \A x \in breq' : x.op \in {"join", "return"} => x.u # BHost
    /\ client'[BHost] = "gone" => \A u \in BUsers : client'[u] = "gone"
    /\ timed' # {} => \A x \in breq' : x.op # "close_all"

\* Bounds: "policy": settings and grants against joins; "flags": the flags of the
\* rows and the featured share, with nobody leaving.
ControlStep ==
    /\ ControlNext /\ UNCHANGED <<vars, breakoutVars, side>>
    /\ \/ /\ side = "policy"
          /\ \A x \in creq' : x.op \in {"settings", "grant", "revoke"}
          /\ featured' = "none" /\ Cardinality(tracks') <= 1
       \/ /\ side = "flags"
          /\ \A x \in creq' : x.op \in {"mute", "media", "track"}
          /\ pinned' = "none" /\ joined \subseteq joined' /\ cfaults' = 0

MCInit == side \in Sides /\ Init /\ BreakoutInit /\ ControlInit
MCNext == CallStep \/ BreakoutStep \/ ControlStep
MCSpec == MCInit /\ [][MCNext]_mcVars

Symmetry == Permutations(Requests) \cup Permutations(CMembers)
=============================================================================
