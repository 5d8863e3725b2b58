----------------------------- MODULE MCWorkspace -----------------------------
(* A workspace: its administration and channels, its files, and requests    *)
(* that clients send again.  The parts are side by side; each behaviour     *)
(* exercises one.                                                           *)
EXTENDS Channels, Files, Idempotency

CONSTANTS Sides

VARIABLE side

mcVars == <<workspaceVars, searchVars, channelVars, fileVars, vars, side>>

\* The library starts with two files of "u" and one of "v".
LibraryInit ==
    /\ lib = [f \in FileIds |-> IF f > 3 THEN NoFile ELSE
                [kind |-> "library", owner |-> IF f = 3 THEN "v" ELSE "u", size |-> IF f = 2 THEN 1 ELSE 2, row |-> "live",
                 shares |-> IF f = 2 THEN {"v"} ELSE {"chat"}]]
    /\ objects = {1, 2, 3} /\ made = 3 /\ fileJobs = [f \in FileIds |-> "none"]
    /\ chat = FileUsers /\ msgAlive = FALSE /\ favs = {}
    /\ freq = [q \in FileRequests |-> IdleFile] /\ listed = [seen |-> {}, again |-> {}, keep |-> {}]
    /\ fileOps = 0 /\ fileFaults = 0

MCInit ==
    /\ side \in Sides /\ WorkspaceInit /\ SearchInit /\ ChannelsInit /\ Init
    /\ IF side = "library" THEN LibraryInit ELSE FilesInit
    /\ side # "retries" => content = [q \in Requests |-> CHOOSE c \in Contents : TRUE]

ChannelsRest == chCount = 0 /\ connection = "none" /\ \A i \in Invites : invite[i] = NoInvite

\* No index worker runs here.  Bound: once the channels have moved
\* administration rests, and the other way round.
ChannelsStep ==
    /\ side = "channels" /\ UNCHANGED <<fileVars, vars>>
    /\ \/ ChannelsRest /\ WorkspaceNext /\ UNCHANGED <<searchVars, channelVars>>
       \/ admCount = 0 /\ ChannelsNext

\* "invites": users who were removed and outsiders redeem one invite at once.
InvitesStep ==
    /\ side = "invites" /\ UNCHANGED <<fileVars, vars>>
    /\ \/ /\ WorkspaceNext /\ UNCHANGED <<searchVars, channelVars>>
          /\ \A q \in AdminRequests : adm'[q].op \in {"idle", "remove"}
       \/ /\ ChannelsNext /\ connection' = "none"
          /\ \A q \in ChannelRequests : chreq'[q].op \in {"idle", "redeem"}

\* "store": uploads and deletions that overlap and fail; "library": a listing
\* read while three files are shared, starred and deleted.
FilesStep ==
    /\ side \in {"store", "library"}
    /\ StoreNext \/ (side = "library" /\ LibraryNext)
    /\ side = "library" => fileFaults' = 0
    /\ UNCHANGED <<workspaceVars, searchVars, channelVars, vars>>

RetriesStep == side = "retries" /\ Next /\ UNCHANGED <<workspaceVars, searchVars, channelVars, fileVars>>

MCNext == (ChannelsStep \/ InvitesStep \/ FilesStep \/ RetriesStep) /\ UNCHANGED side
MCSpec == MCInit /\ [][MCNext]_mcVars
=============================================================================
