-------------------------------- MODULE Files --------------------------------
(* Files: the library of a workspace and message attachments, their rows  *)
(* in Postgres and their objects in the store (service/file).             *)
(*                                                                        *)
(* The object is put before the row is created and deleted after the row  *)
(* is gone; neither is in one transaction with the other.  A listing is   *)
(* read page by page while others upload, delete, share and revoke.       *)
EXTENDS Integers, FiniteSets, FiniteSetsExt

CONSTANTS
    FileUsers,      \* users of the workspace
    FileIds,        \* 1, 2, ... in the order of creation
    FileSizes,      \* sizes of uploads
    Quota,          \* defaultUserStorageLimitBytes
    UploadCap,      \* the upload limit of the category
    PageLimit,      \* files of a page
    FileRequests,   \* requests in progress
    MaxFileOps,     \* bound on requests
    MaxFileFaults   \* bound on failures

ASSUME FilesAssumption == FileIds \subseteq Nat \ {0} /\ FileSizes \subseteq Nat /\ PageLimit \in Nat \ {0}

VARIABLES
    lib,            \* rows: [kind, owner, size, row, shares]
    objects,        \* ids whose object is in the store
    fileJobs,       \* the last search job of an attachment
    made,           \* ids used
    chat,           \* users in the channel files are shared with
    msgAlive,       \* the message attachments belong to is not deleted
    favs,           \* file_favorites: <<user, file>>
    freq,           \* requests
    listed,         \* what the last complete listing showed, and what it had to show
    fileOps, fileFaults

fileVars == <<lib, objects, fileJobs, made, chat, msgAlive, favs, freq, listed, fileOps, fileFaults>>

NoFile == [kind |-> "none", owner |-> "none", size |-> 0, row |-> "none", shares |-> {}]
IdleFile == [op |-> "idle", at |-> "done", u |-> "none", f |-> 0, kind |-> "none", size |-> 0, target |-> "none",
             sort |-> "date", desc |-> FALSE, scope |-> "all", last |-> 0, seen |-> {}, again |-> {}, keep |-> {}]

FileDone(q) == freq' = [freq EXCEPT ![q] = IdleFile]
Step(q, at) == freq' = [freq EXCEPT ![q].at = at]
------------------------------------------------------------------------------
(* What a user may see.                                                   *)

\* loadAccessibleFiles: one's own files and those shared with one or with the
\* channel one is a member of.
SharedWith(u, f) == u \in lib[f].shares \/ ("chat" \in lib[f].shares /\ u \in chat)

loadAccessibleFiles(u) ==
    {f \in FileIds : lib[f].kind = "library" /\ lib[f].row = "live" /\ (lib[f].owner = u \/ SharedWith(u, f))}

GetAccessibleFile(u, f) == f \in loadAccessibleFiles(u)

\* canAccessMessage: the message is there and the user is in its channel.
canAccessMessage(u) == msgAlive /\ u \in chat

StorageUsedBytes(u) ==
    MapThenSumSet(LAMBDA f : lib[f].size,
                  {f \in FileIds : lib[f].kind = "library" /\ lib[f].owner = u /\ lib[f].row = "live"})

effectiveUploadLimits(size) == size <= UploadCap
------------------------------------------------------------------------------
(* Uploads.                                                               *)

AskUpload(q, u, kind, size) ==
    /\ freq[q] = IdleFile /\ fileOps < MaxFileOps
    /\ kind = "attachment" => canAccessMessage(u)
    /\ effectiveUploadLimits(size)
    /\ freq' = [freq EXCEPT ![q] = [IdleFile EXCEPT !.op = "upload", !.at = "check", !.u = u, !.kind = kind,
                                                    !.size = size]]
    /\ fileOps' = fileOps + 1
    /\ UNCHANGED <<fileJobs, lib, objects, made, chat, msgAlive, favs, listed, fileFaults>>

WithinQuota(u, size) == StorageUsedBytes(u) + size <= Quota

\* The quota of the library is read; the scanner may reject the file.
CheckUpload(q) ==
    /\ freq[q].at = "check"
    /\ \/ (freq[q].kind = "library" => WithinQuota(freq[q].u, freq[q].size)) /\ Step(q, "put")
       \/ FileDone(q)
    /\ UNCHANGED <<fileJobs, lib, objects, made, chat, msgAlive, favs, listed, fileOps, fileFaults>>

\* Put under a new key; it may fail.
Put(q) ==
    /\ freq[q].at = "put"
    /\ \/ /\ made + 1 \in FileIds /\ made' = made + 1
          /\ objects' = objects \cup {made + 1}
          /\ freq' = [freq EXCEPT ![q].at = "create", ![q].f = made + 1]
          /\ UNCHANGED fileFaults
       \/ /\ fileFaults < MaxFileFaults /\ fileFaults' = fileFaults + 1
          /\ FileDone(q) /\ UNCHANGED <<objects, made>>
    /\ UNCHANGED <<fileJobs, lib, chat, msgAlive, favs, listed, fileOps>>

\* In the transaction of the row: the search job of an attachment.
enqueueFileSearchTx(f, kind) == fileJobs' = IF kind = "attachment" THEN [fileJobs EXCEPT ![f] = "upsert"] ELSE fileJobs

enqueueFileDeleteSearchTx(f) ==
    fileJobs' = IF lib[f].kind = "attachment" THEN [fileJobs EXCEPT ![f] = "delete"] ELSE fileJobs

\* CreateFile, or CreateAttachment with its search job; an error goes on with
\* the clean-up, a crash leaves the object behind.
CreateFile(q) ==
    LET r == freq[q]
    IN  /\ r.at = "create"
        /\ \/ /\ lib' = [lib EXCEPT ![r.f] = [kind |-> r.kind, owner |-> r.u, size |-> r.size, row |-> "live",
                                              shares |-> {}]]
              /\ enqueueFileSearchTx(r.f, r.kind)
              /\ FileDone(q) /\ UNCHANGED fileFaults
           \/ /\ fileFaults < MaxFileFaults /\ fileFaults' = fileFaults + 1
              /\ (Step(q, "remove") \/ FileDone(q)) /\ UNCHANGED <<lib, fileJobs>>
        /\ UNCHANGED <<objects, made, chat, msgAlive, favs, listed, fileOps>>
------------------------------------------------------------------------------
(* Deletion.                                                              *)

\* DeleteLibraryFile is for the owner; Delete of an attachment for anyone who
\* may write in its channel.
MayDelete(u, f) ==
    \/ lib[f].kind = "library" /\ GetAccessibleFile(u, f) /\ lib[f].owner = u
    \/ lib[f].kind = "attachment" /\ lib[f].row = "live" /\ canAccessMessage(u)

AskDelete(q, u, f) ==
    /\ freq[q] = IdleFile /\ fileOps < MaxFileOps /\ MayDelete(u, f)
    /\ freq' = [freq EXCEPT ![q] = [IdleFile EXCEPT !.op = "delete", !.at = "row", !.u = u, !.f = f]]
    /\ fileOps' = fileOps + 1
    /\ UNCHANGED <<fileJobs, lib, objects, made, chat, msgAlive, favs, listed, fileFaults>>

DeleteFile_Later(q) ==
    /\ freq[q].at = "row" /\ Step(q, "remove")
    /\ UNCHANGED <<fileJobs, lib, objects, made, chat, msgAlive, favs, listed, fileOps, fileFaults>>

\* DeleteFile marks the row and drops the shares, DeleteAttachment deletes the
\* row; a library file that is already deleted is not found.
DeleteFile(q) ==
    LET f == freq[q].f
    IN  /\ freq[q].at = "row"
        /\ IF lib[f].kind = "library" /\ lib[f].row = "deleted"
           THEN FileDone(q) /\ UNCHANGED <<lib, fileJobs>>
           ELSE /\ lib' = [lib EXCEPT ![f].row = "deleted", ![f].shares = {}]
                /\ enqueueFileDeleteSearchTx(f) /\ Step(q, "remove")
        /\ UNCHANGED <<objects, made, chat, msgAlive, favs, listed, fileOps, fileFaults>>

\* The object follows, and stays for good when that fails.
DeleteObject(q) ==
    /\ freq[q].at = "remove"
    /\ \/ objects' = objects \ {freq[q].f} /\ UNCHANGED fileFaults
       \/ fileFaults < MaxFileFaults /\ fileFaults' = fileFaults + 1 /\ UNCHANGED objects
    /\ FileDone(q)
    /\ UNCHANGED <<fileJobs, lib, made, chat, msgAlive, favs, listed, fileOps>>
------------------------------------------------------------------------------
(* Sharing and favourites: the row is read, then written.                 *)

\* workspaceForShareTarget: one shares with a channel one may write in.
workspaceForShareTarget(u, target) == target = "chat" => u \in chat

AskShare(q, op, u, f, target) ==
    /\ freq[q] = IdleFile /\ fileOps < MaxFileOps
    /\ op \in {"share", "revoke"} => lib[f].owner = u /\ workspaceForShareTarget(u, target)
    /\ GetAccessibleFile(u, f)
    /\ freq' = [freq EXCEPT ![q] = [IdleFile EXCEPT !.op = op, !.at = "write", !.u = u, !.f = f, !.target = target]]
    /\ fileOps' = fileOps + 1
    /\ UNCHANGED <<fileJobs, lib, objects, made, chat, msgAlive, favs, listed, fileFaults>>

ShareFile(q) ==
    /\ freq[q].at = "write" /\ freq[q].op = "share"
    /\ lib' = [lib EXCEPT ![freq[q].f].shares = @ \cup {freq[q].target}]
    /\ FileDone(q)
    /\ UNCHANGED <<fileJobs, objects, made, chat, msgAlive, favs, listed, fileOps, fileFaults>>

RevokeFileShare(q) ==
    /\ freq[q].at = "write" /\ freq[q].op = "revoke"
    /\ lib' = [lib EXCEPT ![freq[q].f].shares = @ \ {freq[q].target}]
    /\ FileDone(q)
    /\ UNCHANGED <<fileJobs, objects, made, chat, msgAlive, favs, listed, fileOps, fileFaults>>

SetFavorite(q) ==
    /\ freq[q].at = "write" /\ freq[q].op = "favorite"
    /\ LET p == <<freq[q].u, freq[q].f>> IN favs' = IF p \in favs THEN favs \ {p} ELSE favs \cup {p}
    /\ FileDone(q)
    /\ UNCHANGED <<fileJobs, lib, objects, made, chat, msgAlive, listed, fileOps, fileFaults>>

\* Members of the channel come and go, the message may be deleted.
ChatChange(u) ==
    /\ fileOps < MaxFileOps /\ fileOps' = fileOps + 1
    /\ chat' = IF u \in chat THEN chat \ {u} ELSE chat \cup {u}
    /\ UNCHANGED <<fileJobs, lib, objects, made, msgAlive, favs, freq, listed, fileFaults>>

MessageDeleted ==
    /\ msgAlive /\ fileOps < MaxFileOps /\ fileOps' = fileOps + 1
    /\ msgAlive' = FALSE
    /\ UNCHANGED <<fileJobs, lib, objects, made, chat, favs, freq, listed, fileFaults>>
------------------------------------------------------------------------------
(* Listings.                                                              *)

filterLibraryFiles(files, u, scope) ==
    {f \in files : /\ scope = "mine" => lib[f].owner = u
                   /\ scope = "shared" => lib[f].owner # u
                   /\ scope = "favorites" => <<u, f>> \in favs}

\* sortLibraryFiles: by date or by size, the date and the id break ties.
Less(sort, f, g) ==
    IF sort = "size" /\ lib[f].size # lib[g].size THEN lib[f].size < lib[g].size ELSE f < g

sortLibraryFiles(sort, desc, f, g) == IF desc THEN Less(sort, g, f) ELSE Less(sort, f, g)

\* The page starts behind the file the cursor names.
PageStart_Repeats(files, r) ==
    {f \in files : r.last = 0 \/ f = r.last \/ sortLibraryFiles(r.sort, r.desc, r.last, f)}

PageStart(files, r) == {f \in files : r.last = 0 \/ sortLibraryFiles(r.sort, r.desc, r.last, f)}

AskList(q, u, sort, desc, scope) ==
    /\ freq[q] = IdleFile /\ fileOps < MaxFileOps
    /\ freq' = [freq EXCEPT ![q] = [IdleFile EXCEPT !.op = "list", !.at = "page", !.u = u, !.sort = sort,
                                        !.desc = desc, !.scope = scope, !.keep = FileIds]]
    /\ fileOps' = fileOps + 1
    /\ UNCHANGED <<fileJobs, lib, objects, made, chat, msgAlive, favs, listed, fileFaults>>

\* ListFiles: the next files behind the last one of the page before; that one gone,
\* the cursor is refused.  A page with files behind it names its last one.
ListFiles(q) ==
    LET r == freq[q]
        filtered == filterLibraryFiles(loadAccessibleFiles(r.u), r.u, r.scope)
        rest == PageStart(filtered, r)
        before(f, g) == sortLibraryFiles(r.sort, r.desc, f, g)
        page == {f \in rest : Cardinality({g \in rest : before(g, f)}) < PageLimit}
        read == [seen |-> r.seen \cup page, again |-> r.again \cup (r.seen \cap page), keep |-> r.keep \cap filtered]
    IN  /\ r.at = "page"
        /\ \/ r.last \notin filtered \cup {0} /\ FileDone(q) /\ UNCHANGED listed
           \/ r.last \in filtered \cup {0} /\ page = rest /\ FileDone(q) /\ listed' = read
           \/ /\ r.last \in filtered \cup {0} /\ page # rest
              /\ \E f \in page :
                    /\ \A g \in page \ {f} : before(g, f)
                    /\ freq' = [freq EXCEPT ![q].last = f, ![q].seen = read.seen, ![q].again = read.again,
                                            ![q].keep = read.keep]
              /\ UNCHANGED listed
        /\ UNCHANGED <<fileJobs, lib, objects, made, chat, msgAlive, favs, fileOps, fileFaults>>
------------------------------------------------------------------------------
FilesInit ==
    /\ lib = [f \in FileIds |-> NoFile] /\ objects = {} /\ made = 0 /\ fileJobs = [f \in FileIds |-> "none"]
    /\ chat = FileUsers /\ msgAlive = TRUE /\ favs = {}
    /\ freq = [q \in FileRequests |-> IdleFile] /\ listed = [seen |-> {}, again |-> {}, keep |-> {}]
    /\ fileOps = 0 /\ fileFaults = 0

StoreNext ==
    \/ \E q \in FileRequests, u \in FileUsers :
        \/ \E kind \in {"library", "attachment"}, size \in FileSizes : AskUpload(q, u, kind, size)
        \/ \E f \in FileIds : AskDelete(q, u, f)
    \/ \E q \in FileRequests : CheckUpload(q) \/ Put(q) \/ CreateFile(q) \/ DeleteFile(q) \/ DeleteObject(q)
    \/ MessageDeleted

LibraryNext ==
    \/ \E q \in FileRequests, u \in FileUsers :
        \/ \E f \in FileIds :
            \/ AskShare(q, "favorite", u, f, "none")
            \/ \E op \in {"share", "revoke"}, t \in (FileUsers \ {u}) \cup {"chat"} : AskShare(q, op, u, f, t)
        \/ \E sort \in {"date", "size"}, desc \in BOOLEAN, scope \in {"all", "mine", "shared", "favorites"} :
            AskList(q, u, sort, desc, scope)
    \/ \E q \in FileRequests : ShareFile(q) \/ RevokeFileShare(q) \/ SetFavorite(q) \/ ListFiles(q)
    \/ \E u \in FileUsers : ChatChange(u)

FilesSpec == FilesInit /\ [][StoreNext \/ LibraryNext]_fileVars
------------------------------------------------------------------------------
\* A file or attachment that is listed can be downloaded: its object was put
\* before its row and is deleted only after it, however requests fail.  What
\* search is told last about an attachment is whether it still exists.
RowHasItsObject ==
    \A f \in FileIds :
        /\ lib[f].row = "live" => f \in objects
        /\ fileJobs[f] = "upsert" <=> lib[f].kind = "attachment" /\ lib[f].row = "live"

\* A listing read to its end shows every file that was there all along, and none
\* twice, whatever was uploaded, deleted, shared or revoked between its pages.
PagesComplete == listed.again = {} /\ listed.keep \subseteq listed.seen
=============================================================================
