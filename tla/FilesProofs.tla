---------------------------- MODULE FilesProofs ----------------------------
(***************************************************************************)
(* Proved for any number of users, files and requests: a row that is       *)
(* listed has its object.  An upload owns the object it has put until it   *)
(* creates the row; a request that removes an object names no live row,    *)
(* and no upload will bring that row to life.  Further down: that listings *)
(* are complete, and what the replay of a request may say.                 *)
(***************************************************************************)
EXTENDS Files, Idempotency, FiniteSetTheorems, TLAPS

Rows == [kind : {"none", "library", "attachment"}, owner : FileUsers \cup {"none"}, size : FileSizes \cup {0},
         row : {"none", "live", "deleted"}, shares : SUBSET (FileUsers \cup {"chat", "none"})]

Stages == {"done", "check", "put", "create", "row", "remove", "write", "page"}

RequestOK(r) ==
    /\ DOMAIN r = DOMAIN IdleFile
    /\ r.at \in Stages
    /\ r.kind \in {"none", "library", "attachment"} /\ r.u \in FileUsers \cup {"none"}
    /\ r.size \in FileSizes \cup {0} /\ r.target \in FileUsers \cup {"chat", "none"}
    /\ r.at \in {"check", "put", "create"} => r.kind # "none"
    /\ r.at \in {"create", "row", "remove", "write"} => r.f \in FileIds

FilesTypeOK ==
    /\ lib \in [FileIds -> Rows]
    /\ objects \subseteq FileIds /\ made \in Nat
    /\ fileJobs \in [FileIds -> {"none", "upsert", "delete"}]
    /\ DOMAIN freq = FileRequests /\ \A q \in FileRequests : RequestOK(freq[q])

\* What is not made yet has no row.
Fresh == \A f \in FileIds : f > made => lib[f].row = "none"

\* An upload has put the object of the row it will create, which is no other
\* request's business.
UploadOwns ==
    \A q \in FileRequests : freq[q].at = "create" =>
        /\ lib[freq[q].f].row = "none" /\ freq[q].f \in objects /\ freq[q].f <= made
        /\ \A p \in FileRequests \ {q} : freq[p].at \in {"create", "remove"} => freq[p].f # freq[q].f

\* An object is removed when its row is gone, a row is deleted when it was there.
RemovesNoRow ==
    \A q \in FileRequests :
        /\ freq[q].at = "remove" => lib[freq[q].f].row # "live" /\ freq[q].f <= made
        /\ freq[q].at = "row" => lib[freq[q].f].row # "none"

FilesInv == FilesTypeOK /\ Fresh /\ UploadOwns /\ RemovesNoRow /\ RowHasItsObject

\* The first state satisfies the invariant.
LEMMA InitFilesInv == FilesInit => FilesInv
BY FilesAssumption
   DEF FilesInit, FilesInv, FilesTypeOK, Rows, RequestOK, Stages, NoFile, IdleFile, Fresh, UploadOwns,
       RemovesNoRow, RowHasItsObject

\* Ids are compared as numbers.
LEMMA IdsInOrder == FilesInv => \A g \in FileIds : g > made <=> ~(g <= made)
<1> SUFFICES ASSUME FilesInv, NEW g \in FileIds PROVE g > made <=> ~(g <= made)
  OBVIOUS
<1>1. g \in Nat /\ made \in Nat
  BY FilesAssumption DEF FilesInv, FilesTypeOK
<1> QED BY <1>1

\* A request that only reads, asks or ends leaves the rest of the invariant alone.
LEMMA OnlyRequest ==
    ASSUME FilesInv, NEW q \in FileRequests, UNCHANGED <<lib, objects, made, fileJobs>>,
           NEW r, freq' = [freq EXCEPT ![q] = r], RequestOK(r), r.at \notin {"create", "remove"},
           r.at = "row" => lib[r.f].row # "none"
    PROVE  FilesInv'
<1>1. freq' \in [FileRequests -> {freq[p] : p \in FileRequests} \cup {r}] /\ freq'[q] = r
  BY DEF FilesInv, FilesTypeOK
<1>2. \A p \in FileRequests \ {q} : freq'[p] = freq[p]
  BY DEF FilesInv, FilesTypeOK
<1>3. FilesTypeOK'
  <2>1. DOMAIN freq' = FileRequests
    BY <1>1
  <2>2. \A p \in FileRequests : RequestOK(freq'[p])
    BY <1>1, <1>2 DEF FilesInv, FilesTypeOK
  <2> QED BY <2>1, <2>2 DEF FilesInv, FilesTypeOK, RequestOK
<1>4. UploadOwns' /\ RemovesNoRow'
  BY <1>1, <1>2 DEF FilesInv, UploadOwns, RemovesNoRow
<1> QED BY <1>3, <1>4 DEF FilesInv, Fresh, RowHasItsObject

\* The idle request, and the same request at another stage, are well typed.
LEMMA Stage ==
    ASSUME FilesInv, NEW q \in FileRequests, NEW at \in Stages, freq[q].at # "done",
           at \in {"check", "put", "create"} => freq[q].kind # "none",
           at \in {"create", "row", "remove", "write"} => freq[q].f \in FileIds
    PROVE  RequestOK(IdleFile) /\ RequestOK([freq[q] EXCEPT !.at = at])
BY DEF FilesInv, FilesTypeOK, RequestOK, IdleFile, Stages

\* A request that passed its first checks is under way, and has changed nothing.
LEMMA AsksKeep ==
    ASSUME FilesInv, NEW q \in FileRequests, NEW u \in FileUsers,
           \/ \E kind \in {"library", "attachment"}, size \in FileSizes : AskUpload(q, u, kind, size)
           \/ \E f \in FileIds : AskDelete(q, u, f)
           \/ \E f \in FileIds, op \in {"share", "revoke", "favorite"}, t \in FileUsers \cup {"chat", "none"} :
                AskShare(q, op, u, f, t)
           \/ \E sort \in {"date", "size"}, desc \in BOOLEAN, scope \in {"all", "mine", "shared", "favorites"} :
                AskList(q, u, sort, desc, scope)
    PROVE  FilesInv'
<1>1. CASE \E kind \in {"library", "attachment"}, size \in FileSizes : AskUpload(q, u, kind, size)
  <2>1. PICK kind \in {"library", "attachment"}, size \in FileSizes : AskUpload(q, u, kind, size)
    BY <1>1
  <2> DEFINE r == [IdleFile EXCEPT !.op = "upload", !.at = "check", !.u = u, !.kind = kind, !.size = size]
  <2>2. RequestOK(r) /\ r.at = "check"
    BY DEF RequestOK, IdleFile, Stages
  <2>3. freq' = [freq EXCEPT ![q] = r] /\ UNCHANGED <<lib, objects, made, fileJobs>>
    BY <2>1 DEF AskUpload
  <2> QED BY <2>2, <2>3, OnlyRequest
<1>2. CASE \E f \in FileIds : AskDelete(q, u, f)
  <2>1. PICK f \in FileIds : AskDelete(q, u, f)
    BY <1>2
  <2> DEFINE r == [IdleFile EXCEPT !.op = "delete", !.at = "row", !.u = u, !.f = f]
  <2>2. RequestOK(r) /\ r.at = "row" /\ r.f = f
    BY DEF RequestOK, IdleFile, Stages
  <2>3. freq' = [freq EXCEPT ![q] = r] /\ UNCHANGED <<lib, objects, made, fileJobs>>
    BY <2>1 DEF AskDelete
  <2>4. lib[f].row = "live"
    BY <2>1 DEF AskDelete, MayDelete, GetAccessibleFile, loadAccessibleFiles
  <2> QED BY <2>2, <2>3, <2>4, OnlyRequest
<1>3. CASE \E f \in FileIds, op \in {"share", "revoke", "favorite"}, t \in FileUsers \cup {"chat", "none"} :
             AskShare(q, op, u, f, t)
  <2>1. PICK f \in FileIds, op \in {"share", "revoke", "favorite"}, t \in FileUsers \cup {"chat", "none"} :
          AskShare(q, op, u, f, t)
    BY <1>3
  <2> DEFINE r == [IdleFile EXCEPT !.op = op, !.at = "write", !.u = u, !.f = f, !.target = t]
  <2>2. RequestOK(r) /\ r.at = "write"
    BY DEF RequestOK, IdleFile, Stages
  <2>3. freq' = [freq EXCEPT ![q] = r] /\ UNCHANGED <<lib, objects, made, fileJobs>>
    BY <2>1 DEF AskShare
  <2> QED BY <2>2, <2>3, OnlyRequest
<1>4. CASE \E sort \in {"date", "size"}, desc \in BOOLEAN, scope \in {"all", "mine", "shared", "favorites"} :
             AskList(q, u, sort, desc, scope)
  <2>1. PICK sort \in {"date", "size"}, desc \in BOOLEAN, scope \in {"all", "mine", "shared", "favorites"} :
          AskList(q, u, sort, desc, scope)
    BY <1>4
  <2> DEFINE r == [IdleFile EXCEPT !.op = "list", !.at = "page", !.u = u, !.sort = sort,
                                   !.desc = desc, !.scope = scope, !.keep = FileIds]
  <2>2. RequestOK(r) /\ r.at = "page"
    BY DEF RequestOK, IdleFile, Stages
  <2>3. freq' = [freq EXCEPT ![q] = r] /\ UNCHANGED <<lib, objects, made, fileJobs>>
    BY <2>1 DEF AskList
  <2> QED BY <2>2, <2>3, OnlyRequest
<1> QED BY <1>1, <1>2, <1>3, <1>4

\* The order of a listing; the files it is to show, those behind its cursor and
\* those of the next page.
Before(r, f, g) == sortLibraryFiles(r.sort, r.desc, f, g)
Filtered(r) == filterLibraryFiles(loadAccessibleFiles(r.u), r.u, r.scope)
Rest(r) == PageStart(Filtered(r), r)
Page(r) == {f \in Rest(r) : Cardinality({g \in Rest(r) : Before(r, g, f)}) < PageLimit}

\* A page is refused, or the last one, or one with a file the next one starts behind.
LEMMA PageRead ==
    ASSUME NEW q \in FileRequests, ListFiles(q)
    PROVE  /\ freq[q].at = "page"
           /\ \/ FileDone(q) /\ UNCHANGED listed
              \/ /\ Page(freq[q]) = Rest(freq[q]) /\ FileDone(q)
                 /\ listed' = [seen |-> freq[q].seen \cup Page(freq[q]),
                               again |-> freq[q].again \cup (freq[q].seen \cap Page(freq[q])),
                               keep |-> freq[q].keep \cap Filtered(freq[q])]
              \/ \E f \in Page(freq[q]) :
                   /\ \A g \in Page(freq[q]) \ {f} : Before(freq[q], g, f)
                   /\ freq' = [freq EXCEPT ![q].last = f, ![q].seen = freq[q].seen \cup Page(freq[q]),
                                   ![q].again = freq[q].again \cup (freq[q].seen \cap Page(freq[q])),
                                   ![q].keep = freq[q].keep \cap Filtered(freq[q])]
                   /\ UNCHANGED listed
BY DEF ListFiles, Page, Rest, Filtered, Before

\* A check of the quota and a page of a listing write no row.
LEMMA ReadsKeep ==
    ASSUME FilesInv, NEW q \in FileRequests, CheckUpload(q) \/ ListFiles(q) \/ SetFavorite(q)
    PROVE  FilesInv'
<1>1. freq[q].at # "done" /\ UNCHANGED <<lib, objects, made, fileJobs>>
  BY DEF CheckUpload, ListFiles, SetFavorite
<1>2. CASE FileDone(q)
  BY <1>1, <1>2, Stage, OnlyRequest DEF FileDone, Stages, IdleFile
<1>3. CASE CheckUpload(q) /\ Step(q, "put")
  <2>1. freq[q].kind # "none" /\ freq' = [freq EXCEPT ![q] = [freq[q] EXCEPT !.at = "put"]]
    BY <1>3 DEF CheckUpload, Step, FilesInv, FilesTypeOK, RequestOK
  <2>2. RequestOK([freq[q] EXCEPT !.at = "put"]) /\ [freq[q] EXCEPT !.at = "put"].at = "put"
    BY <1>1, <2>1, Stage DEF Stages, FilesInv, FilesTypeOK, RequestOK, IdleFile
  <2> QED BY <1>1, <2>1, <2>2, OnlyRequest
<1>4. CASE ListFiles(q) /\ ~FileDone(q)
  <2> DEFINE s == freq[q].seen \cup Page(freq[q])
             a == freq[q].again \cup (freq[q].seen \cap Page(freq[q]))
             k == freq[q].keep \cap Filtered(freq[q])
  <2>1. PICK f \in Page(freq[q]) :
          freq' = [freq EXCEPT ![q].last = f, ![q].seen = s, ![q].again = a, ![q].keep = k]
    BY <1>4, PageRead
  <2> HIDE DEF s, a, k
  <2> DEFINE r == [freq[q] EXCEPT !.last = f, !.seen = s, !.again = a, !.keep = k]
  <2>2. freq[q].at = "page"
    BY <1>4 DEF ListFiles
  <2>3. RequestOK(r) /\ r.at = "page"
    BY <2>2 DEF FilesInv, FilesTypeOK, RequestOK, IdleFile
  <2>4. freq' = [freq EXCEPT ![q] = r]
    BY <2>1 DEF FilesInv, FilesTypeOK, RequestOK, IdleFile
  <2> QED BY <1>1, <2>3, <2>4, OnlyRequest
<1> QED BY <1>2, <1>3, <1>4 DEF CheckUpload, SetFavorite

\* Put takes an id that nobody has and that has no row.
LEMMA PutKeeps == ASSUME FilesInv, NEW q \in FileRequests, Put(q) PROVE FilesInv'
<1>1. CASE FileDone(q) /\ UNCHANGED <<objects, made>>
  BY <1>1, Stage, OnlyRequest DEF Put, FileDone, Stages, IdleFile
<1>2. CASE ~(FileDone(q) /\ UNCHANGED <<objects, made>>)
  <2> DEFINE f == made + 1
             r == [freq[q] EXCEPT !.at = "create", !.f = f]
  <2>1. /\ freq[q].at = "put" /\ f \in FileIds /\ made' = f /\ objects' = objects \cup {f}
        /\ UNCHANGED <<lib, fileJobs>>
    BY <1>2 DEF Put
  <2>2. freq' = [freq EXCEPT ![q] = r]
    BY <1>2 DEF Put, FilesInv, FilesTypeOK, RequestOK, IdleFile
  <2>3. RequestOK(r) /\ r.at = "create" /\ r.f = f
    BY <2>1 DEF FilesInv, FilesTypeOK, RequestOK, IdleFile, Stages
  <2> HIDE DEF r
  <2>4. freq'[q] = r /\ DOMAIN freq' = FileRequests /\ \A p \in FileRequests \ {q} : freq'[p] = freq[p]
    BY <2>2 DEF FilesInv, FilesTypeOK
  <2>5. FilesTypeOK'
    <3>1. \A p \in FileRequests : RequestOK(freq'[p])
      BY <2>3, <2>4 DEF FilesInv, FilesTypeOK
    <3> QED BY <2>1, <2>4, <3>1 DEF FilesInv, FilesTypeOK, RequestOK
  <2>6. lib[f].row = "none" /\ made \in Nat /\ f > made
    BY <2>1 DEF FilesInv, Fresh, FilesTypeOK
  <2>7. \A p \in FileRequests \ {q} : freq[p].at \in {"create", "remove"} =>
          freq[p].f <= made' /\ freq[p].f # f
    <3>1. \A p \in FileRequests : freq[p].at \in {"create", "remove"} => freq[p].f \in Nat /\ freq[p].f <= made
      BY FilesAssumption DEF FilesInv, FilesTypeOK, RequestOK, UploadOwns, RemovesNoRow
    <3> QED BY <3>1, <2>1, <2>6
  <2>8. UploadOwns' /\ RemovesNoRow'
    <3>1. f <= made' /\ f \in objects'
      BY <2>1, <2>6
    <3> HIDE DEF f
    <3> QED BY <2>1, <2>3, <2>4, <2>6, <2>7, <3>1 DEF FilesInv, UploadOwns, RemovesNoRow
  <2>9. Fresh' /\ RowHasItsObject'
    BY <2>1, <2>6, FilesAssumption DEF FilesInv, Fresh, RowHasItsObject, FilesTypeOK
  <2> QED BY <2>5, <2>8, <2>9 DEF FilesInv
<1> QED BY <1>1, <1>2

\* A request goes on to remove the object of the file it is about.
LEMMA GoesOnToRemove ==
    ASSUME FilesInv, NEW q \in FileRequests, Step(q, "remove"), freq[q].f \in FileIds, freq[q].at # "done"
    PROVE  /\ DOMAIN freq' = FileRequests /\ \A p \in FileRequests : RequestOK(freq'[p])
           /\ freq'[q].at = "remove" /\ freq'[q].f = freq[q].f
           /\ \A p \in FileRequests \ {q} : freq'[p] = freq[p]
<1>1. freq' = [freq EXCEPT ![q] = [freq[q] EXCEPT !.at = "remove"]]
  BY DEF Step
<1>2. RequestOK([freq[q] EXCEPT !.at = "remove"])
  BY Stage DEF Stages
<1>3. [freq[q] EXCEPT !.at = "remove"].at = "remove" /\ [freq[q] EXCEPT !.at = "remove"].f = freq[q].f
  BY DEF FilesInv, FilesTypeOK, RequestOK, IdleFile
<1> QED BY <1>1, <1>2, <1>3 DEF FilesInv, FilesTypeOK

\* A request ends.
LEMMA Ends ==
    ASSUME FilesInv, NEW q \in FileRequests, FileDone(q)
    PROVE  /\ DOMAIN freq' = FileRequests /\ \A p \in FileRequests : RequestOK(freq'[p])
           /\ freq'[q].at = "done" /\ \A p \in FileRequests \ {q} : freq'[p] = freq[p]
<1>1. RequestOK(IdleFile) /\ IdleFile.at = "done"
  BY DEF RequestOK, IdleFile, Stages
<1> QED BY <1>1 DEF FileDone, FilesInv, FilesTypeOK

\* The row comes to life with its object; a failure removes the object or leaves it.
LEMMA CreateKeeps == ASSUME FilesInv, NEW q \in FileRequests, CreateFile(q) PROVE FilesInv'
<1> DEFINE f == freq[q].f
<1>1. /\ freq[q].at = "create" /\ f \in FileIds /\ f \in objects /\ lib[f].row = "none" /\ f <= made
      /\ freq[q].kind \in {"library", "attachment"}
      /\ \A p \in FileRequests \ {q} : freq[p].at \in {"create", "remove"} => freq[p].f # f
      /\ UNCHANGED <<objects, made>>
  BY DEF CreateFile, FilesInv, FilesTypeOK, RequestOK, UploadOwns
<1>2. CASE UNCHANGED <<lib, fileJobs>> /\ FileDone(q)
  BY <1>1, <1>2, OnlyRequest, Stage DEF FileDone, Stages, IdleFile
<1>3. CASE UNCHANGED <<lib, fileJobs>> /\ Step(q, "remove")
  <2>1. /\ DOMAIN freq' = FileRequests /\ \A p \in FileRequests : RequestOK(freq'[p])
        /\ freq'[q].at = "remove" /\ freq'[q].f = f
        /\ \A p \in FileRequests \ {q} : freq'[p] = freq[p]
    BY <1>1, <1>3, GoesOnToRemove
  <2>2. FilesTypeOK'
    BY <1>1, <1>3, <2>1 DEF FilesInv, FilesTypeOK, RequestOK
  <2>3. UploadOwns' /\ RemovesNoRow'
    BY <1>1, <1>3, <2>1 DEF FilesInv, UploadOwns, RemovesNoRow
  <2> QED BY <1>1, <1>3, <2>2, <2>3 DEF FilesInv, Fresh, RowHasItsObject
<1>4. CASE FileDone(q) /\ enqueueFileSearchTx(f, freq[q].kind) /\ lib' = [lib EXCEPT ![f] =
             [kind |-> freq[q].kind, owner |-> freq[q].u, size |-> freq[q].size, row |-> "live", shares |-> {}]]
  <2> DEFINE x == [kind |-> freq[q].kind, owner |-> freq[q].u, size |-> freq[q].size, row |-> "live", shares |-> {}]
  <2>1. x \in Rows /\ x.row = "live" /\ x.kind = freq[q].kind
    BY DEF Rows, FilesInv, FilesTypeOK, RequestOK
  <2> HIDE DEF x
  <2>2. lib' \in [FileIds -> Rows] /\ lib'[f] = x /\ \A g \in FileIds \ {f} : lib'[g] = lib[g]
    BY <1>1, <1>4, <2>1 DEF FilesInv, FilesTypeOK, x
  <2>3. /\ DOMAIN freq' = FileRequests /\ \A p \in FileRequests : RequestOK(freq'[p])
        /\ freq'[q].at = "done" /\ \A p \in FileRequests \ {q} : freq'[p] = freq[p]
    BY <1>4, Ends
  <2>4. fileJobs' \in [FileIds -> {"none", "upsert", "delete"}]
    BY <1>1, <1>4 DEF enqueueFileSearchTx, FilesInv, FilesTypeOK
  <2>5. FilesTypeOK'
    BY <1>1, <2>2, <2>3, <2>4 DEF FilesInv, FilesTypeOK, RequestOK
  <2>6. UploadOwns'
    BY <1>1, <2>2, <2>3 DEF FilesInv, UploadOwns, FilesTypeOK, RequestOK
  <2>7. RemovesNoRow'
    BY <1>1, <2>1, <2>2, <2>3 DEF FilesInv, RemovesNoRow, FilesTypeOK, RequestOK
  <2>8. Fresh'
    BY <1>1, <2>2, IdsInOrder DEF FilesInv, Fresh
  <2>9. RowHasItsObject'
    <3>1. \A g \in FileIds \ {f} : fileJobs'[g] = fileJobs[g]
      BY <1>4 DEF enqueueFileSearchTx, FilesInv, FilesTypeOK
    <3>2. fileJobs'[f] = "upsert" <=> freq[q].kind = "attachment"
      BY <1>1, <1>4 DEF enqueueFileSearchTx, FilesInv, FilesTypeOK, RowHasItsObject
    <3> QED BY <1>1, <2>1, <2>2, <3>1, <3>2 DEF FilesInv, RowHasItsObject
  <2> QED BY <2>5, <2>6, <2>7, <2>8, <2>9 DEF FilesInv
<1> QED BY <1>2, <1>3, <1>4 DEF CreateFile

\* The row is gone before its object is touched.
LEMMA DeleteKeeps == ASSUME FilesInv, NEW q \in FileRequests, DeleteFile(q) PROVE FilesInv'
<1> DEFINE f == freq[q].f
<1>1. freq[q].at = "row" /\ f \in FileIds /\ lib[f].row # "none" /\ UNCHANGED <<objects, made>>
  BY DEF DeleteFile, FilesInv, FilesTypeOK, RequestOK, RemovesNoRow
<1>2. CASE UNCHANGED <<lib, fileJobs>> /\ FileDone(q)
  BY <1>1, <1>2, OnlyRequest, Stage DEF FileDone, Stages, IdleFile
<1>3. CASE /\ Step(q, "remove") /\ enqueueFileDeleteSearchTx(f)
           /\ lib' = [lib EXCEPT ![f].row = "deleted", ![f].shares = {}]
  <2>1. /\ lib' \in [FileIds -> Rows] /\ lib'[f].row = "deleted" /\ lib'[f].kind = lib[f].kind
        /\ \A g \in FileIds \ {f} : lib'[g] = lib[g]
    BY <1>1, <1>3 DEF FilesInv, FilesTypeOK, Rows
  <2>2. /\ DOMAIN freq' = FileRequests /\ \A p \in FileRequests : RequestOK(freq'[p])
        /\ freq'[q].at = "remove" /\ freq'[q].f = f
        /\ \A p \in FileRequests \ {q} : freq'[p] = freq[p]
    BY <1>1, <1>3, GoesOnToRemove
  <2>3. fileJobs' \in [FileIds -> {"none", "upsert", "delete"}]
    BY <1>1, <1>3 DEF enqueueFileDeleteSearchTx, FilesInv, FilesTypeOK
  <2>4. FilesTypeOK'
    BY <1>1, <2>1, <2>2, <2>3 DEF FilesInv, FilesTypeOK, RequestOK
  <2>5. f <= made
    BY <1>1, IdsInOrder DEF FilesInv, Fresh
  <2>6. UploadOwns'
    BY <1>1, <2>1, <2>2 DEF FilesInv, UploadOwns, FilesTypeOK, RequestOK
  <2>7. RemovesNoRow'
    BY <1>1, <2>1, <2>2, <2>5 DEF FilesInv, RemovesNoRow, FilesTypeOK, RequestOK
  <2>8. Fresh'
    BY <1>1, <2>1, <2>5, IdsInOrder DEF FilesInv, Fresh
  <2>9. RowHasItsObject'
    <3>1. \A g \in FileIds \ {f} : fileJobs'[g] = fileJobs[g]
      BY <1>3 DEF enqueueFileDeleteSearchTx, FilesInv, FilesTypeOK
    <3>2. fileJobs'[f] # "upsert"
      BY <1>1, <1>3 DEF enqueueFileDeleteSearchTx, FilesInv, FilesTypeOK, RowHasItsObject
    <3> QED BY <1>1, <2>1, <3>1, <3>2 DEF FilesInv, RowHasItsObject
  <2> QED BY <2>4, <2>6, <2>7, <2>8, <2>9 DEF FilesInv
<1> QED BY <1>2, <1>3 DEF DeleteFile

\* The object that goes belongs to no live row and to no upload.
LEMMA RemoveKeeps == ASSUME FilesInv, NEW q \in FileRequests, DeleteObject(q) PROVE FilesInv'
<1> DEFINE f == freq[q].f
<1>1. /\ freq[q].at = "remove" /\ f \in FileIds /\ lib[f].row # "live" /\ UNCHANGED <<lib, made, fileJobs>>
      /\ objects \ {f} \subseteq objects' /\ objects' \subseteq objects
  BY DEF DeleteObject, FilesInv, FilesTypeOK, RequestOK, RemovesNoRow
<1>2. /\ DOMAIN freq' = FileRequests /\ \A p \in FileRequests : RequestOK(freq'[p])
      /\ freq'[q].at = "done" /\ \A p \in FileRequests \ {q} : freq'[p] = freq[p]
  BY Ends DEF DeleteObject
<1>3. FilesTypeOK'
  BY <1>1, <1>2 DEF FilesInv, FilesTypeOK, RequestOK
<1>4. UploadOwns'
  <2>1. \A p \in FileRequests \ {q} : freq[p].at = "create" => freq[p].f \in objects'
    BY <1>1 DEF FilesInv, UploadOwns
  <2> QED BY <1>1, <1>2, <2>1 DEF FilesInv, UploadOwns
<1>5. RemovesNoRow'
  BY <1>1, <1>2 DEF FilesInv, RemovesNoRow
<1>6. Fresh' /\ RowHasItsObject'
  BY <1>1 DEF FilesInv, Fresh, RowHasItsObject
<1> QED BY <1>3, <1>4, <1>5, <1>6 DEF FilesInv

\* Sharing, even of a file deleted meanwhile, changes no row's state.
LEMMA SharesKeep == ASSUME FilesInv, NEW q \in FileRequests, ShareFile(q) \/ RevokeFileShare(q) PROVE FilesInv'
<1> DEFINE f == freq[q].f
<1>1. freq[q].at = "write" /\ f \in FileIds /\ UNCHANGED <<objects, made, fileJobs>>
  BY DEF ShareFile, RevokeFileShare, FilesInv, FilesTypeOK, RequestOK
<1>2. PICK s \in SUBSET (FileUsers \cup {"chat", "none"}) : lib' = [lib EXCEPT ![f].shares = s]
  <2>1. lib[f].shares \in SUBSET (FileUsers \cup {"chat", "none"}) /\ freq[q].target \in FileUsers \cup {"chat", "none"}
    BY <1>1 DEF FilesInv, FilesTypeOK, Rows, RequestOK
  <2> QED BY <2>1 DEF ShareFile, RevokeFileShare
<1>3. /\ lib' \in [FileIds -> Rows]
      /\ \A g \in FileIds : lib'[g].row = lib[g].row /\ lib'[g].kind = lib[g].kind
  BY <1>1, <1>2 DEF FilesInv, FilesTypeOK, Rows
<1>4. /\ DOMAIN freq' = FileRequests /\ \A p \in FileRequests : RequestOK(freq'[p])
      /\ freq'[q].at = "done" /\ \A p \in FileRequests \ {q} : freq'[p] = freq[p]
  BY Ends DEF ShareFile, RevokeFileShare
<1>5. FilesTypeOK'
  BY <1>1, <1>3, <1>4 DEF FilesInv, FilesTypeOK, RequestOK
<1>6. UploadOwns' /\ RemovesNoRow'
  BY <1>1, <1>3, <1>4 DEF FilesInv, UploadOwns, RemovesNoRow, FilesTypeOK, RequestOK
<1>7. Fresh' /\ RowHasItsObject'
  BY <1>1, <1>3 DEF FilesInv, Fresh, RowHasItsObject
<1> QED BY <1>5, <1>6, <1>7 DEF FilesInv

\* Every step keeps the invariant.
LEMMA NextFilesInv == FilesInv /\ [StoreNext \/ LibraryNext]_fileVars => FilesInv'
<1> SUFFICES ASSUME FilesInv, [StoreNext \/ LibraryNext]_fileVars PROVE FilesInv'
  OBVIOUS
<1>1. CASE UNCHANGED <<lib, objects, made, fileJobs, freq>>
  BY <1>1 DEF FilesInv, FilesTypeOK, RequestOK, Fresh, UploadOwns, RemovesNoRow, RowHasItsObject
<1>2. CASE MessageDeleted \/ (\E u \in FileUsers : ChatChange(u)) \/ UNCHANGED fileVars
  BY <1>1, <1>2 DEF MessageDeleted, ChatChange, fileVars
<1>3. CASE StoreNext
  BY <1>2, <1>3, AsksKeep, ReadsKeep, PutKeeps, CreateKeeps, DeleteKeeps, RemoveKeeps DEF StoreNext
<1>4. CASE LibraryNext
  <2>1. ASSUME NEW q \in FileRequests, NEW u \in FileUsers, NEW f \in FileIds,
               NEW op \in {"share", "revoke", "favorite"}, NEW t \in FileUsers \cup {"chat", "none"},
               AskShare(q, op, u, f, t)
        PROVE  FilesInv'
    BY <2>1, AsksKeep
  <2> QED BY <1>2, <1>4, <2>1, AsksKeep, ReadsKeep, SharesKeep DEF LibraryNext
<1> QED BY <1>2, <1>3, <1>4

\* Whatever fails or overlaps, a file or attachment that is listed has its object,
\* and search was told last whether the attachment is there (service/file).
THEOREM ListedCanBeRead == FilesSpec => []RowHasItsObject
<1>1. FilesSpec => []FilesInv
  BY InitFilesInv, NextFilesInv, PTL DEF FilesSpec
<1> QED BY <1>1, PTL DEF FilesInv

-----------------------------------------------------------------------------
(* Listings, for any number of files, of requests that change them and of  *)
(* files on a page.  What was shown lies at or before the cursor, and what *)
(* was there at every page so far and lies at or before it was shown; the  *)
(* order does not move, because a row never changes its size.              *)

\* The files at or before the cursor of a listing, and those that have a row.
UpTo(r) == {f \in FileIds : f = r.last \/ Before(r, f, r.last)}

Existing == {f \in FileIds : lib[f].row # "none"}

ListingOK(r) ==
    /\ r.again = {} /\ r.seen \subseteq Existing /\ r.last \in Existing \cup {0}
    /\ r.last = 0 => r.seen = {}
    /\ r.last # 0 => r.seen \subseteq UpTo(r) /\ r.keep \subseteq Existing /\ r.keep \cap UpTo(r) \subseteq r.seen

ListingsInv == PagesComplete /\ \A q \in FileRequests : freq[q].at = "page" => ListingOK(freq[q])

\* The first state satisfies the invariant.
LEMMA InitListingsInv == FilesInit => ListingsInv
BY DEF FilesInit, ListingsInv, PagesComplete, IdleFile

\* The files of a listing are in one order: by size or by date, the date breaking
\* ties, either way.
LEMMA OneOrder ==
    ASSUME FilesInv, NEW r, NEW f \in FileIds, NEW g \in FileIds
    PROVE  /\ ~Before(r, f, f) /\ (f = g \/ Before(r, f, g) \/ Before(r, g, f))
           /\ \A h \in FileIds : Before(r, f, g) /\ Before(r, g, h) => Before(r, f, h)
<1>1. \A h \in FileIds : h \in Nat /\ lib[h].size \in Nat
  <2>1. \A h \in FileIds : lib[h] \in Rows
    BY DEF FilesInv, FilesTypeOK
  <2>2. FileSizes \cup {0} \subseteq Nat /\ FileIds \subseteq Nat
    BY FilesAssumption
  <2> QED BY <2>1, <2>2 DEF Rows
<1>2. f \in Nat /\ g \in Nat /\ lib[f].size \in Nat /\ lib[g].size \in Nat
  BY <1>1
<1>3. ~Before(r, f, f) /\ (f = g \/ Before(r, f, g) \/ Before(r, g, f))
  BY <1>2 DEF Before, sortLibraryFiles, Less
<1>4. ASSUME NEW h \in FileIds, Before(r, f, g), Before(r, g, h) PROVE Before(r, f, h)
  <2>1. h \in Nat /\ lib[h].size \in Nat
    BY <1>1
  <2> QED BY <1>2, <1>4, <2>1 DEF Before, sortLibraryFiles, Less
<1> QED BY <1>3, <1>4

\* There are finitely many rows.
LEMMA FewFiles == FilesInv => IsFiniteSet(Existing)
<1> SUFFICES ASSUME FilesInv PROVE IsFiniteSet(Existing)
  OBVIOUS
<1>1. made \in Nat /\ Existing \subseteq 1 .. made
  <2>1. made \in Nat /\ \A f \in FileIds : f \in Nat /\ f >= 1
    BY FilesAssumption DEF FilesInv, FilesTypeOK
  <2>2. \A f \in Existing : f \in FileIds /\ f <= made
    BY IdsInOrder DEF FilesInv, Fresh, Existing
  <2> QED BY <2>1, <2>2
<1>2. IsFiniteSet(1 .. made)
  BY <1>1, FS_Interval
<1> QED BY <1>1, <1>2, FS_Subset

\* A row stays, if only marked, and keeps its size.
LEMMA RowsStay ==
    ASSUME FilesInv, [StoreNext \/ LibraryNext]_fileVars
    PROVE  \A f \in Existing : f \in Existing' /\ lib'[f].size = lib[f].size
<1>1. CASE UNCHANGED lib
  BY <1>1 DEF Existing
<1>2. CASE \E q \in FileRequests : CreateFile(q)
  <2>1. PICK q \in FileRequests : CreateFile(q)
    BY <1>2
  <2>2. lib[freq[q].f].row = "none" /\ \A f \in FileIds \ {freq[q].f} : lib'[f] = lib[f]
    BY <2>1 DEF CreateFile, FilesInv, FilesTypeOK, UploadOwns
  <2> QED BY <2>2 DEF Existing
<1>3. CASE \E q \in FileRequests : DeleteFile(q) \/ ShareFile(q) \/ RevokeFileShare(q)
  <2>1. PICK q \in FileRequests : DeleteFile(q) \/ ShareFile(q) \/ RevokeFileShare(q)
    BY <1>3
  <2>2. \A f \in FileIds : lib[f] \in Rows
    BY DEF FilesInv, FilesTypeOK
  <2>3. \A f \in FileIds : lib'[f].size = lib[f].size /\ lib'[f].row \in {lib[f].row, "deleted"}
    BY <2>1, <2>2 DEF DeleteFile, ShareFile, RevokeFileShare, FilesInv, FilesTypeOK, Rows
  <2> QED BY <2>3 DEF Existing
<1>4. CASE StoreNext
  BY <1>1, <1>2, <1>3, <1>4 DEF StoreNext, AskUpload, AskDelete, CheckUpload, Put, DeleteObject, MessageDeleted
<1>5. CASE LibraryNext
  <2>1. ASSUME NEW q \in FileRequests, NEW u, NEW f, NEW op, NEW t, AskShare(q, op, u, f, t) PROVE UNCHANGED lib
    BY <2>1 DEF AskShare
  <2>2. ASSUME NEW q \in FileRequests, NEW u, NEW sort, NEW desc, NEW scope, AskList(q, u, sort, desc, scope)
        PROVE  UNCHANGED lib
    BY <2>2 DEF AskList
  <2> QED BY <1>1, <1>3, <1>5, <2>1, <2>2 DEF LibraryNext, SetFavorite, ListFiles, ChatChange
<1> QED BY <1>1, <1>4, <1>5 DEF fileVars

\* So a listing under way stays what it was.
LEMMA ListingStays ==
    ASSUME FilesInv, [StoreNext \/ LibraryNext]_fileVars, NEW r, ListingOK(r)
    PROVE  ListingOK(r)'
<1>1. \A f \in Existing : f \in Existing' /\ lib'[f].size = lib[f].size
  BY RowsStay
<1>2. \A f, g \in Existing : Before(r, f, g)' <=> Before(r, f, g)
  BY <1>1 DEF Before, sortLibraryFiles, Less
<1>3. r.last # 0 => \A f \in Existing : f \in UpTo(r)' <=> f \in UpTo(r)
  BY <1>1, <1>2 DEF ListingOK, UpTo, Existing
<1> QED BY <1>1, <1>3 DEF ListingOK

\* Only a page moves a listing, and only its last page shows it.
LEMMA OnlyPages ==
    ASSUME FilesInv, [StoreNext \/ LibraryNext]_fileVars, ~(\E q \in FileRequests : ListFiles(q))
    PROVE  /\ UNCHANGED listed
           /\ \A q \in FileRequests : freq'[q].at = "page" =>
                freq'[q] = freq[q] \/ (freq'[q].last = 0 /\ freq'[q].seen = {} /\ freq'[q].again = {})
<1>1. CASE UNCHANGED <<freq, listed>>
  BY <1>1
<1>2. ASSUME NEW q \in FileRequests, NEW u \in FileUsers, UNCHANGED listed,
             \/ \E kind \in {"library", "attachment"}, size \in FileSizes : AskUpload(q, u, kind, size)
             \/ \E f \in FileIds : AskDelete(q, u, f)
             \/ \E f \in FileIds, op \in {"share", "revoke", "favorite"}, t \in FileUsers \cup {"chat", "none"} :
                  AskShare(q, op, u, f, t)
             \/ \E sort \in {"date", "size"}, desc \in BOOLEAN, scope \in {"all", "mine", "shared", "favorites"} :
                  AskList(q, u, sort, desc, scope)
      PROVE  \A p \in FileRequests : freq'[p].at = "page" =>
                freq'[p] = freq[p] \/ (freq'[p].last = 0 /\ freq'[p].seen = {} /\ freq'[p].again = {})
  <2>1. CASE \E kind \in {"library", "attachment"}, size \in FileSizes : AskUpload(q, u, kind, size)
    <3>1. PICK kind \in {"library", "attachment"}, size \in FileSizes : AskUpload(q, u, kind, size)
      BY <2>1
    <3>2. [IdleFile EXCEPT !.op = "upload", !.at = "check", !.u = u, !.kind = kind, !.size = size].at = "check"
      BY DEF IdleFile
    <3> QED BY <3>1, <3>2 DEF AskUpload, FilesInv, FilesTypeOK
  <2>2. CASE \E f \in FileIds : AskDelete(q, u, f)
    <3>1. PICK f \in FileIds : AskDelete(q, u, f)
      BY <2>2
    <3>2. [IdleFile EXCEPT !.op = "delete", !.at = "row", !.u = u, !.f = f].at = "row"
      BY DEF IdleFile
    <3> QED BY <3>1, <3>2 DEF AskDelete, FilesInv, FilesTypeOK
  <2>3. CASE \E f \in FileIds, op \in {"share", "revoke", "favorite"}, t \in FileUsers \cup {"chat", "none"} :
               AskShare(q, op, u, f, t)
    <3>1. PICK f \in FileIds, op \in {"share", "revoke", "favorite"}, t \in FileUsers \cup {"chat", "none"} :
            AskShare(q, op, u, f, t)
      BY <2>3
    <3>2. [IdleFile EXCEPT !.op = op, !.at = "write", !.u = u, !.f = f, !.target = t].at = "write"
      BY DEF IdleFile
    <3> QED BY <3>1, <3>2 DEF AskShare, FilesInv, FilesTypeOK
  <2>4. CASE \E sort \in {"date", "size"}, desc \in BOOLEAN, scope \in {"all", "mine", "shared", "favorites"} :
               AskList(q, u, sort, desc, scope)
    <3>1. PICK sort \in {"date", "size"}, desc \in BOOLEAN, scope \in {"all", "mine", "shared", "favorites"} :
            AskList(q, u, sort, desc, scope)
      BY <2>4
    <3> DEFINE r == [IdleFile EXCEPT !.op = "list", !.at = "page", !.u = u, !.sort = sort,
                                     !.desc = desc, !.scope = scope, !.keep = FileIds]
    <3>2. r.last = 0 /\ r.seen = {} /\ r.again = {}
      BY DEF IdleFile
    <3> QED BY <3>1, <3>2 DEF AskList, FilesInv, FilesTypeOK
  <2> QED BY <1>2, <2>1, <2>2, <2>3, <2>4
<1>3. ASSUME NEW q \in FileRequests, UNCHANGED listed,
             CheckUpload(q) \/ Put(q) \/ CreateFile(q) \/ DeleteFile(q) \/ DeleteObject(q)
                \/ ShareFile(q) \/ RevokeFileShare(q) \/ SetFavorite(q)
      PROVE  \A p \in FileRequests : freq'[p].at = "page" => freq'[p] = freq[p]
  <2>1. DOMAIN freq = FileRequests /\ DOMAIN freq[q] = DOMAIN IdleFile
    BY DEF FilesInv, FilesTypeOK, RequestOK
  <2>2. \A p \in FileRequests \ {q} : freq'[p] = freq[p]
    BY <1>3, <2>1 DEF CheckUpload, Put, CreateFile, DeleteFile, DeleteObject, ShareFile, RevokeFileShare,
                      SetFavorite, FileDone, Step
  <2>3. freq'[q].at # "page"
    BY <1>3, <2>1 DEF CheckUpload, Put, CreateFile, DeleteFile, DeleteObject, ShareFile, RevokeFileShare,
                      SetFavorite, FileDone, Step, IdleFile
  <2> QED BY <2>2, <2>3
<1>4. UNCHANGED listed
  <2>1. CASE StoreNext
    BY <2>1 DEF StoreNext, AskUpload, AskDelete, CheckUpload, Put, CreateFile, DeleteFile, DeleteObject, MessageDeleted
  <2>2. CASE LibraryNext
    <3>1. ASSUME NEW q \in FileRequests, NEW u, NEW f, NEW op, NEW t, AskShare(q, op, u, f, t)
          PROVE  UNCHANGED listed
      BY <3>1 DEF AskShare
    <3>2. ASSUME NEW q \in FileRequests, NEW u, NEW sort, NEW desc, NEW scope, AskList(q, u, sort, desc, scope)
          PROVE  UNCHANGED listed
      BY <3>2 DEF AskList
    <3> QED BY <2>2, <3>1, <3>2 DEF LibraryNext, ShareFile, RevokeFileShare, SetFavorite, ChatChange
  <2> QED BY <2>1, <2>2 DEF fileVars
<1>5. CASE StoreNext
  BY <1>1, <1>2, <1>3, <1>4, <1>5 DEF StoreNext, MessageDeleted
<1>6. CASE LibraryNext
  <2>1. CASE \E q \in FileRequests, u \in FileUsers, f \in FileIds, op \in {"share", "revoke", "favorite"},
                t \in FileUsers \cup {"chat", "none"} : AskShare(q, op, u, f, t)
    BY <1>2, <1>4, <2>1
  <2>2. CASE \E q \in FileRequests, u \in FileUsers, sort \in {"date", "size"}, desc \in BOOLEAN,
                scope \in {"all", "mine", "shared", "favorites"} : AskList(q, u, sort, desc, scope)
    BY <1>2, <1>4, <2>2
  <2>3. CASE \E q \in FileRequests : ShareFile(q) \/ RevokeFileShare(q) \/ SetFavorite(q)
    BY <1>3, <1>4, <2>3
  <2>4. CASE \E u \in FileUsers : ChatChange(u)
    BY <1>1, <2>4, <1>4 DEF ChatChange
  <2> QED BY <1>6, <2>1, <2>2, <2>3, <2>4 DEF LibraryNext
<1> QED BY <1>1, <1>4, <1>5, <1>6 DEF fileVars

\* What lies at or before a file of a page, behind the cursor, is on the page.
LEMMA PageIsInitial ==
    ASSUME FilesInv, NEW r, NEW f \in Page(r), NEW g \in Rest(r), g = f \/ Before(r, g, f)
    PROVE  g \in Page(r)
<1> DEFINE Ahead(h) == {x \in Rest(r) : Before(r, x, h)}
<1>1. Rest(r) \subseteq Existing /\ Existing \subseteq FileIds
  BY DEF Rest, PageStart, Filtered, filterLibraryFiles, loadAccessibleFiles, Existing
<1>2. IsFiniteSet(Ahead(f)) /\ IsFiniteSet(Ahead(g))
  BY <1>1, FewFiles, FS_Subset
<1>3. Ahead(g) \subseteq Ahead(f)
  BY <1>1, OneOrder DEF Page
<1>4. Cardinality(Ahead(g)) <= Cardinality(Ahead(f)) /\ Cardinality(Ahead(f)) \in Nat /\ Cardinality(Ahead(g)) \in Nat
  BY <1>2, <1>3, FS_Subset, FS_CardinalityType
<1>5. Cardinality(Ahead(f)) < PageLimit /\ PageLimit \in Nat
  BY FilesAssumption DEF Page
<1>6. Cardinality(Ahead(g)) < PageLimit
  BY <1>4, <1>5
<1> QED BY <1>6 DEF Page

\* A page shows no file again, and with it everything up to its last file was shown.
LEMMA PageFollows ==
    ASSUME FilesInv, NEW r, ListingOK(r)
    PROVE  /\ r.seen \cap Page(r) = {} /\ Page(r) \subseteq Existing
           /\ \A f \in r.keep \cap Filtered(r) : f \in r.seen \/ f \in Rest(r)
           /\ \A f \in r.seen, g \in Page(r) : Before(r, f, g)
<1>1. Page(r) \subseteq Rest(r) /\ Rest(r) \subseteq Filtered(r) /\ Filtered(r) \subseteq Existing /\ Existing \subseteq FileIds
  BY DEF Page, Rest, PageStart, Filtered, filterLibraryFiles, loadAccessibleFiles, Existing
<1>2. CASE r.last = 0
  BY <1>1, <1>2 DEF ListingOK, Rest, PageStart
<1>3. CASE r.last # 0
  <2>1. \A g \in Filtered(r) : g \in Rest(r) <=> Before(r, r.last, g)
    BY <1>3 DEF Rest, PageStart, Before
  <2>2. r.last \in FileIds /\ r.seen \subseteq UpTo(r) /\ r.keep \cap UpTo(r) \subseteq r.seen
    BY <1>1, <1>3 DEF ListingOK
  <2>3. \A f \in UpTo(r), g \in Page(r) : Before(r, f, g) /\ f # g
    <3>1. ASSUME NEW f \in UpTo(r), NEW g \in Page(r) PROVE Before(r, f, g) /\ f # g
      <4>1. f \in FileIds /\ g \in FileIds /\ (f = r.last \/ Before(r, f, r.last)) /\ Before(r, r.last, g)
        BY <1>1, <2>1 DEF UpTo
      <4>2. Before(r, f, g)
        BY <2>2, <4>1, OneOrder
      <4> QED BY <4>1, <4>2, OneOrder
    <3> QED BY <3>1
  <2>4. \A f \in Filtered(r) : f \in UpTo(r) \/ f \in Rest(r)
    BY <1>1, <2>1, <2>2, OneOrder DEF UpTo
  <2> QED BY <1>1, <2>2, <2>3, <2>4
<1> QED BY <1>2, <1>3

\* A page keeps the invariant, of its listing and of the others.
LEMMA PageKeeps == ASSUME FilesInv, ListingsInv, NEW q \in FileRequests, ListFiles(q) PROVE ListingsInv'
<1> DEFINE r == freq[q]
           s == r.seen \cup Page(r)
           k == r.keep \cap Filtered(r)
<1>1. r.at = "page" /\ UNCHANGED lib /\ DOMAIN freq = FileRequests /\ DOMAIN r = DOMAIN IdleFile
  BY DEF ListFiles, FilesInv, FilesTypeOK, RequestOK
<1>2. ListingOK(r) /\ r.again = {}
  BY <1>1 DEF ListingsInv, ListingOK
<1>3. r.seen \cap Page(r) = {} /\ Page(r) \subseteq Existing /\ (\A f \in k : f \in r.seen \/ f \in Rest(r))
  BY <1>2, PageFollows
<1>4. ASSUME NEW p \in FileRequests \ {q}, freq'[p] = freq[p], freq'[p].at = "page" PROVE ListingOK(freq[p])'
  BY <1>1, <1>4 DEF ListingsInv, ListingOK, Existing, UpTo, Before, sortLibraryFiles, Less
<1>5. CASE FileDone(q) /\ UNCHANGED listed
  <2>1. freq'[q].at # "page" /\ \A p \in FileRequests \ {q} : freq'[p] = freq[p]
    BY <1>1, <1>5 DEF FileDone, IdleFile
  <2> QED BY <1>4, <1>5, <2>1 DEF ListingsInv, ListingOK, PagesComplete, UpTo, Existing, Before, sortLibraryFiles, Less
<1>6. CASE /\ Page(r) = Rest(r) /\ FileDone(q)
           /\ listed' = [seen |-> s, again |-> r.again \cup (r.seen \cap Page(r)), keep |-> k]
  <2>1. freq'[q].at # "page" /\ \A p \in FileRequests \ {q} : freq'[p] = freq[p]
    BY <1>1, <1>6 DEF FileDone, IdleFile
  <2>2. PagesComplete'
    BY <1>2, <1>3, <1>6 DEF PagesComplete
  <2> QED BY <1>4, <2>1, <2>2 DEF ListingsInv
<1>7. ASSUME NEW f \in Page(r), \A g \in Page(r) \ {f} : Before(r, g, f), UNCHANGED listed,
             freq' = [freq EXCEPT ![q].last = f, ![q].seen = s, ![q].again = r.again \cup (r.seen \cap Page(r)),
                                  ![q].keep = k]
      PROVE  ListingsInv'
  <2>0. PICK t : t = freq'[q]
    OBVIOUS
  <2>1. /\ t = [r EXCEPT !.last = f, !.seen = s, !.again = r.again \cup (r.seen \cap Page(r)), !.keep = k]
        /\ \A p \in FileRequests \ {q} : freq'[p] = freq[p]
    BY <1>1, <1>7, <2>0
  <2>2. t.last = f /\ t.seen = s /\ t.again = {} /\ t.keep = k /\ t.sort = r.sort /\ t.desc = r.desc
    BY <1>1, <1>2, <1>3, <2>1 DEF IdleFile
  <2>3. f # 0 /\ f \in FileIds /\ Existing \subseteq FileIds /\ k \subseteq Existing /\ s \subseteq Existing /\ f \in Rest(r)
    BY <1>2, <1>3, FilesAssumption DEF Existing, ListingOK, Filtered, filterLibraryFiles, loadAccessibleFiles, Page
  <2>4. \A g \in s : g = f \/ Before(r, g, f)
    BY <1>2, <1>7, PageFollows
  <2>5. \A g \in k : g = f \/ Before(r, g, f) => g \in s
    BY <1>3, PageIsInitial
  <2>6. \A g, h : Before(t, g, h)' <=> Before(r, g, h)
    BY <1>1, <2>2 DEF Before, sortLibraryFiles, Less
  <2>7. Existing' = Existing
    BY <1>1 DEF Existing
  <2>8. ListingOK(t)'
    BY <2>2, <2>3, <2>4, <2>5, <2>6, <2>7 DEF ListingOK, UpTo
  <2>9. ListingOK(freq[q])'
    BY <2>0, <2>8 DEF ListingOK, UpTo, Existing, Before, sortLibraryFiles, Less
  <2>10. \A p \in FileRequests : (freq[p].at = "page" => ListingOK(freq[p]))'
    BY <1>4, <2>1, <2>9 DEF ListingOK, UpTo, Existing, Before, sortLibraryFiles, Less
  <2>11. PagesComplete'
    BY <1>7 DEF ListingsInv, PagesComplete
  <2> QED BY <2>10, <2>11 DEF ListingsInv
<1> QED BY <1>5, <1>6, <1>7, PageRead

\* Every step keeps the listings.
LEMMA NextListingsInv == FilesInv /\ ListingsInv /\ [StoreNext \/ LibraryNext]_fileVars => ListingsInv'
<1> SUFFICES ASSUME FilesInv, ListingsInv, [StoreNext \/ LibraryNext]_fileVars PROVE ListingsInv'
  OBVIOUS
<1>1. CASE \E q \in FileRequests : ListFiles(q)
  BY <1>1, PageKeeps
<1>2. CASE ~(\E q \in FileRequests : ListFiles(q))
  <2>1. PagesComplete'
    BY <1>2, OnlyPages DEF ListingsInv, PagesComplete
  <2>2. ASSUME NEW q \in FileRequests, freq'[q].at = "page" PROVE ListingOK(freq[q])'
    <3>1. CASE freq'[q] = freq[q]
      BY <2>2, <3>1, ListingStays DEF ListingsInv, ListingOK, Existing, UpTo, Before, sortLibraryFiles, Less
    <3>2. CASE freq'[q].last = 0 /\ freq'[q].seen = {} /\ freq'[q].again = {}
      BY <3>2 DEF ListingOK
    <3> QED BY <1>2, <2>2, <3>1, <3>2, OnlyPages
  <2> QED BY <2>1, <2>2 DEF ListingsInv
<1> QED BY <1>1, <1>2

\* A listing read page by page shows every file that was there at each of its
\* pages, and none twice, whatever happens to the files between them
\* (FileRepo.ListFiles, whose cursor names the last file of a page).
THEOREM ListingsAreComplete == FilesSpec => []PagesComplete
<1>1. FilesInit => FilesInv /\ ListingsInv
  BY InitFilesInv, InitListingsInv
<1>2. (FilesInv /\ ListingsInv) /\ [StoreNext \/ LibraryNext]_fileVars => (FilesInv /\ ListingsInv)'
  BY NextFilesInv, NextListingsInv
<1>3. FilesSpec => [](FilesInv /\ ListingsInv)
  BY <1>1, <1>2, PTL DEF FilesSpec
<1> QED BY <1>3, PTL DEF ListingsInv

-----------------------------------------------------------------------------
(* Requests that clients send again, for any number of them and of         *)
(* contents and with Redis failing at will.  The argument rests on the     *)
(* record: it always is the answer of a request that has run, and that     *)
(* answer never changes.                                                   *)

\* The stored record is the answer of a request that has run; an answer about to
\* be stored may be stored; only a replayed request has a source.
RecordIsAnAnswer ==
    /\ record # None =>
          /\ Executed(record.by)
          /\ record.hash = Fingerprint(content[record.by])
          /\ record.outcome = answer[record.by]
          /\ record.outcome # "broken"
    /\ \A q \in Requests :
          /\ pc[q] = "answered" => answer[q] \in Outcomes /\ answer[q] # "broken"
          /\ source[q] # None => pc[q] = "replayed"

RetriesInv == TypeOK /\ RecordIsAnAnswer /\ ReplayTellsTheTruth /\ FailureIsNotReplayed

\* The first state satisfies the invariant.
LEMMA InitRetriesInv == Init => RetriesInv
BY IdempotencyAssumption
   DEF Init, RetriesInv, TypeOK, RecordIsAnAnswer, ReplayTellsTheTruth, FailureIsNotReplayed

\* Every step keeps it.
LEMMA NextRetriesInv == RetriesInv /\ [Next]_vars => RetriesInv'
<1> SUFFICES ASSUME RetriesInv, [Next]_vars PROVE RetriesInv'
  OBVIOUS
<1> USE IdempotencyAssumption DEF RetriesInv, TypeOK
<1>1. CASE UNCHANGED vars
  BY <1>1 DEF vars, RecordIsAnAnswer, ReplayTellsTheTruth, FailureIsNotReplayed, Executed
<1>2. CASE Expire
  BY <1>2 DEF Expire, RecordIsAnAnswer, ReplayTellsTheTruth, FailureIsNotReplayed, Executed
<1>3. ASSUME NEW q \in Requests, LookupMiss(q) \/ LookupError(q) PROVE RetriesInv'
  BY <1>3 DEF LookupMiss, LookupError, RecordIsAnAnswer, ReplayTellsTheTruth,
              FailureIsNotReplayed, Executed
<1>4. ASSUME NEW q \in Requests, LookupHit(q) PROVE RetriesInv'
  <2>1. record \in [hash : Contents \cup {"body-skipped"}, outcome : Outcomes, by : Requests]
    BY <1>4 DEF LookupHit
  <2>2. record.by # q /\ Executed(record.by)
    BY <1>4, <2>1 DEF LookupHit, RecordIsAnAnswer, Executed
  <2>3. TypeOK'
    BY <1>4, <2>1 DEF LookupHit
  <2>4. RecordIsAnAnswer'
    BY <1>4, <2>1, <2>2 DEF LookupHit, RecordIsAnAnswer, Executed
  <2>5. ReplayTellsTheTruth'
    BY <1>4, <2>1, <2>2 DEF LookupHit, RecordIsAnAnswer, ReplayTellsTheTruth, Executed, SameRequest
  <2>6. FailureIsNotReplayed'
    BY <1>4, <2>1, <2>2 DEF LookupHit, RecordIsAnAnswer, FailureIsNotReplayed
  <2> QED BY <2>3, <2>4, <2>5, <2>6
<1>5. ASSUME NEW q \in Requests, NEW outcome \in Outcomes, ServeHTTP(q, outcome) PROVE RetriesInv'
  <2>1. TypeOK'
    BY <1>5 DEF ServeHTTP
  <2>2. RecordIsAnAnswer'
    BY <1>5 DEF ServeHTTP, RecordIsAnAnswer, Executed, IsCacheableStatus
  <2>3. ReplayTellsTheTruth' /\ FailureIsNotReplayed'
    BY <1>5 DEF ServeHTTP, RecordIsAnAnswer, ReplayTellsTheTruth, FailureIsNotReplayed, Executed
  <2> QED BY <2>1, <2>2, <2>3
<1>6. ASSUME NEW q \in Requests, Store(q) PROVE RetriesInv'
  <2>1. Fingerprint(content[q]) \in Contents \cup {"body-skipped"}
    BY DEF Fingerprint
  <2>2. TypeOK'
    BY <1>6, <2>1 DEF Store, RecordIsAnAnswer
  <2>3. RecordIsAnAnswer'
    BY <1>6 DEF Store, RecordIsAnAnswer, Executed
  <2>4. ReplayTellsTheTruth' /\ FailureIsNotReplayed'
    BY <1>6 DEF Store, ReplayTellsTheTruth, FailureIsNotReplayed, Executed
  <2> QED BY <2>2, <2>3, <2>4
<1>7. ASSUME NEW q \in Requests, StoreError(q) PROVE RetriesInv'
  BY <1>7 DEF StoreError, RecordIsAnAnswer, ReplayTellsTheTruth, FailureIsNotReplayed, Executed
<1> QED
  BY <1>1, <1>2, <1>3, <1>4, <1>5, <1>6, <1>7 DEF Next

\* A replayed answer is what a request with the same fingerprint really got from
\* its handler.
THEOREM ReplayIsTrue == Spec => []ReplayTellsTheTruth
<1>1. Spec => []RetriesInv
  BY InitRetriesInv, NextRetriesInv, PTL DEF Spec
<1> QED BY <1>1, PTL DEF RetriesInv

\* A 5xx answer is never replayed, so a retry of a failed request runs again.
THEOREM FailuresRunAgain == Spec => []FailureIsNotReplayed
<1>1. Spec => []RetriesInv
  BY InitRetriesInv, NextRetriesInv, PTL DEF Spec
<1> QED BY <1>1, PTL DEF RetriesInv
=============================================================================
