---------------------------- MODULE SearchIndex ----------------------------
(***************************************************************************)
(* The search index and its job queue: the tables search_index_jobs and    *)
(* search_index of internal/repository/postgres/search.go, the workers     *)
(* that drain the queue, and the rebuild of a workspace's index.           *)
(*                                                                         *)
(* A resource has at most one job: enqueueing overwrites it, in whatever   *)
(* state it is.  Texts are numbers, 0 is "not found by a search".          *)
(***************************************************************************)
EXTENDS Integers, FiniteSets

CONSTANTS
    Docs,             \* resources: channels and messages
    Indexers,         \* index workers, one per backend process
    JobAttempts,      \* search_index_jobs.max_attempts
    MaxIndexFaults,   \* bound: crashes and failed index updates
    MaxReindex        \* bound: rebuilds of the index

VARIABLES
    job,         \* job[d]: the row of search_index_jobs
    index,       \* index[d]: the text search_index holds for d
    hold,        \* hold[w]: jobs worker w has claimed and not finished
    rebuild,     \* rows ReindexWorkspace has selected and not written yet
    epoch,       \* rebuilds so far; names the ids of job rows
    indexFaults, \* crashes and failures so far
    overtaken,   \* history: resources whose job changed under a claim
    emptied      \* history: resources a rebuild threw out, not written or queued since

searchVars == <<job, index, hold, rebuild, epoch, indexFaults, overtaken, emptied>>

NoJob == [op |-> "none", text |-> 0, status |-> "none", tries |-> 0,
          lock |-> "none", due |-> FALSE, id |-> 0]

SearchInit ==
    /\ job = [d \in Docs |-> NoJob]
    /\ index = [d \in Docs |-> 0]
    /\ hold = [w \in Indexers |-> {}]
    /\ rebuild = {}
    /\ epoch = 0
    /\ indexFaults = 0
    /\ overtaken = {} /\ emptied = {}

IndexFault == indexFaults < MaxIndexFaults /\ indexFaults' = indexFaults + 1

-----------------------------------------------------------------------------
(* Producers: used inside the transactions that change a resource. *)

\* ON CONFLICT keeps the row's id and resets everything else.
Renewed(j, op, text) ==
    [op |-> op, text |-> text, status |-> "pending", tries |-> 0, lock |-> "none",
     due |-> TRUE, id |-> IF j.status = "none" THEN epoch ELSE j.id]

EnqueueUpsert(d, text) == [job EXCEPT ![d] = Renewed(@, "upsert", text)]

EnqueueDelete(d) == [job EXCEPT ![d] = Renewed(@, "delete", 0)]

InFlight(d) == (\E w \in Indexers : \E h \in hold[w] : h.doc = d)
                 \/ \E row \in rebuild : row.doc = d

\* The jobs in j replace the ones of the documents D.
Enqueue(D, j) ==
    /\ job' = j
    /\ overtaken' = overtaken \cup {d \in D : InFlight(d)}
    /\ emptied' = emptied \ D
    /\ UNCHANGED <<index, hold, rebuild, epoch, indexFaults>>

-----------------------------------------------------------------------------
(* Workers. *)


ClaimableJobs ==
    {d \in Docs : job[d].due /\ \/ job[d].status \in {"pending", "failed"}
                                \/ job[d].status = "processing" /\ job[d].lock = "stale"}

Claimed(d) == [doc |-> d, op |-> job[d].op, text |-> job[d].text,
               tries |-> job[d].tries + 1, id |-> job[d].id, stage |-> "apply"]

\* SKIP LOCKED passes over rows a producer has locked, so any subset is possible.
ClaimPendingJobs(w) ==
    /\ hold[w] = {}
    /\ \E B \in SUBSET ClaimableJobs \ {{}} :
        /\ hold' = [hold EXCEPT ![w] = {Claimed(d) : d \in B}]
        /\ job' = [d \in Docs |-> IF d \in B
                     THEN [job[d] EXCEPT !.status = "processing", !.lock = "fresh",
                                         !.tries = @ + 1]
                     ELSE job[d]]
    /\ UNCHANGED <<index, rebuild, epoch, indexFaults, overtaken, emptied>>

UpsertDocument(d, text) == index' = [index EXCEPT ![d] = text]

\* Mutant: a delete job leaves the document in the index.
ApplyJob_KeepsDeleted(h) == index' = IF h.op = "upsert" THEN [index EXCEPT ![h.doc] = h.text] ELSE index

ApplyJob(h) ==
    \/ h.op = "upsert" /\ UpsertDocument(h.doc, h.text)
    \/ h.op = "delete" /\ index' = [index EXCEPT ![h.doc] = 0]

Moves(w, h, stage) == hold' = [hold EXCEPT ![w] = (@ \ {h}) \cup {[h EXCEPT !.stage = stage]}]
Finishes(w, h) == hold' = [hold EXCEPT ![w] = @ \ {h}]

ApplyOk(w, h) ==
    /\ h.stage = "apply"
    /\ ApplyJob(h)
    /\ Moves(w, h, "applied")
    /\ UNCHANGED <<job, rebuild, epoch, indexFaults, overtaken, emptied>>

\* The write may have been applied before its error reached the worker.
ApplyError(w, h) ==
    /\ h.stage = "apply"
    /\ IndexFault
    /\ ApplyJob(h) \/ UNCHANGED index
    /\ Moves(w, h, "refused")
    /\ UNCHANGED <<job, rebuild, epoch, overtaken, emptied>>

\* WHERE id = the claimed row's id; the row may have been overwritten since.
Settle(h, status, due) ==
    job' = IF job[h.doc].status = "none" \/ job[h.doc].id # h.id THEN job
           ELSE [job EXCEPT ![h.doc].status = status, ![h.doc].lock = "none",
                            ![h.doc].due = due]

CompleteJob(w, h) ==
    /\ h.stage = "applied"
    /\ Settle(h, "processed", job[h.doc].due)
    /\ Finishes(w, h)
    /\ UNCHANGED <<index, rebuild, epoch, indexFaults, overtaken, emptied>>

\* An error here ends the batch; its other rows wait for their lease to run out.
CompleteJobError(w, h) ==
    /\ h.stage = "applied"
    /\ IndexFault
    /\ Settle(h, "processed", job[h.doc].due) \/ UNCHANGED job
    /\ hold' = [hold EXCEPT ![w] = {}]
    /\ UNCHANGED <<index, rebuild, epoch, overtaken, emptied>>

FailJob(w, h) ==
    /\ h.stage = "refused"
    /\ IF h.tries >= JobAttempts THEN Settle(h, "dead", TRUE) ELSE Settle(h, "failed", FALSE)
    /\ Finishes(w, h)
    /\ UNCHANGED <<index, rebuild, epoch, indexFaults, overtaken, emptied>>

IndexerCrash(w) ==
    /\ hold[w] # {}
    /\ IndexFault
    /\ hold' = [hold EXCEPT ![w] = {}]
    /\ UNCHANGED <<job, index, rebuild, epoch, overtaken, emptied>>

\* The five minute lease runs out, under a slow worker or a dead one.
JobLeaseExpire(d) ==
    /\ job[d].lock = "fresh"
    /\ job' = [job EXCEPT ![d].lock = "stale"]
    /\ UNCHANGED <<index, hold, rebuild, epoch, indexFaults, overtaken, emptied>>

JobRetryDue(d) ==
    /\ job[d].status = "failed" /\ ~job[d].due
    /\ job' = [job EXCEPT ![d].due = TRUE]
    /\ UNCHANGED <<index, hold, rebuild, epoch, indexFaults, overtaken, emptied>>

-----------------------------------------------------------------------------
(* ReindexWorkspace: one transaction empties queue and index, then the     *)
(* resources are selected and written one by one.  rows are the resources  *)
(* the SELECTs find, with their texts: nothing of an archived channel.  An *)
(* error of a SELECT or of a write, or the timeout of cmd/search-reindex,  *)
(* ends the rebuild after the reset, and nothing resumes it.               *)

NoRow == [doc |-> "none", text |-> 0]

ReindexReset ==
    /\ rebuild = {} /\ epoch < MaxReindex
    /\ epoch' = epoch + 1
    /\ job' = [d \in Docs |-> NoJob]
    /\ index' = [d \in Docs |-> 0]
    /\ overtaken' = overtaken \cup {d \in Docs : InFlight(d)}
    /\ emptied' = Docs
    /\ rebuild' = {NoRow}
    /\ UNCHANGED <<hold, indexFaults>>

ReindexScan(rows) ==
    /\ rebuild = {NoRow}
    /\ rebuild' = rows
    /\ overtaken' = overtaken \cup {r.doc : r \in {q \in rows : InFlight(q.doc)}}
    /\ UNCHANGED <<job, index, hold, epoch, indexFaults, emptied>>

ReindexWrite(row) ==
    /\ row.doc \in Docs
    /\ UpsertDocument(row.doc, row.text)
    /\ rebuild' = rebuild \ {row}
    /\ emptied' = emptied \ {row.doc}
    /\ UNCHANGED <<job, hold, epoch, indexFaults, overtaken>>

ReindexStops ==
    /\ rebuild # {} /\ rebuild' = {}
    /\ UNCHANGED <<job, index, hold, epoch, indexFaults, overtaken, emptied>>

-----------------------------------------------------------------------------
IndexerNext(w) ==
    \/ ClaimPendingJobs(w) \/ IndexerCrash(w)
    \/ \E h \in hold[w] :
        \/ ApplyOk(w, h) \/ ApplyError(w, h) \/ CompleteJob(w, h)
        \/ CompleteJobError(w, h) \/ FailJob(w, h)

SearchNext ==
    \/ \E w \in Indexers : IndexerNext(w)
    \/ \E d \in Docs : JobLeaseExpire(d) \/ JobRetryDue(d)
    \/ ReindexReset \/ ReindexStops
    \/ \E row \in rebuild : ReindexWrite(row)
=============================================================================
