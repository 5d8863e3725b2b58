----------------------------- MODULE Recording -----------------------------
(***************************************************************************)
(* Recordings of one call: service/recording, its Postgres repository, the *)
(* LiveKit Egress jobs that write the files (external) and the egress_*    *)
(* webhooks that finish a recording, the spool processor that finished     *)
(* recordings before Egress did and still runs, and the retention cleanup. *)
(*                                                                         *)
(* A recording r stands for one StartRecording request, for the row it     *)
(* creates, for the Egress job it starts and for the object stored under   *)
(* its key; Legacy recordings are rows of other calls that the SFU capture *)
(* made: still in 'processing' with a spool directory, or ready.  Storage  *)
(* tiers, downloads, audit entries and broadcasts are left out.            *)
(***************************************************************************)
EXTENDS Integers, FiniteSets

CONSTANTS
    Recordings,     \* requests to record, and the rows they create
    Legacy,         \* the rows captured into a spool directory
    Stoppable,      \* the recordings the host stops (the others end with the call)
    Workers,        \* processes that run RunProcessingWorker
    None,
    MaxAttempts,    \* max_processing_attempts
    AttemptBound,   \* bound: attempts a run may count
    ArtifactInsert, \* FALSE: replaceArtifactsTx as written, always refused
    Expiring,       \* the recordings retention applies to (expires_at is set)
    Faults          \* what may go wrong, see FaultKinds

\* "reply": LiveKit starts a job and its answer is lost; "start": StartRecording
\* dies or its last write fails; "stop": a step of StopRecording fails; "lookup",
\* "backfill": the webhook's GetByEgressID or SetEgressID fails; "hook": a delivery
\* fails; "worker": a database error of a spool processor; "crash": it dies;
\* "clean": a cleanup pass fails.
FaultKinds == {"reply", "start", "stop", "lookup", "backfill", "hook", "worker", "crash", "clean"}

ASSUME RecordingAssumption ==
    /\ Legacy \subseteq Recordings /\ Stoppable \subseteq Recordings
    /\ None \notin Recordings
    /\ MaxAttempts \in Nat /\ AttemptBound \in Nat
    /\ Expiring \subseteq Recordings /\ Faults \subseteq FaultKinds
    /\ ArtifactInsert \in BOOLEAN

VARIABLES
    call,       \* calls.status: "active" or "ended"
    row,        \* the recordings table
    expired,    \* the rows whose expires_at has passed
    start,      \* progress of each StartRecording request
    stop,       \* progress of StopRecording, per recording
    egress,     \* LiveKit: the state of the job started for each recording
    objects,    \* object storage: recordings with a file under their key
    spool,      \* recordings with a spool directory
    hook,       \* the delivery of each job's egress_ended webhook
    acked,      \* jobs whose egress_ended event is marked processed
    worker,     \* the spool processors
    cleaner,    \* the cleanup worker
    astray,     \* history: <<job, recording>>, a webhook given to another recording
    contended   \* history: recordings two spool processors worked on at once

history == <<astray, contended>>

vars == <<call, row, expired, start, stop, egress, objects, spool, hook, acked,
          worker, cleaner, history>>

Rows == [status : {"none", "recording", "processing", "ready", "failed", "deleted"},
         egress : Recordings \cup {None}, attempts : 0..AttemptBound,
         retry : {"null", "due", "later"}, hold : BOOLEAN]

NoRow == [status |-> "none", egress |-> None, attempts |-> 0, retry |-> "null",
          hold |-> FALSE]

Idle == [pc |-> "idle", todo |-> {}, rec |-> None, attempts |-> 0]
NoHook == [pc |-> "idle", rec |-> None, status |-> "none"]

Exists(r) == row[r].status \notin {"none", "deleted"}
Active(r) == row[r].status \in {"recording", "processing"}

\* Mutant: without the trigger.
StatusAllows_Unchecked(r, status) == TRUE

\* The trigger enforce_recording_status_transition refuses every other update of
\* the status.
StatusAllows(r, status) ==
    \/ row[r].status = status
    \/ <<row[r].status, status>> \in
          {<<"recording", "processing">>, <<"recording", "failed">>, <<"processing", "ready">>,
           <<"processing", "failed">>, <<"failed", "processing">>}

\* The rows of r's call; a legacy row belongs to a call of its own.
SameCall(r) == IF r \in Legacy THEN {r} ELSE Recordings \ Legacy

\* Mutant: without the index.
IndexAllows_Unchecked(r) == TRUE

\* ux_recordings_active_per_call lets r become active.
IndexAllows(r) == \A q \in SameCall(r) \ {r} : ~Active(q)

Init ==
    /\ call = "active"
    /\ spool \in SUBSET Legacy
    /\ objects = Legacy \ spool
    /\ row = [r \in Recordings |->
                IF r \in spool THEN [NoRow EXCEPT !.status = "processing", !.retry = "due"]
                ELSE IF r \in objects THEN [NoRow EXCEPT !.status = "ready"]
                ELSE NoRow]
    /\ expired = {}
    /\ start = [r \in Recordings |-> IF r \in Legacy THEN "done" ELSE "idle"]
    /\ stop = [r \in Recordings |-> [pc |-> "idle", egress |-> None]]
    /\ egress = [r \in Recordings |-> "none"]
    /\ hook = [r \in Recordings |-> NoHook]
    /\ acked = {}
    /\ worker = [w \in Workers |-> Idle]
    /\ cleaner = Idle
    /\ astray = {} /\ contended = {}

-----------------------------------------------------------------------------
\* StartRecording: check, insert the row, start the job, store its id.

\* The call is active and no recording of it is.
StartCheck(r) ==
    /\ start[r] = "idle" /\ call = "active"
    /\ \A q \in SameCall(r) : ~Active(q)
    /\ start' = [start EXCEPT ![r] = "checked"]
    /\ UNCHANGED <<call, row, expired, stop, egress, objects, spool, hook, acked, worker, cleaner, history>>

\* The row is inserted unless the index refuses it (409).
StartCreate(r) ==
    /\ start[r] = "checked"
    /\ IF IndexAllows(r)
       THEN /\ row' = [row EXCEPT ![r].status = "recording"]
            /\ start' = [start EXCEPT ![r] = "created"]
       ELSE /\ start' = [start EXCEPT ![r] = "done"]
            /\ row' = row
    /\ UNCHANGED <<call, expired, stop, egress, objects, spool, hook, acked, worker, cleaner, history>>

\* LiveKit answers with the job's id.
StartRoomCompositeFile(r) ==
    /\ start[r] = "created"
    /\ egress' = [egress EXCEPT ![r] = "active"]
    /\ start' = [start EXCEPT ![r] = "started"]
    /\ UNCHANGED <<call, row, expired, stop, objects, spool, hook, acked, worker, cleaner, history>>

\* The request fails: LiveKit refused it, or started the job and its answer was
\* lost on the way.
StartRoomCompositeError(r) ==
    /\ start[r] = "created"
    /\ \/ egress' = egress
       \/ "reply" \in Faults /\ egress' = [egress EXCEPT ![r] = "active"]
    /\ start' = [start EXCEPT ![r] = "refused"]
    /\ UNCHANGED <<call, row, expired, stop, objects, spool, hook, acked, worker, cleaner, history>>

\* MarkFailed updates by id; the trigger refuses it for a ready row.
CanMarkFailed(r) == Exists(r) /\ StatusAllows(r, "failed")
MarkFailed(r, retry) ==
    IF CanMarkFailed(r) THEN [row EXCEPT ![r].status = "failed", ![r].retry = retry] ELSE row

\* An error of MarkFailed is ignored.
StartFailed(r) ==
    /\ start[r] = "refused"
    /\ row' = MarkFailed(r, "null")
    /\ start' = [start EXCEPT ![r] = "failed"]
    /\ UNCHANGED <<call, expired, stop, egress, objects, spool, hook, acked, worker, cleaner, history>>

\* SetEgressID, which ux_recordings_egress_id refuses for a second row.
SetEgressID(r, e) ==
    IF Exists(r) /\ \A q \in Recordings \ {r} : Exists(q) => row[q].egress # e
    THEN [row EXCEPT ![r].egress = e] ELSE row

StartBackfill(r) ==
    /\ start[r] = "started"
    /\ row' = SetEgressID(r, r)
    /\ start' = [start EXCEPT ![r] = "done"]
    /\ UNCHANGED <<call, expired, stop, egress, objects, spool, hook, acked, worker, cleaner, history>>

\* The request stops half way: a crash, or a database error that is only logged.
StartAbort(r) ==
    /\ "start" \in Faults /\ start[r] \notin {"idle", "failed", "done"}
    /\ start' = [start EXCEPT ![r] = "done"]
    /\ UNCHANGED <<call, row, expired, stop, egress, objects, spool, hook, acked, worker, cleaner, history>>

-----------------------------------------------------------------------------
\* StopRecording: read the row, stop the job, move the row to 'processing'.

StopRead(r) ==
    /\ r \in Stoppable /\ stop[r].pc = "idle" /\ row[r].status = "recording"
    /\ stop' = [stop EXCEPT ![r] = [pc |-> "read", egress |-> row[r].egress]]
    /\ UNCHANGED <<call, row, expired, start, egress, objects, spool, hook, acked, worker, cleaner, history>>

\* The job e was asked to stop; LiveKit has "not found" for one that is over.
StopEgress(e) ==
    egress' = IF e # None /\ egress[e] = "active" THEN [egress EXCEPT ![e] = "ending"] ELSE egress

\* Without an id no job is stopped; when stopping fails the request fails.
StopSend(r) ==
    /\ stop[r].pc = "read"
    /\ \/ /\ StopEgress(stop[r].egress)
          /\ stop' = [stop EXCEPT ![r].pc = "sent"]
       \/ /\ "stop" \in Faults /\ stop[r].egress # None
          /\ stop' = [stop EXCEPT ![r] = [pc |-> "idle", egress |-> None]]
          /\ egress' = egress
    /\ UNCHANGED <<call, row, expired, start, objects, spool, hook, acked, worker, cleaner, history>>

\* The update matches only status = 'recording'.
Stop(r) ==
    IF row[r].status = "recording"
    THEN [row EXCEPT ![r].status = "processing", ![r].retry = "due"] ELSE row

StopWrite(r) ==
    /\ stop[r].pc = "sent"
    /\ row' \in {Stop(r)} \cup (IF "stop" \in Faults THEN {row} ELSE {})
    /\ stop' = [stop EXCEPT ![r] = [pc |-> "idle", egress |-> None]]
    /\ UNCHANGED <<call, expired, start, egress, objects, spool, hook, acked, worker, cleaner, history>>

-----------------------------------------------------------------------------
\* The call ends, and the call service asks the job of its recording to stop.

EndCall ==
    /\ call = "active"
    /\ call' = "ended"
    /\ UNCHANGED <<row, expired, start, stop, egress, objects, spool, hook, acked, worker, cleaner, history>>

StopActiveEgressForCall(r) ==
    /\ call = "ended" /\ r \notin Legacy /\ Active(r)
    /\ row[r].egress # None /\ egress[row[r].egress] = "active"
    /\ StopEgress(row[r].egress)
    /\ UNCHANGED <<call, row, expired, start, stop, objects, spool, hook, acked, worker, cleaner, history>>

\* LiveKit (external): a job ends by itself or because it was asked to, with a
\* file or without, and its egress_ended webhook is delivered until it is acked.
EgressEnds(e) ==
    /\ egress[e] \in {"active", "ending"}
    /\ \/ /\ egress' = [egress EXCEPT ![e] = "complete"]
          /\ objects' = objects \cup {e}
       \/ /\ egress' = [egress EXCEPT ![e] = "failed"]
          /\ objects' = objects
    /\ UNCHANGED <<call, row, expired, start, stop, spool, hook, acked, worker, cleaner, history>>

-----------------------------------------------------------------------------
\* HandleEgressEvent for the end of job e.

Ended(e) == egress[e] \in {"complete", "failed"}

ByEgressID(e) == {r \in Recordings : Exists(r) /\ row[r].egress = e}
ActiveByCall == {r \in Recordings \ Legacy : Active(r)}

\* Mutant: the id is not used.
Correlated_ByCall(e, missed) == ActiveByCall

\* GetByEgressID, and when it missed, because no row has the id or because the
\* query failed, GetActiveByCall; with neither the delivery fails and is repeated.
Correlated(e, missed) == IF missed THEN ActiveByCall ELSE ByEgressID(e)

HookCorrelate(e) ==
    /\ Ended(e) /\ e \notin acked /\ hook[e].pc = "idle"
    /\ \E missed \in BOOLEAN :
          /\ missed => ByEgressID(e) = {} \/ "lookup" \in Faults
          /\ \E r \in Correlated(e, missed) :
                /\ hook' = [hook EXCEPT ![e] = [pc |-> IF row[r].egress = None THEN "fill" ELSE "found",
                                                rec |-> r, status |-> row[r].status]]
                /\ astray' = IF missed /\ r # e THEN astray \cup {<<e, r>>} ELSE astray
    /\ UNCHANGED <<call, row, expired, start, stop, egress, objects, spool, acked, worker, cleaner, contended>>

\* The fallback stores the id in a row that has none; an error is ignored.
HookBackfill(e) ==
    /\ hook[e].pc = "fill"
    /\ row' \in {SetEgressID(hook[e].rec, e)} \cup (IF "backfill" \in Faults THEN {row} ELSE {})
    /\ hook' = [hook EXCEPT ![e].pc = "found"]
    /\ UNCHANGED <<call, expired, start, stop, egress, objects, spool, acked, worker, cleaner, history>>

\* SetReady updates by id, in the transaction that replaces the artifacts; the
\* trigger refuses it for a row in 'recording' or 'failed'.
SetReady(r) == [row EXCEPT ![r].status = "ready", ![r].retry = "null"]
CanSetReady(r) == ArtifactInsert /\ Exists(r) /\ StatusAllows(r, "ready")

\* Mutant: a stopped row is taken for a terminal one.
Terminal_Stopped(status) == status # "recording"

\* Rows that are terminal in the copy read earlier are left alone.
Terminal(status) == status \in {"ready", "failed"}

\* finalizeRecordingReady and finalizeRecordingFailed.
HookFinalize(e) ==
    LET r == hook[e].rec IN
    /\ hook[e].pc = "found"
    /\ \/ Terminal(hook[e].status) /\ row' = row
       \/ ~Terminal(hook[e].status) /\ egress[e] = "complete" /\ CanSetReady(r)
            /\ row' = SetReady(r)
       \/ ~Terminal(hook[e].status) /\ egress[e] = "failed" /\ CanMarkFailed(r)
            /\ row' = MarkFailed(r, "null")
    /\ hook' = [hook EXCEPT ![e].pc = "done"]
    /\ UNCHANGED <<call, expired, start, stop, egress, objects, spool, acked, worker, cleaner, history>>

\* The event is marked processed and LiveKit is answered.
HookAck(e) ==
    /\ hook[e].pc = "done"
    /\ acked' = acked \cup {e}
    /\ hook' = [hook EXCEPT ![e] = NoHook]
    /\ UNCHANGED <<call, row, expired, start, stop, egress, objects, spool, worker, cleaner, history>>

\* The delivery fails (a database error, a crash, or a write that is refused) and
\* will be repeated.
HookFails(e) ==
    /\ hook[e].pc # "idle"
    /\ \/ "hook" \in Faults
       \/ /\ hook[e].pc = "found" /\ ~Terminal(hook[e].status)
          /\ IF egress[e] = "complete" THEN ~CanSetReady(hook[e].rec) ELSE ~CanMarkFailed(hook[e].rec)
    /\ hook' = [hook EXCEPT ![e] = NoHook]
    /\ UNCHANGED <<call, row, expired, start, stop, egress, objects, spool, acked, worker, cleaner, history>>

-----------------------------------------------------------------------------
\* ProcessPending: the spool processor.


\* ListProcessable; nothing is claimed.
Processable(r) ==
    /\ row[r].status \in {"processing", "failed"}
    /\ row[r].retry # "later"
    /\ row[r].status = "processing" \/ row[r].attempts < MaxAttempts

ListProcessable(w) ==
    /\ worker[w].pc = "idle" /\ worker[w].todo = {}
    /\ \E r \in Recordings : Processable(r)
    /\ worker' = [worker EXCEPT ![w].todo = {r \in Recordings : Processable(r)}]
    /\ UNCHANGED <<call, row, expired, start, stop, egress, objects, spool, hook, acked, cleaner, history>>

\* The update has no condition on the status, but the trigger and the index may
\* refuse it, and a deleted row is not found: then the recording is skipped.
CanMarkAttempt(r) == Exists(r) /\ StatusAllows(r, "processing") /\ IndexAllows(r)

MarkProcessingAttempt(w, r) ==
    /\ worker[w].pc = "idle" /\ r \in worker[w].todo
    /\ \/ /\ CanMarkAttempt(r) /\ row[r].attempts < AttemptBound
          /\ row' = [row EXCEPT ![r].status = "processing", ![r].attempts = @ + 1,
                                ![r].retry = "due"]
          /\ worker' = [worker EXCEPT ![w] = [pc |-> "marked", todo |-> worker[w].todo \ {r},
                                              rec |-> r, attempts |-> row[r].attempts + 1]]
          /\ contended' = IF \E v \in Workers : worker[v].rec = r THEN contended \cup {r} ELSE contended
       \/ /\ ~CanMarkAttempt(r) \/ "worker" \in Faults
          /\ UNCHANGED <<row, contended>>
          /\ worker' = [worker EXCEPT ![w].todo = @ \ {r}]
    /\ UNCHANGED <<call, expired, start, stop, egress, objects, spool, hook, acked, cleaner, astray>>

\* Process: a recording with a spool is rendered and uploaded; without one, or
\* when a step fails, what was uploaded is deleted again.
Process(w) ==
    LET r == worker[w].rec IN
    /\ worker[w].pc = "marked"
    /\ \/ /\ r \in spool
          /\ objects' = objects \cup {r}
          /\ worker' = [worker EXCEPT ![w].pc = "uploaded"]
       \/ /\ objects' \in {objects} \cup (IF r \in spool THEN {objects \ {r}} ELSE {})
          /\ worker' = [worker EXCEPT ![w].pc = "failed"]
    /\ UNCHANGED <<call, row, expired, start, stop, egress, spool, hook, acked, cleaner, history>>

\* The artifacts and the 'ready' status are written in one transaction.
FinalizeReady(w) ==
    /\ worker[w].pc = "uploaded" /\ CanSetReady(worker[w].rec)
    /\ row' = SetReady(worker[w].rec)
    /\ worker' = [worker EXCEPT ![w].pc = "ready"]
    /\ UNCHANGED <<call, expired, start, stop, egress, objects, spool, hook, acked, cleaner, history>>

\* The worker goes on with its list.
NextRecording(w) == [worker EXCEPT ![w] = [Idle EXCEPT !.todo = worker[w].todo]]

\* The ready hook has run; the spool directory goes.  Errors are only logged.
RemoveSpoolDir(w) ==
    /\ worker[w].pc = "ready"
    /\ spool' \in {spool \ {worker[w].rec}} \cup (IF "worker" \in Faults THEN {spool} ELSE {})
    /\ worker' = NextRecording(w)
    /\ UNCHANGED <<call, row, expired, start, stop, egress, objects, hook, acked, cleaner, history>>

\* The quota is exceeded or the transaction fails: the objects are deleted.
DeleteUploadedArtifacts(w) ==
    /\ worker[w].pc = "uploaded"
    /\ objects' = objects \ {worker[w].rec}
    /\ worker' = [worker EXCEPT ![w].pc = "failed"]
    /\ UNCHANGED <<call, row, expired, start, stop, egress, spool, hook, acked, cleaner, history>>

\* MarkFailed, with another attempt while the attempts last; an error is logged.
HandleProcessingFailure(w) ==
    /\ worker[w].pc = "failed"
    /\ row' \in {MarkFailed(worker[w].rec, IF worker[w].attempts < MaxAttempts THEN "later" ELSE "null")}
                 \cup (IF "worker" \in Faults THEN {row} ELSE {})
    /\ worker' = NextRecording(w)
    /\ UNCHANGED <<call, expired, start, stop, egress, objects, spool, hook, acked, cleaner, history>>

\* The process dies; what it left 'processing' is listed again.
WorkerCrash(w) ==
    /\ "crash" \in Faults /\ worker[w] # Idle
    /\ worker' = [worker EXCEPT ![w] = Idle]
    /\ UNCHANGED <<call, row, expired, start, stop, egress, objects, spool, hook, acked, cleaner, history>>

RetryDue(r) ==
    /\ row[r].retry = "later"
    /\ row' = [row EXCEPT ![r].retry = "due"]
    /\ UNCHANGED <<call, expired, start, stop, egress, objects, spool, hook, acked, worker, cleaner, history>>

-----------------------------------------------------------------------------
\* Retention and legal hold.

\* expires_at passes.  Retention lasts days and LiveKit repeats a webhook for
\* minutes, so the request has returned and the end of its job has been handled.
Expire(r) ==
    /\ r \in Expiring \ expired /\ Exists(r)
    /\ start[r] \in {"failed", "done"} /\ (egress[r] # "none" => r \in acked)
    /\ expired' = expired \cup {r}
    /\ UNCHANGED <<call, row, start, stop, egress, objects, spool, hook, acked, worker, cleaner, history>>

\* On a row without an expiry a hold has nothing to prevent.
SetLegalHold(r, hold) ==
    /\ r \in Expiring /\ Exists(r)
    /\ row' = [row EXCEPT ![r].hold = hold]
    /\ UNCHANGED <<call, expired, start, stop, egress, objects, spool, hook, acked, worker, cleaner, history>>

\* ListExpired.
Expirable(r) == r \in expired /\ row[r].status = "ready" /\ ~row[r].hold

ListExpired ==
    /\ cleaner = Idle
    /\ \E r \in Recordings : Expirable(r)
    /\ cleaner' = [cleaner EXCEPT !.todo = {r \in Recordings : Expirable(r)}]
    /\ UNCHANGED <<call, row, expired, start, stop, egress, objects, spool, hook, acked, worker, history>>

\* CleanupExpired deletes the objects, then the row and the spool directory.
CleanObjects(r) ==
    /\ cleaner.pc = "idle" /\ r \in cleaner.todo
    /\ objects' = objects \ {r}
    /\ cleaner' = [cleaner EXCEPT !.pc = "emptied", !.todo = @ \ {r}, !.rec = r]
    /\ UNCHANGED <<call, row, expired, start, stop, egress, spool, hook, acked, worker, history>>

Delete(r) == [row EXCEPT ![r].status = "deleted"]

CleanRow ==
    /\ cleaner.pc = "emptied"
    /\ row' = Delete(cleaner.rec)
    /\ spool' = spool \ {cleaner.rec}
    /\ cleaner' = [Idle EXCEPT !.todo = cleaner.todo]
    /\ UNCHANGED <<call, expired, start, stop, egress, objects, hook, acked, worker, history>>

\* An error ends the pass.
CleanFails ==
    /\ "clean" \in Faults /\ cleaner # Idle
    /\ cleaner' = Idle
    /\ UNCHANGED <<call, row, expired, start, stop, egress, objects, spool, hook, acked, worker, history>>

-----------------------------------------------------------------------------
StartStep(r) == StartCheck(r) \/ StartCreate(r) \/ StartRoomCompositeFile(r)
                  \/ StartRoomCompositeError(r) \/ StartFailed(r) \/ StartBackfill(r)
HookStep(e) == HookCorrelate(e) \/ HookBackfill(e) \/ HookFinalize(e) \/ HookAck(e)
WorkStep(w) == ListProcessable(w) \/ (\E r \in Recordings : MarkProcessingAttempt(w, r))
                 \/ Process(w) \/ FinalizeReady(w) \/ RemoveSpoolDir(w)
                 \/ DeleteUploadedArtifacts(w) \/ HandleProcessingFailure(w)
CleanStep == ListExpired \/ (\E r \in Recordings : CleanObjects(r)) \/ CleanRow

Next ==
    \/ EndCall \/ CleanStep \/ CleanFails
    \/ \E r \in Recordings :
          \/ StartStep(r) \/ StartAbort(r)
          \/ StopRead(r) \/ StopSend(r) \/ StopWrite(r)
          \/ StopActiveEgressForCall(r) \/ EgressEnds(r)
          \/ HookStep(r) \/ HookFails(r)
          \/ RetryDue(r) \/ Expire(r)
          \/ \E hold \in BOOLEAN : SetLegalHold(r, hold)
    \/ \E w \in Workers : WorkStep(w) \/ WorkerCrash(w)

Spec == Init /\ [][Next]_vars

\* LiveKit delivers until it is answered, and a delivery that is being handled
\* goes on: the only fairness the egress path needs.
FairSpec == Spec /\ \A e \in Recordings : WF_vars(HookStep(e))

-----------------------------------------------------------------------------
\* The parts of the type invariant: the stored state, the requests, and the
\* three kinds of processes, each of which holds a recording exactly while it
\* works on one.
StoreOK ==
    /\ call \in {"active", "ended"}
    /\ row \in [Recordings -> Rows]
    /\ egress \in [Recordings -> {"none", "active", "ending", "complete", "failed"}]
    /\ {expired, objects, spool, acked, contended} \subseteq SUBSET Recordings
    /\ astray \subseteq Recordings \X Recordings

RequestsOK ==
    /\ start \in [Recordings -> {"idle", "checked", "created", "started", "refused", "failed", "done"}]
    /\ stop \in [Recordings -> [pc : {"idle", "read", "sent"}, egress : Recordings \cup {None}]]

HooksOK ==
    /\ hook \in [Recordings -> [pc : {"idle", "fill", "found", "done"},
                                rec : Recordings \cup {None},
                                status : {"none", "recording", "processing", "ready", "failed"}]]
    /\ \A e \in Recordings : hook[e].rec = None <=> hook[e].pc = "idle"

WorkersOK ==
    /\ worker \in [Workers -> [pc : {"idle", "marked", "uploaded", "ready", "failed"},
                               todo : SUBSET Recordings, rec : Recordings \cup {None},
                               attempts : 0..AttemptBound]]
    /\ \A w \in Workers : worker[w].rec = None <=> worker[w].pc = "idle"

CleanerOK ==
    /\ cleaner \in [pc : {"idle", "emptied"}, todo : SUBSET Recordings,
                     rec : Recordings \cup {None}, attempts : 0..AttemptBound]
    /\ cleaner.rec = None <=> cleaner.pc = "idle"

\* The variables have their types, and a process holds a recording exactly while
\* it works on one (the locals of ProcessPending, CleanupExpired and the webhook).
TypeOK == StoreOK /\ RequestsOK /\ HooksOK /\ WorkersOK /\ CleanerOK

\* A call has at most one recording in flight, whatever two starts, a retrying
\* spool processor and a late webhook do at once ("At most one exists", the
\* premise of GetActiveByCall).
OneActivePerCall ==
    \A q, r \in Recordings \ Legacy : Active(q) /\ Active(r) => q = r

\* No webhook took another recording for this one's, or this one for another's.
Unmistaken(e) == \A p \in astray : e \notin {p[1], p[2]}

\* When LiveKit has been told that the end of a job with a file was processed, the
\* recording of that job is ready, or has been ready and was removed by retention:
\* repeats of the webhook, the stop, the backfill of the job's id and the trigger's
\* refusals never lose it.  Excepted are a recording whose user was told that it
\* did not start, one that a spool processor took for its own, and one that the
\* fallback to the call's active recording confused with another.
AckedEgressIsReady ==
    \A e \in acked :
        egress[e] = "complete" /\ start[e] # "failed" /\ row[e].attempts = 0 /\ Unmistaken(e)
            => row[e].status \in {"ready", "deleted"}

\* A recording that is offered for download has its file until retention removes
\* it, whatever fails: a webhook completes its own job's recording.  Excepted are a
\* recording given a webhook by the fallback to the call's active recording, and
\* one that two spool processors worked on at once.
ReadyHasItsFile ==
    \A r \in Recordings \ (expired \cup contended \cup {p[2] : p \in astray}) :
        row[r].status = "ready" => r \in objects

\* What the SFU captured is never lost, however many processors take turns, fail or
\* crash: the spool directory stays until the rendered file is stored and the row
\* says so.  Excepted is a recording two processors worked on at once.
CapturedMediaKept ==
    \A r \in Legacy \ (expired \cup contended) : r \in spool \/ (row[r].status = "ready" /\ r \in objects)

\* No recording rests in 'processing': the spool processor lists such a row however
\* often a crash left it there, and ends it.
ProcessingEnds ==
    \A r \in Recordings : row[r].status = "processing" ~> row[r].status # "processing"

\* A job that completed makes its recording ready in the end, however its webhook
\* races the backfill of the job's id, the stop and the end of the call.
CompletedEgressBecomesReady ==
    \A e \in Recordings : egress[e] = "complete" ~> row[e].status \in {"ready", "deleted"}
=============================================================================
