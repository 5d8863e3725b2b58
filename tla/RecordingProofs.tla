-------------------------- MODULE RecordingProofs --------------------------
(***************************************************************************)
(* Proved for any number of recordings, processors and faults: the types,  *)
(* and that a call has at most one recording in flight.  The second is     *)
(* inductive once the table is known to be a function of its rows: only    *)
(* StartCreate and MarkProcessingAttempt make a row active, both under the *)
(* index, and StopWrite only moves an active row.  From there, with any    *)
(* number of webhooks and spool processors at work on the same rows: a     *)
(* recording that is ready has the file of its own job, it is ready when   *)
(* LiveKit is answered, and nothing that was captured is lost.  Webhooks   *)
(* the fallback gave to another recording and rows two processors worked   *)
(* on at once are excepted, by the histories astray and contended.         *)
(***************************************************************************)
EXTENDS Recording, TLAPS

IInv == TypeOK /\ OneActivePerCall

\* The first state satisfies the invariant.
LEMMA InitIInv == Init => IInv
<1> SUFFICES ASSUME Init PROVE IInv
  OBVIOUS
<1> USE RecordingAssumption DEF Init
<1>1. row \in [Recordings -> Rows]
  <2>1. NoRow \in Rows
    BY DEF NoRow, Rows
  <2>2. /\ [NoRow EXCEPT !.status = "processing", !.retry = "due"] \in Rows
        /\ [NoRow EXCEPT !.status = "ready"] \in Rows
    BY <2>1 DEF Rows
  <2> QED BY <2>1, <2>2
<1>2. StoreOK /\ RequestsOK
  BY <1>1 DEF StoreOK, RequestsOK
<1>3. HooksOK /\ WorkersOK /\ CleanerOK
  BY DEF HooksOK, WorkersOK, CleanerOK, NoHook, Idle
<1>4. OneActivePerCall
  BY DEF OneActivePerCall, Active, NoRow
<1> QED BY <1>2, <1>3, <1>4 DEF IInv, TypeOK

\* Statements that set columns of one row keep the table well typed; an id that
\* names no row changes nothing.
LEMMA SetStatus ==
    ASSUME row \in [Recordings -> Rows], NEW r,
           NEW status \in {"recording", "processing", "ready", "failed", "deleted"}
    PROVE  [row EXCEPT ![r].status = status] \in [Recordings -> Rows]
<1> SUFFICES ASSUME NEW q \in Recordings
             PROVE  [row EXCEPT ![r].status = status][q] \in Rows
  OBVIOUS
<1>1. [row[q] EXCEPT !.status = status] \in Rows
  BY DEF Rows
<1> QED BY <1>1

\* As SetStatus, for next_retry_at.
LEMMA SetRetry ==
    ASSUME row \in [Recordings -> Rows], NEW r,
           NEW retry \in {"null", "due", "later"}
    PROVE  [row EXCEPT ![r].retry = retry] \in [Recordings -> Rows]
<1> SUFFICES ASSUME NEW q \in Recordings
             PROVE  [row EXCEPT ![r].retry = retry][q] \in Rows
  OBVIOUS
<1>1. [row[q] EXCEPT !.retry = retry] \in Rows
  BY DEF Rows
<1> QED BY <1>1

\* As SetStatus, for both.
LEMMA SetStatusRetry ==
    ASSUME row \in [Recordings -> Rows], NEW r,
           NEW status \in {"recording", "processing", "ready", "failed", "deleted"},
           NEW retry \in {"null", "due", "later"}
    PROVE  [row EXCEPT ![r].status = status, ![r].retry = retry] \in [Recordings -> Rows]
<1> SUFFICES ASSUME NEW q \in Recordings
             PROVE  [row EXCEPT ![r].status = status, ![r].retry = retry][q] \in Rows
  OBVIOUS
<1>1. [row[q] EXCEPT !.status = status, !.retry = retry] \in Rows
  BY DEF Rows
<1> QED BY <1>1

\* As SetStatus, for legal_hold.
LEMMA SetHold ==
    ASSUME row \in [Recordings -> Rows], NEW r, NEW hold \in BOOLEAN
    PROVE  [row EXCEPT ![r].hold = hold] \in [Recordings -> Rows]
<1> SUFFICES ASSUME NEW q \in Recordings
             PROVE  [row EXCEPT ![r].hold = hold][q] \in Rows
  OBVIOUS
<1>1. [row[q] EXCEPT !.hold = hold] \in Rows
  BY DEF Rows
<1> QED BY <1>1

\* As SetStatus, for egress_id.
LEMMA SetEgress ==
    ASSUME row \in [Recordings -> Rows], NEW r, NEW e \in Recordings
    PROVE  [row EXCEPT ![r].egress = e] \in [Recordings -> Rows]
<1> SUFFICES ASSUME NEW q \in Recordings
             PROVE  [row EXCEPT ![r].egress = e][q] \in Rows
  OBVIOUS
<1>1. [row[q] EXCEPT !.egress = e] \in Rows
  BY DEF Rows
<1> QED BY <1>1

\* The stored state stays well typed.
LEMMA StoreType == StoreOK /\ [Next]_vars => StoreOK'
<1> SUFFICES ASSUME StoreOK, [Next]_vars PROVE StoreOK'
  OBVIOUS
<1> USE RecordingAssumption DEF StoreOK, history
<1>1. CASE UNCHANGED <<call, row, expired, egress, objects, spool, acked, astray, contended>>
  BY <1>1
<1>2. ASSUME NEW r \in Recordings, StartCreate(r) PROVE StoreOK'
  <2>1. [row EXCEPT ![r].status = "recording"] \in [Recordings -> Rows]
    BY SetStatus
  <2>2. row' \in [Recordings -> Rows]
    BY <1>2, <2>1 DEF StartCreate
  <2> QED BY <1>2, <2>2 DEF StartCreate
<1>3. ASSUME NEW r \in Recordings, StartRoomCompositeFile(r) PROVE StoreOK'
  BY <1>3 DEF StartRoomCompositeFile
<1>4. ASSUME NEW r \in Recordings, StartRoomCompositeError(r) PROVE StoreOK'
  BY <1>4 DEF StartRoomCompositeError
<1>5. ASSUME NEW r \in Recordings, StartFailed(r) PROVE StoreOK'
  <2>1. row' \in [Recordings -> Rows]
    BY <1>5, SetStatusRetry DEF StartFailed, MarkFailed
  <2> QED BY <1>5, <2>1 DEF StartFailed
<1>6. ASSUME NEW r \in Recordings, StartBackfill(r) PROVE StoreOK'
  <2>1. row' \in [Recordings -> Rows]
    BY <1>6, SetEgress DEF StartBackfill, SetEgressID
  <2> QED BY <1>6, <2>1 DEF StartBackfill
<1>7. ASSUME NEW r \in Recordings, StopSend(r) PROVE StoreOK'
  BY <1>7 DEF StopSend, StopEgress
<1>8. ASSUME NEW r \in Recordings, StopWrite(r) PROVE StoreOK'
  <2>1. Stop(r) \in [Recordings -> Rows]
    BY SetStatusRetry DEF Stop
  <2>2. row' \in [Recordings -> Rows]
    BY <1>8, <2>1 DEF StopWrite
  <2> QED BY <1>8, <2>2 DEF StopWrite
<1>9. ASSUME NEW r \in Recordings, StopActiveEgressForCall(r) PROVE StoreOK'
  BY <1>9 DEF StopActiveEgressForCall, StopEgress
<1>10. ASSUME NEW r \in Recordings, EgressEnds(r) PROVE StoreOK'
  BY <1>10 DEF EgressEnds
<1>11. ASSUME NEW r \in Recordings, HookBackfill(r) PROVE StoreOK'
  <2>1. row' \in [Recordings -> Rows]
    BY <1>11, SetEgress DEF HookBackfill, SetEgressID
  <2> QED BY <1>11, <2>1 DEF HookBackfill
<1>12. ASSUME NEW r \in Recordings, HookFinalize(r) PROVE StoreOK'
  <2>1. /\ SetReady(hook[r].rec) \in [Recordings -> Rows]
        /\ MarkFailed(hook[r].rec, "null") \in [Recordings -> Rows]
    BY SetStatusRetry DEF SetReady, MarkFailed
  <2>2. row' \in [Recordings -> Rows]
    BY <1>12, <2>1 DEF HookFinalize
  <2> QED BY <1>12, <2>2 DEF HookFinalize
<1>13. ASSUME NEW r \in Recordings, HookAck(r) PROVE StoreOK'
  BY <1>13 DEF HookAck, NoHook
<1>14. ASSUME NEW r \in Recordings, RetryDue(r) PROVE StoreOK'
  <2>1. row' \in [Recordings -> Rows]
    BY <1>14, SetRetry DEF RetryDue
  <2> QED BY <1>14, <2>1 DEF RetryDue
<1>15. ASSUME NEW r \in Recordings, Expire(r) PROVE StoreOK'
  BY <1>15 DEF Expire
<1>16. ASSUME NEW r \in Recordings, CleanObjects(r) PROVE StoreOK'
  BY <1>16 DEF CleanObjects
<1>17. ASSUME NEW r \in Recordings, NEW hold \in BOOLEAN, SetLegalHold(r, hold) PROVE StoreOK'
  <2>1. row' \in [Recordings -> Rows]
    BY <1>17, SetHold DEF SetLegalHold
  <2> QED BY <1>17, <2>1 DEF SetLegalHold
<1>18. ASSUME NEW w \in Workers, NEW r \in Recordings, MarkProcessingAttempt(w, r) PROVE StoreOK'
  <2>1. row' \in [Recordings -> Rows]
    BY <1>18 DEF MarkProcessingAttempt, Rows
  <2> QED BY <1>18, <2>1 DEF MarkProcessingAttempt
<1>19. ASSUME NEW w \in Workers, Process(w) PROVE StoreOK'
  BY <1>19 DEF Process
<1>20. ASSUME NEW w \in Workers, FinalizeReady(w) PROVE StoreOK'
  <2>1. row' \in [Recordings -> Rows]
    BY <1>20, SetStatusRetry DEF FinalizeReady, SetReady
  <2> QED BY <1>20, <2>1 DEF FinalizeReady
<1>21. ASSUME NEW w \in Workers, RemoveSpoolDir(w) PROVE StoreOK'
  BY <1>21 DEF RemoveSpoolDir, NextRecording, Idle
<1>22. ASSUME NEW w \in Workers, DeleteUploadedArtifacts(w) PROVE StoreOK'
  BY <1>22 DEF DeleteUploadedArtifacts
<1>23. ASSUME NEW w \in Workers, HandleProcessingFailure(w) PROVE StoreOK'
  <2>1. /\ MarkFailed(worker[w].rec, "later") \in [Recordings -> Rows]
        /\ MarkFailed(worker[w].rec, "null") \in [Recordings -> Rows]
    BY SetStatusRetry DEF MarkFailed
  <2>2. row' \in [Recordings -> Rows]
    BY <1>23, <2>1 DEF HandleProcessingFailure
  <2> QED BY <1>23, <2>2 DEF HandleProcessingFailure
<1>24. ASSUME EndCall PROVE StoreOK'
  BY <1>24 DEF EndCall
<1>25. ASSUME CleanRow PROVE StoreOK'
  <2>1. row' \in [Recordings -> Rows]
    BY <1>25, SetStatus DEF CleanRow, Delete
  <2> QED BY <1>25, <2>1 DEF CleanRow
<1>26. ASSUME NEW r \in Recordings,
            StartCheck(r) \/ StartAbort(r) \/ StopRead(r) \/ HookFails(r)
     PROVE  UNCHANGED <<call, row, expired, egress, objects, spool, acked, astray, contended>>
  BY <1>26 DEF StartCheck, StartAbort, StopRead, HookFails
<1>27. ASSUME NEW w \in Workers,
            ListProcessable(w) \/ WorkerCrash(w)
     PROVE  UNCHANGED <<call, row, expired, egress, objects, spool, acked, astray, contended>>
  BY <1>27 DEF ListProcessable, WorkerCrash
<1>29. ASSUME NEW r \in Recordings, HookCorrelate(r) PROVE StoreOK'
  <2>1. UNCHANGED <<call, row, expired, egress, objects, spool, acked, contended>>
    BY <1>29 DEF HookCorrelate
  <2>2. \A missed : Correlated(r, missed) \subseteq Recordings
    BY DEF Correlated, ActiveByCall, ByEgressID
  <2>3. astray' \subseteq Recordings \X Recordings
    BY <1>29, <2>2 DEF HookCorrelate
  <2> QED BY <2>1, <2>3
<1>28. ASSUME
            ListExpired \/ CleanFails \/ UNCHANGED vars
     PROVE  UNCHANGED <<call, row, expired, egress, objects, spool, acked, astray, contended>>
  BY <1>28 DEF ListExpired, CleanFails, vars
<1> QED
  BY <1>1, <1>2, <1>3, <1>4, <1>5, <1>6, <1>7, <1>8, <1>9, <1>10, <1>11, <1>12, <1>13,
     <1>14, <1>15, <1>16, <1>17, <1>18, <1>19, <1>20, <1>21, <1>22, <1>23, <1>24, <1>25,
     <1>26, <1>27, <1>28, <1>29 DEF Next, StartStep, HookStep, WorkStep, CleanStep

\* So do the requests,
LEMMA RequestsType == StoreOK /\ RequestsOK /\ [Next]_vars => RequestsOK'
<1> SUFFICES ASSUME StoreOK, RequestsOK, [Next]_vars PROVE RequestsOK'
  OBVIOUS
<1> USE RecordingAssumption DEF RequestsOK
<1>1. CASE UNCHANGED <<start, stop>>
  BY <1>1
<1>2. ASSUME NEW r \in Recordings, StartCheck(r) PROVE RequestsOK'
  BY <1>2 DEF StartCheck
<1>3. ASSUME NEW r \in Recordings, StartCreate(r) PROVE RequestsOK'
  BY <1>3 DEF StartCreate
<1>4. ASSUME NEW r \in Recordings, StartRoomCompositeFile(r) PROVE RequestsOK'
  BY <1>4 DEF StartRoomCompositeFile
<1>5. ASSUME NEW r \in Recordings, StartRoomCompositeError(r) PROVE RequestsOK'
  BY <1>5 DEF StartRoomCompositeError
<1>6. ASSUME NEW r \in Recordings, StartFailed(r) PROVE RequestsOK'
  BY <1>6 DEF StartFailed, MarkFailed
<1>7. ASSUME NEW r \in Recordings, StartBackfill(r) PROVE RequestsOK'
  BY <1>7 DEF StartBackfill, SetEgressID
<1>8. ASSUME NEW r \in Recordings, StartAbort(r) PROVE RequestsOK'
  BY <1>8 DEF StartAbort
<1>9. ASSUME NEW r \in Recordings, StopRead(r) PROVE RequestsOK'
  <2>1. row[r].egress \in Recordings \cup {None}
    BY DEF StoreOK, Rows
  <2> QED BY <1>9, <2>1 DEF StopRead
<1>10. ASSUME NEW r \in Recordings, StopSend(r) PROVE RequestsOK'
  BY <1>10 DEF StopSend, StopEgress
<1>11. ASSUME NEW r \in Recordings, StopWrite(r) PROVE RequestsOK'
  BY <1>11 DEF StopWrite, Stop
<1>12. ASSUME NEW r \in Recordings,
            StopActiveEgressForCall(r) \/ EgressEnds(r) \/ HookCorrelate(r) \/
               HookBackfill(r) \/ HookFinalize(r) \/ HookAck(r) \/ HookFails(r) \/
               RetryDue(r) \/ Expire(r) \/ CleanObjects(r)
     PROVE  UNCHANGED <<start, stop>>
  BY <1>12 DEF StopActiveEgressForCall, EgressEnds, HookCorrelate, HookBackfill,
     HookFinalize, HookAck, HookFails, RetryDue, Expire, CleanObjects
<1>13. ASSUME NEW w \in Workers,
            ListProcessable(w) \/ Process(w) \/ FinalizeReady(w) \/
               RemoveSpoolDir(w) \/ DeleteUploadedArtifacts(w) \/
               HandleProcessingFailure(w) \/ WorkerCrash(w)
     PROVE  UNCHANGED <<start, stop>>
  BY <1>13 DEF ListProcessable, Process, FinalizeReady, RemoveSpoolDir,
     DeleteUploadedArtifacts, HandleProcessingFailure, WorkerCrash
<1>14. ASSUME
            (\E r \in Recordings, hold \in BOOLEAN : SetLegalHold(r, hold)) \/ (\E w
               \in Workers, r \in Recordings : MarkProcessingAttempt(w, r)) \/
               EndCall \/ ListExpired \/ CleanRow \/ CleanFails \/ UNCHANGED vars
     PROVE  UNCHANGED <<start, stop>>
  BY <1>14 DEF SetLegalHold, MarkProcessingAttempt, EndCall, ListExpired, CleanRow,
     CleanFails, vars
<1> QED
  BY <1>1, <1>2, <1>3, <1>4, <1>5, <1>6, <1>7, <1>8, <1>9, <1>10, <1>11, <1>12, <1>13,
     <1>14 DEF Next, StartStep, HookStep, WorkStep, CleanStep

\* the deliveries,
LEMMA HooksType == StoreOK /\ HooksOK /\ [Next]_vars => HooksOK'
<1> SUFFICES ASSUME StoreOK, HooksOK, [Next]_vars PROVE HooksOK'
  OBVIOUS
<1> USE RecordingAssumption DEF HooksOK
<1>1. CASE UNCHANGED hook
  BY <1>1
<1>2. ASSUME NEW r \in Recordings, HookCorrelate(r) PROVE HooksOK'
  <2>1. PICK q \in Correlated(r, TRUE) \cup Correlated(r, FALSE) : hook' = [hook EXCEPT ![r] =
           [pc |-> IF row[q].egress = None THEN "fill" ELSE "found", rec |-> q,
            status |-> row[q].status]]
    BY <1>2 DEF HookCorrelate
  <2>2. q \in Recordings /\ Exists(q)
    BY DEF Correlated, ByEgressID, ActiveByCall, Active, Exists
  <2>3. row[q].status \in {"recording", "processing", "ready", "failed"}
    BY <2>2 DEF Exists, StoreOK, Rows
  <2> QED BY <2>1, <2>2, <2>3
<1>3. ASSUME NEW r \in Recordings, HookBackfill(r) PROVE HooksOK'
  BY <1>3 DEF HookBackfill
<1>4. ASSUME NEW r \in Recordings, HookFinalize(r) PROVE HooksOK'
  BY <1>4 DEF HookFinalize, SetReady, MarkFailed
<1>5. ASSUME NEW r \in Recordings, HookAck(r) PROVE HooksOK'
  BY <1>5 DEF HookAck, NoHook
<1>6. ASSUME NEW r \in Recordings, HookFails(r) PROVE HooksOK'
  BY <1>6 DEF HookFails, NoHook
<1>7. ASSUME NEW r \in Recordings,
            StartCheck(r) \/ StartCreate(r) \/ StartRoomCompositeFile(r) \/
               StartRoomCompositeError(r) \/ StartFailed(r) \/ StartBackfill(r) \/
               StartAbort(r) \/ StopRead(r) \/ StopSend(r) \/ StopWrite(r) \/
               StopActiveEgressForCall(r) \/ EgressEnds(r) \/ RetryDue(r) \/
               Expire(r) \/ CleanObjects(r)
     PROVE  UNCHANGED hook
  BY <1>7 DEF StartCheck, StartCreate, StartRoomCompositeFile, StartRoomCompositeError,
     StartFailed, StartBackfill, StartAbort, StopRead, StopSend, StopWrite,
     StopActiveEgressForCall, EgressEnds, RetryDue, Expire, CleanObjects
<1>8. ASSUME NEW w \in Workers,
            ListProcessable(w) \/ Process(w) \/ FinalizeReady(w) \/
               RemoveSpoolDir(w) \/ DeleteUploadedArtifacts(w) \/
               HandleProcessingFailure(w) \/ WorkerCrash(w)
     PROVE  UNCHANGED hook
  BY <1>8 DEF ListProcessable, Process, FinalizeReady, RemoveSpoolDir,
     DeleteUploadedArtifacts, HandleProcessingFailure, WorkerCrash
<1>9. ASSUME
            (\E r \in Recordings, hold \in BOOLEAN : SetLegalHold(r, hold)) \/ (\E w
               \in Workers, r \in Recordings : MarkProcessingAttempt(w, r)) \/
               EndCall \/ ListExpired \/ CleanRow \/ CleanFails \/ UNCHANGED vars
     PROVE  UNCHANGED hook
  BY <1>9 DEF SetLegalHold, MarkProcessingAttempt, EndCall, ListExpired, CleanRow,
     CleanFails, vars
<1> QED
  BY <1>1, <1>2, <1>3, <1>4, <1>5, <1>6, <1>7, <1>8, <1>9 DEF Next, StartStep, HookStep,
     WorkStep, CleanStep

\* the processors
LEMMA WorkersType == StoreOK /\ WorkersOK /\ [Next]_vars => WorkersOK'
<1> SUFFICES ASSUME StoreOK, WorkersOK, [Next]_vars PROVE WorkersOK'
  OBVIOUS
<1> USE RecordingAssumption DEF WorkersOK
<1>1. CASE UNCHANGED worker
  BY <1>1
<1>2. ASSUME NEW w \in Workers, ListProcessable(w) PROVE WorkersOK'
  BY <1>2 DEF ListProcessable
<1>3. ASSUME NEW w \in Workers, NEW r \in Recordings, MarkProcessingAttempt(w, r) PROVE WorkersOK'
  <2>1. row[r].attempts < AttemptBound => row[r].attempts + 1 \in 0..AttemptBound
    BY <1>3 DEF StoreOK, Rows
  <2> QED BY <1>3, <2>1 DEF MarkProcessingAttempt
<1>4. ASSUME NEW w \in Workers, Process(w) PROVE WorkersOK'
  BY <1>4 DEF Process
<1>5. ASSUME NEW w \in Workers, FinalizeReady(w) PROVE WorkersOK'
  BY <1>5 DEF FinalizeReady, SetReady
<1>6. ASSUME NEW w \in Workers, RemoveSpoolDir(w) PROVE WorkersOK'
  BY <1>6 DEF RemoveSpoolDir, NextRecording, Idle
<1>7. ASSUME NEW w \in Workers, DeleteUploadedArtifacts(w) PROVE WorkersOK'
  BY <1>7 DEF DeleteUploadedArtifacts
<1>8. ASSUME NEW w \in Workers, HandleProcessingFailure(w) PROVE WorkersOK'
  BY <1>8 DEF HandleProcessingFailure, MarkFailed, NextRecording, Idle
<1>9. ASSUME NEW w \in Workers, WorkerCrash(w) PROVE WorkersOK'
  BY <1>9 DEF WorkerCrash, Idle
<1>10. ASSUME NEW r \in Recordings,
            StartCheck(r) \/ StartCreate(r) \/ StartRoomCompositeFile(r) \/
               StartRoomCompositeError(r) \/ StartFailed(r) \/ StartBackfill(r) \/
               StartAbort(r) \/ StopRead(r) \/ StopSend(r) \/ StopWrite(r) \/
               StopActiveEgressForCall(r) \/ EgressEnds(r) \/ HookCorrelate(r) \/
               HookBackfill(r) \/ HookFinalize(r) \/ HookAck(r) \/ HookFails(r) \/
               RetryDue(r) \/ Expire(r) \/ CleanObjects(r)
     PROVE  UNCHANGED worker
  BY <1>10 DEF StartCheck, StartCreate, StartRoomCompositeFile, StartRoomCompositeError,
     StartFailed, StartBackfill, StartAbort, StopRead, StopSend, StopWrite,
     StopActiveEgressForCall, EgressEnds, HookCorrelate, HookBackfill, HookFinalize,
     HookAck, HookFails, RetryDue, Expire, CleanObjects
<1>11. ASSUME
            (\E r \in Recordings, hold \in BOOLEAN : SetLegalHold(r, hold)) \/
               EndCall \/ ListExpired \/ CleanRow \/ CleanFails \/ UNCHANGED vars
     PROVE  UNCHANGED worker
  BY <1>11 DEF SetLegalHold, EndCall, ListExpired, CleanRow, CleanFails, vars
<1> QED
  BY <1>1, <1>2, <1>3, <1>4, <1>5, <1>6, <1>7, <1>8, <1>9, <1>10, <1>11 DEF Next,
     StartStep, HookStep, WorkStep, CleanStep

\* and the cleanup worker.
LEMMA CleanerType == CleanerOK /\ [Next]_vars => CleanerOK'
<1> SUFFICES ASSUME CleanerOK, [Next]_vars PROVE CleanerOK'
  OBVIOUS
<1> USE RecordingAssumption DEF CleanerOK
<1>1. CASE UNCHANGED cleaner
  BY <1>1
<1>2. ASSUME NEW r \in Recordings, CleanObjects(r) PROVE CleanerOK'
  BY <1>2 DEF CleanObjects
<1>3. ASSUME ListExpired PROVE CleanerOK'
  BY <1>3 DEF ListExpired, Idle
<1>4. ASSUME CleanRow PROVE CleanerOK'
  BY <1>4 DEF CleanRow, Delete, Idle
<1>5. ASSUME CleanFails PROVE CleanerOK'
  BY <1>5 DEF CleanFails, Idle
<1>6. ASSUME NEW r \in Recordings,
            StartCheck(r) \/ StartCreate(r) \/ StartRoomCompositeFile(r) \/
               StartRoomCompositeError(r) \/ StartFailed(r) \/ StartBackfill(r) \/
               StartAbort(r) \/ StopRead(r) \/ StopSend(r) \/ StopWrite(r) \/
               StopActiveEgressForCall(r) \/ EgressEnds(r) \/ HookCorrelate(r) \/
               HookBackfill(r) \/ HookFinalize(r) \/ HookAck(r) \/ HookFails(r) \/
               RetryDue(r) \/ Expire(r)
     PROVE  UNCHANGED cleaner
  BY <1>6 DEF StartCheck, StartCreate, StartRoomCompositeFile, StartRoomCompositeError,
     StartFailed, StartBackfill, StartAbort, StopRead, StopSend, StopWrite,
     StopActiveEgressForCall, EgressEnds, HookCorrelate, HookBackfill, HookFinalize,
     HookAck, HookFails, RetryDue, Expire
<1>7. ASSUME NEW w \in Workers,
            ListProcessable(w) \/ Process(w) \/ FinalizeReady(w) \/
               RemoveSpoolDir(w) \/ DeleteUploadedArtifacts(w) \/
               HandleProcessingFailure(w) \/ WorkerCrash(w)
     PROVE  UNCHANGED cleaner
  BY <1>7 DEF ListProcessable, Process, FinalizeReady, RemoveSpoolDir,
     DeleteUploadedArtifacts, HandleProcessingFailure, WorkerCrash
<1>8. ASSUME
            (\E r \in Recordings, hold \in BOOLEAN : SetLegalHold(r, hold)) \/ (\E w
               \in Workers, r \in Recordings : MarkProcessingAttempt(w, r)) \/
               EndCall \/ UNCHANGED vars
     PROVE  UNCHANGED cleaner
  BY <1>8 DEF SetLegalHold, MarkProcessingAttempt, EndCall, vars
<1> QED
  BY <1>1, <1>2, <1>3, <1>4, <1>5, <1>6, <1>7, <1>8 DEF Next, StartStep, HookStep,
     WorkStep, CleanStep

\* A step that changes no status, or only makes rows inactive, keeps the one
\* recording in flight.
LEMMA FewerActive ==
    ASSUME OneActivePerCall,
           \A q \in Recordings : Active(q)' => Active(q)
    PROVE  OneActivePerCall'
BY DEF OneActivePerCall

\* Only the actions that write a row can disturb it.
LEMMA NextOneActive == TypeOK /\ OneActivePerCall /\ [Next]_vars => OneActivePerCall'
<1> SUFFICES ASSUME TypeOK, OneActivePerCall, [Next]_vars PROVE OneActivePerCall'
  OBVIOUS
<1> USE RecordingAssumption
<1>0. row \in [Recordings -> Rows]
  BY DEF TypeOK, StoreOK
<1>1. CASE UNCHANGED row
  BY <1>1, FewerActive DEF Active
<1>2. ASSUME NEW r \in Recordings, StartCreate(r) PROVE OneActivePerCall'
  <2>1. CASE ~IndexAllows(r)
    BY <1>2, <2>1, <1>1 DEF StartCreate
  <2>2. CASE IndexAllows(r)
    BY <1>2, <2>2, <1>0 DEF StartCreate, IndexAllows, SameCall, OneActivePerCall, Active, Rows
  <2> QED BY <2>1, <2>2
<1>3. ASSUME NEW r \in Recordings, StartFailed(r) PROVE OneActivePerCall'
  BY <1>3, <1>0, FewerActive DEF StartFailed, MarkFailed, Active, Rows
<1>4. ASSUME NEW r \in Recordings, StartBackfill(r) PROVE OneActivePerCall'
  BY <1>4, <1>0, FewerActive DEF StartBackfill, SetEgressID, Active, Rows
<1>5. ASSUME NEW r \in Recordings, StopWrite(r) PROVE OneActivePerCall'
  BY <1>5, <1>0, FewerActive DEF StopWrite, Stop, Active, Rows
<1>6. ASSUME NEW r \in Recordings, HookBackfill(r) PROVE OneActivePerCall'
  BY <1>6, <1>0, FewerActive DEF HookBackfill, SetEgressID, Active, Rows
<1>7. ASSUME NEW r \in Recordings, HookFinalize(r) PROVE OneActivePerCall'
  BY <1>7, <1>0, FewerActive DEF HookFinalize, SetReady, MarkFailed, Terminal, CanSetReady, Active, Rows
<1>8. ASSUME NEW r \in Recordings, RetryDue(r) PROVE OneActivePerCall'
  BY <1>8, <1>0, FewerActive DEF RetryDue, Active, Rows
<1>9. ASSUME NEW w \in Workers, FinalizeReady(w) PROVE OneActivePerCall'
  BY <1>9, <1>0, FewerActive DEF FinalizeReady, SetReady, Active, Rows
<1>10. ASSUME NEW w \in Workers, HandleProcessingFailure(w) PROVE OneActivePerCall'
  BY <1>10, <1>0, FewerActive DEF HandleProcessingFailure, MarkFailed, NextRecording, Idle, Active, Rows
<1>11. ASSUME NEW r \in Recordings, NEW hold \in BOOLEAN, SetLegalHold(r, hold) PROVE OneActivePerCall'
  BY <1>11, <1>0, FewerActive DEF SetLegalHold, Active, Rows
<1>12. ASSUME NEW w \in Workers, NEW r \in Recordings, MarkProcessingAttempt(w, r)
     PROVE  OneActivePerCall'
  <2>1. CASE row' = row
    BY <2>1, <1>1
  <2>2. CASE row' # row
    BY <1>12, <2>2, <1>0 DEF MarkProcessingAttempt, CanMarkAttempt, IndexAllows, SameCall, OneActivePerCall,
                             Active, Rows
  <2> QED BY <2>1, <2>2
<1>13. CASE CleanRow
  BY <1>13, <1>0, FewerActive DEF CleanRow, Delete, Active, Rows
<1>14. ASSUME NEW r \in Recordings,
            StartCheck(r) \/ StartRoomCompositeFile(r) \/ StartRoomCompositeError(r)
              \/ StartAbort(r) \/ StopRead(r) \/ StopSend(r) \/
              StopActiveEgressForCall(r) \/ EgressEnds(r) \/ HookCorrelate(r) \/
              HookAck(r) \/ HookFails(r) \/ Expire(r) \/ CleanObjects(r)
     PROVE  UNCHANGED row
  BY <1>14 DEF StartCheck, StartRoomCompositeFile, StartRoomCompositeError, StartAbort,
     StopRead, StopSend, StopActiveEgressForCall, EgressEnds, HookCorrelate, HookAck,
     HookFails, Expire, CleanObjects
<1>15. ASSUME NEW w \in Workers,
            ListProcessable(w) \/ Process(w) \/ RemoveSpoolDir(w) \/
              DeleteUploadedArtifacts(w) \/ WorkerCrash(w)
     PROVE  UNCHANGED row
  BY <1>15 DEF ListProcessable, Process, RemoveSpoolDir, DeleteUploadedArtifacts,
     WorkerCrash
<1>16. ASSUME EndCall \/ ListExpired \/ CleanFails \/ UNCHANGED vars PROVE UNCHANGED row
  BY <1>16 DEF EndCall, ListExpired, CleanFails, vars
<1> QED
  BY <1>1, <1>2, <1>3, <1>4, <1>5, <1>6, <1>7, <1>8, <1>9, <1>10, <1>11, <1>12, <1>13,
     <1>14, <1>15, <1>16 DEF Next, StartStep, HookStep, WorkStep, CleanStep

\* Every step keeps the invariant.
LEMMA NextIInv == IInv /\ [Next]_vars => IInv'
BY StoreType, RequestsType, HooksType, WorkersType, CleanerType, NextOneActive DEF IInv, TypeOK

\* Every reachable state is well typed, and a process holds a recording exactly
\* while it works on one.
THEOREM TypeCorrect == Spec => []TypeOK
<1>1. Spec => []IInv
  BY InitIInv, NextIInv, PTL DEF Spec
<1> QED BY <1>1, PTL DEF IInv

\* A call has at most one recording in flight: GetActiveByCall is unambiguous.
THEOREM SingleActive == Spec => []OneActivePerCall
<1>1. Spec => []IInv
  BY InitIInv, NextIInv, PTL DEF Spec
<1> QED BY <1>1, PTL DEF IInv

-----------------------------------------------------------------------------
(* Whose file a recording gets, and that what was captured is kept.  The     *)
(* webhook of a job finds the recording that started it, by the job's id or, *)
(* before the id is stored, as the one recording of the call in flight; if   *)
(* not, the history says so.  A processor works on a captured recording      *)
(* alone, or the history says so, and takes the spool directory away only    *)
(* after the file is stored and the row says so; the trigger keeps another   *)
(* one, that listed the row before, from starting over.                      *)

\* What the history, the attempts and the answers given to users only gain.
Grows ==
    /\ expired \subseteq expired' /\ astray \subseteq astray' /\ contended \subseteq contended'
    /\ \A e \in Recordings : /\ row[e].attempts > 0 => row'[e].attempts > 0
                             /\ start[e] = "failed" => start'[e] = "failed"

Misled == {p[2] : p \in astray}

\* The exceptions of AckedEgressIsReady.
Excused(e) == start[e] = "failed" \/ row[e].attempts > 0 \/ ~Unmistaken(e)

\* The recording is what its job made of it, or retention has removed it.
Settled(e) ==
    \/ Ended(e) /\ row[e].status = (IF egress[e] = "complete" THEN "ready" ELSE "failed")
    \/ e \in expired /\ row[e].status = "deleted"

RequestOK(e) ==
    /\ row[e].egress \in {None, e} \/ <<row[e].egress, e>> \in astray
    /\ e \in Legacy => row[e].egress = None /\ row[e].status # "recording" /\ start[e] = "done" /\ stop[e].pc = "idle"
    /\ start[e] = "created" => Active(e) \/ Excused(e)
    /\ egress[e] # "none" => /\ e \notin Legacy /\ start[e] \notin {"idle", "checked", "created"}
                             /\ Active(e) \/ Settled(e) \/ Excused(e)
    /\ e \in acked => Ended(e) /\ (Settled(e) \/ Excused(e))
    /\ e \in expired => start[e] \in {"failed", "done"} /\ (egress[e] # "none" => e \in acked)

DeliveryOK(e) ==
    hook[e].pc # "idle" =>
        /\ Ended(e) /\ e \notin acked
        /\ hook[e].rec \notin Legacy /\ (hook[e].rec = e \/ <<e, hook[e].rec>> \in astray)
        /\ hook[e].pc = "done" \/ Terminal(hook[e].status) => Settled(e) \/ Excused(e)

FileOK(e) ==
    /\ egress[e] = "complete" => e \in objects \cup expired
    /\ row[e].status = "ready" => e \in objects \cup expired \cup contended \cup Misled

JobOK(e) == RequestOK(e) /\ DeliveryOK(e) /\ FileOK(e)

CleanerKnows == cleaner.todo \subseteq expired /\ cleaner.rec \in expired \cup {None}

Kept(r) == r \in spool \/ (row[r].status = "ready" /\ r \in objects)

\* What the processor that works on a captured recording has done so far.
WorkerKnows(w) ==
    LET r == worker[w].rec IN
    /\ worker[w].pc \in {"marked", "uploaded", "failed"} => r \in spool /\ row[r].status = "processing"
    /\ worker[w].pc = "uploaded" => r \in objects
    /\ worker[w].pc = "ready" => row[r].status = "ready" /\ r \in objects

Alone(r) == \A v, w \in Workers : worker[v].rec = r /\ worker[w].rec = r => v = w

CaptureOK(r) ==
    \/ r \in expired \cup contended
    \/ Kept(r) /\ Alone(r) /\ \A w \in Workers : worker[w].rec = r => WorkerKnows(w)

\* Only captured recordings are rendered, and a row a processor works on counts it.
WorkOK ==
    /\ spool \subseteq Legacy
    /\ \A w \in Workers : /\ worker[w].rec # None => row[worker[w].rec].attempts > 0
                          /\ worker[w].pc \in {"uploaded", "ready"} => worker[w].rec \in Legacy

RecInv ==
    /\ CleanerKnows /\ WorkOK
    /\ \A e \in Recordings : JobOK(e)
    /\ \A r \in Legacy : CaptureOK(r)

LEMMA RecInit == Init => RecInv
<1> SUFFICES ASSUME Init PROVE RecInv
  OBVIOUS
<1> USE RecordingAssumption DEF Init, NoRow, NoHook, Idle
<1>1. ASSUME NEW e \in Recordings PROVE JobOK(e)
  <2>1. row[e].egress = None /\ (row[e].status = "ready" => e \in objects) /\ row[e].status # "recording"
    OBVIOUS
  <2> QED BY <2>1 DEF JobOK, RequestOK, DeliveryOK, FileOK
<1>2. ASSUME NEW r \in Legacy PROVE CaptureOK(r)
  <2>1. r \in spool \/ (row[r].status = "ready" /\ r \in objects)
    OBVIOUS
  <2> QED BY <2>1 DEF CaptureOK, Kept, Alone
<1>3. WorkOK /\ CleanerKnows
  BY DEF WorkOK, CleanerKnows
<1> QED BY <1>1, <1>2, <1>3 DEF RecInv

\* Nothing takes an attempt, an answer or an entry of the history back.
LEMMA NextGrows == IInv /\ [Next]_vars => Grows
<1> SUFFICES ASSUME IInv, [Next]_vars PROVE Grows
  OBVIOUS
<1>0. /\ row \in [Recordings -> Rows]
      /\ start \in [Recordings -> {"idle", "checked", "created", "started", "refused", "failed", "done"}]
      /\ \A e \in Recordings : row[e].attempts \in Int
  BY RecordingAssumption DEF IInv, TypeOK, StoreOK, RequestsOK, Rows
<1>1. ASSUME NEW r \in Recordings, StartStep(r) \/ StartAbort(r) PROVE Grows
  <2>1. UNCHANGED <<expired, history>>
    BY <1>1 DEF StartStep, StartCheck, StartCreate, StartRoomCompositeFile, StartRoomCompositeError, StartFailed,
         StartBackfill, StartAbort
  <2>2. \A e \in Recordings : row'[e].attempts = row[e].attempts
    BY <1>0, <1>1 DEF StartStep, StartCheck, StartCreate, StartRoomCompositeFile, StartRoomCompositeError,
         StartFailed, StartBackfill, StartAbort, MarkFailed, SetEgressID, Rows
  <2>3. \A e \in Recordings : start[e] = "failed" => start'[e] = "failed"
    BY <1>0, <1>1 DEF StartStep, StartCheck, StartCreate, StartRoomCompositeFile, StartRoomCompositeError,
         StartFailed, StartBackfill, StartAbort
  <2> QED BY <1>0, <2>1, <2>2, <2>3 DEF Grows, history
<1>2. ASSUME NEW r \in Recordings,
             \/ StopRead(r) \/ StopSend(r) \/ StopWrite(r) \/ StopActiveEgressForCall(r) \/ EgressEnds(r)
             \/ RetryDue(r) \/ Expire(r) \/ CleanObjects(r) \/ (\E hold \in BOOLEAN : SetLegalHold(r, hold))
      PROVE  Grows
  <2>1. UNCHANGED <<start, history>> /\ expired \subseteq expired'
    BY <1>2 DEF StopRead, StopSend, StopWrite, StopActiveEgressForCall, EgressEnds, RetryDue, Expire, CleanObjects,
                SetLegalHold
  <2>2. \A e \in Recordings : row'[e].attempts = row[e].attempts
    BY <1>0, <1>2 DEF StopRead, StopSend, StopWrite, StopActiveEgressForCall, EgressEnds, RetryDue, Expire,
                CleanObjects, SetLegalHold, Stop, Rows
  <2> QED BY <1>0, <2>1, <2>2 DEF Grows, history
<1>3. ASSUME NEW e \in Recordings, HookStep(e) \/ HookFails(e) PROVE Grows
  <2>1. UNCHANGED <<start, expired, contended>> /\ astray \subseteq astray'
    BY <1>3 DEF HookStep, HookCorrelate, HookBackfill, HookFinalize, HookAck, HookFails, history
  <2>2. \A q \in Recordings : row'[q].attempts = row[q].attempts
    BY <1>0, <1>3 DEF HookStep, HookCorrelate, HookBackfill, HookFinalize, HookAck, HookFails, SetReady, MarkFailed,
                SetEgressID, Rows
  <2> QED BY <1>0, <2>1, <2>2 DEF Grows
<1>4. ASSUME NEW w \in Workers, WorkStep(w) \/ WorkerCrash(w) PROVE Grows
  <2>1. UNCHANGED <<start, expired, astray>> /\ contended \subseteq contended'
    BY <1>4 DEF WorkStep, ListProcessable, MarkProcessingAttempt, Process, FinalizeReady, RemoveSpoolDir,
         DeleteUploadedArtifacts, HandleProcessingFailure, WorkerCrash, history
  <2>2. CASE \E r \in Recordings : MarkProcessingAttempt(w, r)
    <3>1. \A q \in Recordings : row[q].attempts > 0 => row'[q].attempts > 0
      BY <1>0, <2>2 DEF MarkProcessingAttempt, Rows
    <3> QED BY <2>1, <3>1 DEF Grows
  <2>3. CASE ~ \E r \in Recordings : MarkProcessingAttempt(w, r)
    <3>1. \A q \in Recordings : row'[q].attempts = row[q].attempts
      BY <1>0, <1>4, <2>3 DEF WorkStep, ListProcessable, Process, FinalizeReady, RemoveSpoolDir,
         DeleteUploadedArtifacts, HandleProcessingFailure, WorkerCrash, SetReady, MarkFailed, Rows
    <3> QED BY <1>0, <2>1, <3>1 DEF Grows
  <2> QED BY <2>2, <2>3
<1>5. CASE EndCall \/ ListExpired \/ CleanRow \/ CleanFails \/ UNCHANGED vars
  <2>1. UNCHANGED <<start, expired, history>>
    BY <1>5 DEF EndCall, ListExpired, CleanRow, CleanFails, vars
  <2>2. \A q \in Recordings : row'[q].attempts = row[q].attempts
    BY <1>0, <1>5 DEF EndCall, ListExpired, CleanRow, CleanFails, vars, Delete, Rows
  <2> QED BY <1>0, <2>1, <2>2 DEF Grows, history
<1> QED BY <1>1, <1>2, <1>3, <1>4, <1>5 DEF Next, CleanStep

\* What is excused stays excused.
LEMMA ExcusedStays ==
    ASSUME IInv, Grows, NEW e \in Recordings, Excused(e)
    PROVE  Excused(e)'
<1>4. ~Unmistaken(e) => ~Unmistaken(e)'
  BY DEF Unmistaken, Grows
<1> QED BY <1>4 DEF Excused, Grows

\* What concerns other recordings does not concern this one.
LEMMA JobFrame ==
    ASSUME IInv, Grows, NEW e \in Recordings, JobOK(e), row'[e].status = row[e].status,
           row'[e].egress = row[e].egress, start'[e] = start[e], stop'[e] = stop[e], egress'[e] = egress[e],
           hook'[e] = hook[e], e \in acked' <=> e \in acked, e \in expired' <=> e \in expired,
           e \in objects => e \in objects' \cup expired
    PROVE  JobOK(e)'
<1>1. /\ Active(e)' <=> Active(e)
      /\ Settled(e)' <=> Settled(e)
      /\ Ended(e)' <=> Ended(e)
      /\ Excused(e) => Excused(e)'
      /\ Misled \subseteq Misled'
  BY ExcusedStays DEF Active, Settled, Ended, Misled, Grows
<1>2. RequestOK(e)'
  BY <1>1 DEF JobOK, RequestOK, Grows
<1>3. DeliveryOK(e)'
  BY <1>1 DEF JobOK, DeliveryOK, Grows
<1>4. FileOK(e)'
  BY <1>1 DEF JobOK, FileOK, Grows
<1> QED BY <1>2, <1>3, <1>4 DEF JobOK

\* Of an excused recording little has to be shown.
LEMMA ExcusedFrame ==
    ASSUME IInv, Grows, NEW e \in Recordings, JobOK(e), Excused(e)',
           row'[e].egress = row[e].egress \/ (e \notin Legacy /\ <<row'[e].egress, e>> \in astray'),
           e \in Legacy => row'[e].status # "recording", start'[e] = start[e], stop'[e] = stop[e],
           egress'[e] = egress[e], hook'[e] = hook[e], e \in acked' <=> e \in acked,
           e \in expired' <=> e \in expired, FileOK(e)'
    PROVE  JobOK(e)'
<1>1. Ended(e)' <=> Ended(e)
  BY DEF Ended
<1>2. RequestOK(e)'
  BY <1>1 DEF JobOK, RequestOK, Grows
<1>3. DeliveryOK(e)'
  BY <1>1 DEF JobOK, DeliveryOK, Grows
<1> QED BY <1>2, <1>3 DEF JobOK

\* Nothing that concerns a captured recording happens.
LEMMA CaptureFrame ==
    ASSUME Grows, NEW r \in Legacy, CaptureOK(r), row'[r].status = row[r].status, worker' = worker,
           r \in objects => r \in objects' \cup expired', r \in spool => r \in spool' \cup expired'
    PROVE  CaptureOK(r)'
<1> SUFFICES ASSUME r \notin expired' \cup contended' PROVE CaptureOK(r)'
  BY DEF CaptureOK
<1>1. Kept(r) /\ Alone(r) /\ \A w \in Workers : worker[w].rec = r => WorkerKnows(w)
  BY DEF CaptureOK, Grows
<1>2. Kept(r)' /\ Alone(r)'
  BY <1>1 DEF Kept, Alone
<1>3. ASSUME NEW w \in Workers, worker[w].rec = r PROVE WorkerKnows(w)'
  BY <1>1, <1>3 DEF WorkerKnows
<1> QED BY <1>2, <1>3 DEF CaptureOK

-----------------------------------------------------------------------------
\* The steps of a request that starts a recording,
LEMMA StartKeepsJobs ==
    ASSUME IInv, RecInv, Grows, NEW r \in Recordings, StartStep(r) \/ StartAbort(r)
    PROVE  \A e \in Recordings : JobOK(e)'
<1> USE RecordingAssumption
<1>0. /\ row \in [Recordings -> Rows] /\ start \in [Recordings -> {"idle", "checked", "created", "started", "refused", "failed", "done"}]
      /\ egress \in [Recordings -> {"none", "active", "ending", "complete", "failed"}]
  BY DEF IInv, TypeOK, StoreOK, RequestsOK
<1>1. JobOK(r) /\ RequestOK(r) /\ DeliveryOK(r) /\ FileOK(r) /\ r \notin Legacy
  <2>1. start[r] # "done"
    BY DEF StartStep, StartCheck, StartCreate, StartRoomCompositeFile, StartRoomCompositeError, StartFailed,
         StartBackfill, StartAbort
  <2> QED BY <2>1 DEF RecInv, JobOK, RequestOK
<1>2. UNCHANGED <<hook, acked, expired, objects, stop, history>> /\ (Excused(r) => Excused(r)')
  <2>1. UNCHANGED <<hook, acked, expired, objects, stop, history>>
    BY DEF StartStep, StartCheck, StartCreate, StartRoomCompositeFile, StartRoomCompositeError, StartFailed,
         StartBackfill, StartAbort
  <2> QED BY <2>1, ExcusedStays
<1>3. ASSUME NEW e \in Recordings \ {r} PROVE JobOK(e)'
  <2>1. row'[e] = row[e] /\ start'[e] = start[e] /\ egress'[e] = egress[e]
    BY <1>0 DEF StartStep, StartCheck, StartCreate, StartRoomCompositeFile, StartRoomCompositeError, StartFailed,
         StartBackfill, StartAbort, MarkFailed, SetEgressID
  <2> QED BY <1>2, <2>1, JobFrame DEF RecInv
<1>4. SUFFICES JobOK(r)'
  BY <1>3
<1>5. CASE StartCheck(r) \/ StartAbort(r)
  <2>1. /\ row' = row /\ egress' = egress /\ start[r] # "done" /\ start[r] # "failed" /\ start'[r] \in {"checked", "done"}
        /\ start'[r] = "checked" => start[r] = "idle"
    BY <1>0, <1>5 DEF StartCheck, StartAbort
  <2>2. RequestOK(r)'
    BY <1>1, <1>2, <2>1 DEF RequestOK, Settled, Active, Ended, history
  <2>3. DeliveryOK(r)'
    BY <1>1, <1>2, <2>1 DEF DeliveryOK, Settled, Ended, history
  <2> QED BY <1>1, <1>2, <2>1, <2>2, <2>3 DEF JobOK, FileOK, Misled, history
<1>6. CASE StartCreate(r)
  <2>1. /\ egress' = egress /\ start[r] = "checked" /\ start'[r] \in {"created", "done"}
        /\ start'[r] = "done" => row' = row
        /\ start'[r] = "created" => row'[r].status = "recording" /\ row'[r].egress = row[r].egress
    BY <1>0, <1>6 DEF StartCreate, Rows
  <2>2. egress[r] = "none" /\ r \notin acked /\ r \notin expired /\ hook[r].pc = "idle"
    BY <1>1, <2>1 DEF RequestOK, DeliveryOK, Ended
  <2>3. RequestOK(r)'
    BY <1>1, <1>2, <2>1, <2>2 DEF RequestOK, Active, history
  <2> QED BY <1>1, <1>2, <2>1, <2>2, <2>3 DEF JobOK, DeliveryOK, FileOK, Misled, history
<1>7. CASE StartRoomCompositeFile(r) \/ StartRoomCompositeError(r)
  <2>1. /\ row' = row /\ start[r] = "created" /\ start'[r] \in {"started", "refused"}
        /\ egress'[r] \in {egress[r], "active"}
    BY <1>0, <1>7 DEF StartRoomCompositeFile, StartRoomCompositeError
  <2>2. egress[r] = "none" /\ r \notin acked /\ r \notin expired /\ hook[r].pc = "idle" /\ (Active(r) \/ Excused(r))
    BY <1>1, <2>1 DEF RequestOK, DeliveryOK, Ended
  <2>3. RequestOK(r)'
    BY <1>1, <1>2, <2>1, <2>2 DEF RequestOK, Active, history
  <2> QED BY <1>1, <1>2, <2>1, <2>2, <2>3 DEF JobOK, DeliveryOK, FileOK, Misled, history
<1>8. CASE StartFailed(r)
  <2>1. /\ egress' = egress /\ start[r] = "refused" /\ start'[r] = "failed"
        /\ row'[r].egress = row[r].egress /\ row'[r].status \in {row[r].status, "failed"}
    BY <1>0, <1>8 DEF StartFailed, MarkFailed, Rows
  <2>2. Excused(r)' /\ r \notin expired
    BY <1>1, <2>1 DEF Excused, RequestOK
  <2>3. RequestOK(r)'
    BY <1>1, <1>2, <2>1, <2>2 DEF RequestOK, Ended, history
  <2>4. DeliveryOK(r)'
    BY <1>1, <1>2, <2>1, <2>2 DEF DeliveryOK, Ended, history
  <2> QED BY <1>1, <1>2, <2>1, <2>3, <2>4 DEF JobOK, FileOK, Misled, history
<1>9. CASE StartBackfill(r)
  <2>1. /\ egress' = egress /\ start[r] = "started" /\ start'[r] = "done"
        /\ row'[r].egress \in {row[r].egress, r} /\ row'[r].status = row[r].status
    BY <1>0, <1>9 DEF StartBackfill, SetEgressID, Rows
  <2>2. (Active(r)' <=> Active(r)) /\ (Ended(r)' <=> Ended(r)) /\ (Settled(r)' <=> Settled(r))
    BY <1>2, <2>1 DEF Active, Ended, Settled
  <2>3. RequestOK(r)'
    BY <1>1, <1>2, <2>1, <2>2 DEF RequestOK, history
  <2>4. DeliveryOK(r)'
    BY <1>1, <1>2, <2>1, <2>2 DEF DeliveryOK, history
  <2> QED BY <1>1, <1>2, <2>1, <2>3, <2>4 DEF JobOK, FileOK, Misled, history
<1> QED BY <1>5, <1>6, <1>7, <1>8, <1>9 DEF StartStep

\* what stops one, and what LiveKit does with the job,
LEMMA StopKeepsJobs ==
    ASSUME IInv, RecInv, Grows, NEW r \in Recordings,
           StopRead(r) \/ StopSend(r) \/ StopWrite(r) \/ StopActiveEgressForCall(r) \/ EgressEnds(r)
    PROVE  \A e \in Recordings : JobOK(e)'
<1>0. /\ row \in [Recordings -> Rows]
      /\ stop \in [Recordings -> [pc : {"idle", "read", "sent"}, egress : Recordings \cup {None}]]
      /\ egress \in [Recordings -> {"none", "active", "ending", "complete", "failed"}]
  BY DEF IInv, TypeOK, StoreOK, RequestsOK
<1>1. UNCHANGED <<hook, acked, expired, start, history>> /\ objects \subseteq objects'
  BY DEF StopRead, StopSend, StopWrite, StopActiveEgressForCall, EgressEnds
<1>2. ASSUME NEW e \in Recordings PROVE JobOK(e)'
  <2>0. RequestOK(e) /\ DeliveryOK(e) /\ FileOK(e) /\ JobOK(e) /\ (Excused(e) => Excused(e)')
    BY ExcusedStays DEF RecInv, JobOK
  <2>1. e \in Legacy => stop'[e] = stop[e] /\ row'[e] = row[e]
    BY <1>0, <2>0 DEF StopRead, StopSend, StopWrite, StopActiveEgressForCall, EgressEnds, Stop, RequestOK
  <2>2. CASE row'[e] = row[e] /\ egress'[e] = egress[e]
    <3>1. (Active(e)' <=> Active(e)) /\ (Settled(e)' <=> Settled(e)) /\ (Ended(e)' <=> Ended(e))
      BY <1>1, <2>2 DEF Active, Settled, Ended
    <3>2. RequestOK(e)'
      BY <1>1, <2>0, <2>1, <2>2, <3>1 DEF RequestOK, history
    <3>3. DeliveryOK(e)'
      BY <1>1, <2>0, <2>2, <3>1 DEF DeliveryOK, history
    <3> QED BY <1>1, <2>0, <2>2, <3>2, <3>3 DEF JobOK, FileOK, Misled, history
  <2>3. CASE row'[e] # row[e]
    <3>1. egress' = egress /\ Active(e) /\ Active(e)' /\ row'[e].egress = row[e].egress
      BY <1>0, <2>3 DEF StopRead, StopSend, StopWrite, StopActiveEgressForCall, EgressEnds, Stop, Active, Rows
    <3>2. ~Settled(e) /\ row'[e].status # "ready" /\ (Ended(e)' <=> Ended(e))
      BY <3>1 DEF Settled, Active, Ended
    <3>3. RequestOK(e)'
      BY <1>1, <2>0, <2>1, <2>3, <3>1, <3>2 DEF RequestOK, history
    <3>4. DeliveryOK(e)'
      BY <1>1, <2>0, <3>1, <3>2 DEF DeliveryOK, history
    <3> QED BY <1>1, <2>0, <3>1, <3>2, <3>3, <3>4 DEF JobOK, FileOK, history
  <2>4. CASE row'[e] = row[e] /\ egress'[e] # egress[e]
    <3>1. /\ egress[e] \in {"active", "ending"} /\ egress'[e] # "none"
          /\ egress'[e] = "complete" => e \in objects'
      BY <1>0, <2>4 DEF StopRead, StopSend, StopWrite, StopActiveEgressForCall, EgressEnds, StopEgress
    <3>2. ~Ended(e) /\ e \notin acked /\ e \notin expired /\ hook[e].pc = "idle" /\ e \notin Legacy
      BY <2>0, <3>1 DEF Ended, RequestOK, DeliveryOK
    <3>3. (Active(e) \/ Excused(e)) /\ (Active(e) => Active(e)')
      BY <2>0, <2>4, <3>1, <3>2 DEF RequestOK, Settled, Active
    <3>4. RequestOK(e)'
      BY <1>1, <2>0, <2>4, <3>1, <3>2, <3>3 DEF RequestOK, history
    <3> QED BY <1>1, <2>0, <2>4, <3>1, <3>2, <3>4 DEF JobOK, DeliveryOK, FileOK, Misled, history
  <2> QED BY <2>2, <2>3, <2>4
<1> QED BY <1>2

\* its webhook, which may concern two recordings,
LEMMA HookKeepsJobs ==
    ASSUME IInv, RecInv, Grows, NEW e \in Recordings, HookStep(e) \/ HookFails(e)
    PROVE  \A q \in Recordings : JobOK(q)'
<1> USE RecordingAssumption
<1>0. /\ row \in [Recordings -> Rows]
      /\ hook \in [Recordings -> [pc : {"idle", "fill", "found", "done"}, rec : Recordings \cup {None},
                                  status : {"none", "recording", "processing", "ready", "failed"}]]
      /\ hook[e].rec = None <=> hook[e].pc = "idle"
  BY DEF IInv, TypeOK, StoreOK, HooksOK
<1>1. JobOK(e) /\ RequestOK(e) /\ DeliveryOK(e) /\ FileOK(e) /\ (Excused(e) => Excused(e)')
  BY ExcusedStays DEF RecInv, JobOK
<1>2. UNCHANGED <<egress, expired, start, stop, objects, contended>>
  BY DEF HookStep, HookCorrelate, HookBackfill, HookFinalize, HookAck, HookFails, history
<1>3. CASE HookCorrelate(e)
  <2>1. UNCHANGED <<row, acked>> /\ Ended(e) /\ e \notin acked
    BY <1>3 DEF HookCorrelate
  <2>2. PICK missed \in BOOLEAN : \E r \in Correlated(e, missed) :
          /\ hook' = [hook EXCEPT ![e] = [pc |-> IF row[r].egress = None THEN "fill" ELSE "found",
                                          rec |-> r, status |-> row[r].status]]
          /\ astray' = IF missed /\ r # e THEN astray \cup {<<e, r>>} ELSE astray
    BY <1>3 DEF HookCorrelate
  <2>3. PICK r \in Correlated(e, missed) :
          /\ hook' = [hook EXCEPT ![e] = [pc |-> IF row[r].egress = None THEN "fill" ELSE "found",
                                          rec |-> r, status |-> row[r].status]]
          /\ astray' = IF missed /\ r # e THEN astray \cup {<<e, r>>} ELSE astray
    BY <2>2
  <2>4. /\ hook'[e].rec = r /\ hook'[e].status = row[r].status /\ hook'[e].pc # "done"
        /\ \A q \in Recordings \ {e} : hook'[q] = hook[q]
    BY <1>0, <2>3
  <2>5. r \in Recordings /\ r \notin Legacy /\ (r = e \/ <<e, r>> \in astray')
    <3>1. CASE missed
      BY <2>3, <3>1 DEF Correlated, ActiveByCall
    <3>2. CASE ~missed
      <4>1. r \in Recordings /\ row[r].egress = e
        BY <2>3, <3>2 DEF Correlated, ByEgressID
      <4>2. RequestOK(r) /\ e # None
        BY <4>1 DEF RecInv, JobOK
      <4> QED BY <2>3, <3>2, <4>1, <4>2 DEF RequestOK
    <3> QED BY <3>1, <3>2
  <2>6. ASSUME NEW q \in Recordings \ {e} PROVE JobOK(q)'
    BY <1>2, <2>1, <2>4, <2>6, JobFrame DEF RecInv
  <2>7. (Active(e)' <=> Active(e)) /\ (Settled(e)' <=> Settled(e)) /\ (Ended(e)' <=> Ended(e)) /\ astray \subseteq astray'
    BY <1>2, <2>1 DEF Active, Settled, Ended, Grows
  <2>8. RequestOK(e)'
    BY <1>1, <1>2, <2>1, <2>7 DEF RequestOK
  <2>9. Terminal(row[r].status) => Settled(e)' \/ Excused(e)'
    <3>1. CASE r = e
      BY <1>1, <2>1, <2>7, <3>1 DEF RequestOK, Terminal, Active, Ended
    <3>2. CASE r # e
      BY <2>5, <3>2 DEF Excused, Unmistaken
    <3> QED BY <3>1, <3>2
  <2>10. DeliveryOK(e)'
    BY <2>1, <2>4, <2>5, <2>7, <2>9 DEF DeliveryOK
  <2>11. FileOK(e)'
    BY <1>1, <1>2, <2>1, <2>7 DEF FileOK, Misled
  <2> QED BY <2>6, <2>8, <2>10, <2>11 DEF JobOK
<1>4. CASE HookBackfill(e) \/ HookFinalize(e)
  <2>1. /\ hook[e].pc \in {"fill", "found"} /\ UNCHANGED <<acked, astray>>
        /\ hook'[e].rec = hook[e].rec /\ hook'[e].status = hook[e].status /\ hook'[e].pc \in {"found", "done"}
        /\ \A q \in Recordings \ {e} : hook'[q] = hook[q]
    BY <1>0, <1>4 DEF HookBackfill, HookFinalize, history
  <2>2. /\ hook[e].rec \in Recordings /\ hook[e].rec \notin Legacy /\ Ended(e) /\ e \notin acked /\ e \notin expired
        /\ hook[e].rec = e \/ <<e, hook[e].rec>> \in astray
    BY <1>0, <1>1, <2>1 DEF DeliveryOK, RequestOK, Ended
  <2>3. /\ \A q \in Recordings : q # hook[e].rec => row'[q] = row[q]
        /\ row'[hook[e].rec].egress \in {row[hook[e].rec].egress, e}
        /\ HookBackfill(e) => row'[hook[e].rec].status = row[hook[e].rec].status
    BY <1>0, <1>4, <2>2 DEF HookBackfill, HookFinalize, SetEgressID, SetReady, MarkFailed, Rows
  <2>4. ASSUME NEW q \in Recordings \ {e} PROVE JobOK(q)'
    <3>1. CASE q # hook[e].rec
      BY <1>2, <2>1, <2>3, <2>4, <3>1, JobFrame DEF RecInv
    <3>2. CASE q = hook[e].rec
      <4>1. <<e, q>> \in astray /\ JobOK(q) /\ q \notin Legacy
        BY <2>2, <3>2 DEF RecInv
      <4>2. Excused(q)' /\ q \in Misled'
        BY <2>1, <4>1 DEF Excused, Unmistaken, Misled
      <4>3. FileOK(q)'
        BY <1>2, <4>1, <4>2 DEF FileOK, JobOK
      <4> QED BY <1>2, <2>1, <2>3, <2>4, <3>2, <4>1, <4>2, <4>3, ExcusedFrame
    <3> QED BY <3>1, <3>2
  <2>5. CASE hook[e].rec # e
    <3>1. Excused(e)' /\ row'[e] = row[e]
      BY <1>1, <2>1, <2>2, <2>3, <2>5 DEF Excused, Unmistaken
    <3>2. RequestOK(e)' /\ DeliveryOK(e)'
      BY <1>1, <1>2, <2>1, <2>2, <3>1 DEF RequestOK, DeliveryOK, Ended
    <3>3. FileOK(e)'
      BY <1>1, <1>2, <2>1, <3>1 DEF FileOK, Misled
    <3> QED BY <2>4, <3>2, <3>3 DEF JobOK
  <2>6. CASE hook[e].rec = e /\ HookBackfill(e)
    <3>1. row'[e].status = row[e].status /\ row'[e].egress \in {row[e].egress, e} /\ hook'[e].pc = "found"
      BY <1>0, <2>3, <2>6 DEF HookBackfill
    <3>2. (Active(e)' <=> Active(e)) /\ (Ended(e)' <=> Ended(e)) /\ (Settled(e)' <=> Settled(e))
      BY <1>2, <3>1 DEF Active, Ended, Settled
    <3>3. RequestOK(e)'
      BY <1>1, <1>2, <2>1, <2>2, <2>6, <3>1, <3>2 DEF RequestOK
    <3>4. DeliveryOK(e)'
      BY <1>1, <1>2, <2>1, <2>2, <3>1, <3>2 DEF DeliveryOK
    <3> QED BY <1>1, <1>2, <2>1, <2>4, <3>1, <3>3, <3>4 DEF JobOK, FileOK, Misled
  <2>7. CASE hook[e].rec = e /\ HookFinalize(e)
    <3>1. Settled(e)' \/ Excused(e)'
      <4>1. CASE Terminal(hook[e].status)
        <5>1. row' = row
          BY <2>7, <4>1 DEF HookFinalize
        <5> QED BY <1>1, <1>2, <2>1, <4>1, <5>1 DEF DeliveryOK, Settled, Ended
      <4>2. CASE ~Terminal(hook[e].status)
        <5>1. \/ egress[e] = "complete" /\ row' = [row EXCEPT ![e].status = "ready", ![e].retry = "null"]
              \/ egress[e] = "failed" /\ row' = [row EXCEPT ![e].status = "failed", ![e].retry = "null"]
          BY <2>7, <4>2 DEF HookFinalize, SetReady, MarkFailed
        <5>2. \/ egress[e] = "complete" /\ row'[e].status = "ready"
              \/ egress[e] = "failed" /\ row'[e].status = "failed"
          BY <1>0, <2>2, <5>1 DEF Rows
        <5> QED BY <1>2, <5>2 DEF Settled, Ended
      <4> QED BY <4>1, <4>2
    <3>2. row'[e].egress = row[e].egress
      BY <1>0, <2>7 DEF HookFinalize, SetReady, MarkFailed, Rows
    <3>3. Ended(e)' /\ egress[e] # "none"
      BY <1>2, <2>2 DEF Ended
    <3>4. RequestOK(e)'
      BY <1>1, <1>2, <2>1, <2>2, <3>1, <3>2, <3>3 DEF RequestOK
    <3>5. DeliveryOK(e)'
      BY <1>2, <2>1, <2>2, <3>1, <3>3, <2>7 DEF DeliveryOK
    <3>6. row'[e].status = "ready" => row[e].status = "ready" \/ egress[e] = "complete"
      BY <1>0, <2>7 DEF HookFinalize, SetReady, MarkFailed, Rows
    <3>7. FileOK(e)'
      BY <1>1, <1>2, <2>1, <3>6 DEF FileOK, Misled
    <3> QED BY <2>4, <3>4, <3>5, <3>7 DEF JobOK
  <2> QED BY <1>4, <2>5, <2>6, <2>7
<1>5. CASE HookAck(e) \/ HookFails(e)
  <2>1. /\ UNCHANGED <<row, astray>> /\ hook'[e].pc = "idle" /\ (e \in acked' => e \in acked \/ hook[e].pc = "done")
        /\ \A q \in Recordings \ {e} : hook'[q] = hook[q] /\ (q \in acked' <=> q \in acked)
        /\ acked \subseteq acked'
    BY <1>0, <1>5 DEF HookAck, HookFails, NoHook, history
  <2>2. e \in acked' => Ended(e) /\ (Settled(e) \/ Excused(e))
    BY <1>1, <2>1 DEF DeliveryOK, RequestOK
  <2>3. (Active(e)' <=> Active(e)) /\ (Ended(e)' <=> Ended(e)) /\ (Settled(e)' <=> Settled(e))
    BY <1>2, <2>1 DEF Active, Ended, Settled
  <2>4. RequestOK(e)'
    BY <1>1, <1>2, <2>1, <2>2, <2>3 DEF RequestOK
  <2>5. ASSUME NEW q \in Recordings \ {e} PROVE JobOK(q)'
    BY <1>2, <2>1, <2>5, JobFrame DEF RecInv
  <2> QED BY <1>1, <1>2, <2>1, <2>4, <2>5 DEF JobOK, DeliveryOK, FileOK, Misled
<1> QED BY <1>3, <1>4, <1>5 DEF HookStep

\* and retention.
LEMMA RetentionKeepsJobs ==
    ASSUME IInv, RecInv, Grows, NEW r \in Recordings,
           \/ Expire(r) \/ RetryDue(r) \/ CleanObjects(r)
           \/ \E hold \in BOOLEAN : SetLegalHold(r, hold)
    PROVE  \A e \in Recordings : JobOK(e)'
<1>0. row \in [Recordings -> Rows]
  BY DEF IInv, TypeOK, StoreOK
<1>1. UNCHANGED <<hook, acked, egress, start, stop, history>> /\ expired \subseteq expired'
  BY DEF Expire, RetryDue, CleanObjects, SetLegalHold
<1>2. ASSUME NEW e \in Recordings PROVE JobOK(e)'
  <2>0. RequestOK(e) /\ DeliveryOK(e) /\ FileOK(e) /\ (Excused(e) => Excused(e)')
    BY ExcusedStays DEF RecInv, JobOK
  <2>1. row'[e].egress = row[e].egress /\ row'[e].status = row[e].status
    BY <1>0 DEF Expire, RetryDue, CleanObjects, SetLegalHold, Rows
  <2>2. e \in expired' => start[e] \in {"failed", "done"} /\ (egress[e] # "none" => e \in acked)
    BY <2>0 DEF Expire, RetryDue, CleanObjects, SetLegalHold, RequestOK
  <2>3. (Active(e)' <=> Active(e)) /\ (Ended(e)' <=> Ended(e)) /\ (Settled(e) => Settled(e)')
    BY <1>1, <2>1 DEF Active, Ended, Settled
  <2>4. RequestOK(e)'
    BY <1>1, <2>0, <2>1, <2>2, <2>3 DEF RequestOK, history
  <2>5. DeliveryOK(e)'
    BY <1>1, <2>0, <2>3 DEF DeliveryOK, history
  <2>6. e \in objects => e \in objects' \cup expired
    BY DEF Expire, RetryDue, CleanObjects, SetLegalHold, CleanerKnows, RecInv
  <2> QED BY <1>1, <2>0, <2>1, <2>4, <2>5, <2>6 DEF JobOK, FileOK, Misled, history
<1> QED BY <1>2

\* The row goes after its objects, and after the end of its job was handled.
LEMMA CleanRowKeepsJobs ==
    ASSUME IInv, RecInv, Grows, CleanRow
    PROVE  \A e \in Recordings : JobOK(e)'
<1> USE RecordingAssumption
<1>0. /\ row \in [Recordings -> Rows] /\ cleaner.pc = "emptied" /\ cleaner.rec \in expired
  BY DEF IInv, TypeOK, StoreOK, CleanerOK, CleanRow, CleanerKnows, RecInv
<1>1. /\ UNCHANGED <<hook, acked, egress, start, stop, expired, objects, history>>
      /\ row' = [row EXCEPT ![cleaner.rec].status = "deleted"]
  BY DEF CleanRow, Delete
<1>2. ASSUME NEW e \in Recordings PROVE JobOK(e)'
  <2>0. RequestOK(e) /\ DeliveryOK(e) /\ FileOK(e) /\ JobOK(e)
    BY DEF RecInv, JobOK
  <2>1. CASE row'[e] = row[e]
    BY <1>1, <2>0, <2>1, JobFrame
  <2>2. CASE row'[e] # row[e]
    <3>1. e \in expired /\ row'[e].status = "deleted" /\ row'[e].egress = row[e].egress
      BY <1>0, <1>1, <2>2 DEF Rows
    <3>2. Settled(e)' /\ (Ended(e)' <=> Ended(e)) /\ start[e] \in {"failed", "done"} /\ hook[e].pc = "idle"
      BY <1>1, <2>0, <3>1 DEF Settled, Ended, RequestOK, DeliveryOK
    <3>3. RequestOK(e)'
      BY <1>1, <2>0, <3>1, <3>2 DEF RequestOK, history
    <3> QED BY <1>1, <2>0, <3>1, <3>2, <3>3 DEF JobOK, DeliveryOK, FileOK
  <2> QED BY <2>1, <2>2
<1> QED BY <1>2

\* A processor's steps: it counts the attempt, so that the recording is its own.
LEMMA WorkKeepsJobs ==
    ASSUME IInv, RecInv, Grows, NEW w \in Workers, WorkStep(w) \/ WorkerCrash(w)
    PROVE  \A e \in Recordings : JobOK(e)'
<1> USE RecordingAssumption
<1>0. /\ row \in [Recordings -> Rows]
      /\ worker[w].rec \in Recordings \cup {None} /\ (worker[w].rec = None <=> worker[w].pc = "idle")
  BY DEF IInv, TypeOK, StoreOK, WorkersOK
<1>1. UNCHANGED <<call, expired, start, stop, egress, hook, acked, astray>>
  BY DEF WorkStep, ListProcessable, MarkProcessingAttempt, Process, FinalizeReady, RemoveSpoolDir,
         DeleteUploadedArtifacts, HandleProcessingFailure, WorkerCrash, history
<1>2. WorkOK /\ \A e \in Recordings : JobOK(e) /\ RequestOK(e) /\ FileOK(e)
  BY DEF RecInv, JobOK
<1>3. CASE ListProcessable(w) \/ RemoveSpoolDir(w) \/ WorkerCrash(w)
  <2>1. UNCHANGED <<row, objects>>
    BY <1>3 DEF ListProcessable, RemoveSpoolDir, WorkerCrash
  <2> QED BY <1>1, <1>2, <2>1, JobFrame
<1>4. ASSUME NEW r \in Recordings, MarkProcessingAttempt(w, r) PROVE \A e \in Recordings : JobOK(e)'
  <2>1. objects' = objects
    BY <1>4 DEF MarkProcessingAttempt
  <2>2. CASE row' = row
    BY <1>1, <1>2, <2>1, <2>2, JobFrame
  <2>3. CASE row' # row
    <3>1. /\ row'[r].attempts = row[r].attempts + 1 /\ row'[r].egress = row[r].egress /\ row'[r].status = "processing"
          /\ \A e \in Recordings \ {r} : row'[e] = row[e]
      BY <1>0, <1>4, <2>3 DEF MarkProcessingAttempt, Rows
    <3>2. row'[r].attempts > 0
      BY <1>0, <3>1 DEF Rows
    <3>3. FileOK(r)' /\ Excused(r)'
      BY <1>1, <1>2, <2>1, <3>1, <3>2 DEF FileOK, Excused
    <3>4. JobOK(r)'
      BY <1>1, <1>2, <3>1, <3>3, ExcusedFrame
    <3> QED BY <1>1, <1>2, <2>1, <3>1, <3>4, JobFrame
  <2> QED BY <2>2, <2>3
<1>5. CASE Process(w) \/ DeleteUploadedArtifacts(w)
  <2>1. /\ row' = row /\ contended' = contended /\ worker[w].pc \in {"marked", "uploaded"}
        /\ \A e : e # worker[w].rec => (e \in objects => e \in objects')
    BY <1>5 DEF Process, DeleteUploadedArtifacts, history
  <2>2. worker[w].rec \in Recordings
    BY <1>0, <2>1
  <2>3. ASSUME NEW e \in Recordings PROVE JobOK(e)'
    <3>1. CASE e \in objects => e \in objects'
      BY <1>1, <1>2, <2>1, <3>1, JobFrame
    <3>2. CASE ~(e \in objects => e \in objects')
      <4>1. e = worker[w].rec /\ e \in Legacy
        BY <1>2, <1>5, <2>1, <3>2 DEF WorkOK, Process, DeleteUploadedArtifacts
      <4>2. row[e].status # "ready" \/ e \in expired \cup contended
        BY <2>1, <4>1 DEF RecInv, CaptureOK, WorkerKnows
      <4>3. egress[e] = "none" /\ Excused(e)' /\ row[e].status # "recording"
        BY <1>2, <2>1, <4>1 DEF RequestOK, WorkOK, Excused, RecInv
      <4>4. FileOK(e)'
        BY <1>1, <2>1, <4>2, <4>3 DEF FileOK
      <4> QED BY <1>1, <1>2, <2>1, <4>3, <4>4, ExcusedFrame
    <3> QED BY <3>1, <3>2
  <2> QED BY <2>3
<1>6. CASE FinalizeReady(w) \/ HandleProcessingFailure(w)
  <2>1. /\ UNCHANGED <<objects, contended>> /\ worker[w].pc \in {"uploaded", "failed"}
        /\ FinalizeReady(w) => worker[w].pc = "uploaded"
    BY <1>6 DEF FinalizeReady, HandleProcessingFailure, history
  <2>2. PICK r \in Recordings : worker[w].rec = r
    BY <1>0, <2>1
  <2>3. /\ \A e \in Recordings \ {r} : row'[e] = row[e]
        /\ row'[r].egress = row[r].egress /\ row'[r].attempts = row[r].attempts
        /\ row'[r].status \in {row[r].status, "failed", "ready"}
        /\ row'[r].status = "ready" => row[r].status = "ready" \/ FinalizeReady(w)
    BY <1>0, <1>6, <2>2 DEF FinalizeReady, HandleProcessingFailure, SetReady, MarkFailed, Rows
  <2>4. row[r].attempts > 0 /\ (r \in Legacy => row[r].status # "recording")
    <3>1. row[r].attempts > 0
      BY <1>0, <1>2, <2>2 DEF WorkOK
    <3> QED BY <1>2, <3>1 DEF RequestOK
  <2>5. Excused(r)' /\ (r \in Legacy => row'[r].status # "recording")
    BY <2>3, <2>4 DEF Excused
  <2>6. FinalizeReady(w) => r \in objects \cup expired \cup contended
    BY <1>2, <2>1, <2>2 DEF WorkOK, RecInv, CaptureOK, WorkerKnows
  <2>7. FileOK(r)
    BY <1>2
  <2>8. FileOK(r)'
    BY <1>1, <2>1, <2>3, <2>6, <2>7 DEF FileOK, Misled
  <2>9. JobOK(r)'
    BY <1>1, <1>2, <2>3, <2>5, <2>8, ExcusedFrame
  <2>10. ASSUME NEW e \in Recordings \ {r} PROVE JobOK(e)'
    BY <1>1, <1>2, <2>1, <2>3, JobFrame
  <2> QED BY <2>9, <2>10
<1> QED BY <1>3, <1>4, <1>5, <1>6 DEF WorkStep

\* The processors keep what they know,
LEMMA WorkNext == IInv /\ RecInv /\ Grows /\ [Next]_vars => WorkOK'
<1> SUFFICES ASSUME IInv, RecInv, Grows, [Next]_vars PROVE WorkOK'
  OBVIOUS
<1> USE RecordingAssumption
<1>0. /\ row \in [Recordings -> Rows] /\ WorkOK
      /\ worker \in [Workers -> [pc : {"idle", "marked", "uploaded", "ready", "failed"},
                                 todo : SUBSET Recordings, rec : Recordings \cup {None}, attempts : 0..AttemptBound]]
      /\ \A w \in Workers : worker[w].rec = None <=> worker[w].pc = "idle"
  BY DEF IInv, TypeOK, StoreOK, WorkersOK, RecInv
<1>1. CASE worker' = worker /\ spool' \subseteq spool
  BY <1>0, <1>1 DEF WorkOK, Grows
<1>2. ASSUME NEW w \in Workers, WorkStep(w) \/ WorkerCrash(w) PROVE WorkOK'
  <2>1. spool' \subseteq spool /\ \A v \in Workers \ {w} : worker'[v] = worker[v]
    BY <1>0, <1>2 DEF WorkStep, ListProcessable, MarkProcessingAttempt, Process, FinalizeReady, RemoveSpoolDir,
         DeleteUploadedArtifacts, HandleProcessingFailure, WorkerCrash, NextRecording
  <2>2. SUFFICES /\ worker'[w].rec # None => row'[worker'[w].rec].attempts > 0
                 /\ worker'[w].pc \in {"uploaded", "ready"} => worker'[w].rec \in Legacy
    BY <1>0, <2>1 DEF WorkOK, Grows
  <2>3. CASE ListProcessable(w) \/ RemoveSpoolDir(w) \/ HandleProcessingFailure(w) \/ WorkerCrash(w)
    <3>1. worker'[w].rec = None /\ worker'[w].pc = "idle"
      BY <1>0, <2>3 DEF ListProcessable, RemoveSpoolDir, HandleProcessingFailure, WorkerCrash, NextRecording, Idle
    <3> QED BY <3>1
  <2>4. ASSUME NEW r \in Recordings, MarkProcessingAttempt(w, r)
        PROVE  /\ worker'[w].rec # None => row'[worker'[w].rec].attempts > 0
               /\ worker'[w].pc \in {"uploaded", "ready"} => worker'[w].rec \in Legacy
    <3>1. CASE CanMarkAttempt(r) /\ row[r].attempts < AttemptBound /\ worker'[w].rec = r
      <4>1. worker'[w].rec = r /\ worker'[w].pc \notin {"uploaded", "ready"}
        BY <1>0, <2>4, <3>1 DEF MarkProcessingAttempt
      <4>2. row'[r].attempts > 0
        BY <1>0, <2>4, <3>1 DEF MarkProcessingAttempt, Rows
      <4> QED BY <4>1, <4>2
    <3>2. CASE ~(CanMarkAttempt(r) /\ row[r].attempts < AttemptBound /\ worker'[w].rec = r)
      <4>1. worker'[w].rec = None /\ worker'[w].pc = "idle"
        BY <1>0, <2>4, <3>2 DEF MarkProcessingAttempt
      <4> QED BY <4>1
    <3> QED BY <3>1, <3>2
  <2>5. CASE Process(w) \/ FinalizeReady(w) \/ DeleteUploadedArtifacts(w)
    <3>1. /\ worker'[w].rec = worker[w].rec /\ worker[w].rec \in Recordings
          /\ worker'[w].pc = "uploaded" => worker[w].rec \in spool
          /\ worker'[w].pc = "ready" => worker[w].pc = "uploaded"
      BY <1>0, <2>5 DEF Process, FinalizeReady, DeleteUploadedArtifacts
    <3> QED BY <1>0, <3>1 DEF WorkOK, Grows
  <2> QED BY <1>2, <2>3, <2>4, <2>5 DEF WorkStep
<1>3. ASSUME NEW r \in Recordings,
             \/ StartStep(r) \/ StartAbort(r) \/ StopRead(r) \/ StopSend(r) \/ StopWrite(r)
             \/ StopActiveEgressForCall(r) \/ EgressEnds(r) \/ HookStep(r) \/ HookFails(r)
             \/ RetryDue(r) \/ Expire(r) \/ CleanObjects(r) \/ (\E hold \in BOOLEAN : SetLegalHold(r, hold))
      PROVE  UNCHANGED <<worker, spool>>
  BY <1>3 DEF StartStep, StartCheck, StartCreate, StartRoomCompositeFile, StartRoomCompositeError, StartFailed,
     StartBackfill, StartAbort, StopRead, StopSend, StopWrite, StopActiveEgressForCall, EgressEnds, HookStep,
     HookCorrelate, HookBackfill, HookFinalize, HookAck, HookFails, RetryDue, Expire, CleanObjects, SetLegalHold
<1>4. CASE EndCall \/ ListExpired \/ CleanRow \/ CleanFails \/ UNCHANGED vars
  <2>1. worker' = worker /\ spool' \subseteq spool
    BY <1>4 DEF EndCall, ListExpired, CleanRow, CleanFails, vars
  <2> QED BY <1>1, <2>1
<1> QED BY <1>1, <1>2, <1>3, <1>4 DEF Next, CleanStep

\* so does the cleaner,
LEMMA CleanerNext == IInv /\ RecInv /\ [Next]_vars => CleanerKnows'
<1> SUFFICES ASSUME IInv, RecInv, CleanerKnows, [Next]_vars PROVE CleanerKnows'
  BY DEF RecInv
<1>1. CASE cleaner' = cleaner /\ expired \subseteq expired'
  BY <1>1 DEF CleanerKnows
<1>2. ASSUME NEW r \in Recordings,
             \/ StartStep(r) \/ StartAbort(r) \/ StopRead(r) \/ StopSend(r) \/ StopWrite(r)
             \/ StopActiveEgressForCall(r) \/ EgressEnds(r) \/ HookStep(r) \/ HookFails(r)
             \/ RetryDue(r) \/ Expire(r) \/ (\E hold \in BOOLEAN : SetLegalHold(r, hold))
      PROVE  cleaner' = cleaner /\ expired \subseteq expired'
  <2>1. CASE StartStep(r) \/ StartAbort(r) \/ StopRead(r) \/ StopSend(r) \/ StopWrite(r)
    BY <2>1 DEF StartStep, StartCheck, StartCreate, StartRoomCompositeFile, StartRoomCompositeError, StartFailed,
     StartBackfill, StartAbort, StopRead, StopSend, StopWrite
  <2>2. CASE StopActiveEgressForCall(r) \/ EgressEnds(r) \/ HookStep(r) \/ HookFails(r)
    BY <2>2 DEF StopActiveEgressForCall, EgressEnds, HookStep, HookCorrelate, HookBackfill, HookFinalize, HookAck, HookFails
  <2>3. CASE RetryDue(r) \/ Expire(r) \/ (\E hold \in BOOLEAN : SetLegalHold(r, hold))
    BY <2>3 DEF RetryDue, Expire, SetLegalHold
  <2> QED BY <1>2, <2>1, <2>2, <2>3
<1>3. ASSUME NEW w \in Workers, WorkStep(w) \/ WorkerCrash(w) PROVE cleaner' = cleaner /\ expired \subseteq expired'
  BY <1>3 DEF WorkStep, ListProcessable, MarkProcessingAttempt, Process, FinalizeReady, RemoveSpoolDir,
         DeleteUploadedArtifacts, HandleProcessingFailure, WorkerCrash
<1>4. CASE EndCall \/ UNCHANGED vars
  <2>1. cleaner' = cleaner /\ expired \subseteq expired'
    BY <1>4 DEF EndCall, vars
  <2> QED BY <1>1, <2>1
<1>5. CASE CleanStep \/ CleanFails
  <2>0. expired' = expired
    BY <1>5 DEF CleanStep, ListExpired, CleanObjects, CleanRow, CleanFails
  <2>1. CASE ListExpired
    <3>1. cleaner = [Idle EXCEPT !.todo = {}] /\ cleaner' = [cleaner EXCEPT !.todo = {r \in Recordings : Expirable(r)}]
      BY <2>1 DEF ListExpired, Idle
    <3>2. {r \in Recordings : Expirable(r)} \subseteq expired
      BY DEF Expirable
    <3>3. cleaner'.todo = {r \in Recordings : Expirable(r)} /\ cleaner'.rec = None
      BY <3>1 DEF Idle
    <3> QED BY <2>0, <3>2, <3>3 DEF CleanerKnows
  <2>2. ASSUME NEW r \in Recordings, CleanObjects(r) PROVE CleanerKnows'
    <3>1. cleaner' = [cleaner EXCEPT !.pc = "emptied", !.todo = cleaner.todo \ {r}, !.rec = r] /\ r \in cleaner.todo
      BY <2>2 DEF CleanObjects
    <3>2. cleaner'.todo = cleaner.todo \ {r} /\ cleaner'.rec = r
      BY <3>1 DEF IInv, TypeOK, CleanerOK
    <3> QED BY <2>0, <3>1, <3>2 DEF CleanerKnows
  <2>3. CASE CleanRow
    BY <2>0, <2>3 DEF CleanRow, Idle, CleanerKnows
  <2>4. CASE CleanFails
    BY <2>0, <2>4 DEF CleanFails, Idle, CleanerKnows
  <2> QED BY <1>5, <2>1, <2>2, <2>3, <2>4 DEF CleanStep
<1> QED BY <1>1, <1>2, <1>3, <1>4, <1>5 DEF Next

\* and the processors keep what was captured.
LEMMA WorkKeepsCaptures ==
    ASSUME IInv, RecInv, Grows, NEW w \in Workers, WorkStep(w) \/ WorkerCrash(w), NEW r \in Legacy
    PROVE  CaptureOK(r)'
<1> USE RecordingAssumption
<1>0. /\ row \in [Recordings -> Rows] /\ r \in Recordings
      /\ worker \in [Workers -> [pc : {"idle", "marked", "uploaded", "ready", "failed"},
                                 todo : SUBSET Recordings, rec : Recordings \cup {None}, attempts : 0..AttemptBound]]
      /\ worker[w].rec = None <=> worker[w].pc = "idle"
  BY DEF IInv, TypeOK, StoreOK, WorkersOK
<1>1. CaptureOK(r) /\ WorkOK
  BY DEF RecInv
<1> SUFFICES ASSUME r \notin expired \cup contended, r \notin contended' PROVE Kept(r)' /\ Alone(r)' /\ \A v \in Workers : worker'[v].rec = r => WorkerKnows(v)'
  BY <1>1 DEF CaptureOK, Grows
<1>2. Kept(r) /\ Alone(r) /\ \A v \in Workers : worker[v].rec = r => WorkerKnows(v)
  BY <1>1 DEF CaptureOK
<1>3. \A v \in Workers \ {w} : worker'[v] = worker[v]
  BY <1>0 DEF WorkStep, ListProcessable, MarkProcessingAttempt, Process, FinalizeReady, RemoveSpoolDir,
         DeleteUploadedArtifacts, HandleProcessingFailure, WorkerCrash, NextRecording
\* The other processors stay away from r, or know what they knew.
<1>4. ASSUME row'[r].status = row[r].status, r \in objects => r \in objects', r \in spool => r \in spool',
             worker'[w].rec \in {worker[w].rec, None} \cup (Recordings \ {r}),
             worker'[w].rec = r => WorkerKnows(w)'
      PROVE  Kept(r)' /\ Alone(r)' /\ \A v \in Workers : worker'[v].rec = r => WorkerKnows(v)'
  <2>1. Kept(r)'
    BY <1>2, <1>4 DEF Kept
  <2>2. Alone(r)'
    BY <1>0, <1>2, <1>3, <1>4 DEF Alone
  <2>3. ASSUME NEW v \in Workers, worker'[v].rec = r PROVE WorkerKnows(v)'
    BY <1>2, <1>3, <1>4, <2>3 DEF WorkerKnows
  <2> QED BY <2>1, <2>2, <2>3
\* A processor at work on r is alone with it.
<1>5. ASSUME worker[w].rec = r, Kept(r)', worker'[w].rec \in {r, None}, worker'[w].rec = r => WorkerKnows(w)'
      PROVE  Kept(r)' /\ Alone(r)' /\ \A v \in Workers : worker'[v].rec = r => WorkerKnows(v)'
  <2>1. \A v \in Workers \ {w} : worker'[v].rec # r
    BY <1>2, <1>3, <1>5 DEF Alone
  <2> QED BY <1>5, <2>1 DEF Alone
<1>6. CASE ListProcessable(w)
  <2>1. UNCHANGED <<row, objects, spool>> /\ worker'[w].rec = worker[w].rec /\ worker'[w].pc = worker[w].pc
    BY <1>0, <1>6 DEF ListProcessable
  <2> QED BY <1>2, <1>4, <2>1 DEF WorkerKnows
<1>7. ASSUME NEW q \in Recordings, MarkProcessingAttempt(w, q)
      PROVE  Kept(r)' /\ Alone(r)' /\ \A v \in Workers : worker'[v].rec = r => WorkerKnows(v)'
  <2>0. UNCHANGED <<objects, spool>> /\ worker[w].rec = None
    BY <1>0, <1>7 DEF MarkProcessingAttempt
  <2>1. CASE row' = row /\ worker' = [worker EXCEPT ![w].todo = worker[w].todo \ {q}]
    <3>1. worker'[w].rec = None
      BY <1>0, <2>0, <2>1
    <3> QED BY <1>0, <1>4, <2>0, <2>1, <3>1
  <2>2. CASE /\ CanMarkAttempt(q) /\ worker'[w].rec = q /\ worker'[w].pc = "marked"
             /\ row'[q].status = "processing" /\ \A e \in Recordings \ {q} : row'[e] = row[e]
             /\ contended' = IF \E v \in Workers : worker[v].rec = q THEN contended \cup {q} ELSE contended
    <3>1. CASE q # r
      BY <1>4, <1>0, <2>0, <2>2, <3>1
    <3>2. CASE q = r
      <4>1. \A v \in Workers : worker[v].rec # r
        BY <2>2, <3>2
      <4>2. row[r].status # "ready" /\ r \in spool
        BY <1>2, <2>2, <3>2 DEF CanMarkAttempt, StatusAllows, Kept
      <4> QED BY <1>3, <2>0, <2>2, <3>2, <4>1, <4>2 DEF Kept, Alone, WorkerKnows
    <3> QED BY <3>1, <3>2
  <2>3. \/ row' = row /\ worker' = [worker EXCEPT ![w].todo = worker[w].todo \ {q}]
        \/ /\ CanMarkAttempt(q) /\ worker'[w].rec = q /\ worker'[w].pc = "marked"
           /\ row'[q].status = "processing" /\ \A e \in Recordings \ {q} : row'[e] = row[e]
           /\ contended' = IF \E v \in Workers : worker[v].rec = q THEN contended \cup {q} ELSE contended
    BY <1>0, <1>7 DEF MarkProcessingAttempt, Rows
  <2> QED BY <2>1, <2>2, <2>3
<1>8. CASE Process(w)
  <2>1. /\ UNCHANGED <<row, spool>> /\ worker[w].pc = "marked" /\ worker'[w].rec = worker[w].rec
        /\ worker'[w].pc \in {"uploaded", "failed"} /\ (worker'[w].pc = "uploaded" => worker[w].rec \in objects')
        /\ \A q : q # worker[w].rec => (q \in objects => q \in objects')
    BY <1>0, <1>8 DEF Process
  <2>2. CASE worker[w].rec = r
    BY <1>2, <1>5, <2>1, <2>2 DEF Kept, WorkerKnows
  <2>3. CASE worker[w].rec # r
    BY <1>4, <2>1, <2>3
  <2> QED BY <2>2, <2>3
<1>9. CASE FinalizeReady(w)
  <2>1. /\ UNCHANGED <<objects, spool>> /\ worker[w].pc = "uploaded" /\ worker'[w].rec = worker[w].rec
        /\ worker'[w].pc = "ready" /\ worker[w].rec \in Recordings
    BY <1>0, <1>9 DEF FinalizeReady
  <2>2. CASE worker[w].rec = r
    <3>1. row'[r].status = "ready" /\ r \in objects'
      BY <1>0, <1>2, <1>9, <2>1, <2>2 DEF FinalizeReady, SetReady, Rows, WorkerKnows
    <3> QED BY <1>5, <2>1, <2>2, <3>1 DEF Kept, WorkerKnows
  <2>3. CASE worker[w].rec # r
    <3>1. row'[r] = row[r]
      BY <1>0, <1>9, <2>1, <2>3 DEF FinalizeReady, SetReady
    <3> QED BY <1>4, <2>1, <2>3, <3>1
  <2> QED BY <2>2, <2>3
<1>10. CASE RemoveSpoolDir(w)
  <2>1. /\ UNCHANGED <<row, objects>> /\ worker[w].pc = "ready" /\ worker'[w].rec = None
        /\ \A q : q # worker[w].rec => (q \in spool => q \in spool')
    BY <1>0, <1>10 DEF RemoveSpoolDir, NextRecording, Idle
  <2>2. CASE worker[w].rec = r
    BY <1>0, <1>2, <1>5, <2>1, <2>2 DEF Kept, WorkerKnows
  <2>3. CASE worker[w].rec # r
    BY <1>0, <1>4, <2>1, <2>3
  <2> QED BY <2>2, <2>3
<1>11. CASE DeleteUploadedArtifacts(w)
  <2>1. /\ UNCHANGED <<row, spool>> /\ worker[w].pc = "uploaded" /\ worker'[w].rec = worker[w].rec
        /\ worker'[w].pc = "failed" /\ objects' = objects \ {worker[w].rec}
    BY <1>0, <1>11 DEF DeleteUploadedArtifacts
  <2>2. CASE worker[w].rec = r
    BY <1>2, <1>5, <2>1, <2>2 DEF Kept, WorkerKnows
  <2>3. CASE worker[w].rec # r
    BY <1>4, <2>1, <2>3
  <2> QED BY <2>2, <2>3
<1>12. CASE HandleProcessingFailure(w)
  <2>1. UNCHANGED <<objects, spool>> /\ worker[w].pc = "failed" /\ worker'[w].rec = None /\ worker[w].rec \in Recordings
    BY <1>0, <1>12 DEF HandleProcessingFailure, NextRecording, Idle
  <2>2. CASE worker[w].rec = r
    BY <1>0, <1>2, <1>5, <2>1, <2>2 DEF Kept, WorkerKnows
  <2>3. CASE worker[w].rec # r
    <3>1. row'[r] = row[r]
      BY <1>0, <1>12, <2>1, <2>3 DEF HandleProcessingFailure, MarkFailed
    <3> QED BY <1>0, <1>4, <2>1, <2>3, <3>1
  <2> QED BY <2>2, <2>3
<1>13. CASE WorkerCrash(w)
  <2>1. UNCHANGED <<row, objects, spool>> /\ worker'[w].rec = None
    BY <1>0, <1>13 DEF WorkerCrash, Idle
  <2> QED BY <1>0, <1>4, <2>1
<1> QED BY <1>6, <1>7, <1>8, <1>9, <1>10, <1>11, <1>12, <1>13 DEF WorkStep

\* Everybody else leaves them alone until they expire.
LEMMA OthersKeepCaptures ==
    ASSUME IInv, RecInv, Grows, NEW r \in Legacy, NEW q \in Recordings,
           \/ StartStep(q) \/ StartAbort(q) \/ StopRead(q) \/ StopSend(q) \/ StopWrite(q)
           \/ StopActiveEgressForCall(q) \/ EgressEnds(q) \/ HookStep(q) \/ HookFails(q)
           \/ RetryDue(q) \/ Expire(q) \/ CleanObjects(q) \/ (\E hold \in BOOLEAN : SetLegalHold(q, hold))
    PROVE  CaptureOK(r)'
<1> USE RecordingAssumption
<1>0. /\ row \in [Recordings -> Rows] /\ r \in Recordings /\ CaptureOK(r)
      /\ hook[q].pc # "idle" => hook[q].rec # r
  BY DEF IInv, TypeOK, StoreOK, RecInv, JobOK, DeliveryOK
<1>1. start[r] = "done" /\ row[r].status # "recording" /\ CleanerKnows
  BY <1>0 DEF RecInv, JobOK, RequestOK
<1>2. /\ UNCHANGED <<worker, spool>> /\ (r \in objects => r \in objects' \cup expired)
  BY <1>1 DEF StartStep, StartCheck, StartCreate, StartRoomCompositeFile, StartRoomCompositeError, StartFailed,
         StartBackfill, StartAbort, StopRead, StopSend, StopWrite, StopActiveEgressForCall, EgressEnds, HookStep,
         HookCorrelate, HookBackfill, HookFinalize, HookAck, HookFails, RetryDue, Expire, CleanObjects, SetLegalHold,
         CleanerKnows
<1>3. CASE StartStep(q) \/ StartAbort(q)
  <2>1. row'[r].status = row[r].status
    BY <1>0, <1>1, <1>3 DEF StartStep, StartCheck, StartCreate, StartRoomCompositeFile, StartRoomCompositeError,
         StartFailed, StartBackfill, StartAbort, MarkFailed, SetEgressID, Rows
  <2> QED BY <1>0, <1>2, <2>1, CaptureFrame DEF Grows
<1>4. CASE StopRead(q) \/ StopSend(q) \/ StopWrite(q) \/ StopActiveEgressForCall(q) \/ EgressEnds(q)
  <2>1. row'[r].status = row[r].status
    BY <1>0, <1>1, <1>4 DEF StopRead, StopSend, StopWrite, StopActiveEgressForCall, EgressEnds, Stop
  <2> QED BY <1>0, <1>2, <2>1, CaptureFrame DEF Grows
<1>5. CASE HookStep(q) \/ HookFails(q)
  <2>1. row'[r].status = row[r].status
    BY <1>0, <1>5 DEF HookStep, HookCorrelate, HookBackfill, HookFinalize, HookAck, HookFails, SetEgressID,
                      SetReady, MarkFailed
  <2> QED BY <1>0, <1>2, <2>1, CaptureFrame DEF Grows
<1>6. CASE RetryDue(q) \/ Expire(q) \/ CleanObjects(q) \/ (\E hold \in BOOLEAN : SetLegalHold(q, hold))
  <2>1. row'[r].status = row[r].status
    BY <1>0, <1>6 DEF RetryDue, Expire, CleanObjects, SetLegalHold, Rows
  <2> QED BY <1>0, <1>2, <2>1, CaptureFrame DEF Grows
<1> QED BY <1>3, <1>4, <1>5, <1>6

LEMMA CapturesNext == IInv /\ RecInv /\ Grows /\ [Next]_vars => \A r \in Legacy : CaptureOK(r)'
<1> SUFFICES ASSUME IInv, RecInv, Grows, [Next]_vars, NEW r \in Legacy PROVE CaptureOK(r)'
  OBVIOUS
<1>0. CaptureOK(r)
  BY DEF RecInv
<1>1. CASE CleanRow
  <2>1. /\ UNCHANGED <<worker, expired, objects>> /\ cleaner.rec \in expired
        /\ row' = [row EXCEPT ![cleaner.rec].status = "deleted"] /\ spool' = spool \ {cleaner.rec}
    BY <1>1, RecordingAssumption DEF CleanRow, Delete, RecInv, CleanerKnows, IInv, TypeOK, CleanerOK
  <2>2. CASE r = cleaner.rec
    BY <2>1, <2>2 DEF CaptureOK
  <2>3. CASE r # cleaner.rec
    <3>1. row'[r] = row[r] /\ (r \in spool => r \in spool')
      BY <2>1, <2>3
    <3> QED BY <1>0, <2>1, <3>1, CaptureFrame
  <2> QED BY <2>2, <2>3
<1>2. CASE EndCall \/ ListExpired \/ CleanFails \/ UNCHANGED vars
  <2>1. UNCHANGED <<row, worker, objects, spool>>
    BY <1>2 DEF EndCall, ListExpired, CleanFails, vars
  <2> QED BY <1>0, <2>1, CaptureFrame
<1> QED BY <1>1, <1>2, WorkKeepsCaptures, OthersKeepCaptures DEF Next, CleanStep

LEMMA JobsNext == IInv /\ RecInv /\ Grows /\ [Next]_vars => \A e \in Recordings : JobOK(e)'
<1> SUFFICES ASSUME IInv, RecInv, Grows, [Next]_vars PROVE \A e \in Recordings : JobOK(e)'
  OBVIOUS
<1>1. CASE ListExpired \/ CleanFails \/ EndCall \/ UNCHANGED vars
  <2>1. UNCHANGED <<row, start, stop, egress, hook, acked, expired, objects>>
    BY <1>1 DEF ListExpired, CleanFails, EndCall, vars
  <2> QED BY <2>1, JobFrame DEF RecInv
<1>2. CASE CleanRow
  BY <1>2, CleanRowKeepsJobs
<1>3. ASSUME NEW w \in Workers, WorkStep(w) \/ WorkerCrash(w) PROVE \A e \in Recordings : JobOK(e)'
  BY <1>3, WorkKeepsJobs
<1>4. ASSUME NEW r \in Recordings,
             \/ StartStep(r) \/ StartAbort(r) \/ StopRead(r) \/ StopSend(r) \/ StopWrite(r)
             \/ StopActiveEgressForCall(r) \/ EgressEnds(r)
      PROVE  \A e \in Recordings : JobOK(e)'
  BY <1>4, StartKeepsJobs, StopKeepsJobs
<1>5. ASSUME NEW r \in Recordings,
             \/ HookStep(r) \/ HookFails(r) \/ RetryDue(r) \/ Expire(r) \/ CleanObjects(r)
             \/ \E hold \in BOOLEAN : SetLegalHold(r, hold)
      PROVE  \A e \in Recordings : JobOK(e)'
  BY <1>5, HookKeepsJobs, RetentionKeepsJobs
<1> QED BY <1>1, <1>2, <1>3, <1>4, <1>5 DEF Next, CleanStep

\* The invariant of all three theorems.
LEMMA Invariance == Spec => [](IInv /\ RecInv)
<1>1. IInv /\ RecInv /\ [Next]_vars => RecInv'
  BY NextGrows, WorkNext, CleanerNext, JobsNext, CapturesNext DEF RecInv
<1> QED BY <1>1, InitIInv, NextIInv, RecInit, PTL DEF Spec

\* For any number of recordings, requests and processors, and whatever fails: a
\* recording that is offered has its file, unless a webhook was given to it by the
\* fallback to the call's active recording or two processors worked on it at once.
THEOREM ReadyHasItsOwnFile == Spec => []ReadyHasItsFile
<1>1. RecInv => ReadyHasItsFile
  BY DEF RecInv, JobOK, FileOK, Misled, ReadyHasItsFile
<1> QED BY <1>1, Invariance, PTL

\* When LiveKit has been told that the end of a job was handled, the recording of
\* a job with a file is ready, or was and has been removed by retention; with the
\* exceptions AckedEgressIsReady names and no others.
THEOREM AckedIsReady == Spec => []AckedEgressIsReady
<1>1. IInv /\ RecInv => AckedEgressIsReady
  <2> SUFFICES ASSUME IInv, RecInv, NEW e \in acked, egress[e] = "complete", start[e] # "failed",
                      row[e].attempts = 0, Unmistaken(e)
               PROVE  row[e].status \in {"ready", "deleted"}
    BY DEF AckedEgressIsReady
  <2>1. e \in Recordings
    BY DEF IInv, TypeOK, StoreOK
  <2>2. Settled(e) \/ Excused(e)
    BY <2>1 DEF RecInv, JobOK, RequestOK
  <2> QED BY <2>2 DEF Excused, Settled
<1> QED BY <1>1, Invariance, PTL

\* With any number of spool processors, whatever fails, crashes or is repeated: until
\* a captured recording expires it has its spool directory, or its file and a row
\* that says so, unless two processors worked on it at once.
THEOREM CapturesAreKept == Spec => []CapturedMediaKept
<1>1. RecInv => CapturedMediaKept
  BY DEF RecInv, CaptureOK, Kept, CapturedMediaKept
<1> QED BY <1>1, Invariance, PTL
=============================================================================
