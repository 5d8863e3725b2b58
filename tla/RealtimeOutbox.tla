--------------------------- MODULE RealtimeOutbox ---------------------------
(***************************************************************************)
(* The durable realtime outbox: the table realtime_events of               *)
(* internal/repository/postgres/realtime.go and the workers of             *)
(* internal/service/realtime/service.go that drain it into NATS JetStream. *)
(*                                                                         *)
(* A row is named by its BIGSERIAL sequence.  Two clocks are abstracted:   *)
(* locked_at is "fresh" until the five minute lease has run out and        *)
(* "stale" afterwards; available_at <= NOW() is the flag due.              *)
(***************************************************************************)
EXTENDS Integers, FiniteSets

CONSTANTS
    Workers,      \* outbox workers, one per backend process
    MaxEvents,    \* bound: rows ever inserted
    MaxAttempts,  \* realtime_events.max_attempts
    BatchSize,    \* Service.batchSize
    MaxFaults,    \* bound: crashes and failed database calls
    MaxSlow       \* bound: leases that run out under a live worker

ASSUME OutboxAssumption ==
    /\ MaxEvents \in Nat \ {0}
    /\ MaxAttempts \in Nat \ {0}
    /\ BatchSize \in Nat \ {0}
    /\ MaxFaults \in Nat
    /\ MaxSlow \in Nat
    /\ IsFiniteSet(Workers)

VARIABLES
    status,    \* status[s]: column status, plus the row's life before commit
    attempts,  \* attempts[s]: column attempts
    lock,      \* lock[s]: column locked_at
    due,       \* due[s]: available_at <= NOW()
    pc,        \* pc[w]: where worker w is in ProcessPending
    batch,     \* batch[w]: claimed rows w has not finished with
    tries,     \* tries[w][s]: QueuedEvent.Attempts as w claimed it
    stream,    \* rows the broker has stored (NATS, external)
    cursor,    \* event_consumer_cursors.last_event_sequence of the workers
    faults,    \* crashes and database errors so far
    slow       \* leases that have run out under a live worker so far

rowVars == <<status, attempts, lock, due>>
workerVars == <<pc, batch, tries>>
vars == <<status, attempts, lock, due, pc, batch, tries, stream, cursor, faults, slow>>

Seqs == 1..MaxEvents

\* "free": not inserted yet; "inserting": inserted by an open transaction;
\* "void": that transaction was rolled back and left a gap in the sequence.
Statuses == {"free", "inserting", "void",
             "pending", "processing", "published", "failed", "dead"}
Locks == {"none", "fresh", "stale"}
Steps == {"down", "idle", "publish", "acked", "refused"}

TypeOK ==
    /\ status \in [Seqs -> Statuses]
    /\ attempts \in [Seqs -> Nat]
    /\ lock \in [Seqs -> Locks]
    /\ due \in [Seqs -> BOOLEAN]
    /\ pc \in [Workers -> Steps]
    /\ batch \in [Workers -> SUBSET Seqs]
    /\ tries \in [Workers -> [Seqs -> Nat]]
    /\ stream \subseteq Seqs
    /\ cursor \in Seqs \cup {0}
    /\ faults \in 0..MaxFaults
    /\ slow \in 0..MaxSlow

Init ==
    /\ status = [s \in Seqs |-> "free"]
    /\ attempts = [s \in Seqs |-> 0]
    /\ lock = [s \in Seqs |-> "none"]
    /\ due = [s \in Seqs |-> FALSE]
    /\ pc = [w \in Workers |-> "down"]
    /\ batch = [w \in Workers |-> {}]
    /\ tries = [w \in Workers |-> [s \in Seqs |-> 0]]
    /\ stream = {}
    /\ cursor = 0
    /\ faults = 0
    /\ slow = 0

Fault == faults < MaxFaults /\ faults' = faults + 1

-----------------------------------------------------------------------------
(* Producers.  The sequence is drawn when the row is inserted; the row is  *)
(* visible only once the producer's transaction commits, so rows become    *)
(* visible out of sequence order.                                          *)

Enqueue(s) ==
    /\ status[s] = "free"
    /\ \A t \in Seqs : t < s => status[t] # "free"
    /\ status' = [status EXCEPT ![s] = "inserting"]
    /\ UNCHANGED <<attempts, lock, due, workerVars, stream, cursor, faults, slow>>

CommitEnqueue(s) ==
    /\ status[s] = "inserting"
    /\ status' = [status EXCEPT ![s] = "pending"]
    /\ due' = [due EXCEPT ![s] = TRUE]
    /\ UNCHANGED <<attempts, lock, workerVars, stream, cursor, faults, slow>>

RollbackEnqueue(s) ==
    /\ status[s] = "inserting"
    /\ status' = [status EXCEPT ![s] = "void"]
    /\ UNCHANGED <<attempts, lock, due, workerVars, stream, cursor, faults, slow>>

-----------------------------------------------------------------------------
(* Workers. *)

Stuck == {s \in Seqs : status[s] = "processing" /\ lock[s] = "stale"}

\* Mutant: a processing row is claimable whatever its lease.
Claimable_IgnoresLease == {s \in Seqs : due[s] /\ status[s] \in {"pending", "failed", "processing"}}

\* Mutant: abandoned processing rows are never reclaimed.
Claimable_NoReclaim == {s \in Seqs : due[s] /\ status[s] \in {"pending", "failed"}}

Claimable == {s \in Seqs : due[s] /\ status[s] \in {"pending", "failed"}}
               \cup {s \in Stuck : due[s]}

\* ORDER BY sequence ASC LIMIT batchSize
IsBatch(B) ==
    /\ B \subseteq Claimable
    /\ B # {}
    /\ Cardinality(B) <= BatchSize
    /\ \A c \in Claimable \ B : Cardinality(B) = BatchSize /\ \A b \in B : b < c

\* ResetStuckJobs runs once when a worker starts; its failure is only logged.
StartWorker(w) ==
    /\ pc[w] = "down"
    /\ pc' = [pc EXCEPT ![w] = "idle"]
    /\ \/ /\ status' = [s \in Seqs |-> IF s \in Stuck THEN "pending" ELSE status[s]]
          /\ lock' = [s \in Seqs |-> IF s \in Stuck THEN "none" ELSE lock[s]]
          /\ UNCHANGED faults
       \/ /\ Fault
          /\ UNCHANGED <<status, lock>>
    /\ UNCHANGED <<attempts, due, batch, tries, stream, cursor, slow>>

MarkProcessing(B) ==
    /\ status' = [s \in Seqs |-> IF s \in B THEN "processing" ELSE status[s]]
    /\ attempts' = [s \in Seqs |-> IF s \in B THEN attempts[s] + 1 ELSE attempts[s]]
    /\ lock' = [s \in Seqs |-> IF s \in B THEN "fresh" ELSE lock[s]]
    /\ UNCHANGED due

Claim(w) ==
    /\ pc[w] = "idle"
    /\ \E B \in SUBSET Claimable :
        /\ IsBatch(B)
        /\ MarkProcessing(B)
        /\ batch' = [batch EXCEPT ![w] = B]
        /\ tries' = [tries EXCEPT ![w] =
                        [s \in Seqs |-> IF s \in B THEN attempts[s] + 1 ELSE 0]]
    /\ pc' = [pc EXCEPT ![w] = "publish"]
    /\ UNCHANGED <<stream, cursor, faults, slow>>

\* The claim commits but its answer is lost; the retry claims other rows.
ClaimLost(w) ==
    /\ pc[w] = "idle"
    /\ Fault
    /\ \E B \in SUBSET Claimable : IsBatch(B) /\ MarkProcessing(B)
    /\ UNCHANGED <<workerVars, stream, cursor, slow>>

\* Jobs are handled in the order they were claimed, by sequence.
IsJob(w, s) == s \in batch[w] /\ \A t \in batch[w] : s <= t

PublishOk(w, s) ==
    /\ pc[w] = "publish"
    /\ IsJob(w, s)
    /\ stream' = stream \cup {s}
    /\ pc' = [pc EXCEPT ![w] = "acked"]
    /\ UNCHANGED <<rowVars, batch, tries, cursor, faults, slow>>

\* Mutant: the publish error is dropped and the job treated as published.
PublishError_Dropped(w, s) ==
    /\ pc[w] = "publish"
    /\ IsJob(w, s)
    /\ stream' \in {stream, stream \cup {s}}
    /\ pc' = [pc EXCEPT ![w] = "acked"]
    /\ UNCHANGED <<rowVars, batch, tries, cursor, faults, slow>>

\* The broker may have stored the message before the error reached the worker.
PublishError(w, s) ==
    /\ pc[w] = "publish"
    /\ IsJob(w, s)
    /\ stream' \in {stream, stream \cup {s}}
    /\ pc' = [pc EXCEPT ![w] = "refused"]
    /\ UNCHANGED <<rowVars, batch, tries, cursor, faults, slow>>

NextJob(w, s) ==
    /\ batch' = [batch EXCEPT ![w] = @ \ {s}]
    /\ pc' = [pc EXCEPT ![w] = IF batch[w] = {s} THEN "idle" ELSE "publish"]
    /\ tries' = [tries EXCEPT ![w][s] = 0]

\* UpdateConsumerCursor: GREATEST with the job's sequence; its error is dropped.
AdvanceCursor(s) == cursor' = IF s > cursor THEN s ELSE cursor

SetPublished(s) ==
    /\ status' = [status EXCEPT ![s] = "published"]
    /\ lock' = [lock EXCEPT ![s] = "none"]
    /\ due' = [due EXCEPT ![s] = TRUE]
    /\ UNCHANGED attempts

MarkPublished(w, s) ==
    /\ pc[w] = "acked"
    /\ IsJob(w, s)
    /\ SetPublished(s)
    /\ NextJob(w, s)
    /\ \/ AdvanceCursor(s) /\ UNCHANGED faults
       \/ Fault /\ UNCHANGED cursor
    /\ UNCHANGED <<stream, slow>>

Drop(w) ==
    /\ batch' = [batch EXCEPT ![w] = {}]
    /\ tries' = [tries EXCEPT ![w] = [s \in Seqs |-> 0]]

\* An error aborts the whole batch, whether or not the update was applied.
MarkPublishedError(w, s) ==
    /\ pc[w] = "acked"
    /\ IsJob(w, s)
    /\ Fault
    /\ SetPublished(s) \/ UNCHANGED rowVars
    /\ Drop(w)
    /\ pc' = [pc EXCEPT ![w] = "idle"]
    /\ UNCHANGED <<stream, cursor, slow>>

IsDead(w, s) == tries[w][s] >= MaxAttempts

\* nextRetryAt is nil for a dead job, so available_at is kept.
SetFailed(w, s) ==
    /\ status' = [status EXCEPT ![s] = IF IsDead(w, s) THEN "dead" ELSE "failed"]
    /\ due' = [due EXCEPT ![s] = IF IsDead(w, s) THEN @ ELSE FALSE]
    /\ lock' = [lock EXCEPT ![s] = "none"]
    /\ UNCHANGED attempts

MarkFailed(w, s) ==
    /\ pc[w] = "refused"
    /\ IsJob(w, s)
    /\ SetFailed(w, s)
    /\ NextJob(w, s)
    /\ \/ AdvanceCursor(s) /\ UNCHANGED faults
       \/ Fault /\ UNCHANGED cursor
    /\ UNCHANGED <<stream, slow>>

\* An error here is only logged and the batch goes on.
MarkFailedError(w, s) ==
    /\ pc[w] = "refused"
    /\ IsJob(w, s)
    /\ Fault
    /\ SetFailed(w, s) \/ UNCHANGED rowVars
    /\ NextJob(w, s)
    /\ AdvanceCursor(s)
    /\ UNCHANGED <<stream, slow>>

Crash(w) ==
    /\ pc[w] # "down"
    /\ Fault
    /\ pc' = [pc EXCEPT ![w] = "down"]
    /\ Drop(w)
    /\ UNCHANGED <<rowVars, stream, cursor, slow>>

-----------------------------------------------------------------------------
(* Time. *)

Held(s) == \E w \in Workers : s \in batch[w]

\* locked_at < NOW() - INTERVAL '5 minutes' becomes true, usually because the
\* worker is gone, at most MaxSlow times while it is still at work.
LeaseExpire(s) ==
    /\ lock[s] = "fresh"
    /\ lock' = [lock EXCEPT ![s] = "stale"]
    /\ \/ ~Held(s) /\ UNCHANGED slow
       \/ Held(s) /\ slow < MaxSlow /\ slow' = slow + 1
    /\ UNCHANGED <<status, attempts, due, workerVars, stream, cursor, faults>>

RetryDue(s) ==
    /\ status[s] = "failed"
    /\ ~due[s]
    /\ due' = [due EXCEPT ![s] = TRUE]
    /\ UNCHANGED <<status, attempts, lock, workerVars, stream, cursor, faults, slow>>

-----------------------------------------------------------------------------
ProducerNext ==
    \E s \in Seqs : Enqueue(s) \/ CommitEnqueue(s) \/ RollbackEnqueue(s)

JobNext(w, s) ==
    \/ PublishOk(w, s) \/ PublishError(w, s)
    \/ MarkPublished(w, s) \/ MarkPublishedError(w, s)
    \/ MarkFailed(w, s) \/ MarkFailedError(w, s)

WorkerNext(w) ==
    \/ StartWorker(w) \/ Claim(w) \/ ClaimLost(w) \/ Crash(w)
    \/ \E s \in Seqs : JobNext(w, s)

TimeNext == \E s \in Seqs : LeaseExpire(s) \/ RetryDue(s)

Next == ProducerNext \/ (\E w \in Workers : WorkerNext(w)) \/ TimeNext

Spec == Init /\ [][Next]_vars

\* A supervised worker restarts and keeps polling (cmd/server Supervise), a
\* call to the broker or the database returns, and time passes.
Fairness ==
    /\ \A s \in Seqs : WF_vars(LeaseExpire(s)) /\ WF_vars(RetryDue(s))
    /\ \A w \in Workers :
        /\ WF_vars(StartWorker(w))
        /\ WF_vars(Claim(w))
        /\ WF_vars(\E s \in Seqs : JobNext(w, s))

FairSpec == Spec /\ Fairness

\* The rows as a log of events: claims, retries and restarts are hidden.
LogState(s) ==
    CASE status[s] = "free"      -> "free"
      [] status[s] = "inserting" -> "open"
      [] status[s] = "void"      -> "void"
      [] status[s] = "published" -> "delivered"
      [] status[s] = "dead"      -> "dropped"
      [] OTHER                   -> "accepted"

Log == INSTANCE EventLog
    WITH Events <- Seqs, log <- [s \in Seqs |-> LogState(s)], stored <- stream, late <- slow > 0

-----------------------------------------------------------------------------
(* Properties. *)

\* A row is marked published only when the broker has stored its event: no
\* crash, lost answer or second worker makes ProcessPending lose an event by
\* marking it published too early (service.go, MarkPublished after PublishWithID).
PublishedWasStored == \A s \in Seqs : status[s] = "published" => s \in stream

\* An event is dead-lettered only after max_attempts claims of it, whichever
\* worker's MarkFailed decides (isDead uses the count the worker claimed with).
DeadWasExhausted == \A s \in Seqs : status[s] = "dead" => attempts[s] >= MaxAttempts

\* A row in processing always carries a lease: locked_at is never NULL there,
\* else neither ClaimPending nor ResetStuckJobs would ever pick it up again.
ProcessingHasLease == \A s \in Seqs : status[s] = "processing" => lock[s] # "none"

\* As long as no lease ran out under a live worker, no two workers work on the
\* same event (FOR UPDATE SKIP LOCKED plus the processing status).
SingleOwner ==
    slow = 0 => \A v, w \in Workers : v # w => batch[v] \cap batch[w] = {}

\* As long as no lease ran out under a live worker, a published row keeps that
\* status, so ReplayRoom can serve it for good; MarkFailed has no status guard
\* and relies on this.
PublishedSticks ==
    [][\A s \in Seqs : status[s] = "published" /\ slow = 0 => status'[s] = "published"]_vars

\* The outbox implements the log of events its producers rely on: through crashes,
\* lost answers and workers that race, a committed event is decided once, and
\* delivered only when the broker has it (service.go ProcessPending).
ImplementsEventLog == Log!Spec

\* Every committed event is eventually published or dead-lettered, through
\* crashes, lost answers, broker errors and expired leases.
Settles ==
    \A s \in Seqs : status[s] = "pending" ~> status[s] \in {"published", "dead"}
=============================================================================
