------------------------ MODULE RealtimeOutboxProofs ------------------------
(* Proofs about the realtime outbox, for every set of workers and every    *)
(* value of the bounds.                                                    *)
EXTENDS RealtimeOutbox, TLAPS

-----------------------------------------------------------------------------
(* The inductive invariant. *)

\* A worker that is down or between two batches holds no job.
IdleHoldsNothing == \A w \in Workers : pc[w] \in {"down", "idle"} => batch[w] = {}

\* A worker whose publish was acknowledged works on an event the broker has.
AckedIsStored ==
    \A w \in Workers : pc[w] = "acked" => \A s \in Seqs : IsJob(w, s) => s \in stream

\* The attempt count a worker claimed with is never ahead of the row's.
TriesAreBehind ==
    \A w \in Workers : \A s \in batch[w] : tries[w][s] <= attempts[s]

\* While no lease ran out under a live worker, a held row is leased to it.
HeldIsLeased ==
    slow = 0 => \A w \in Workers : \A s \in batch[w] :
                    status[s] = "processing" /\ lock[s] = "fresh"

IndInv ==
    /\ TypeOK
    /\ IdleHoldsNothing
    /\ PublishedWasStored
    /\ AckedIsStored
    /\ DeadWasExhausted
    /\ TriesAreBehind
    /\ ProcessingHasLease
    /\ HeldIsLeased
    /\ SingleOwner

-----------------------------------------------------------------------------
RowsOK ==
    /\ status \in [Seqs -> Statuses]
    /\ attempts \in [Seqs -> Nat]
    /\ lock \in [Seqs -> Locks]
    /\ due \in [Seqs -> BOOLEAN]

WorkersOK ==
    /\ pc \in [Workers -> Steps]
    /\ batch \in [Workers -> SUBSET Seqs]
    /\ tries \in [Workers -> [Seqs -> Nat]]

\* The updates MarkPublished and MarkFailed make to a row keep its type.
LEMMA RowUpdateType ==
    ASSUME TypeOK, NEW w \in Workers, NEW s \in Seqs,
           SetPublished(s) \/ SetFailed(w, s) \/ UNCHANGED rowVars
    PROVE  RowsOK'
<1>1. CASE SetPublished(s)
  BY <1>1 DEF TypeOK, RowsOK, SetPublished, Statuses, Locks
<1>2. CASE SetFailed(w, s)
  BY <1>2 DEF TypeOK, RowsOK, SetFailed, Statuses, Locks
<1>3. CASE UNCHANGED rowVars
  BY <1>3 DEF TypeOK, RowsOK, rowVars
<1> QED
  BY <1>1, <1>2, <1>3

\* Going on to the next job, or dropping the batch, keeps the workers' type.
LEMMA WorkerUpdateType ==
    ASSUME TypeOK, NEW w \in Workers, NEW s \in Seqs,
           NextJob(w, s) \/ (Drop(w) /\ pc' = [pc EXCEPT ![w] = "idle"])
    PROVE  WorkersOK'
<1>1. CASE NextJob(w, s)
  BY <1>1 DEF TypeOK, WorkersOK, NextJob, Steps
<1>2. CASE Drop(w) /\ pc' = [pc EXCEPT ![w] = "idle"]
  BY <1>2 DEF TypeOK, WorkersOK, Drop, Steps
<1> QED
  BY <1>1, <1>2

\* No step of a producer, a worker or the clock leaves the types.
LEMMA TypeStep == TypeOK /\ [Next]_vars => TypeOK'
<1> SUFFICES ASSUME TypeOK, [Next]_vars PROVE TypeOK'
  OBVIOUS
<1> USE OutboxAssumption DEF TypeOK, Statuses, Locks, Steps
<1>1. ASSUME NEW s \in Seqs, Enqueue(s) PROVE TypeOK'
  BY <1>1 DEF Enqueue, workerVars
<1>2. ASSUME NEW s \in Seqs, CommitEnqueue(s) PROVE TypeOK'
  BY <1>2 DEF CommitEnqueue, workerVars
<1>3. ASSUME NEW s \in Seqs, RollbackEnqueue(s) PROVE TypeOK'
  BY <1>3 DEF RollbackEnqueue, workerVars
<1>4. ASSUME NEW w \in Workers, StartWorker(w) PROVE TypeOK'
  BY <1>4 DEF StartWorker, Fault
<1>5. ASSUME NEW w \in Workers, Claim(w) PROVE TypeOK'
  <2>1. PICK B \in SUBSET Claimable :
          /\ MarkProcessing(B)
          /\ batch' = [batch EXCEPT ![w] = B]
          /\ tries' = [tries EXCEPT ![w] =
                          [s \in Seqs |-> IF s \in B THEN attempts[s] + 1 ELSE 0]]
    BY <1>5 DEF Claim
  <2>2. B \subseteq Seqs
    BY <2>1 DEF Claimable, Stuck
  <2> QED
    BY <1>5, <2>1, <2>2 DEF Claim, MarkProcessing
<1>6. ASSUME NEW w \in Workers, ClaimLost(w) PROVE TypeOK'
  BY <1>6 DEF ClaimLost, MarkProcessing, Fault, workerVars
<1>7. ASSUME NEW w \in Workers, Crash(w) PROVE TypeOK'
  BY <1>7 DEF Crash, Drop, Fault, rowVars
<1>8. ASSUME NEW w \in Workers, NEW s \in Seqs, PublishOk(w, s) PROVE TypeOK'
  BY <1>8 DEF PublishOk, rowVars
<1>9. ASSUME NEW w \in Workers, NEW s \in Seqs, PublishError(w, s) PROVE TypeOK'
  BY <1>9 DEF PublishError, rowVars
<1>10. ASSUME NEW w \in Workers, NEW s \in Seqs, MarkPublished(w, s) PROVE TypeOK'
  <2>1. RowsOK' /\ WorkersOK'
    BY <1>10, RowUpdateType, WorkerUpdateType DEF MarkPublished
  <2> QED
    BY <1>10, <2>1 DEF MarkPublished, AdvanceCursor, Fault, RowsOK, WorkersOK
<1>11. ASSUME NEW w \in Workers, NEW s \in Seqs, MarkPublishedError(w, s) PROVE TypeOK'
  <2>1. RowsOK' /\ WorkersOK'
    BY <1>11, RowUpdateType, WorkerUpdateType DEF MarkPublishedError
  <2> QED
    BY <1>11, <2>1 DEF MarkPublishedError, Fault, RowsOK, WorkersOK
<1>12. ASSUME NEW w \in Workers, NEW s \in Seqs, MarkFailed(w, s) PROVE TypeOK'
  <2>1. RowsOK' /\ WorkersOK'
    BY <1>12, RowUpdateType, WorkerUpdateType DEF MarkFailed
  <2> QED
    BY <1>12, <2>1 DEF MarkFailed, AdvanceCursor, Fault, RowsOK, WorkersOK
<1>13. ASSUME NEW w \in Workers, NEW s \in Seqs, MarkFailedError(w, s) PROVE TypeOK'
  <2>1. RowsOK' /\ WorkersOK'
    BY <1>13, RowUpdateType, WorkerUpdateType DEF MarkFailedError
  <2> QED
    BY <1>13, <2>1 DEF MarkFailedError, AdvanceCursor, Fault, RowsOK, WorkersOK
<1>14. ASSUME NEW s \in Seqs, LeaseExpire(s) PROVE TypeOK'
  BY <1>14 DEF LeaseExpire, workerVars
<1>15. ASSUME NEW s \in Seqs, RetryDue(s) PROVE TypeOK'
  BY <1>15 DEF RetryDue, workerVars
<1>16. CASE UNCHANGED vars
  BY <1>16 DEF vars
<1> QED
  BY <1>1, <1>2, <1>3, <1>4, <1>5, <1>6, <1>7, <1>8, <1>9, <1>10, <1>11, <1>12,
     <1>13, <1>14, <1>15, <1>16
  DEF Next, ProducerNext, WorkerNext, JobNext, TimeNext

LEMMA TypeInit == Init => TypeOK
  BY OutboxAssumption DEF Init, TypeOK, Statuses, Locks, Steps, Seqs

\* Every column and every worker register keeps its type.
THEOREM TypeCorrect == Spec => []TypeOK
  BY TypeInit, TypeStep, PTL DEF Spec

-----------------------------------------------------------------------------
LEMMA IndInit == Init => IndInv
<1> SUFFICES ASSUME Init PROVE IndInv
  OBVIOUS
<1>1. TypeOK
  BY TypeInit
<1> QED
  BY <1>1 DEF Init, IndInv, IdleHoldsNothing, PublishedWasStored, AckedIsStored,
     DeadWasExhausted, TriesAreBehind, ProcessingHasLease, HeldIsLeased, SingleOwner

\* The invariant is inductive: one step per action.
LEMMA IndStep == IndInv /\ [Next]_vars => IndInv'
<1> SUFFICES ASSUME IndInv, [Next]_vars PROVE IndInv'
  OBVIOUS
<1> DEFINE Rest == /\ IdleHoldsNothing /\ PublishedWasStored /\ AckedIsStored
                   /\ DeadWasExhausted /\ TriesAreBehind /\ ProcessingHasLease
                   /\ HeldIsLeased /\ SingleOwner
<1>0. TypeOK /\ TypeOK' /\ Rest
  BY TypeStep DEF IndInv
<1> USE OutboxAssumption, <1>0 DEF TypeOK, IdleHoldsNothing, PublishedWasStored,
     AckedIsStored, DeadWasExhausted, TriesAreBehind, ProcessingHasLease, HeldIsLeased,
     SingleOwner, IsJob
<1>1. ASSUME NEW s \in Seqs, Enqueue(s) PROVE Rest'
  BY <1>1 DEF Enqueue, workerVars
<1>2. ASSUME NEW s \in Seqs, CommitEnqueue(s) PROVE Rest'
  BY <1>2 DEF CommitEnqueue, workerVars
<1>3. ASSUME NEW s \in Seqs, RollbackEnqueue(s) PROVE Rest'
  BY <1>3 DEF RollbackEnqueue, workerVars
<1>4. ASSUME NEW w \in Workers, StartWorker(w) PROVE Rest'
  BY <1>4 DEF StartWorker, Stuck, Fault
<1>5. ASSUME NEW w \in Workers, Claim(w) PROVE Rest'
  <2>1. PICK B \in SUBSET Claimable :
          /\ MarkProcessing(B)
          /\ batch' = [batch EXCEPT ![w] = B]
          /\ tries' = [tries EXCEPT ![w] =
                          [s \in Seqs |-> IF s \in B THEN attempts[s] + 1 ELSE 0]]
    BY <1>5 DEF Claim
  <2>2. /\ B \subseteq Seqs
        /\ slow = 0 => \A v \in Workers : batch[v] \cap B = {}
    BY DEF Claimable, Stuck
  <2>3. IdleHoldsNothing' /\ PublishedWasStored' /\ AckedIsStored'
    BY <1>5, <2>1, <2>2 DEF Claim, MarkProcessing
  <2>4. DeadWasExhausted' /\ TriesAreBehind' /\ ProcessingHasLease'
    BY <1>5, <2>1, <2>2 DEF Claim, MarkProcessing
  <2>5. HeldIsLeased' /\ SingleOwner'
    BY <1>5, <2>1, <2>2 DEF Claim, MarkProcessing
  <2> QED
    BY <2>3, <2>4, <2>5
<1>6. ASSUME NEW w \in Workers, ClaimLost(w) PROVE Rest'
  BY <1>6 DEF ClaimLost, MarkProcessing, Claimable, Stuck, Fault, workerVars
<1>7. ASSUME NEW w \in Workers, Crash(w) PROVE Rest'
  BY <1>7 DEF Crash, Drop, Fault, rowVars
<1>8. ASSUME NEW w \in Workers, NEW s \in Seqs, PublishOk(w, s) PROVE Rest'
  <2>1. ASSUME NEW v \in Workers, pc'[v] = "acked", NEW r \in Seqs, IsJob(v, r)'
        PROVE  r \in stream'
    <3>1. CASE v = w
      <4>1. r <= s /\ s <= r /\ r \in Int /\ s \in Int
        BY <1>8, <2>1, <3>1 DEF PublishOk, Seqs
      <4>2. r = s
        BY <4>1
      <4> QED
        BY <1>8, <4>2 DEF PublishOk
    <3>2. CASE v # w
      BY <1>8, <2>1, <3>2 DEF PublishOk
    <3> QED
      BY <3>1, <3>2
  <2>2. AckedIsStored'
    BY <2>1
  <2>3. IdleHoldsNothing' /\ PublishedWasStored' /\ DeadWasExhausted' /\ TriesAreBehind'
    BY <1>8 DEF PublishOk, rowVars
  <2>4. ProcessingHasLease' /\ HeldIsLeased' /\ SingleOwner'
    BY <1>8 DEF PublishOk, rowVars
  <2> QED
    BY <2>2, <2>3, <2>4
<1>9. ASSUME NEW w \in Workers, NEW s \in Seqs, PublishError(w, s) PROVE Rest'
  BY <1>9 DEF PublishError, rowVars
<1>10. ASSUME NEW w \in Workers, NEW s \in Seqs, MarkPublished(w, s) PROVE Rest'
  <2>1. IdleHoldsNothing' /\ TriesAreBehind' /\ ProcessingHasLease'
    BY <1>10 DEF MarkPublished, SetPublished, NextJob
  <2>2. PublishedWasStored' /\ AckedIsStored' /\ DeadWasExhausted'
    BY <1>10 DEF MarkPublished, SetPublished, NextJob
  <2>3. HeldIsLeased' /\ SingleOwner'
    BY <1>10 DEF MarkPublished, SetPublished, NextJob
  <2> QED
    BY <2>1, <2>2, <2>3
<1>11. ASSUME NEW w \in Workers, NEW s \in Seqs, MarkPublishedError(w, s) PROVE Rest'
  <2>1. IdleHoldsNothing' /\ TriesAreBehind' /\ ProcessingHasLease'
    BY <1>11 DEF MarkPublishedError, SetPublished, Drop, rowVars
  <2>2. PublishedWasStored' /\ AckedIsStored' /\ DeadWasExhausted'
    BY <1>11 DEF MarkPublishedError, SetPublished, Drop, rowVars
  <2>3. HeldIsLeased' /\ SingleOwner'
    BY <1>11 DEF MarkPublishedError, SetPublished, Drop, rowVars
  <2> QED
    BY <2>1, <2>2, <2>3
<1>12. ASSUME NEW w \in Workers, NEW s \in Seqs, MarkFailed(w, s) PROVE Rest'
  <2>1. IdleHoldsNothing' /\ TriesAreBehind' /\ ProcessingHasLease'
    BY <1>12 DEF MarkFailed, SetFailed, IsDead, NextJob
  <2>2. PublishedWasStored' /\ AckedIsStored' /\ DeadWasExhausted'
    BY <1>12 DEF MarkFailed, SetFailed, IsDead, NextJob
  <2>3. HeldIsLeased' /\ SingleOwner'
    BY <1>12 DEF MarkFailed, SetFailed, IsDead, NextJob
  <2> QED
    BY <2>1, <2>2, <2>3
<1>13. ASSUME NEW w \in Workers, NEW s \in Seqs, MarkFailedError(w, s) PROVE Rest'
  <2>1. CASE SetFailed(w, s)
    <3>1. IdleHoldsNothing' /\ TriesAreBehind' /\ ProcessingHasLease'
      BY <1>13, <2>1 DEF MarkFailedError, SetFailed, IsDead, NextJob
    <3>2. PublishedWasStored' /\ AckedIsStored' /\ DeadWasExhausted'
      BY <1>13, <2>1 DEF MarkFailedError, SetFailed, IsDead, NextJob
    <3>3. HeldIsLeased' /\ SingleOwner'
      BY <1>13, <2>1 DEF MarkFailedError, SetFailed, IsDead, NextJob
    <3> QED
      BY <3>1, <3>2, <3>3
  <2>2. CASE UNCHANGED rowVars
    <3>1. IdleHoldsNothing' /\ TriesAreBehind' /\ ProcessingHasLease'
      BY <1>13, <2>2 DEF MarkFailedError, NextJob, rowVars
    <3>2. PublishedWasStored' /\ AckedIsStored' /\ DeadWasExhausted'
      BY <1>13, <2>2 DEF MarkFailedError, NextJob, rowVars
    <3>3. HeldIsLeased' /\ SingleOwner'
      BY <1>13, <2>2 DEF MarkFailedError, NextJob, rowVars
    <3> QED
      BY <3>1, <3>2, <3>3
  <2> QED
    BY <1>13, <2>1, <2>2 DEF MarkFailedError
<1>14. ASSUME NEW s \in Seqs, LeaseExpire(s) PROVE Rest'
  BY <1>14 DEF LeaseExpire, Held, workerVars
<1>15. ASSUME NEW s \in Seqs, RetryDue(s) PROVE Rest'
  BY <1>15 DEF RetryDue, workerVars
<1>16. ASSUME UNCHANGED vars PROVE Rest'
  BY <1>16 DEF vars
<1> QED
  BY <1>1, <1>2, <1>3, <1>4, <1>5, <1>6, <1>7, <1>8, <1>9, <1>10, <1>11, <1>12,
     <1>13, <1>14, <1>15, <1>16
  DEF Next, ProducerNext, WorkerNext, JobNext, TimeNext, IndInv

LEMMA Inductive == Spec => []IndInv
  BY IndInit, IndStep, PTL DEF Spec

\* No event is lost by being marked published before the broker has it.
THEOREM NoPrematurePublish == Spec => []PublishedWasStored
<1>1. IndInv => PublishedWasStored
  BY DEF IndInv
<1> QED
  BY <1>1, Inductive, PTL

\* Dead-lettering happens only after max_attempts claims.
THEOREM DeadLetterExhausted == Spec => []DeadWasExhausted
<1>1. IndInv => DeadWasExhausted
  BY DEF IndInv
<1> QED
  BY <1>1, Inductive, PTL

\* A processing row always has a lease and so can be reclaimed.
THEOREM ProcessingIsReclaimable == Spec => []ProcessingHasLease
<1>1. IndInv => ProcessingHasLease
  BY DEF IndInv
<1> QED
  BY <1>1, Inductive, PTL

\* Without lease overruns the workers' batches are disjoint.
THEOREM WorkersAreDisjoint == Spec => []SingleOwner
<1>1. IndInv => SingleOwner
  BY DEF IndInv
<1> QED
  BY <1>1, Inductive, PTL

\* Without lease overruns a published row stays published, although MarkFailed
\* and ClaimPending's caller check no status when they write.
THEOREM PublishedIsFinal == Spec => PublishedSticks
<1>1. IndInv /\ [Next]_vars =>
        [\A s \in Seqs : status[s] = "published" /\ slow = 0 => status'[s] = "published"]_vars
  <2> SUFFICES ASSUME IndInv, Next, NEW r \in Seqs, status[r] = "published", slow = 0
               PROVE  status'[r] = "published"
    BY DEF vars
  <2> USE DEF IndInv, TypeOK, HeldIsLeased
  <2>1. \A w \in Workers : r \notin batch[w]
    OBVIOUS
  <2>2. CASE ProducerNext
    BY <2>2 DEF ProducerNext, Enqueue, CommitEnqueue, RollbackEnqueue
  <2>3. ASSUME NEW w \in Workers, StartWorker(w) \/ Claim(w) \/ ClaimLost(w) \/ Crash(w)
        PROVE  status'[r] = "published"
    BY <2>3 DEF StartWorker, Claim, ClaimLost, Crash, MarkProcessing, Claimable, Stuck, rowVars
  <2>4. ASSUME NEW w \in Workers, NEW s \in Seqs, JobNext(w, s)
        PROVE  status'[r] = "published"
    <3>1. s \in batch[w]
      BY <2>4 DEF JobNext, PublishOk, PublishError, MarkPublished, MarkPublishedError,
         MarkFailed, MarkFailedError, IsJob
    <3>2. r # s
      BY <2>1, <3>1
    <3> QED
      BY <2>4, <3>2 DEF JobNext, PublishOk, PublishError, MarkPublished, MarkPublishedError,
         MarkFailed, MarkFailedError, SetPublished, SetFailed, rowVars
  <2>5. CASE TimeNext
    BY <2>5 DEF TimeNext, LeaseExpire, RetryDue
  <2> QED
    BY <2>2, <2>3, <2>4, <2>5 DEF Next, WorkerNext
<1> QED
  BY <1>1, Inductive, PTL DEF Spec, PublishedSticks

-----------------------------------------------------------------------------
(* The outbox implements EventLog. *)

\* A worker only ever holds rows whose transaction has committed.
HeldIsCommitted ==
    \A w \in Workers : \A s \in batch[w] :
        status[s] \in {"pending", "processing", "published", "failed", "dead"}

LEMMA HeldInit == Init => HeldIsCommitted
  BY DEF Init, HeldIsCommitted

\* What handling a job may write: its row's status, or nothing.
LEMMA JobWrites ==
    ASSUME NEW w \in Workers, NEW s \in Seqs, JobNext(w, s)
    PROVE  \/ status' = status
           \/ \E x \in {"published", "failed", "dead"} : status' = [status EXCEPT ![s] = x]
<1>1. CASE PublishOk(w, s) \/ PublishError(w, s)
  BY <1>1 DEF PublishOk, PublishError, rowVars
<1>2. CASE MarkPublished(w, s) \/ MarkPublishedError(w, s)
  BY <1>2 DEF MarkPublished, MarkPublishedError, SetPublished, rowVars
<1>3. CASE MarkFailed(w, s) \/ MarkFailedError(w, s)
  BY <1>3 DEF MarkFailed, MarkFailedError, SetFailed, rowVars
<1> QED
  BY <1>1, <1>2, <1>3 DEF JobNext

LEMMA HeldStep == TypeOK /\ HeldIsCommitted /\ [Next]_vars => HeldIsCommitted'
<1> SUFFICES ASSUME TypeOK, HeldIsCommitted, [Next]_vars PROVE HeldIsCommitted'
  OBVIOUS
<1> USE DEF TypeOK, HeldIsCommitted
<1>1. CASE ProducerNext
  BY <1>1 DEF ProducerNext, Enqueue, CommitEnqueue, RollbackEnqueue, workerVars
<1>2. ASSUME NEW w \in Workers, StartWorker(w) \/ Crash(w) PROVE HeldIsCommitted'
  BY <1>2 DEF StartWorker, Crash, Stuck, Drop, rowVars
<1>3. ASSUME NEW w \in Workers, Claim(w) \/ ClaimLost(w) PROVE HeldIsCommitted'
  BY <1>3 DEF Claim, ClaimLost, MarkProcessing, Claimable, Stuck, workerVars
<1>4. ASSUME NEW w \in Workers, NEW s \in Seqs, JobNext(w, s) PROVE HeldIsCommitted'
  <2>1. \A v \in Workers : batch'[v] \subseteq batch[v]
    BY <1>4 DEF JobNext, PublishOk, PublishError, MarkPublished, MarkPublishedError, MarkFailed,
       MarkFailedError, NextJob, Drop
  <2>2. \/ status' = status
        \/ \E x \in {"published", "failed", "dead"} : status' = [status EXCEPT ![s] = x]
    BY <1>4, JobWrites
  <2> QED
    BY <2>1, <2>2
<1>5. CASE TimeNext
  BY <1>5 DEF TimeNext, LeaseExpire, RetryDue, workerVars
<1>6. CASE UNCHANGED vars
  BY <1>6 DEF vars
<1> QED
  BY <1>1, <1>2, <1>3, <1>4, <1>5, <1>6 DEF Next, WorkerNext

Rows == [s \in Seqs |-> LogState(s)]

\* A step that leaves every row's state in the log alone, and the stream, is a
\* stutter of the log, or the overrun.
LEMMA Silent ==
    ASSUME TypeOK, \A s \in Seqs : LogState(s)' = LogState(s), stream' = stream, slow' \in Nat, slow' >= slow
    PROVE  [Log!Next]_(Log!logVars)
<1>1. Rows' = Rows
  BY DEF Rows
<1>2. CASE slow' > 0 <=> slow > 0
  BY <1>1, <1>2 DEF Log!logVars, Rows
<1>3. CASE ~(slow' > 0 <=> slow > 0)
  <2>1. (slow' > 0) = TRUE
    BY <1>3 DEF TypeOK
  <2>2. Log!Overrun
    BY <1>1, <2>1 DEF Log!Overrun, Rows
  <2> QED
    BY <2>2 DEF Log!Next
<1> QED
  BY <1>2, <1>3

\* A step that moves one row is a step of the log that moves one event.
LEMMA OneRow ==
    ASSUME TypeOK, NEW s \in Seqs, NEW x \in Statuses, status' = [status EXCEPT ![s] = x]
    PROVE  Rows' = [Rows EXCEPT ![s] = LogState(s)']
  BY DEF Rows, LogState, TypeOK
LEMMA LogInit == Init => Log!Init
  BY DEF Init, Log!Init, LogState, Seqs

\* Every step of the outbox is a step of the log or changes nothing in it.
LEMMA LogStep == IndInv /\ HeldIsCommitted /\ [Next]_vars => [Log!Next]_(Log!logVars)
<1> SUFFICES ASSUME IndInv, HeldIsCommitted, [Next]_vars PROVE [Log!Next]_(Log!logVars)
  OBVIOUS
<1>0. TypeOK /\ TypeOK'
  BY TypeStep DEF IndInv
<1>n. slow \in Nat /\ slow' \in Nat
  BY <1>0, OutboxAssumption DEF TypeOK
<1>1. ASSUME NEW s \in Seqs, Enqueue(s) \/ CommitEnqueue(s) \/ RollbackEnqueue(s)
      PROVE  [Log!Next]_(Log!logVars)
  <2>1. PICK x \in {"inserting", "pending", "void"} : status' = [status EXCEPT ![s] = x]
    BY <1>1 DEF Enqueue, CommitEnqueue, RollbackEnqueue
  <2>2. Rows' = [Rows EXCEPT ![s] = LogState(s)'] /\ stream' = stream /\ slow' = slow
    BY <1>0, <1>1, <2>1, OneRow DEF Statuses, Enqueue, CommitEnqueue, RollbackEnqueue
  <2>3. CASE Enqueue(s)
    <3>1. LogState(s) = "free" /\ LogState(s)' = "open"
      BY <1>0, <2>3 DEF Enqueue, LogState, TypeOK
    <3>2. Log!Begin(s)
      BY <2>2, <3>1 DEF Log!Begin, Rows
    <3> QED
      BY <3>2 DEF Log!Next
  <2>4. CASE CommitEnqueue(s) \/ RollbackEnqueue(s)
    <3>1. LogState(s) = "open" /\ LogState(s)' \in {"accepted", "void"}
      BY <1>0, <2>4 DEF CommitEnqueue, RollbackEnqueue, LogState, TypeOK
    <3>2. Log!Decide(s)
      BY <2>2, <3>1 DEF Log!Decide, Rows
    <3> QED
      BY <3>2 DEF Log!Next
  <2> QED
    BY <1>1, <2>3, <2>4
<1>2. ASSUME NEW w \in Workers, StartWorker(w) \/ Claim(w) \/ ClaimLost(w) \/ Crash(w)
      PROVE  [Log!Next]_(Log!logVars)
  <2>1. \A s \in Seqs : LogState(s)' = LogState(s)
    <3>1. CASE StartWorker(w)
      BY <1>0, <3>1 DEF StartWorker, Stuck, LogState, TypeOK
    <3>2. CASE Claim(w) \/ ClaimLost(w)
      <4>1. PICK B \in SUBSET Claimable : MarkProcessing(B)
        BY <3>2 DEF Claim, ClaimLost
      <4>2. status \in [Seqs -> Statuses]
        BY <1>0 DEF TypeOK
      <4>3. ASSUME NEW s \in Seqs
            PROVE  status'[s] = status[s]
                   \/ (status[s] \in {"pending", "failed", "processing"} /\ status'[s] = "processing")
        BY <4>1, <4>2 DEF MarkProcessing, Claimable, Stuck
      <4> QED
        BY <4>3, Zenon DEF LogState
    <3>3. CASE Crash(w)
      BY <3>3 DEF Crash, rowVars, LogState
    <3> QED
      BY <1>2, <3>1, <3>2, <3>3
  <2>2. stream' = stream /\ slow' = slow
    BY <1>2 DEF StartWorker, Claim, ClaimLost, Crash
  <2> QED
    BY <1>0, <1>n, <2>1, <2>2, Silent
<1>3. ASSUME NEW w \in Workers, NEW s \in Seqs, JobNext(w, s)
      PROVE  [Log!Next]_(Log!logVars)
  <2>1. IsJob(w, s) /\ slow' = slow
    BY <1>3 DEF JobNext, PublishOk, PublishError, MarkPublished, MarkPublishedError, MarkFailed,
       MarkFailedError
  <2>2. LogState(s) \in {"accepted", "delivered", "dropped"}
    BY <2>1 DEF IsJob, HeldIsCommitted, LogState
  <2>3. slow = 0 => LogState(s) = "accepted"
    BY <2>1 DEF IsJob, IndInv, HeldIsLeased, LogState
  <2>4. CASE PublishOk(w, s) \/ PublishError(w, s)
    <3>1. status' = status /\ stream' \in {stream, stream \cup {s}}
      BY <2>4 DEF PublishOk, PublishError, rowVars
    <3>2. Rows' = Rows /\ \A r \in Seqs : LogState(r)' = LogState(r)
      BY <3>1 DEF Rows, LogState
    <3>3. CASE stream' = stream
      BY <1>0, <1>n, <2>1, <3>2, <3>3, Silent
    <3>4. CASE stream' = stream \cup {s}
      <4>1. Log!Store(s)
        BY <2>1, <2>2, <3>2, <3>4 DEF Log!Store, Log!Accepted, Rows
      <4> QED
        BY <4>1 DEF Log!Next
    <3> QED
      BY <3>1, <3>3, <3>4
  <2>5. CASE MarkPublished(w, s) \/ MarkPublishedError(w, s) \/ MarkFailed(w, s) \/ MarkFailedError(w, s)
    <3>1. stream' = stream
      BY <2>5 DEF MarkPublished, MarkPublishedError, MarkFailed, MarkFailedError
    <3>2. CASE status' = status
      <4>1. \A r \in Seqs : LogState(r)' = LogState(r)
        BY <3>2 DEF LogState
      <4> QED
        BY <1>0, <1>n, <2>1, <3>1, <4>1, Silent
    <3>3. ASSUME NEW x \in {"published", "failed", "dead"}, status' = [status EXCEPT ![s] = x]
          PROVE  [Log!Next]_(Log!logVars)
      <4>1. Rows' = [Rows EXCEPT ![s] = LogState(s)']
        BY <1>0, <3>3, OneRow DEF Statuses
      <4>2. LogState(s)' \in {"accepted", "delivered", "dropped"}
        BY <1>0, <3>3 DEF LogState, TypeOK
      <4>3. LogState(s)' = "delivered" => s \in stream
        <5>1. LogState(s)' = "delivered" => status'[s] = "published"
          BY DEF LogState
        <5>2. TypeOK' /\ PublishedWasStored'
          BY IndStep DEF IndInv
        <5> QED
          BY <3>1, <5>1, <5>2 DEF PublishedWasStored
      <4>4. Log!Settle(s, LogState(s)')
        BY <1>n, <2>1, <2>2, <2>3, <3>1, <4>1, <4>3 DEF Log!Settle, Log!Accepted, Rows
      <4> QED
        BY <4>2, <4>4 DEF Log!Next
    <3> QED
      BY <1>3, <3>2, <3>3, JobWrites
  <2> QED
    BY <1>3, <2>4, <2>5 DEF JobNext
<1>4. CASE TimeNext
  <2>1. status' = status /\ stream' = stream /\ slow' >= slow
    BY <1>4, <1>n DEF TimeNext, LeaseExpire, RetryDue
  <2>2. \A s \in Seqs : LogState(s)' = LogState(s)
    BY <2>1 DEF LogState
  <2> QED
    BY <1>0, <1>n, <2>1, <2>2, Silent
<1>5. CASE UNCHANGED vars
  <2>1. \A s \in Seqs : LogState(s)' = LogState(s)
    BY <1>5 DEF vars, LogState
  <2> QED
    BY <1>0, <1>n, <1>5, <2>1, Silent DEF vars
<1> QED
  BY <1>1, <1>2, <1>3, <1>4, <1>5 DEF Next, ProducerNext, WorkerNext

\* The outbox keeps the promise of EventLog: whatever crashes, lost answers and
\* races there are, the rows behave as a log in which a committed event is decided
\* once (unless a lease ran out under its worker), and delivered only when the
\* broker has it.
THEOREM OutboxIsEventLog == Spec => ImplementsEventLog
<1>1. Spec => []HeldIsCommitted
  BY HeldInit, HeldStep, TypeCorrect, PTL DEF Spec
<1> QED
  BY <1>1, LogInit, LogStep, Inductive, PTL DEF Spec, ImplementsEventLog, Log!Spec
=============================================================================
