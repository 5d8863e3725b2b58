------------------------- MODULE LiveKitWebhookProofs -------------------------
(* Proofs about the claims of webhook events and about the rooms of the     *)
(* SFU, for any number of events, deliveries, faults, users and streams.    *)
EXTENDS LiveKitWebhook, SfuRoom, FiniteSetTheorems, TLAPS

\* Deliveries in flight carry different tokens.
TokensDiffer ==
    \A d \in Deliveries : pc[d] # "idle" =>
        /\ tok[d] <= lastToken
        /\ \A c \in Deliveries : pc[c] # "idle" /\ tok[c] = tok[d] => c = d

\* A delivery past processing, and a processed row, have effects to show.
EffectsHappened ==
    /\ \A d \in Deliveries : pc[d] = "mark" => effects[ev[d]] > 0
    /\ \A e \in Events : status[e] = "processed" => effects[e] > 0

\* While no lease ran out under a delivery at work, whoever works owns a live
\* claim.
WorkersOwn ==
    slow = 0 => \A d \in Deliveries : pc[d] \in Working =>
        Owns(d) /\ lease[ev[d]] = "live"

Inv == TypeOK /\ TokensDiffer /\ EffectsHappened /\ AckedWasProcessed /\ WorkersOwn

LEMMA IndInit == Init => Inv
  BY WebhookAssumption
  DEF Init, Inv, TypeOK, TokensDiffer, EffectsHappened, AckedWasProcessed, WorkersOwn,
      Tokens, Steps, Working

LEMMA OwnersDiffer == Inv => NoOverlap
  BY DEF Inv, TypeOK, TokensDiffer, WorkersOwn, NoOverlap, Working, Owns

LEMMA DeliverStep ==
    ASSUME Inv, NEW d \in Deliveries, NEW e \in Events, Deliver(d, e)
    PROVE  Inv'
<1> USE WebhookAssumption DEF Deliver, Goto, rowVars
<1>1. TypeOK'
  BY DEF Inv, TypeOK, Tokens, Steps
<1>2. TokensDiffer'
  BY DEF Inv, TypeOK, TokensDiffer, Tokens
<1>3. EffectsHappened' /\ AckedWasProcessed'
  BY DEF Inv, TypeOK, EffectsHappened, AckedWasProcessed
<1>4. WorkersOwn'
  BY DEF Inv, TypeOK, WorkersOwn, Owns, Working
<1> QED
  BY <1>1, <1>2, <1>3, <1>4 DEF Inv

\* What InsertClaim and Reclaim do when they succeed.
LEMMA ClaimStep ==
    ASSUME Inv, NEW d \in Deliveries, pc[d] \in {"insert", "reclaim"},
           status[ev[d]] = "none" \/ Reclaimable(ev[d]),
           status' = [status EXCEPT ![ev[d]] = "processing"],
           token' = [token EXCEPT ![ev[d]] = tok[d]],
           lease' = [lease EXCEPT ![ev[d]] = "live"],
           Goto(d, "process"),
           UNCHANGED <<ev, tok, lastToken, effects, acked, faults, slow>>
    PROVE  Inv'
<1> USE DEF Goto
<1>0. ev[d] \in Events
  BY DEF Inv, TypeOK
<1>1. TypeOK'
  BY <1>0 DEF Inv, TypeOK, Steps
<1>2. TokensDiffer'
  BY DEF Inv, TypeOK, TokensDiffer
<1>3. EffectsHappened' /\ AckedWasProcessed'
  BY <1>0 DEF Inv, TypeOK, EffectsHappened, AckedWasProcessed
<1>4. WorkersOwn'
  <2> SUFFICES ASSUME slow = 0, NEW c \in Deliveries, pc'[c] \in Working
               PROVE  Owns(c)' /\ lease'[ev[c]] = "live"
    BY DEF WorkersOwn
  <2>1. CASE c = d
    BY <1>0, <2>1 DEF Inv, TypeOK, Owns
  <2>2. CASE c # d
    <3>1. pc[c] \in Working /\ Owns(c) /\ lease[ev[c]] = "live"
      BY <2>2 DEF Inv, TypeOK, WorkersOwn
    <3>2. ev[c] # ev[d]
      BY <3>1 DEF Owns, Reclaimable
    <3> QED
      BY <1>0, <3>1, <3>2 DEF Inv, TypeOK, Owns
  <2> QED
    BY <2>1, <2>2
<1> QED
  BY <1>1, <1>2, <1>3, <1>4 DEF Inv

\* A step that moves a delivery to a step outside Working and changes nothing
\* that the invariant reads but, perhaps, the answers.
LEMMA MoveStep ==
    ASSUME Inv, NEW d \in Deliveries, pc[d] # "idle", NEW step \in {"idle", "select", "reclaim"},
           Goto(d, step), UNCHANGED <<rowVars, ev, tok, lastToken, effects, slow>>,
           faults' \in 0..MaxFaults,
           \/ acked' = acked
           \/ Ack(ev[d]) /\ status[ev[d]] = "processed"
    PROVE  Inv'
<1> USE DEF Goto, rowVars
<1>0. ev[d] \in Events
  BY DEF Inv, TypeOK
<1>1. TypeOK'
  BY <1>0 DEF Inv, TypeOK, Steps, Ack
<1>2. TokensDiffer'
  BY DEF Inv, TypeOK, TokensDiffer
<1>3. EffectsHappened' /\ AckedWasProcessed'
  BY <1>0 DEF Inv, TypeOK, EffectsHappened, AckedWasProcessed, Ack
<1>4. WorkersOwn'
  BY DEF Inv, TypeOK, WorkersOwn, Owns, Working
<1> QED
  BY <1>1, <1>2, <1>3, <1>4 DEF Inv

LEMMA ProcessStep ==
    ASSUME Inv, NEW d \in Deliveries, Process(d)
    PROVE  Inv'
<1> USE DEF Process, Goto, rowVars
<1>1. TypeOK'
  BY DEF Inv, TypeOK, Steps
<1>2. TokensDiffer'
  BY DEF Inv, TypeOK, TokensDiffer
<1>3. EffectsHappened' /\ AckedWasProcessed'
  BY DEF Inv, TypeOK, EffectsHappened, AckedWasProcessed
<1>4. WorkersOwn'
  BY DEF Inv, TypeOK, WorkersOwn, Owns, Working
<1> QED
  BY <1>1, <1>2, <1>3, <1>4 DEF Inv

LEMMA MarkStep ==
    ASSUME Inv, NEW d \in Deliveries, MarkProcessed(d)
    PROVE  Inv'
<1> USE DEF MarkProcessed, Goto
<1>0. ev[d] \in Events
  BY DEF Inv, TypeOK
<1>1. TypeOK'
  BY <1>0 DEF Inv, TypeOK, Steps, Ack, Owns
<1>2. TokensDiffer'
  BY DEF Inv, TypeOK, TokensDiffer
<1>3. EffectsHappened' /\ AckedWasProcessed'
  BY <1>0 DEF Inv, TypeOK, EffectsHappened, AckedWasProcessed, Ack
<1>4. WorkersOwn'
  <2> SUFFICES ASSUME slow = 0, NEW c \in Deliveries, pc'[c] \in Working
               PROVE  Owns(c)' /\ lease'[ev[c]] = "live"
    BY DEF WorkersOwn
  <2>1. c # d /\ pc[c] \in Working
    BY DEF Inv, TypeOK, Working
  <2>2. Owns(c) /\ lease[ev[c]] = "live"
    BY <2>1 DEF Inv, WorkersOwn
  <2>3. ev[c] # ev[d]
    BY <2>1, OwnersDiffer DEF NoOverlap, Working
  <2> QED
    BY <1>0, <2>2, <2>3 DEF Inv, TypeOK, Owns
<1> QED
  BY <1>1, <1>2, <1>3, <1>4 DEF Inv

LEMMA ExpireStep ==
    ASSUME Inv, NEW e \in Events, LeaseExpire(e)
    PROVE  Inv'
<1> USE DEF LeaseExpire
<1>1. TypeOK'
  BY WebhookAssumption DEF Inv, TypeOK
<1>2. TokensDiffer' /\ EffectsHappened' /\ AckedWasProcessed'
  BY DEF Inv, TokensDiffer, EffectsHappened, AckedWasProcessed
<1>3. WorkersOwn'
  <2> SUFFICES ASSUME slow' = 0, NEW d \in Deliveries, pc[d] \in Working
               PROVE  Owns(d)' /\ lease'[ev[d]] = "live"
    BY DEF WorkersOwn
  <2>1. ~Held(e) /\ slow = 0
    BY DEF Inv, TypeOK
  <2>2. Owns(d) /\ lease[ev[d]] = "live" /\ ev[d] # e
    BY <2>1 DEF Inv, WorkersOwn, Held
  <2> QED
    BY <2>2 DEF Inv, TypeOK, Owns
<1> QED
  BY <1>1, <1>2, <1>3 DEF Inv

LEMMA IndStep == Inv /\ [Next]_vars => Inv'
<1> SUFFICES ASSUME Inv, [Next]_vars PROVE Inv'
  OBVIOUS
<1>1. ASSUME NEW d \in Deliveries, NEW e \in Events, Deliver(d, e) PROVE Inv'
  BY <1>1, DeliverStep
<1>2. ASSUME NEW d \in Deliveries, InsertClaim(d) PROVE Inv'
  <2>1. CASE status[ev[d]] = "none"
    BY <1>2, <2>1, ClaimStep DEF InsertClaim
  <2>2. CASE status[ev[d]] # "none"
    BY <1>2, <2>2, MoveStep DEF InsertClaim, Inv, TypeOK
  <2> QED
    BY <2>1, <2>2
<1>3. ASSUME NEW d \in Deliveries, SelectClaim(d) PROVE Inv'
  BY <1>3, MoveStep DEF SelectClaim, Duplicate, Inv, TypeOK
<1>4. ASSUME NEW d \in Deliveries, Reclaim(d) PROVE Inv'
  <2>1. CASE Reclaimable(ev[d])
    BY <1>4, <2>1, ClaimStep DEF Reclaim
  <2>2. CASE ~Reclaimable(ev[d])
    BY <1>4, <2>2, MoveStep DEF Reclaim, Inv, TypeOK
  <2> QED
    BY <2>1, <2>2
<1>5. ASSUME NEW d \in Deliveries, Process(d) PROVE Inv'
  BY <1>5, ProcessStep
<1>6. ASSUME NEW d \in Deliveries, MarkProcessed(d) PROVE Inv'
  BY <1>6, MarkStep
<1>7. ASSUME NEW d \in Deliveries, Fail(d) PROVE Inv'
  <2>1. faults' \in 0..MaxFaults
    BY <1>7, WebhookAssumption DEF Fail, Fault, Inv, TypeOK
  <2> QED
    BY <1>7, <2>1, MoveStep DEF Fail
<1>8. ASSUME NEW e \in Events, LeaseExpire(e) PROVE Inv'
  BY <1>8, ExpireStep
<1>9. CASE UNCHANGED vars
  BY <1>9 DEF vars, Inv, TypeOK, TokensDiffer, EffectsHappened, AckedWasProcessed, WorkersOwn,
     Owns
<1> QED
  BY <1>1, <1>2, <1>3, <1>4, <1>5, <1>6, <1>7, <1>8, <1>9 DEF Next, HandlerNext

LEMMA Inductive == Spec => []Inv
  BY IndInit, IndStep, PTL DEF Spec

-----------------------------------------------------------------------------
(* Why effects repeat.  A run of processLiveKitWebhook is paid for when its  *)
(* delivery claims the event: the first claim by the missing row, a later    *)
(* one by the claim that expired, and a claim expires when nobody holds it,  *)
(* which took a failure, or under its holder, which is counted as slow.      *)

\* The deliveries that have claimed e and not processed it yet.
AtWork(e) == {d \in Deliveries : pc[d] = "process" /\ ev[d] = e}

\* e can be claimed once more without a further fault.
Claimless(e) ==
    \/ status[e] = "none"
    \/ lease[e] = "expired"
    \/ lease[e] = "live" /\ ~Held(e)

Owed(e) == IF Claimless(e) THEN 1 ELSE 0

Paid == \A e \in Events : effects[e] + Cardinality(AtWork(e)) + Owed(e) <= 1 + faults + slow

LEMMA AtWorkFinite ==
    \A e \in Events : IsFiniteSet(AtWork(e)) /\ Cardinality(AtWork(e)) \in Nat
  BY WebhookAssumption, FS_Subset, FS_CardinalityType DEF AtWork

LEMMA PaidInit == Init => Paid
<1> SUFFICES ASSUME Init, NEW e \in Events
             PROVE  effects[e] + Cardinality(AtWork(e)) + Owed(e) <= 1 + faults + slow
  BY DEF Paid
<1>1. AtWork(e) = {}
  BY DEF Init, AtWork
<1> QED
  BY <1>1, FS_EmptySet DEF Init, Owed

\* A delivery that takes a claim of e turns what was owed into work.
LEMMA ClaimPays ==
    ASSUME Inv, Paid, NEW d \in Deliveries, pc[d] \in {"insert", "reclaim"},
           status[ev[d]] = "none" \/ Reclaimable(ev[d]),
           status' = [status EXCEPT ![ev[d]] = "processing"],
           token' = [token EXCEPT ![ev[d]] = tok[d]],
           lease' = [lease EXCEPT ![ev[d]] = "live"],
           Goto(d, "process"),
           UNCHANGED <<ev, tok, lastToken, effects, acked, faults, slow>>
    PROVE  Paid'
<1> USE DEF Goto
<1> SUFFICES ASSUME NEW e \in Events
             PROVE  effects[e] + Cardinality(AtWork(e)') + Owed(e)' <= 1 + faults + slow
  BY DEF Paid
<1>0. /\ ev[d] \in Events /\ effects[e] \in Nat /\ faults \in Nat /\ slow \in Nat
      /\ effects[e] + Cardinality(AtWork(e)) + Owed(e) <= 1 + faults + slow
  BY DEF Inv, TypeOK, Paid
<1>1. CASE e = ev[d]
  <2>1. Claimless(e)
    BY <1>0, <1>1 DEF Inv, TypeOK, Claimless, Reclaimable
  <2>2. AtWork(e)' = AtWork(e) \cup {d} /\ d \notin AtWork(e)
    BY <1>1 DEF AtWork, Inv, TypeOK
  <2>3. Cardinality(AtWork(e)') = Cardinality(AtWork(e)) + 1
    BY <2>2, AtWorkFinite, FS_AddElement
  <2>4. ~Claimless(e)'
    <3>1. Held(e)'
      BY <1>0, <1>1 DEF Held, Working, Owns, Inv, TypeOK
    <3> QED
      BY <1>0, <1>1, <3>1 DEF Claimless, Inv, TypeOK
  <2> QED
    BY <1>0, <2>1, <2>3, <2>4, AtWorkFinite DEF Owed
<1>2. CASE e # ev[d]
  <2>1. AtWork(e)' = AtWork(e)
    BY <1>2 DEF AtWork, Inv, TypeOK
  <2>2. Held(e)' <=> Held(e)
    BY <1>2 DEF Held, Working, Owns, Inv, TypeOK
  <2> QED
    BY <1>0, <1>2, <2>1, <2>2 DEF Owed, Claimless, Inv, TypeOK
<1> QED
  BY <1>1, <1>2

\* Moving between the steps outside Working costs nothing.
LEMMA IdleMovePays ==
    ASSUME Inv, Paid, NEW d \in Deliveries, pc[d] \notin Working,
           pc' = [pc EXCEPT ![d] = pc'[d]], pc'[d] \notin Working,
           \A c \in Deliveries \ {d} : ev'[c] = ev[c] /\ tok'[c] = tok[c],
           UNCHANGED <<rowVars, effects, slow>>, faults' \in {faults, faults + 1}
    PROVE  Paid'
<1> SUFFICES ASSUME NEW e \in Events
             PROVE  effects[e] + Cardinality(AtWork(e)') + Owed(e)' <= 1 + faults' + slow
  BY DEF Paid
<1>0. /\ effects[e] \in Nat /\ faults \in Nat /\ slow \in Nat
      /\ effects[e] + Cardinality(AtWork(e)) + Owed(e) <= 1 + faults + slow
  BY DEF Inv, TypeOK, Paid
<1>1. \A c \in Deliveries : c # d => pc'[c] = pc[c]
  BY DEF Inv, TypeOK
<1>2. AtWork(e)' = AtWork(e)
  BY <1>1 DEF AtWork, Working
<1>3. Held(e)' <=> Held(e)
  BY <1>1 DEF Held, Owns, rowVars
<1>4. Owed(e)' = Owed(e) /\ Owed(e) \in Nat
  BY <1>3 DEF Owed, Claimless, rowVars
<1> QED
  BY <1>0, <1>2, <1>4, AtWorkFinite

LEMMA ProcessPays ==
    ASSUME Inv, Paid, NEW d \in Deliveries, Process(d)
    PROVE  Paid'
<1> USE DEF Process, Goto
<1> SUFFICES ASSUME NEW e \in Events
             PROVE  effects'[e] + Cardinality(AtWork(e)') + Owed(e)' <= 1 + faults + slow
  BY DEF Paid
<1>0. /\ effects[e] \in Nat /\ faults \in Nat /\ slow \in Nat
      /\ effects[e] + Cardinality(AtWork(e)) + Owed(e) <= 1 + faults + slow
  BY DEF Inv, TypeOK, Paid
<1>1. Held(e)' <=> Held(e)
  BY DEF Held, Owns, Working, rowVars, Inv, TypeOK
<1>2. Owed(e)' = Owed(e) /\ Owed(e) \in Nat
  BY <1>1 DEF Owed, Claimless, rowVars
<1>3. CASE e = ev[d]
  <2>1. AtWork(e)' = AtWork(e) \ {d} /\ d \in AtWork(e)
    BY <1>3 DEF AtWork, Inv, TypeOK
  <2>2. Cardinality(AtWork(e)') = Cardinality(AtWork(e)) - 1
    BY <2>1, AtWorkFinite, FS_RemoveElement
  <2>3. effects'[e] = effects[e] + 1
    BY <1>3 DEF Inv, TypeOK
  <2> QED
    BY <1>0, <1>2, <2>2, <2>3, AtWorkFinite
<1>4. CASE e # ev[d]
  <2>1. AtWork(e)' = AtWork(e) /\ effects'[e] = effects[e]
    BY <1>4 DEF AtWork, Inv, TypeOK
  <2> QED
    BY <1>0, <1>2, <2>1
<1> QED
  BY <1>3, <1>4

LEMMA MarkPays ==
    ASSUME Inv, Paid, NEW d \in Deliveries, MarkProcessed(d)
    PROVE  Paid'
<1> USE DEF MarkProcessed, Goto
<1> SUFFICES ASSUME NEW e \in Events
             PROVE  effects[e] + Cardinality(AtWork(e)') + Owed(e)' <= 1 + faults + slow
  BY DEF Paid
<1>0. /\ ev[d] \in Events /\ effects[e] \in Nat /\ faults \in Nat /\ slow \in Nat
      /\ effects[e] + Cardinality(AtWork(e)) + Owed(e) <= 1 + faults + slow
  BY DEF Inv, TypeOK, Paid
<1>1. AtWork(e)' = AtWork(e)
  BY DEF AtWork, Inv, TypeOK
<1>2. Owed(e)' <= Owed(e) /\ Owed(e) \in Nat /\ Owed(e)' \in Nat
  <2>1. CASE Owns(d) /\ e = ev[d]
    BY <1>0, <2>1 DEF Owed, Claimless, Inv, TypeOK
  <2>2. CASE ~(Owns(d) /\ e = ev[d])
    <3>1. Held(e)' <=> Held(e)
      BY <1>0, <2>2 DEF Held, Owns, Working, Inv, TypeOK
    <3>2. status'[e] = status[e] /\ lease'[e] = lease[e]
      BY <1>0, <2>2 DEF Inv, TypeOK
    <3> QED
      BY <3>1, <3>2 DEF Owed, Claimless
  <2> QED
    BY <2>1, <2>2
<1> QED
  BY <1>0, <1>1, <1>2, AtWorkFinite

\* A failure may leave one claim that nobody holds.
LEMMA FailPays ==
    ASSUME Inv, Paid, NEW d \in Deliveries, Fail(d)
    PROVE  Paid'
<1> USE DEF Fail, Goto, Fault
<1> SUFFICES ASSUME NEW e \in Events
             PROVE  effects[e] + Cardinality(AtWork(e)') + Owed(e)' <= 1 + faults' + slow
  BY DEF Paid
<1>0. /\ effects[e] \in Nat /\ faults \in Nat /\ slow \in Nat /\ faults' = faults + 1
      /\ effects[e] + Cardinality(AtWork(e)) + Owed(e) <= 1 + faults + slow
  BY DEF Inv, TypeOK, Paid
<1>1. AtWork(e)' \subseteq AtWork(e)
  BY DEF AtWork, Inv, TypeOK
<1>2. /\ Cardinality(AtWork(e)') <= Cardinality(AtWork(e))
      /\ Cardinality(AtWork(e)') \in Nat /\ Cardinality(AtWork(e)) \in Nat
  BY <1>1, AtWorkFinite, FS_Subset, FS_CardinalityType
<1>3. Owed(e) \in {0, 1} /\ Owed(e)' \in {0, 1}
  BY DEF Owed
<1> QED
  BY <1>0, <1>2, <1>3

\* An expiry gives the event away, and is counted when somebody held it.
LEMMA ExpirePays ==
    ASSUME Inv, Paid, NEW f \in Events, LeaseExpire(f)
    PROVE  Paid'
<1> USE DEF LeaseExpire
<1> SUFFICES ASSUME NEW e \in Events
             PROVE  effects[e] + Cardinality(AtWork(e)') + Owed(e)' <= 1 + faults + slow'
  BY DEF Paid
<1>0. /\ effects[e] \in Nat /\ faults \in Nat /\ slow \in Nat /\ slow' \in {slow, slow + 1}
      /\ effects[e] + Cardinality(AtWork(e)) + Owed(e) <= 1 + faults + slow
  BY DEF Inv, TypeOK, Paid
<1>1. AtWork(e)' = AtWork(e) /\ Cardinality(AtWork(e)) \in Nat
  BY AtWorkFinite DEF AtWork
<1>2. Owed(e) \in {0, 1} /\ Owed(e)' \in {0, 1}
  BY DEF Owed
<1>3. CASE e = f /\ ~Held(f)
  BY <1>0, <1>1, <1>2, <1>3 DEF Owed, Claimless
<1>4. CASE e = f /\ Held(f)
  BY <1>0, <1>1, <1>2, <1>4
<1>5. CASE e # f
  <2>1. Held(e)' <=> Held(e)
    BY DEF Held, Owns
  <2>2. Owed(e)' = Owed(e)
    BY <1>5, <2>1 DEF Owed, Claimless, Inv, TypeOK
  <2> QED
    BY <1>0, <1>1, <1>2, <2>2
<1> QED
  BY <1>3, <1>4, <1>5

LEMMA PaidStep == Inv /\ Paid /\ [Next]_vars => Paid'
<1> SUFFICES ASSUME Inv, Paid, [Next]_vars PROVE Paid'
  OBVIOUS
<1>1. ASSUME NEW d \in Deliveries, NEW e \in Events, Deliver(d, e) PROVE Paid'
  BY <1>1, IdleMovePays DEF Deliver, Goto, Working, Inv, TypeOK
<1>2. ASSUME NEW d \in Deliveries, InsertClaim(d) PROVE Paid'
  <2>1. CASE status[ev[d]] = "none"
    BY <1>2, <2>1, ClaimPays DEF InsertClaim
  <2>2. CASE status[ev[d]] # "none"
    BY <1>2, <2>2, IdleMovePays DEF InsertClaim, Goto, Working, Inv, TypeOK
  <2> QED
    BY <2>1, <2>2
<1>3. ASSUME NEW d \in Deliveries, SelectClaim(d) PROVE Paid'
  <2>1. PICK step \in {"idle", "reclaim"} : Goto(d, step)
    BY <1>3 DEF SelectClaim
  <2> QED
    BY <1>3, <2>1, IdleMovePays DEF SelectClaim, Goto, Working, Inv, TypeOK
<1>4. ASSUME NEW d \in Deliveries, Reclaim(d) PROVE Paid'
  <2>1. CASE Reclaimable(ev[d])
    BY <1>4, <2>1, ClaimPays DEF Reclaim
  <2>2. CASE ~Reclaimable(ev[d])
    BY <1>4, <2>2, IdleMovePays DEF Reclaim, Goto, Working, Inv, TypeOK
  <2> QED
    BY <2>1, <2>2
<1>5. ASSUME NEW d \in Deliveries, Process(d) PROVE Paid'
  BY <1>5, ProcessPays
<1>6. ASSUME NEW d \in Deliveries, MarkProcessed(d) PROVE Paid'
  BY <1>6, MarkPays
<1>7. ASSUME NEW d \in Deliveries, Fail(d) PROVE Paid'
  BY <1>7, FailPays
<1>8. ASSUME NEW e \in Events, LeaseExpire(e) PROVE Paid'
  BY <1>8, ExpirePays
<1>9. CASE UNCHANGED vars
  BY <1>9 DEF vars, Paid, AtWork, Owed, Claimless, Held, Owns
<1> QED
  BY <1>1, <1>2, <1>3, <1>4, <1>5, <1>6, <1>7, <1>8, <1>9 DEF Next, HandlerNext

-----------------------------------------------------------------------------
(* Theorems. *)

\* Every reachable state is well typed, and a row has a lease exactly while it
\* is being processed.
THEOREM TypeCorrect == Spec => []TypeOK
<1>1. Inv => TypeOK
  BY DEF Inv
<1> QED
  BY <1>1, Inductive, PTL

\* An event acknowledged to LiveKit has had its effects.
THEOREM AckMeansDone == Spec => []AckedWasProcessed
<1>1. Inv => AckedWasProcessed
  BY DEF Inv
<1> QED
  BY <1>1, Inductive, PTL

\* Claims exclude each other as long as leases outlive the work.
THEOREM ClaimsExclude == Spec => []NoOverlap
  BY OwnersDiffer, Inductive, PTL

\* Each run of an event's effects beyond the first is paid for by a failed
\* delivery or by a lease that ran out under a delivery at work, for any number
\* of events, deliveries and backends.
THEOREM RepeatsHaveReasons == Spec => []RepeatsAreExplained
<1>1. Inv /\ Paid => RepeatsAreExplained
  <2> SUFFICES ASSUME Inv, Paid, NEW e \in Events
               PROVE  effects[e] <= 1 + faults + slow
    BY DEF RepeatsAreExplained
  <2>1. /\ effects[e] \in Nat /\ faults \in Nat /\ slow \in Nat
        /\ effects[e] + Cardinality(AtWork(e)) + Owed(e) <= 1 + faults + slow
    BY DEF Inv, TypeOK, Paid
  <2>2. Owed(e) \in Nat
    BY DEF Owed
  <2> QED
    BY <2>1, <2>2, AtWorkFinite
<1> QED
  BY <1>1, PaidInit, PaidStep, Inductive, PTL DEF Spec

\* A processed event stays processed, and late copies of it have no effect.
THEOREM LateCopiesHarmless == Spec => ProcessedIsFinal
<1> DEFINE A == \A e \in Events : status[e] = "processed" =>
                  /\ status'[e] = "processed" /\ token'[e] = token[e]
                  /\ slow = 0 => effects'[e] = effects[e]
<1>1. Inv /\ [Next]_vars => [A]_vars
  <2> SUFFICES ASSUME Inv, Next, NEW e \in Events, status[e] = "processed"
               PROVE  /\ status'[e] = "processed" /\ token'[e] = token[e]
                      /\ slow = 0 => effects'[e] = effects[e]
    OBVIOUS
  <2>1. ASSUME NEW d \in Deliveries, NEW f \in Events, Deliver(d, f)
        PROVE  UNCHANGED <<rowVars, effects>>
    BY <2>1 DEF Deliver
  <2>2. ASSUME NEW d \in Deliveries, InsertClaim(d) \/ Reclaim(d)
        PROVE  status'[e] = "processed" /\ token'[e] = token[e] /\ effects' = effects
    BY <2>2 DEF InsertClaim, Reclaim, Reclaimable, rowVars, Inv, TypeOK
  <2>3. ASSUME NEW d \in Deliveries, SelectClaim(d) \/ Fail(d)
        PROVE  UNCHANGED <<rowVars, effects>>
    BY <2>3 DEF SelectClaim, Fail
  <2>4. ASSUME NEW d \in Deliveries, Process(d)
        PROVE  /\ UNCHANGED rowVars
               /\ slow = 0 => effects'[e] = effects[e]
    BY <2>4 DEF Process, Inv, TypeOK, WorkersOwn, Working, Owns
  <2>5. ASSUME NEW d \in Deliveries, MarkProcessed(d)
        PROVE  status'[e] = "processed" /\ token'[e] = token[e] /\ effects' = effects
    BY <2>5 DEF MarkProcessed, Inv, TypeOK
  <2>6. ASSUME NEW f \in Events, LeaseExpire(f)
        PROVE  UNCHANGED <<status, token, effects>>
    BY <2>6 DEF LeaseExpire
  <2> QED
    BY <2>1, <2>2, <2>3, <2>4, <2>5, <2>6 DEF Next, HandlerNext, rowVars
<1> QED
  BY <1>1, Inductive, PTL DEF Spec, ProcessedIsFinal

-----------------------------------------------------------------------------
(* Rooms of the SFU.                                                        *)

Peers == [role : {"none", "presenter", "viewer"}, conn : Nat, hears : [Streams -> Nat]]

Routers ==
    [src : SfuUsers \cup {"relay", "none"}, gen : Nat, layers : SUBSET (Layers \cup {"all"}),
     at : [SfuUsers -> Layers \cup {"all", "none"}], sinks : SUBSET ((Layers \cup {"all"}) \X SfuObservers)]

TrackSteps == {"none", "check", "add", "make", "layer", "watch", "tell", "done"}

HandlerRecord == [at : TrackSteps, conn : Nat, gen : Nat, first : BOOLEAN]

RoomTyped ==
    /\ peer \in [SfuUsers -> Peers]
    /\ track \in [Streams -> Routers]
    /\ observers \subseteq SfuObservers
    /\ onTrack \in [Handlers -> HandlerRecord]
    /\ gens \in Nat /\ sfuOps \in Nat

\* A connection has a number of its own.
PeersNumbered == \A u \in SfuUsers : peer[u].conn <= sfuOps /\ (Present(u) => peer[u].conn # 0)

\* A decision is about a user and a simulcast stream.
PlansOK ==
    /\ DOMAIN plan = Sources
    /\ \A src \in Sources :
        plan[src] # NoPlan => plan[src].u \in SfuUsers /\ plan[src].s \in Streams /\ Kind(plan[src].s) = "simulcast"

\* A router that is gone is heard by nobody; a plain one has its layer from the start.
RouterOK(s) ==
    /\ track[s].gen = 0 => track[s].src = "none" /\ track[s].layers = {} /\ \A u \in SfuUsers : peer[u].hears[s] = 0
    /\ track[s].gen # 0 => track[s].src = SfuStreams[s].src
    /\ track[s].gen <= gens /\ track[s].layers \subseteq LayersOf(s)
    /\ Kind(s) = "plain" /\ track[s].gen # 0 => track[s].layers = {"all"}

\* What the handler of a layer knows: its router was made before, and has the layer
\* once it was added; its connection is a presenter's while it lasts, and while it
\* lasts a plain router that is there is its own.
HandlerOK(s, l) ==
    /\ onTrack[<<s, l>>].at \in {"check", "add"} => Kind(s) = "plain"
    /\ onTrack[<<s, l>>].at \in {"make", "layer", "watch", "tell"} => Kind(s) = "simulcast"
    /\ onTrack[<<s, l>>].at \in {"layer", "watch", "tell"} => onTrack[<<s, l>>].gen # 0
    /\ onTrack[<<s, l>>].gen <= gens
    /\ onTrack[<<s, l>>].at \in {"watch", "tell"} /\ onTrack[<<s, l>>].gen = track[s].gen => l \in track[s].layers
    /\ ~Relayed(s) =>
        /\ onTrack[<<s, l>>].conn <= sfuOps
        /\ onTrack[<<s, l>>].at # "none" =>
            onTrack[<<s, l>>].conn # 0 /\ (~Outlived(s, l) => peer[SfuStreams[s].src].role = "presenter")
        /\ Kind(s) = "plain" /\ track[s].gen # 0 /\ s \notin late =>
            onTrack[<<s, l>>].at = "done" /\ ~Outlived(s, l)

\* The handler that made the group has told everyone.
Told(s) ==
    \A l \in LayersOf(s) :
        ~(onTrack[<<s, l>>].first /\ onTrack[<<s, l>>].at \in {"layer", "watch", "tell"} /\ onTrack[<<s, l>>].gen = track[s].gen)

Hears(u, s) == peer[u].hears[s] = track[s].gen /\ track[s].at[u] \in track[s].layers

Informed(s) ==
    track[s].gen # 0 /\ (Kind(s) = "plain" => s \notin late) /\ Told(s) =>
        track[s].layers # {} /\ \A u \in SfuUsers : Present(u) /\ SfuStreams[s].src # u => Hears(u, s)

Tapped(s) ==
    \A l \in track[s].layers, o \in observers :
        <<l, o>> \in track[s].sinks \/ (onTrack[<<s, l>>].at = "watch" /\ onTrack[<<s, l>>].gen = track[s].gen)

StreamOK(s) ==
    RouterOK(s) /\ Informed(s) /\ Tapped(s) /\ \A l \in LayersOf(s) : HandlerOK(s, l)

RoomInv == RoomTyped /\ PeersNumbered /\ PlansOK /\ \A s \in Streams : StreamOK(s)

\* The handlers are the pairs of a stream and one of its layers.
LEMMA HandlerPairs ==
    /\ \A s \in Streams : \A l \in LayersOf(s) : <<s, l>> \in Handlers /\ l \in Layers \cup {"all"}
    /\ \A k \in Handlers : k[1] \in Streams /\ k[2] \in LayersOf(k[1]) /\ k = <<k[1], k[2]>>
BY DEF Handlers, LayersOf

\* Connections, routers and operations are numbered.
LEMMA NumbersTyped == RoomTyped => gens \in Nat /\ sfuOps \in Nat /\ \A u \in SfuUsers : peer[u].conn \in Nat
BY DEF RoomTyped, Peers

\* clampQuality and BestAvailableLayer pick a layer that is there, if there is one.
LEMMA BestIsThere ==
    ASSUME NEW layers, NEW q
    PROVE  /\ BestAvailableLayer(layers, q) \in Layers
           /\ layers \subseteq Layers /\ layers # {} => BestAvailableLayer(layers, q) \in layers
<1> DEFINE order == layerPriority(q)
<1>1. order \in {<<"medium", "low", "high">>, <<"low", "medium", "high">>, <<"high", "medium", "low">>}
  BY DEF layerPriority
<1>2. {order[1], order[2], order[3]} = Layers
  BY <1>1 DEF Layers
<1> QED BY <1>2 DEF BestAvailableLayer, Layers

LEMMA FirstIsThere ==
    ASSUME NEW s \in Streams, NEW role, NEW layers \in SUBSET LayersOf(s)
    PROVE  /\ FirstLayer(role, s, layers) \in Layers \cup {"all"}
           /\ layers # {} => FirstLayer(role, s, layers) \in layers
<1>1. CASE Kind(s) = "plain"
  BY <1>1 DEF FirstLayer, LayersOf
<1>2. CASE Kind(s) # "plain"
  BY <1>2, BestIsThere DEF FirstLayer, LayersOf
<1> QED BY <1>1, <1>2

\* What a stream's invariant depends on.
LEMMA StreamFrame ==
    ASSUME RoomTyped, RoomTyped', NEW s \in Streams, StreamOK(s),
           track'[s] = track[s],
           \A u \in SfuUsers : /\ peer'[u].role = peer[u].role /\ peer'[u].conn = peer[u].conn
                               /\ peer'[u].hears[s] = peer[u].hears[s],
           \A l \in LayersOf(s) : onTrack'[<<s, l>>] = onTrack[<<s, l>>],
           s \in late => s \in late',
           observers' \subseteq observers, gens <= gens', sfuOps <= sfuOps'
    PROVE  StreamOK(s)'
<1>0. Relayed(s) \/ SfuStreams[s].src \in SfuUsers
  BY SfuAssumption DEF Relayed
<1>1. RouterOK(s)'
  BY DEF StreamOK, RouterOK, RoomTyped, Routers
<1>2. Told(s)' <=> Told(s)
  BY DEF Told
<1>3. Informed(s)'
  BY <1>2 DEF StreamOK, Informed, Hears, Present
<1>4. Tapped(s)'
  BY DEF StreamOK, Tapped, RouterOK
<1>5. ASSUME NEW l \in LayersOf(s) PROVE HandlerOK(s, l)'
  <2>1. HandlerOK(s, l) /\ onTrack'[<<s, l>>] = onTrack[<<s, l>>]
    BY DEF StreamOK
  <2>2. onTrack[<<s, l>>].gen \in Nat /\ onTrack[<<s, l>>].conn \in Nat
    BY HandlerPairs DEF RoomTyped, HandlerRecord
  <2>3. ~Relayed(s) => (Outlived(s, l)' <=> Outlived(s, l))
    BY <1>0, <2>1 DEF Outlived, Relayed
  <2> QED BY <1>0, <2>1, <2>2, <2>3 DEF HandlerOK, RoomTyped, Relayed
<1> QED BY <1>1, <1>3, <1>4, <1>5 DEF StreamOK

\* What subscribing everyone to a router changes: those who hear nothing of the
\* stream, or hear a layer of it, hear the router.
LEMMA SubscribeAllEffect ==
    ASSUME RoomTyped, NEW s \in Streams, NEW tr \in Routers, NEW l \in LayersOf(s), SubscribeAll(s, tr, l)
    PROVE  /\ peer' \in [SfuUsers -> Peers] /\ track' \in [Streams -> Routers]
           /\ \A u \in SfuUsers : peer'[u].role = peer[u].role /\ peer'[u].conn = peer[u].conn
           /\ \A t \in Streams \ {s} :
                track'[t] = track[t] /\ \A u \in SfuUsers : peer'[u].hears[t] = peer[u].hears[t]
           /\ track'[s].src = tr.src /\ track'[s].gen = tr.gen /\ track'[s].layers = tr.layers /\ track'[s].sinks = tr.sinks
           /\ tr.gen # 0 /\ tr.layers # {} =>
                \A u \in SfuUsers : Present(u) /\ tr.src # u /\ (Kind(s) = "plain" => peer[u].hears[s] = 0) =>
                    peer'[u].hears[s] = tr.gen /\ track'[s].at[u] = l
<1> DEFINE hearers == {u \in SfuUsers : Present(u) /\ ~(peer[u].role = "presenter" /\ tr.src = u)}
<1>1. /\ peer' = [u \in SfuUsers |-> IF u \in hearers THEN [peer[u] EXCEPT !.hears[s] = Heard(peer[u], s, u, tr)] ELSE peer[u]]
      /\ track' = [track EXCEPT ![s] = [tr EXCEPT !.at = [u \in SfuUsers |-> IF u \in hearers THEN l ELSE tr.at[u]]]]
  BY DEF SubscribeAll
<1>2. \A u \in SfuUsers : peer[u] \in Peers /\ Heard(peer[u], s, u, tr) \in Nat
  BY DEF RoomTyped, Peers, Routers, Heard
<1>3. peer' \in [SfuUsers -> Peers]
  <2>1. ASSUME NEW u \in SfuUsers PROVE peer'[u] \in Peers
    BY <1>1, <1>2 DEF Peers
  <2> QED BY <1>1, <2>1
<1>4. \A u \in SfuUsers : /\ peer'[u].role = peer[u].role /\ peer'[u].conn = peer[u].conn
                          /\ \A t \in Streams \ {s} : peer'[u].hears[t] = peer[u].hears[t]
                          /\ u \in hearers => peer'[u].hears[s] = Heard(peer[u], s, u, tr)
  BY <1>1, <1>2 DEF Peers
<1>5. track'[s] = [tr EXCEPT !.at = [u \in SfuUsers |-> IF u \in hearers THEN l ELSE tr.at[u]]]
      /\ \A t \in Streams \ {s} : track'[t] = track[t]
  BY <1>1 DEF RoomTyped
<1>6. l \in Layers \cup {"all"}
  BY HandlerPairs
<1>7. track'[s] \in Routers
  BY <1>5, <1>6 DEF Routers
<1>8. track' \in [Streams -> Routers]
  BY <1>1, <1>5, <1>7 DEF RoomTyped
<1>9. /\ track'[s].src = tr.src /\ track'[s].gen = tr.gen /\ track'[s].layers = tr.layers /\ track'[s].sinks = tr.sinks
      /\ \A u \in hearers : track'[s].at[u] = l
  BY <1>5 DEF Routers
<1>10. ASSUME tr.gen # 0, tr.layers # {}, NEW u \in SfuUsers, Present(u), tr.src # u, Kind(s) = "plain" => peer[u].hears[s] = 0
       PROVE  peer'[u].hears[s] = tr.gen /\ track'[s].at[u] = l
  <2>1. u \in hearers
    BY <1>10
  <2>2. Heard(peer[u], s, u, tr) = tr.gen
    BY <1>10 DEF Heard
  <2> QED BY <1>4, <1>9, <2>1, <2>2
<1> QED BY <1>3, <1>4, <1>5, <1>8, <1>9, <1>10

\* A peer that joins hears every router there is, on a layer of it.
LEMMA JoinKeepsRoom ==
    ASSUME RoomInv, NEW u \in SfuUsers, ~Present(u), NEW role \in {"presenter", "viewer"},
           subscribePeerToExistingTracks(u, newPeer(u, role)), sfuOps' = sfuOps + 1,
           UNCHANGED <<observers, onTrack, plan, gens, late>>
    PROVE  RoomInv'
<1>0. RoomTyped /\ PeersNumbered /\ PlansOK /\ \A s \in Streams : StreamOK(s)
  BY DEF RoomInv
<1> DEFINE q == newPeer(u, role)
           hears == [s \in Streams |-> Heard(q, s, u, track[s])]
<1>1. q \in Peers /\ q.role = role /\ q.conn = sfuOps + 1 /\ \A s \in Streams : q.hears[s] = 0
  <2>1. Nobody \in Peers /\ \A s \in Streams : Nobody.hears[s] = 0
    BY DEF Nobody, Peers
  <2>2. q = [Nobody EXCEPT !.role = role, !.conn = sfuOps + 1]
    BY DEF newPeer
  <2> HIDE DEF q
  <2>3. sfuOps + 1 \in Nat
    BY <1>0 DEF RoomTyped
  <2>4. q.role = role /\ q.conn = sfuOps + 1 /\ q.hears = Nobody.hears
    BY <2>1, <2>2 DEF Peers
  <2>5. q \in Peers
    BY <2>1, <2>2, <2>3 DEF Peers
  <2> QED BY <2>1, <2>4, <2>5
<1>2. hears \in [Streams -> Nat]
  BY <1>0, <1>1 DEF Heard, RoomTyped, Routers, Peers
<1>3. peer' = [peer EXCEPT ![u] = [q EXCEPT !.hears = hears]]
  BY DEF subscribePeerToExistingTracks
<1>4. /\ peer'[u].role = role /\ peer'[u].conn = sfuOps + 1 /\ peer'[u].hears = hears
      /\ \A v \in SfuUsers \ {u} : peer'[v] = peer[v]
      /\ peer' \in [SfuUsers -> Peers]
  <2> HIDE DEF q, hears
  <2> QED BY <1>0, <1>1, <1>2, <1>3 DEF Peers, RoomTyped
<1>5. \A s \in Streams :
        track'[s] = IF track[s].layers = {} \/ (role = "presenter" /\ track[s].src = u) THEN track[s]
                    ELSE [track[s] EXCEPT !.at[u] = FirstLayer(role, s, track[s].layers)]
  BY <1>1 DEF subscribePeerToExistingTracks
<1>6. ASSUME NEW s \in Streams
      PROVE  /\ track'[s] \in Routers
             /\ track'[s].src = track[s].src /\ track'[s].gen = track[s].gen /\ track'[s].layers = track[s].layers
             /\ track'[s].sinks = track[s].sinks /\ \A v \in SfuUsers \ {u} : track'[s].at[v] = track[s].at[v]
             /\ track[s].layers # {} /\ track[s].src # u => track'[s].at[u] \in track[s].layers
  <2>1. track[s] \in Routers /\ track[s].layers \in SUBSET LayersOf(s)
    BY <1>0 DEF RoomTyped, StreamOK, RouterOK
  <2>2. FirstLayer(role, s, track[s].layers) \in Layers \cup {"all"}
        /\ (track[s].layers # {} => FirstLayer(role, s, track[s].layers) \in track[s].layers)
    BY <2>1, FirstIsThere
  <2>3. CASE track[s].layers = {} \/ (role = "presenter" /\ track[s].src = u)
    BY <1>5, <2>1, <2>3 DEF Routers
  <2>4. CASE ~(track[s].layers = {} \/ (role = "presenter" /\ track[s].src = u))
    <3>1. track'[s] = [track[s] EXCEPT !.at = [track[s].at EXCEPT ![u] = FirstLayer(role, s, track[s].layers)]]
      BY <1>5, <2>4
    <3>2. [track[s].at EXCEPT ![u] = FirstLayer(role, s, track[s].layers)] \in [SfuUsers -> Layers \cup {"all", "none"}]
      BY <2>1, <2>2 DEF Routers
    <3> QED BY <2>1, <2>2, <2>4, <3>1, <3>2 DEF Routers
  <2> QED BY <2>3, <2>4
<1>7. track' \in [Streams -> Routers]
  <2>1. DOMAIN track' = Streams /\ track' = [s \in Streams |-> track'[s]]
    BY DEF subscribePeerToExistingTracks
  <2> QED BY <1>6, <2>1
<1>8. RoomTyped'
  BY <1>0, <1>4, <1>7 DEF RoomTyped
<1>9. PeersNumbered'
  BY <1>0, <1>4, NumbersTyped DEF PeersNumbered, Present
<1>10. PlansOK'
  BY <1>0 DEF PlansOK
<1>11. ASSUME NEW s \in Streams PROVE StreamOK(s)'
  <2>0. StreamOK(s) /\ track[s] \in Routers
    BY <1>0 DEF RoomTyped
  <2>1. hears[s] = IF track[s].gen = 0 \/ track[s].layers = {} \/ (role = "presenter" /\ track[s].src = u) THEN 0
                   ELSE track[s].gen
    BY <1>1 DEF Heard
  <2>2. RouterOK(s)'
    BY <1>4, <1>6, <2>0, <2>1 DEF StreamOK, RouterOK
  <2>3. Told(s)' <=> Told(s)
    BY <1>6 DEF Told
  <2>4. Informed(s)'
    <3> SUFFICES ASSUME track[s].gen # 0, Kind(s) = "plain" => s \notin late, Told(s)
                 PROVE  /\ track'[s].layers # {}
                        /\ \A v \in SfuUsers : peer'[v].role # "none" /\ SfuStreams[s].src # v =>
                            peer'[v].hears[s] = track'[s].gen /\ track'[s].at[v] \in track'[s].layers
      BY <1>6, <2>3 DEF Informed, Hears, Present
    <3>1. track[s].layers # {} /\ \A v \in SfuUsers : Present(v) /\ SfuStreams[s].src # v => Hears(v, s)
      BY <2>0 DEF StreamOK, Informed
    <3>2. track[s].src = SfuStreams[s].src
      BY <2>0 DEF StreamOK, RouterOK
    <3> QED BY <1>4, <1>6, <2>1, <3>1, <3>2 DEF Hears, Present
  <2>5. Tapped(s)'
    BY <1>6, <2>0 DEF StreamOK, Tapped
  <2>6. ASSUME NEW l \in LayersOf(s) PROVE HandlerOK(s, l)'
    <3>1. HandlerOK(s, l)
      BY <2>0 DEF StreamOK
    <3>2. onTrack[<<s, l>>] \in HandlerRecord
      BY <1>0, HandlerPairs DEF RoomTyped
    <3>3. ASSUME ~Relayed(s)
          PROVE  /\ SfuStreams[s].src \in SfuUsers
                 /\ (SfuStreams[s].src = u => Outlived(s, l)' /\ (onTrack[<<s, l>>].at # "none" => Outlived(s, l)))
                 /\ (SfuStreams[s].src # u => peer'[SfuStreams[s].src] = peer[SfuStreams[s].src])
      <4>1. SfuStreams[s].src \in SfuUsers
        BY <3>3, SfuAssumption DEF Relayed
      <4>2. onTrack[<<s, l>>].conn <= sfuOps
        BY <3>1, <3>3 DEF HandlerOK
      <4>3. ASSUME SfuStreams[s].src = u PROVE Outlived(s, l)'
        <5>1. Relayed(s)' <=> Relayed(s)
          BY DEF Relayed
        <5> QED BY <1>0, <1>4, <3>2, <3>3, <4>2, <4>3, <5>1 DEF Outlived, RoomTyped
      <4>4. ASSUME SfuStreams[s].src = u, onTrack[<<s, l>>].at # "none" PROVE Outlived(s, l)
        BY <3>1, <3>3, <4>4 DEF HandlerOK, Present
      <4> QED BY <1>4, <4>1, <4>3, <4>4
    <3>4. ASSUME ~Relayed(s), SfuStreams[s].src # u PROVE Outlived(s, l)' <=> Outlived(s, l)
      BY <3>3, <3>4 DEF Outlived, Relayed
    <3>5. /\ onTrack[<<s, l>>].at \in {"check", "add"} => Kind(s) = "plain"
          /\ onTrack[<<s, l>>].at \in {"make", "layer", "watch", "tell"} => Kind(s) = "simulcast"
          /\ onTrack[<<s, l>>].at \in {"layer", "watch", "tell"} => onTrack[<<s, l>>].gen # 0
          /\ onTrack[<<s, l>>].gen <= gens'
          /\ onTrack[<<s, l>>].at \in {"watch", "tell"} /\ onTrack[<<s, l>>].gen = track'[s].gen => l \in track'[s].layers
      BY <1>6, <3>1 DEF HandlerOK
    <3>6. ASSUME ~Relayed(s)
          PROVE  /\ onTrack[<<s, l>>].conn <= sfuOps'
                 /\ onTrack[<<s, l>>].at # "none" =>
                      onTrack[<<s, l>>].conn # 0 /\ (~Outlived(s, l)' => peer'[SfuStreams[s].src].role = "presenter")
                 /\ Kind(s) = "plain" /\ track'[s].gen # 0 /\ s \notin late' =>
                      onTrack[<<s, l>>].at = "done" /\ ~Outlived(s, l)'
      BY <1>0, <1>6, <3>1, <3>2, <3>3, <3>4, <3>6 DEF HandlerOK, RoomTyped, HandlerRecord
    <3> QED BY <3>5, <3>6 DEF HandlerOK, Relayed, Kind
  <2> QED BY <2>2, <2>4, <2>5, <2>6 DEF StreamOK
<1> QED BY <1>8, <1>9, <1>10, <1>11 DEF RoomInv

\* Who leaves takes its connection along; a presenter its routers too.
LEMMA LeaversKeepHandlers ==
    ASSUME RoomTyped, RoomTyped', NEW s \in Streams, NEW l \in LayersOf(s), HandlerOK(s, l),
           \A v \in SfuUsers : \/ peer'[v].role = peer[v].role /\ peer'[v].conn = peer[v].conn
                               \/ peer'[v].conn = 0,
           \/ track'[s].gen = 0
           \/ /\ track'[s].gen = track[s].gen /\ track'[s].layers = track[s].layers /\ (s \in late => s \in late')
              /\ track[s].gen # 0 /\ ~Relayed(s) /\ peer[SfuStreams[s].src].role = "presenter" =>
                    peer'[SfuStreams[s].src].conn = peer[SfuStreams[s].src].conn,
           UNCHANGED <<onTrack, gens>>, sfuOps <= sfuOps'
    PROVE  HandlerOK(s, l)'
<1>1. onTrack[<<s, l>>] \in HandlerRecord
  BY HandlerPairs DEF RoomTyped
<1>2. /\ onTrack[<<s, l>>].at \in {"check", "add"} => Kind(s) = "plain"
      /\ onTrack[<<s, l>>].at \in {"make", "layer", "watch", "tell"} => Kind(s) = "simulcast"
      /\ onTrack[<<s, l>>].at \in {"layer", "watch", "tell"} => onTrack[<<s, l>>].gen # 0
      /\ onTrack[<<s, l>>].gen <= gens'
      /\ onTrack[<<s, l>>].at \in {"watch", "tell"} /\ onTrack[<<s, l>>].gen = track'[s].gen => l \in track'[s].layers
  BY DEF HandlerOK
<1>3. ASSUME ~Relayed(s)
      PROVE  /\ onTrack[<<s, l>>].conn <= sfuOps'
             /\ onTrack[<<s, l>>].at # "none" =>
                  onTrack[<<s, l>>].conn # 0 /\ (~Outlived(s, l)' => peer'[SfuStreams[s].src].role = "presenter")
             /\ Kind(s) = "plain" /\ track'[s].gen # 0 /\ s \notin late' =>
                  onTrack[<<s, l>>].at = "done" /\ ~Outlived(s, l)'
  <2>1. SfuStreams[s].src \in SfuUsers
    BY <1>3, SfuAssumption DEF Relayed
  <2>2. Outlived(s, l)' <=> peer'[SfuStreams[s].src].conn # onTrack[<<s, l>>].conn
    BY <1>3 DEF Outlived, Relayed
  <2>3. Outlived(s, l) <=> peer[SfuStreams[s].src].conn # onTrack[<<s, l>>].conn
    BY <1>3 DEF Outlived
  <2>4. /\ onTrack[<<s, l>>].conn <= sfuOps
        /\ onTrack[<<s, l>>].at # "none" =>
             onTrack[<<s, l>>].conn # 0 /\ (~Outlived(s, l) => peer[SfuStreams[s].src].role = "presenter")
        /\ Kind(s) = "plain" /\ track[s].gen # 0 /\ s \notin late => onTrack[<<s, l>>].at = "done" /\ ~Outlived(s, l)
    BY <1>3 DEF HandlerOK
  <2> QED BY <1>1, <1>3, <2>1, <2>2, <2>3, <2>4 DEF RoomTyped, HandlerRecord
<1> QED BY <1>2, <1>3 DEF HandlerOK, Relayed, Kind

LEMMA NobodyIsTyped == Nobody \in Peers /\ Nobody.role = "none" /\ Nobody.conn = 0 /\ \A s \in Streams : Nobody.hears[s] = 0
BY DEF Nobody, Peers

LEMMA NoTrackIsTyped ==
    NoTrack \in Routers /\ NoTrack.src = "none" /\ NoTrack.gen = 0 /\ NoTrack.layers = {} /\ NoTrack.sinks = {}
BY DEF NoTrack, Routers

\* A viewer that leaves takes its entries along.
LEMMA ViewerLeaves ==
    ASSUME RoomInv, NEW u \in SfuUsers, peer[u].role = "viewer", removeViewerSubscriptionsLocked(u),
           UNCHANGED <<observers, onTrack, plan, gens>>, sfuOps' \in Nat, sfuOps <= sfuOps'
    PROVE  RoomInv'
<1>0. RoomTyped /\ PeersNumbered /\ PlansOK /\ \A s \in Streams : StreamOK(s)
  BY DEF RoomInv
<1>1. peer' = [peer EXCEPT ![u] = Nobody] /\ late' = late
      /\ track' = [s \in Streams |-> [track[s] EXCEPT !.at[u] = "none"]]
  BY DEF removeViewerSubscriptionsLocked
<1>2. peer'[u] = Nobody /\ (\A v \in SfuUsers \ {u} : peer'[v] = peer[v]) /\ peer' \in [SfuUsers -> Peers]
  BY <1>0, <1>1, NobodyIsTyped DEF RoomTyped
<1>3. ASSUME NEW s \in Streams
      PROVE  /\ track'[s] \in Routers
             /\ track'[s].src = track[s].src /\ track'[s].gen = track[s].gen /\ track'[s].layers = track[s].layers
             /\ track'[s].sinks = track[s].sinks /\ \A v \in SfuUsers \ {u} : track'[s].at[v] = track[s].at[v]
  <2>1. track[s] \in Routers
    BY <1>0 DEF RoomTyped
  <2>2. track'[s] = [track[s] EXCEPT !.at = [track[s].at EXCEPT ![u] = "none"]]
    BY <1>1
  <2>3. [track[s].at EXCEPT ![u] = "none"] \in [SfuUsers -> Layers \cup {"all", "none"}]
    BY <2>1 DEF Routers
  <2> QED BY <2>1, <2>2, <2>3 DEF Routers
<1>4. track' \in [Streams -> Routers]
  BY <1>1, <1>3
<1>5. RoomTyped'
  BY <1>0, <1>2, <1>4 DEF RoomTyped
<1>6. PeersNumbered'
  BY <1>0, <1>2, NobodyIsTyped, NumbersTyped DEF PeersNumbered, Present
<1>7. PlansOK'
  BY <1>0 DEF PlansOK
<1>8. ASSUME NEW s \in Streams PROVE StreamOK(s)'
  <2>0. StreamOK(s)
    BY <1>0
  <2>1. RouterOK(s)'
    BY <1>2, <1>3, <2>0, NobodyIsTyped DEF StreamOK, RouterOK
  <2>2. Told(s)' <=> Told(s)
    BY <1>3 DEF Told
  <2>3. Informed(s)'
    BY <1>1, <1>2, <1>3, <2>0, <2>2, NobodyIsTyped DEF StreamOK, Informed, Hears, Present
  <2>4. Tapped(s)'
    BY <1>3, <2>0 DEF StreamOK, Tapped
  <2>5. ASSUME NEW l \in LayersOf(s) PROVE HandlerOK(s, l)'
    <3>1. HandlerOK(s, l)
      BY <2>0 DEF StreamOK
    <3>2. ~Relayed(s) /\ peer[SfuStreams[s].src].role = "presenter" =>
            peer'[SfuStreams[s].src].conn = peer[SfuStreams[s].src].conn
      BY <1>2, SfuAssumption DEF Relayed
    <3> QED BY <1>0, <1>1, <1>2, <1>3, <1>5, <3>1, <3>2, NobodyIsTyped, LeaversKeepHandlers
  <2> QED BY <2>1, <2>3, <2>4, <2>5 DEF StreamOK
<1> QED BY <1>5, <1>6, <1>7, <1>8 DEF RoomInv

\* A presenter that leaves takes its routers along, and who heard them hears nothing.
LEMMA PresenterLeaves ==
    ASSUME RoomInv, NEW u \in SfuUsers, removePresenterTracksLocked(u),
           UNCHANGED <<observers, onTrack, plan, gens>>, sfuOps' \in Nat, sfuOps <= sfuOps'
    PROVE  RoomInv'
<1>0. RoomTyped /\ PeersNumbered /\ PlansOK /\ \A s \in Streams : StreamOK(s)
  BY DEF RoomInv
<1> DEFINE own == {s \in Streams : track[s].src = u}
<1>1. /\ late' = late \ own
      /\ \A s \in Streams : track'[s] = IF s \in own THEN NoTrack ELSE track[s]
      /\ track' = [s \in Streams |-> track'[s]]
      /\ peer' = [v \in SfuUsers |-> IF v = u THEN Nobody
                    ELSE [peer[v] EXCEPT !.hears = [s \in Streams |-> IF s \in own THEN 0 ELSE peer[v].hears[s]]]]
  BY DEF removePresenterTracksLocked
<1>2. ASSUME NEW v \in SfuUsers \ {u}
      PROVE  /\ peer'[v] \in Peers /\ peer'[v].role = peer[v].role /\ peer'[v].conn = peer[v].conn
             /\ \A s \in Streams : peer'[v].hears[s] = IF s \in own THEN 0 ELSE peer[v].hears[s]
  <2>1. peer[v] \in Peers
    BY <1>0 DEF RoomTyped
  <2>2. peer'[v] = [peer[v] EXCEPT !.hears = [s \in Streams |-> IF s \in own THEN 0 ELSE peer[v].hears[s]]]
    BY <1>1
  <2>3. [s \in Streams |-> IF s \in own THEN 0 ELSE peer[v].hears[s]] \in [Streams -> Nat]
    BY <2>1 DEF Peers
  <2> QED BY <2>1, <2>2, <2>3 DEF Peers
<1>3. peer'[u] = Nobody
  BY <1>1
<1>4. peer' \in [SfuUsers -> Peers]
  <2>1. \A v \in SfuUsers : peer'[v] \in Peers
    BY <1>2, <1>3, NobodyIsTyped
  <2>2. peer' = [v \in SfuUsers |-> peer'[v]]
    BY <1>1
  <2> QED BY <2>1, <2>2
<1>5. track' \in [Streams -> Routers]
  <2>1. \A s \in Streams : track'[s] \in Routers
    BY <1>0, <1>1, NoTrackIsTyped DEF RoomTyped
  <2> QED BY <1>1, <2>1
<1>6. RoomTyped'
  BY <1>0, <1>4, <1>5 DEF RoomTyped
<1>7. PeersNumbered'
  BY <1>0, <1>2, <1>3, NobodyIsTyped, NumbersTyped DEF PeersNumbered, Present
<1>8. PlansOK'
  BY <1>0 DEF PlansOK
<1>9. ASSUME NEW s \in Streams PROVE StreamOK(s)'
  <2>0. StreamOK(s)
    BY <1>0
  <2>1. s \in own => track'[s] = NoTrack
    BY <1>1
  <2>2. s \notin own => track'[s] = track[s] /\ track[s].src # u /\ (s \in late => s \in late')
    BY <1>1
  <2>3. RouterOK(s)'
    BY <1>0, <1>2, <1>3, <2>0, <2>1, <2>2, NobodyIsTyped, NoTrackIsTyped DEF StreamOK, RouterOK, RoomTyped
  <2>4. s \notin own => (Told(s)' <=> Told(s))
    BY <2>2 DEF Told
  <2>5. Informed(s)'
    <3>1. CASE s \in own
      BY <2>1, <3>1, NoTrackIsTyped DEF Informed
    <3>2. CASE s \notin own
      <4> SUFFICES ASSUME track[s].gen # 0, Kind(s) = "plain" => s \notin late, Told(s)
                   PROVE  /\ track[s].layers # {}
                          /\ \A v \in SfuUsers : peer'[v].role # "none" /\ SfuStreams[s].src # v =>
                               peer'[v].hears[s] = track[s].gen /\ track[s].at[v] \in track[s].layers
        BY <2>2, <2>4, <3>2 DEF Informed, Hears, Present
      <4>1. track[s].layers # {} /\ \A v \in SfuUsers : Present(v) /\ SfuStreams[s].src # v => Hears(v, s)
        BY <2>0 DEF StreamOK, Informed
      <4> QED BY <1>2, <1>3, <3>2, <4>1, NobodyIsTyped DEF Hears, Present
    <3> QED BY <3>1, <3>2
  <2>6. Tapped(s)'
    BY <2>0, <2>1, <2>2, NoTrackIsTyped DEF StreamOK, Tapped
  <2>7. ASSUME NEW l \in LayersOf(s) PROVE HandlerOK(s, l)'
    <3>1. HandlerOK(s, l)
      BY <2>0 DEF StreamOK
    <3>2. \/ track'[s].gen = 0
          \/ /\ track'[s].gen = track[s].gen /\ track'[s].layers = track[s].layers /\ (s \in late => s \in late')
             /\ track[s].gen # 0 /\ ~Relayed(s) /\ peer[SfuStreams[s].src].role = "presenter" =>
                   peer'[SfuStreams[s].src].conn = peer[SfuStreams[s].src].conn
      <4>1. CASE s \in own
        BY <2>1, <4>1, NoTrackIsTyped
      <4>2. CASE s \notin own
        <5>1. track[s].gen # 0 => SfuStreams[s].src # u
          BY <2>0, <2>2, <4>2 DEF StreamOK, RouterOK
        <5>2. ~Relayed(s) => SfuStreams[s].src \in SfuUsers
          BY SfuAssumption DEF Relayed
        <5> QED BY <1>2, <2>2, <4>2, <5>1, <5>2
      <4> QED BY <4>1, <4>2
    <3> QED BY <1>0, <1>2, <1>3, <1>6, <3>1, <3>2, NobodyIsTyped, LeaversKeepHandlers
  <2> QED BY <2>3, <2>5, <2>6, <2>7 DEF StreamOK
<1> QED BY <1>6, <1>7, <1>8, <1>9 DEF RoomInv

\* CloseRoom: nobody is left, and no router.
LEMMA CloseKeepsRoom == ASSUME RoomInv, CloseRoom PROVE RoomInv'
<1>0. RoomTyped /\ PeersNumbered /\ PlansOK /\ \A s \in Streams : StreamOK(s)
  BY DEF RoomInv
<1>1. /\ \A u \in SfuUsers : peer'[u] = Nobody
      /\ \A s \in Streams : track'[s] = NoTrack
      /\ sfuOps' = sfuOps + 1 /\ UNCHANGED <<observers, onTrack, plan, gens>>
  BY DEF CloseRoom, Bounded
<1>2. RoomTyped'
  BY <1>0, <1>1, NobodyIsTyped, NoTrackIsTyped DEF RoomTyped, CloseRoom
<1>3. PeersNumbered' /\ PlansOK'
  BY <1>0, <1>1, NobodyIsTyped, NumbersTyped DEF PeersNumbered, Present, PlansOK
<1>4. ASSUME NEW s \in Streams PROVE StreamOK(s)'
  <2>1. RouterOK(s)' /\ Informed(s)' /\ Tapped(s)'
    BY <1>0, <1>1, NobodyIsTyped, NoTrackIsTyped DEF RouterOK, Informed, Tapped, RoomTyped
  <2>2. ASSUME NEW l \in LayersOf(s) PROVE HandlerOK(s, l)'
    <3>1. HandlerOK(s, l)
      BY <1>0 DEF StreamOK
    <3>2. sfuOps <= sfuOps'
      BY <1>0, <1>1 DEF RoomTyped
    <3> QED BY <1>0, <1>1, <1>2, <3>1, <3>2, NobodyIsTyped, NoTrackIsTyped, LeaversKeepHandlers
  <2> QED BY <2>1, <2>2 DEF StreamOK
<1> QED BY <1>2, <1>3, <1>4 DEF RoomInv

\* A step of the handler of one layer leaves the other streams as they are; what
\* remains to show is about its own stream.
LEMMA HandlerStep ==
    ASSUME RoomInv, RoomTyped', NEW s \in Streams, NEW l \in LayersOf(s),
           \A k \in Handlers \ {<<s, l>>} : onTrack'[k] = onTrack[k],
           \A u \in SfuUsers : peer'[u].role = peer[u].role /\ peer'[u].conn = peer[u].conn,
           \A t \in Streams \ {s} :
                track'[t] = track[t] /\ (t \in late => t \in late') /\ \A u \in SfuUsers : peer'[u].hears[t] = peer[u].hears[t],
           UNCHANGED <<observers, plan>>, gens <= gens', sfuOps <= sfuOps',
           RouterOK(s)', Informed(s)', Tapped(s)', HandlerOK(s, l)',
           \A m \in LayersOf(s) \ {l} :
                onTrack[<<s, m>>].at \in {"watch", "tell"} /\ onTrack[<<s, m>>].gen = track'[s].gen => m \in track'[s].layers
    PROVE  RoomInv'
<1>0. RoomTyped /\ PeersNumbered /\ PlansOK /\ \A t \in Streams : StreamOK(t)
  BY DEF RoomInv
<1>1. PeersNumbered' /\ PlansOK'
  <2>1. sfuOps' \in Nat
    BY DEF RoomTyped
  <2> QED BY <1>0, <2>1, NumbersTyped DEF PeersNumbered, Present, PlansOK
<1>2. ASSUME NEW t \in Streams \ {s} PROVE StreamOK(t)'
  <2>1. \A m \in LayersOf(t) : onTrack'[<<t, m>>] = onTrack[<<t, m>>]
    BY HandlerPairs
  <2> QED BY <1>0, <1>2, <2>1, StreamFrame
<1>3. ASSUME NEW m \in LayersOf(s) \ {l} PROVE HandlerOK(s, m)'
  <2>1. onTrack'[<<s, m>>] = onTrack[<<s, m>>] /\ onTrack[<<s, m>>] \in HandlerRecord
    BY <1>0, HandlerPairs DEF RoomTyped
  <2>2. HandlerOK(s, m)
    BY <1>0 DEF StreamOK
  <2>3. Kind(s) # "plain"
    BY <1>3 DEF LayersOf
  <2>4. ~Relayed(s) => (Outlived(s, m)' <=> Outlived(s, m)) /\ peer'[SfuStreams[s].src].role = peer[SfuStreams[s].src].role
    BY <2>1, SfuAssumption DEF Outlived, Relayed
  <2>5. /\ onTrack'[<<s, m>>].at \in {"check", "add"} => Kind(s) = "plain"
        /\ onTrack'[<<s, m>>].at \in {"make", "layer", "watch", "tell"} => Kind(s) = "simulcast"
        /\ onTrack'[<<s, m>>].at \in {"layer", "watch", "tell"} => onTrack'[<<s, m>>].gen # 0
        /\ onTrack'[<<s, m>>].gen <= gens'
        /\ onTrack'[<<s, m>>].at \in {"watch", "tell"} /\ onTrack'[<<s, m>>].gen = track'[s].gen => m \in track'[s].layers
    BY <1>0, <2>1, <2>2 DEF HandlerOK, RoomTyped, HandlerRecord
  <2>6. ~Relayed(s) => onTrack'[<<s, m>>].conn <= sfuOps'
    BY <1>0, <2>1, <2>2 DEF HandlerOK, RoomTyped, HandlerRecord
  <2>7. ~Relayed(s) /\ onTrack'[<<s, m>>].at # "none" =>
            onTrack'[<<s, m>>].conn # 0 /\ (~Outlived(s, m)' => peer'[SfuStreams[s].src].role = "presenter")
    BY <2>1, <2>2, <2>4 DEF HandlerOK
  <2> QED BY <2>3, <2>5, <2>6, <2>7 DEF HandlerOK, Relayed, Kind
<1>4. StreamOK(s)'
  BY <1>3 DEF StreamOK
<1> QED BY <1>1, <1>2, <1>4 DEF RoomInv

\* A handler that only moves on, away from nothing that others wait for.
LEMMA HandlerMoves ==
    ASSUME RoomInv, NEW s \in Streams, NEW l \in LayersOf(s),
           onTrack' \in [Handlers -> HandlerRecord],
           \A k \in Handlers \ {<<s, l>>} : onTrack'[k] = onTrack[k],
           UNCHANGED <<peer, track, observers, plan, gens, late>>, sfuOps' \in Nat, sfuOps <= sfuOps',
           HandlerOK(s, l)',
           Told(s)' => Told(s) \/ track[s].gen = 0,
           onTrack[<<s, l>>].at = "watch" /\ onTrack[<<s, l>>].gen = track[s].gen =>
                \A o \in observers : <<l, o>> \in track[s].sinks
    PROVE  RoomInv'
<1>0. RoomTyped /\ PeersNumbered /\ PlansOK /\ StreamOK(s)
  BY DEF RoomInv
<1>1. RoomTyped'
  BY <1>0 DEF RoomTyped
<1>2. RouterOK(s)'
  BY <1>0 DEF StreamOK, RouterOK
<1>3. Informed(s)'
  BY <1>0 DEF StreamOK, Informed, Hears, Present
<1>4. Tapped(s)'
  <2>1. \A m \in LayersOf(s) \ {l} : onTrack'[<<s, m>>] = onTrack[<<s, m>>]
    BY HandlerPairs
  <2>2. track[s].layers \subseteq LayersOf(s)
    BY <1>0 DEF StreamOK, RouterOK
  <2> QED BY <1>0, <2>1, <2>2 DEF StreamOK, Tapped
<1>5. \A m \in LayersOf(s) \ {l} :
        onTrack[<<s, m>>].at \in {"watch", "tell"} /\ onTrack[<<s, m>>].gen = track'[s].gen => m \in track'[s].layers
  BY <1>0 DEF StreamOK, HandlerOK
<1>6. gens <= gens'
  BY <1>0 DEF RoomTyped
<1> QED BY <1>1, <1>2, <1>3, <1>4, <1>5, <1>6, HandlerStep

\* A track is announced: by a presenter's connection, and of a plain stream only when
\* the router of an earlier connection went with it.
LEMMA TrackArrives ==
    ASSUME RoomInv, NEW s \in Streams, NEW l \in LayersOf(s), OnTrack(s, l) \/ InjectRelayPacket(s, l) \/ CheckTrack(s, l)
    PROVE  RoomInv'
<1>0. RoomTyped /\ PeersNumbered /\ StreamOK(s) /\ HandlerOK(s, l) /\ <<s, l>> \in Handlers
  BY HandlerPairs DEF RoomInv, StreamOK
<1>1. onTrack[<<s, l>>] \in HandlerRecord
  BY <1>0 DEF RoomTyped
<1> DEFINE u == SfuStreams[s].src
<1>2. UNCHANGED <<peer, track, observers, plan, gens, late>> /\ sfuOps' \in Nat /\ sfuOps <= sfuOps'
  BY <1>0 DEF OnTrack, InjectRelayPacket, CheckTrack, Bounded, RoomTyped
<1>3. onTrack[<<s, l>>].at \in {"none", "done", "check"}
  BY DEF OnTrack, InjectRelayPacket, CheckTrack
<1>4. CASE OnTrack(s, l)
  <2>0. u \in SfuUsers /\ ~Relayed(s) /\ Kind(s) \in {"plain", "simulcast"}
    BY <1>4, SfuAssumption DEF OnTrack, Relayed
  <2>1. /\ onTrack[<<s, l>>].at \in {"none", "done"} /\ peer[u].role = "presenter" /\ onTrack[<<s, l>>].conn # peer[u].conn
        /\ peer[u].conn \in Nat /\ peer[u].conn # 0 /\ peer[u].conn <= sfuOps
    BY <1>0, <1>4, <2>0 DEF OnTrack, PeersNumbered, Present, RoomTyped, Peers
  <2>2. onTrack' = [onTrack EXCEPT ![<<s, l>>] = [at |-> IF Kind(s) = "plain" THEN "check" ELSE "make",
                                                  conn |-> peer[u].conn, gen |-> 0, first |-> FALSE]]
    BY <1>4 DEF OnTrack
  <2>3. onTrack'[<<s, l>>] = [at |-> IF Kind(s) = "plain" THEN "check" ELSE "make", conn |-> peer[u].conn, gen |-> 0, first |-> FALSE]
        /\ \A k \in Handlers \ {<<s, l>>} : onTrack'[k] = onTrack[k]
    BY <1>0, <2>2 DEF RoomTyped
  <2>4. onTrack' \in [Handlers -> HandlerRecord]
    BY <1>0, <2>1, <2>2 DEF RoomTyped, TrackSteps, HandlerRecord
  <2>5. Kind(s) = "plain" /\ track[s].gen # 0 => s \in late
    BY <1>0, <2>0, <2>1 DEF HandlerOK, Outlived
  <2>6. HandlerOK(s, l)'
    BY <1>0, <1>2, <2>0, <2>1, <2>3, <2>5 DEF HandlerOK, Outlived, Relayed, Kind, RoomTyped
  <2>7. Told(s)' => Told(s)
    <3>1. \A m \in LayersOf(s) \ {l} : onTrack'[<<s, m>>] = onTrack[<<s, m>>]
      BY <2>3, HandlerPairs
    <3> QED BY <1>2, <2>1, <3>1 DEF Told
  <2> QED BY <1>2, <2>1, <2>3, <2>4, <2>6, <2>7, HandlerMoves
<1>5. CASE InjectRelayPacket(s, l) \/ CheckTrack(s, l)
  <2>0. PICK step \in {"add", "make", "done"} :
            /\ onTrack' = [onTrack EXCEPT ![<<s, l>>].at = step]
            /\ step = "add" => Kind(s) = "plain"
            /\ step = "make" => Kind(s) = "simulcast"
    <3>1. CASE InjectRelayPacket(s, l)
      BY <3>1, SfuAssumption DEF InjectRelayPacket
    <3>2. CASE CheckTrack(s, l)
      <4>1. Kind(s) = "plain"
        BY <1>0, <3>2 DEF CheckTrack, HandlerOK
      <4> QED BY <3>2, <4>1 DEF CheckTrack
    <3> QED BY <1>5, <3>1, <3>2
  <2>1. /\ onTrack'[<<s, l>>].at = step /\ onTrack'[<<s, l>>].conn = onTrack[<<s, l>>].conn
        /\ onTrack'[<<s, l>>].gen = onTrack[<<s, l>>].gen
        /\ \A k \in Handlers \ {<<s, l>>} : onTrack'[k] = onTrack[k]
    BY <1>0, <1>1, <2>0 DEF RoomTyped
  <2>2. onTrack' \in [Handlers -> HandlerRecord]
    <3>1. step \in TrackSteps
      BY DEF TrackSteps
    <3> QED BY <1>0, <1>1, <2>0, <3>1 DEF RoomTyped, HandlerRecord
  <2>3. ~Relayed(s) => onTrack[<<s, l>>].at = "check"
    BY <1>5 DEF InjectRelayPacket, CheckTrack
  <2>4. HandlerOK(s, l)'
    BY <1>0, <1>1, <1>2, <2>0, <2>1, <2>3 DEF HandlerOK, Outlived, Relayed, Kind, RoomTyped, HandlerRecord
  <2>5. Told(s)' => Told(s)
    <3>1. \A m \in LayersOf(s) \ {l} : onTrack'[<<s, m>>] = onTrack[<<s, m>>]
      BY <2>1, HandlerPairs
    <3> QED BY <1>2, <1>3, <3>1 DEF Told
  <2> QED BY <1>2, <1>3, <2>1, <2>2, <2>4, <2>5, HandlerMoves
<1> QED BY <1>4, <1>5

\* The handler of a layer takes one of its own steps.
LEMMA HandlerMovesTo ==
    ASSUME RoomTyped, NEW s \in Streams, NEW l \in LayersOf(s), NEW h,
           h \in HandlerRecord,
           onTrack' = [onTrack EXCEPT ![<<s, l>>] = h]
    PROVE  /\ onTrack' \in [Handlers -> HandlerRecord]
           /\ onTrack'[<<s, l>>] = h
           /\ \A k \in Handlers \ {<<s, l>>} : onTrack'[k] = onTrack[k]
           /\ \A m \in LayersOf(s) \ {l} : onTrack'[<<s, m>>] = onTrack[<<s, m>>]
BY HandlerPairs DEF RoomTyped

LEMMA Finishes ==
    ASSUME RoomTyped, NEW s \in Streams, NEW l \in LayersOf(s), Finish(s, l)
    PROVE  /\ onTrack' \in [Handlers -> HandlerRecord]
           /\ onTrack'[<<s, l>>].at = "done" /\ onTrack'[<<s, l>>].conn = onTrack[<<s, l>>].conn
           /\ onTrack'[<<s, l>>].gen = onTrack[<<s, l>>].gen
           /\ \A k \in Handlers \ {<<s, l>>} : onTrack'[k] = onTrack[k]
           /\ \A m \in LayersOf(s) \ {l} : onTrack'[<<s, m>>] = onTrack[<<s, m>>]
<1> DEFINE h == [onTrack[<<s, l>>] EXCEPT !.at = "done"]
<1>1. onTrack[<<s, l>>] \in HandlerRecord
  BY HandlerPairs DEF RoomTyped
<1>2. /\ h \in HandlerRecord
      /\ h.at = "done" /\ h.conn = onTrack[<<s, l>>].conn /\ h.gen = onTrack[<<s, l>>].gen
  BY <1>1 DEF TrackSteps, HandlerRecord
<1>3. onTrack' = [onTrack EXCEPT ![<<s, l>>] = h]
  BY DEF Finish
<1> HIDE DEF h
<1>4. PICK g : g = h
  OBVIOUS
<1>5. g \in HandlerRecord /\ onTrack' = [onTrack EXCEPT ![<<s, l>>] = g]
  BY <1>2, <1>3, <1>4
<1>6. /\ onTrack' \in [Handlers -> HandlerRecord]
      /\ onTrack'[<<s, l>>] = g
      /\ \A k \in Handlers \ {<<s, l>>} : onTrack'[k] = onTrack[k]
      /\ \A m \in LayersOf(s) \ {l} : onTrack'[<<s, m>>] = onTrack[<<s, m>>]
  BY <1>5, HandlerMovesTo
<1> QED BY <1>2, <1>4, <1>6

\* The observers' sinks of a new layer.
LEMMA SinksOfLayer ==
    ASSUME RoomTyped, NEW s \in Streams, NEW l \in LayersOf(s)
    PROVE  {<<l, o>> : o \in observers} \subseteq (Layers \cup {"all"}) \X SfuObservers
<1>1. l \in Layers \cup {"all"} /\ observers \subseteq SfuObservers
  BY HandlerPairs DEF RoomTyped
<1>2. \A o \in observers : <<l, o>> \in (Layers \cup {"all"}) \X SfuObservers
  BY <1>1
<1> QED BY <1>2

\* handleNewTrack: a plain router joins a room in which nobody hears its stream.
LEMMA PlainTrackJoins ==
    ASSUME RoomInv, NEW s \in Streams, NEW l \in LayersOf(s), handleNewTrack(s, l)
    PROVE  RoomInv'
<1>0. RoomTyped /\ PeersNumbered /\ StreamOK(s) /\ HandlerOK(s, l) /\ RouterOK(s)
  BY DEF RoomInv, StreamOK
<1>1. onTrack[<<s, l>>].at = "add" /\ Kind(s) = "plain" /\ l = "all" /\ LayersOf(s) = {"all"} /\ Finish(s, l)
  BY <1>0 DEF handleNewTrack, HandlerOK, LayersOf
<1>2. onTrack[<<s, l>>] \in HandlerRecord
  BY HandlerPairs, <1>0 DEF RoomTyped
<1>3. UNCHANGED <<observers, plan, sfuOps>> /\ sfuOps \in Nat
  BY <1>0 DEF handleNewTrack, RoomTyped
<1>4. CASE UNCHANGED <<peer, track, gens, late>>
  <2>1. ~Relayed(s) => (Outlived(s, l)' <=> Outlived(s, l))
    BY <1>0, <1>1, <1>4, Finishes DEF Outlived, Relayed
  <2>2. HandlerOK(s, l)'
    BY <1>0, <1>1, <1>2, <1>3, <1>4, <2>1, Finishes DEF HandlerOK, Relayed, Kind
  <2>3. Told(s)' => Told(s)
    BY <1>1 DEF Told
  <2>4. sfuOps' \in Nat /\ sfuOps <= sfuOps' /\ UNCHANGED <<peer, track, observers, plan, gens, late>>
    BY <1>3, <1>4
  <2>5. /\ onTrack' \in [Handlers -> HandlerRecord]
        /\ \A k \in Handlers \ {<<s, l>>} : onTrack'[k] = onTrack[k]
    BY <1>0, <1>1, Finishes
  <2> QED BY <1>1, <2>2, <2>3, <2>4, <2>5, HandlerMoves
<1>5. CASE ~UNCHANGED <<peer, track, gens, late>>
  <2> DEFINE tr0 == [NoTrack EXCEPT !.src = SfuStreams[s].src, !.gen = gens + 1, !.layers = {l},
                                    !.sinks = {<<l, o>> : o \in observers}]
  <2>0. /\ gens' = gens + 1 /\ SubscribeAll(s, tr0, l)
        /\ late' = (IF Outlived(s, l) THEN late \cup {s} ELSE late)
        /\ Relayed(s) => track[s].gen = 0
    BY <1>5 DEF handleNewTrack
  <2>1. /\ tr0 \in Routers /\ tr0.src = SfuStreams[s].src /\ tr0.gen = gens + 1 /\ tr0.layers = {l}
        /\ tr0.sinks = {<<l, o>> : o \in observers}
    <3>1. gens + 1 \in Nat /\ {l} \subseteq Layers \cup {"all"}
      BY <1>0, <1>1 DEF RoomTyped
    <3>2. SfuStreams[s].src \in SfuUsers \cup {"relay", "none"}
      BY SfuAssumption
    <3>3. PICK S : S = {<<l, o>> : o \in observers}
      OBVIOUS
    <3>4. S \subseteq (Layers \cup {"all"}) \X SfuObservers
      BY <1>0, <3>3, SinksOfLayer
    <3>5. tr0 = [NoTrack EXCEPT !.src = SfuStreams[s].src, !.gen = gens + 1, !.layers = {l}, !.sinks = S]
      BY <3>3
    <3> HIDE DEF tr0
    <3> QED BY <3>1, <3>2, <3>3, <3>4, <3>5, NoTrackIsTyped DEF Routers
  <2> HIDE DEF tr0
  <2>2. PICK tr : tr = tr0
    OBVIOUS
  <2>3. tr \in Routers /\ SubscribeAll(s, tr, l) /\ tr.gen # 0 /\ tr.layers # {} /\ tr.src = SfuStreams[s].src
        /\ tr.layers = {l} /\ tr.gen = gens + 1 /\ tr.sinks = {<<l, o>> : o \in observers}
    <3>1. gens + 1 # 0
      BY <1>0 DEF RoomTyped
    <3> QED BY <2>0, <2>1, <2>2, <3>1
  <2>4. /\ peer' \in [SfuUsers -> Peers] /\ track' \in [Streams -> Routers]
        /\ \A u \in SfuUsers : peer'[u].role = peer[u].role /\ peer'[u].conn = peer[u].conn
        /\ \A t \in Streams \ {s} :
                track'[t] = track[t] /\ \A u \in SfuUsers : peer'[u].hears[t] = peer[u].hears[t]
        /\ track'[s].src = SfuStreams[s].src /\ track'[s].gen = gens + 1 /\ track'[s].layers = {l}
        /\ track'[s].sinks = {<<l, o>> : o \in observers}
        /\ \A u \in SfuUsers : Present(u) /\ SfuStreams[s].src # u /\ peer[u].hears[s] = 0 =>
                peer'[u].hears[s] = gens + 1 /\ track'[s].at[u] = l
    <3>1. RoomTyped /\ tr \in Routers /\ SubscribeAll(s, tr, l)
      BY <1>0, <2>3
    <3>2. /\ peer' \in [SfuUsers -> Peers] /\ track' \in [Streams -> Routers]
          /\ \A u \in SfuUsers : peer'[u].role = peer[u].role /\ peer'[u].conn = peer[u].conn
          /\ \A t \in Streams \ {s} :
                  track'[t] = track[t] /\ \A u \in SfuUsers : peer'[u].hears[t] = peer[u].hears[t]
          /\ track'[s].src = tr.src /\ track'[s].gen = tr.gen /\ track'[s].layers = tr.layers /\ track'[s].sinks = tr.sinks
      BY <3>1, SubscribeAllEffect, Zenon
    <3>3. tr.gen # 0 /\ tr.layers # {} =>
            \A u \in SfuUsers : Present(u) /\ tr.src # u /\ (Kind(s) = "plain" => peer[u].hears[s] = 0) =>
                peer'[u].hears[s] = tr.gen /\ track'[s].at[u] = l
      BY <3>1, SubscribeAllEffect, Zenon
    <3> QED BY <2>3, <3>2, <3>3
  <2>5. RoomTyped'
    BY <1>0, <1>1, <1>3, <2>0, <2>4, Finishes DEF RoomTyped
  <2>6. gens <= gens' /\ gens + 1 # 0
    BY <1>0, <2>0 DEF RoomTyped
  <2>7. RouterOK(s)'
    BY <1>0, <1>1, <2>0, <2>4, <2>6 DEF RouterOK, RoomTyped
  <2>8. s \notin late' => track[s].gen = 0 /\ (Relayed(s) \/ ~Outlived(s, l))
    BY <1>0, <1>1, <2>0 DEF HandlerOK, Outlived
  <2>9. Informed(s)'
    <3> SUFFICES ASSUME s \notin late'
                 PROVE  \A u \in SfuUsers : peer'[u].role # "none" /\ SfuStreams[s].src # u =>
                            peer'[u].hears[s] = track'[s].gen /\ track'[s].at[u] \in track'[s].layers
      BY <1>1, <2>4 DEF Informed, Hears, Present
    <3>1. \A u \in SfuUsers : peer[u].hears[s] = 0
      BY <1>0, <2>8 DEF RouterOK
    <3> QED BY <2>4, <3>1 DEF Present
  <2>10. Tapped(s)'
    BY <1>3, <2>4 DEF Tapped
  <2>11. ~Relayed(s) => (Outlived(s, l)' <=> Outlived(s, l)) /\ peer'[SfuStreams[s].src].role = peer[SfuStreams[s].src].role
    BY <1>0, <1>1, <2>4, SfuAssumption, Finishes DEF Outlived, Relayed
  <2>12. HandlerOK(s, l)'
    BY <1>0, <1>1, <1>2, <1>3, <2>0, <2>8, <2>11, Finishes DEF HandlerOK, Relayed, Kind, RoomTyped, HandlerRecord
  <2>13. \A t \in Streams : t \in late => t \in late'
    BY <2>0
  <2> QED BY <1>0, <1>1, <1>3, <2>4, <2>5, <2>6, <2>7, <2>9, <2>10, <2>12, <2>13, Finishes, HandlerStep
<1> QED BY <1>4, <1>5

\* A handler that goes on to another step of the same kind of stream, holding a group
\* made before, as far as the publisher's connection is concerned.
LEMMA SimulcastHandler ==
    ASSUME RoomTyped, NEW s \in Streams, NEW l \in LayersOf(s), HandlerOK(s, l), Kind(s) = "simulcast",
           onTrack[<<s, l>>].at # "none",
           onTrack'[<<s, l>>].at \in {"layer", "watch", "tell", "done"},
           onTrack'[<<s, l>>].conn = onTrack[<<s, l>>].conn,
           onTrack'[<<s, l>>].at # "done" => onTrack'[<<s, l>>].gen # 0,
           onTrack'[<<s, l>>].gen <= gens',
           onTrack'[<<s, l>>].at \in {"watch", "tell"} /\ onTrack'[<<s, l>>].gen = track'[s].gen => l \in track'[s].layers,
           \A u \in SfuUsers : peer'[u].role = peer[u].role /\ peer'[u].conn = peer[u].conn,
           sfuOps' = sfuOps
    PROVE  HandlerOK(s, l)'
<1>1. ~Relayed(s) => (Outlived(s, l)' <=> Outlived(s, l)) /\ peer'[SfuStreams[s].src].role = peer[SfuStreams[s].src].role
  BY SfuAssumption DEF Outlived, Relayed
<1> QED BY <1>1 DEF HandlerOK, Relayed, Kind

\* The step ends the work on a group that is gone, or has been told about.
LEMMA HandlerEnds ==
    ASSUME RoomInv, NEW s \in Streams, NEW l \in LayersOf(s), Finish(s, l), Kind(s) = "simulcast",
           UNCHANGED <<peer, track, observers, plan, gens, late, sfuOps>>,
           \/ onTrack[<<s, l>>].at = "make"
           \/ onTrack[<<s, l>>].at \in {"layer", "watch", "tell"} /\ onTrack[<<s, l>>].gen # track[s].gen
    PROVE  RoomInv'
<1>0. RoomTyped /\ HandlerOK(s, l) /\ sfuOps \in Nat /\ gens \in Nat
  BY DEF RoomInv, StreamOK, RoomTyped
<1>1. /\ onTrack' \in [Handlers -> HandlerRecord]
      /\ onTrack'[<<s, l>>].at = "done" /\ onTrack'[<<s, l>>].conn = onTrack[<<s, l>>].conn
      /\ onTrack'[<<s, l>>].gen = onTrack[<<s, l>>].gen
      /\ \A k \in Handlers \ {<<s, l>>} : onTrack'[k] = onTrack[k]
      /\ \A m \in LayersOf(s) \ {l} : onTrack'[<<s, m>>] = onTrack[<<s, m>>]
  BY <1>0, Finishes, Zenon DEF HandlerRecord
<1>2. onTrack[<<s, l>>].gen <= gens'
  BY <1>0 DEF HandlerOK
<1>3. HandlerOK(s, l)'
  BY <1>0, <1>1, <1>2, SimulcastHandler
<1>4. Told(s)' => Told(s)
  BY <1>1 DEF Told
<1>5. sfuOps' \in Nat /\ sfuOps <= sfuOps'
  BY <1>0
<1> QED BY <1>1, <1>3, <1>4, <1>5, HandlerMoves DEF HandlerRecord

\* handleSimulcastTrack finds the group or makes one, which then has no layer yet
\* and has not been told about.
LEMMA GroupIsMade ==
    ASSUME RoomInv, NEW s \in Streams, NEW l \in LayersOf(s), MakeGroup(s, l)
    PROVE  RoomInv'
<1>0. RoomTyped /\ StreamOK(s) /\ HandlerOK(s, l) /\ RouterOK(s)
  BY DEF RoomInv, StreamOK
<1>1. onTrack[<<s, l>>].at = "make" /\ Kind(s) = "simulcast" /\ onTrack[<<s, l>>] \in HandlerRecord
  BY <1>0, HandlerPairs DEF MakeGroup, HandlerOK, RoomTyped, HandlerRecord
<1>2. UNCHANGED <<peer, observers, plan, sfuOps>> /\ sfuOps \in Nat /\ gens \in Nat /\ track[s] \in Routers
  BY <1>0 DEF MakeGroup, RoomTyped
<1>3. CASE Finish(s, l) /\ UNCHANGED <<track, gens, late>>
  BY <1>1, <1>2, <1>3, HandlerEnds
<1>4. CASE /\ track[s].gen # 0 /\ UNCHANGED <<track, gens, late>>
           /\ onTrack' = [onTrack EXCEPT ![<<s, l>>].at = "layer", ![<<s, l>>].gen = track[s].gen]
  <2>1. PICK h : h = [onTrack[<<s, l>>] EXCEPT !.at = "layer", !.gen = track[s].gen]
    OBVIOUS
  <2>2. track[s].gen \in Nat
    BY <1>2 DEF Routers
  <2>3. h.at = "layer" /\ h.conn = onTrack[<<s, l>>].conn /\ h.gen = track[s].gen /\ h.first = onTrack[<<s, l>>].first
    BY <1>1, <2>1 DEF HandlerRecord
  <2>4. h \in HandlerRecord
    BY <1>1, <2>1, <2>2 DEF HandlerRecord, TrackSteps
  <2>5. onTrack' = [onTrack EXCEPT ![<<s, l>>] = h]
    BY <1>4, <2>1, HandlerPairs, <1>0 DEF RoomTyped
  <2>6. /\ onTrack' \in [Handlers -> HandlerRecord]
        /\ onTrack'[<<s, l>>] = h
        /\ \A k \in Handlers \ {<<s, l>>} : onTrack'[k] = onTrack[k]
        /\ \A m \in LayersOf(s) \ {l} : onTrack'[<<s, m>>] = onTrack[<<s, m>>]
    BY <1>0, <2>4, <2>5, HandlerMovesTo DEF HandlerRecord
  <2>7. HandlerOK(s, l)'
    BY <1>0, <1>1, <1>2, <1>4, <2>3, <2>6, SimulcastHandler DEF RouterOK
  <2>8. Told(s)' => Told(s)
    BY <1>1, <1>4, <2>6 DEF Told
  <2>9. onTrack[<<s, l>>].at # "watch" /\ sfuOps' \in Nat /\ sfuOps <= sfuOps'
        /\ UNCHANGED <<peer, track, observers, plan, gens, late>>
    BY <1>1, <1>2, <1>4
  <2> QED BY <2>6, <2>7, <2>8, <2>9, HandlerMoves DEF HandlerRecord
<1>5. CASE /\ track[s].gen = 0 /\ gens' = gens + 1
           /\ track' = [track EXCEPT ![s] = [NoTrack EXCEPT !.src = SfuStreams[s].src, !.gen = gens + 1]]
           /\ onTrack' = [onTrack EXCEPT ![<<s, l>>] = [at |-> "layer", conn |-> @.conn, gen |-> gens + 1, first |-> TRUE]]
           /\ late' = (IF Outlived(s, l) THEN late \cup {s} ELSE late)
  <2>1. PICK h : h = [at |-> "layer", conn |-> onTrack[<<s, l>>].conn, gen |-> gens + 1, first |-> TRUE]
    OBVIOUS
  <2>2. h.at = "layer" /\ h.conn = onTrack[<<s, l>>].conn /\ h.gen = gens + 1 /\ h.first = TRUE
    BY <1>1, <2>1 DEF HandlerRecord
  <2>3. h \in HandlerRecord
    BY <1>1, <1>2, <2>1 DEF HandlerRecord, TrackSteps
  <2>4. onTrack' = [onTrack EXCEPT ![<<s, l>>] = h]
    BY <1>5, <2>1, HandlerPairs, <1>0 DEF RoomTyped
  <2>5. /\ onTrack' \in [Handlers -> HandlerRecord]
        /\ onTrack'[<<s, l>>] = h
        /\ \A k \in Handlers \ {<<s, l>>} : onTrack'[k] = onTrack[k]
        /\ \A m \in LayersOf(s) \ {l} : onTrack'[<<s, m>>] = onTrack[<<s, m>>]
    BY <1>0, <2>3, <2>4, HandlerMovesTo, Zenon DEF HandlerRecord
  <2>6. PICK g : g = [NoTrack EXCEPT !.src = SfuStreams[s].src, !.gen = gens + 1]
    OBVIOUS
  <2>7. g.src = SfuStreams[s].src /\ g.gen = gens + 1 /\ g.layers = {} /\ g.sinks = {} /\ g \in Routers
    <3>1. SfuStreams[s].src \in SfuUsers \cup {"relay", "none"} /\ gens + 1 \in Nat
      BY <1>2, SfuAssumption
    <3> QED BY <2>6, <3>1, NoTrackIsTyped DEF Routers
  <2>8. track'[s] = g /\ (\A t \in Streams \ {s} : track'[t] = track[t]) /\ track' \in [Streams -> Routers]
    BY <1>0, <1>5, <2>6, <2>7 DEF RoomTyped
  <2>9. RoomTyped'
    BY <1>0, <1>2, <1>5, <2>5, <2>8 DEF RoomTyped, HandlerRecord
  <2>10. RouterOK(s)'
    <3>1. gens + 1 # 0 /\ gens + 1 <= gens'
      BY <1>2, <1>5
    <3>2. SfuStreams[s].kind # "plain"
      BY <1>1 DEF Kind
    <3> QED BY <2>7, <2>8, <3>1, <3>2 DEF RouterOK, Kind
  <2>11. ~Told(s)'
    BY <2>2, <2>5, <2>7, <2>8 DEF Told
  <2>12. Tapped(s)'
    BY <2>7, <2>8 DEF Tapped
  <2>13. HandlerOK(s, l)'
    BY <1>0, <1>1, <1>2, <1>5, <2>2, <2>5, SimulcastHandler
  <2>14. \A m \in LayersOf(s) : onTrack[<<s, m>>].gen # track'[s].gen
    <3>1. \A m \in LayersOf(s) : HandlerOK(s, m) /\ onTrack[<<s, m>>].gen \in Nat
      BY <1>0, HandlerPairs DEF StreamOK, RoomTyped, HandlerRecord
    <3> QED BY <1>2, <2>7, <2>8, <3>1 DEF HandlerOK
  <2>15. Informed(s)' /\ gens <= gens' /\ sfuOps <= sfuOps'
    BY <1>2, <1>5, <2>11 DEF Informed
  <2>16. \A t \in Streams \ {s} :
            track'[t] = track[t] /\ (t \in late => t \in late') /\ \A u \in SfuUsers : peer'[u].hears[t] = peer[u].hears[t]
    BY <1>2, <1>5, <2>8
  <2>17. \A u \in SfuUsers : peer'[u].role = peer[u].role /\ peer'[u].conn = peer[u].conn
    BY <1>2
  <2> QED BY <1>2, <2>5, <2>9, <2>10, <2>12, <2>13, <2>14, <2>15, <2>16, <2>17, HandlerStep
<1> QED BY <1>3, <1>4, <1>5 DEF MakeGroup

\* AddLayer: the layer is in the group, and its handler has yet to attach the observers.
LEMMA LayerIsAdded ==
    ASSUME RoomInv, NEW s \in Streams, NEW l \in LayersOf(s), AddLayer(s, l)
    PROVE  RoomInv'
<1>0. RoomTyped /\ StreamOK(s) /\ HandlerOK(s, l) /\ RouterOK(s)
  BY DEF RoomInv, StreamOK
<1>1. onTrack[<<s, l>>].at = "layer" /\ Kind(s) = "simulcast" /\ onTrack[<<s, l>>] \in HandlerRecord
  BY <1>0, HandlerPairs DEF AddLayer, HandlerOK, RoomTyped, HandlerRecord
<1>2. UNCHANGED <<peer, observers, plan, gens, sfuOps>> /\ sfuOps \in Nat /\ gens \in Nat /\ track[s] \in Routers
  BY <1>0 DEF AddLayer, RoomTyped
<1>3. CASE track[s].gen # onTrack[<<s, l>>].gen
  <2>1. Finish(s, l) /\ UNCHANGED <<track, late>>
    BY <1>3 DEF AddLayer
  <2> QED BY <1>1, <1>2, <1>3, <2>1, HandlerEnds
<1>4. CASE track[s].gen = onTrack[<<s, l>>].gen
  <2>0. /\ track' = [track EXCEPT ![s].layers = @ \cup {l}]
        /\ onTrack' = [onTrack EXCEPT ![<<s, l>>].at = "watch"]
        /\ late' = (IF Outlived(s, l) THEN late \cup {s} ELSE late)
    BY <1>4 DEF AddLayer
  <2>1. PICK h : h = [onTrack[<<s, l>>] EXCEPT !.at = "watch"]
    OBVIOUS
  <2>2. h.at = "watch" /\ h.conn = onTrack[<<s, l>>].conn /\ h.gen = onTrack[<<s, l>>].gen /\ h.first = onTrack[<<s, l>>].first
    BY <1>1, <2>1 DEF HandlerRecord
  <2>3. h \in HandlerRecord
    BY <1>1, <2>1 DEF HandlerRecord, TrackSteps
  <2>4. onTrack' = [onTrack EXCEPT ![<<s, l>>] = h]
    BY <2>0, <2>1, HandlerPairs, <1>0 DEF RoomTyped
  <2>5. /\ onTrack' \in [Handlers -> HandlerRecord]
        /\ onTrack'[<<s, l>>] = h
        /\ \A k \in Handlers \ {<<s, l>>} : onTrack'[k] = onTrack[k]
        /\ \A m \in LayersOf(s) \ {l} : onTrack'[<<s, m>>] = onTrack[<<s, m>>]
    BY <1>0, <2>3, <2>4, HandlerMovesTo DEF HandlerRecord
  <2>6. /\ track'[s].src = track[s].src /\ track'[s].gen = track[s].gen /\ track'[s].layers = track[s].layers \cup {l}
        /\ track'[s].sinks = track[s].sinks /\ track'[s].at = track[s].at
        /\ \A t \in Streams \ {s} : track'[t] = track[t]
    BY <1>0, <1>2, <2>0 DEF RoomTyped, Routers
  <2>7. track' \in [Streams -> Routers]
    <3>1. l \in Layers \cup {"all"}
      BY HandlerPairs
    <3>2. track'[s] = [track[s] EXCEPT !.layers = track[s].layers \cup {l}]
      BY <1>0, <2>0 DEF RoomTyped
    <3>3. track'[s] \in Routers
      BY <1>2, <3>1, <3>2 DEF Routers
    <3> QED BY <1>0, <2>0, <2>6, <3>3 DEF RoomTyped
  <2>8. RoomTyped'
    BY <1>0, <1>2, <2>5, <2>7 DEF RoomTyped, HandlerRecord
  <2>9. onTrack[<<s, l>>].gen # 0 /\ onTrack[<<s, l>>].gen <= gens
    BY <1>0, <1>1 DEF HandlerOK
  <2>10. RouterOK(s)'
    BY <1>0, <1>1, <1>2, <1>4, <2>6, <2>9 DEF RouterOK, Kind
  <2>11. Told(s)' <=> Told(s)
    BY <1>1, <2>2, <2>5, <2>6 DEF Told
  <2>12. Informed(s)'
    BY <1>0, <1>1, <1>2, <2>6, <2>11 DEF StreamOK, Informed, Hears, Present, Kind
  <2>13. Tapped(s)'
    <3>1. ASSUME NEW m \in track[s].layers \cup {l}, NEW o \in observers
          PROVE  <<m, o>> \in track[s].sinks \/ (onTrack'[<<s, m>>].at = "watch" /\ onTrack'[<<s, m>>].gen = track[s].gen)
      <4>1. m \in LayersOf(s)
        BY <1>0 DEF RouterOK
      <4> QED BY <1>0, <1>4, <2>2, <2>5, <4>1 DEF StreamOK, Tapped
    <3> QED BY <1>2, <2>6, <3>1 DEF Tapped
  <2>14. HandlerOK(s, l)'
    BY <1>0, <1>1, <1>2, <2>2, <2>5, <2>6, <2>9, SimulcastHandler
  <2>15. \A m \in LayersOf(s) \ {l} :
            onTrack[<<s, m>>].at \in {"watch", "tell"} /\ onTrack[<<s, m>>].gen = track'[s].gen => m \in track'[s].layers
    BY <1>0, <2>6 DEF StreamOK, HandlerOK
  <2>16. /\ \A t \in Streams \ {s} :
              track'[t] = track[t] /\ (t \in late => t \in late') /\ \A u \in SfuUsers : peer'[u].hears[t] = peer[u].hears[t]
         /\ \A u \in SfuUsers : peer'[u].role = peer[u].role /\ peer'[u].conn = peer[u].conn
         /\ gens <= gens' /\ sfuOps <= sfuOps'
    BY <1>2, <2>0, <2>6
  <2> QED BY <1>2, <2>5, <2>8, <2>10, <2>12, <2>13, <2>14, <2>15, <2>16, HandlerStep
<1> QED BY <1>3, <1>4
\* The observers are attached to the layer, which is the group's while the group lasts.
LEMMA ObserversAreAttached ==
    ASSUME RoomInv, NEW s \in Streams, NEW l \in LayersOf(s), attachObserversToTrackLocked(s, l)
    PROVE  RoomInv'
<1>0. RoomTyped /\ StreamOK(s) /\ HandlerOK(s, l) /\ RouterOK(s)
  BY DEF RoomInv, StreamOK
<1>1. onTrack[<<s, l>>].at = "watch" /\ Kind(s) = "simulcast" /\ onTrack[<<s, l>>] \in HandlerRecord
  BY <1>0, HandlerPairs DEF attachObserversToTrackLocked, HandlerOK, RoomTyped, HandlerRecord
<1>2. UNCHANGED <<peer, observers, plan, gens, sfuOps, late>> /\ sfuOps \in Nat /\ gens \in Nat /\ track[s] \in Routers
  BY <1>0 DEF attachObserversToTrackLocked, RoomTyped
<1>3. PICK step \in {"tell", "done"} :
        step = (IF onTrack[<<s, l>>].first THEN "tell" ELSE "done") /\ onTrack' = [onTrack EXCEPT ![<<s, l>>].at = step]
  BY DEF attachObserversToTrackLocked
<1>4. PICK h : h = [onTrack[<<s, l>>] EXCEPT !.at = step]
  OBVIOUS
<1>5. h.at = step /\ h.conn = onTrack[<<s, l>>].conn /\ h.gen = onTrack[<<s, l>>].gen /\ h.first = onTrack[<<s, l>>].first
  BY <1>1, <1>4 DEF HandlerRecord
<1>6. h \in HandlerRecord
  BY <1>1, <1>4 DEF HandlerRecord, TrackSteps
<1>7. onTrack' = [onTrack EXCEPT ![<<s, l>>] = h]
  BY <1>3, <1>4, HandlerPairs, <1>0 DEF RoomTyped
<1>8. /\ onTrack' \in [Handlers -> HandlerRecord]
      /\ onTrack'[<<s, l>>] = h
      /\ \A k \in Handlers \ {<<s, l>>} : onTrack'[k] = onTrack[k]
      /\ \A m \in LayersOf(s) \ {l} : onTrack'[<<s, m>>] = onTrack[<<s, m>>]
  BY <1>0, <1>6, <1>7, HandlerMovesTo, Zenon DEF HandlerRecord
<1>9. onTrack[<<s, l>>].gen # 0 /\ onTrack[<<s, l>>].gen <= gens
      /\ (onTrack[<<s, l>>].gen = track[s].gen => l \in track[s].layers)
  BY <1>0, <1>1 DEF HandlerOK
<1>10. PICK sinks : sinks = IF track[s].gen # onTrack[<<s, l>>].gen THEN track[s].sinks
                            ELSE track[s].sinks \cup {<<l, o>> : o \in observers}
  OBVIOUS
<1>11. sinks \subseteq (Layers \cup {"all"}) \X SfuObservers
  BY <1>0, <1>2, <1>10, SinksOfLayer DEF Routers
<1>12. track' = [track EXCEPT ![s] = [track[s] EXCEPT !.sinks = sinks]]
  <2>1. CASE track[s].gen # onTrack[<<s, l>>].gen
    BY <1>0, <1>2, <1>10, <2>1 DEF attachObserversToTrackLocked, RoomTyped, Routers
  <2>2. CASE track[s].gen = onTrack[<<s, l>>].gen
    BY <1>10, <2>2 DEF attachObserversToTrackLocked
  <2> QED BY <2>1, <2>2
<1>13. track'[s] = [track[s] EXCEPT !.sinks = sinks] /\ \A t \in Streams \ {s} : track'[t] = track[t]
  BY <1>0, <1>12 DEF RoomTyped
<1>14. /\ track'[s].src = track[s].src /\ track'[s].gen = track[s].gen /\ track'[s].layers = track[s].layers
       /\ track'[s].sinks = sinks /\ track'[s].at = track[s].at /\ track'[s] \in Routers
  BY <1>2, <1>11, <1>13 DEF Routers
<1>15. RoomTyped'
  BY <1>0, <1>2, <1>8, <1>12, <1>13, <1>14 DEF RoomTyped, HandlerRecord
<1>16. RouterOK(s)'
  BY <1>0, <1>2, <1>14 DEF RouterOK, Kind
<1>17. Told(s)' => Told(s)
  BY <1>1, <1>3, <1>5, <1>8, <1>14 DEF Told
<1>18. Informed(s)'
  BY <1>0, <1>2, <1>14, <1>17 DEF StreamOK, Informed, Hears, Present, Kind
<1>19. Tapped(s)'
  <2>1. ASSUME NEW m \in track[s].layers, NEW o \in observers
        PROVE  <<m, o>> \in sinks \/ (onTrack'[<<s, m>>].at = "watch" /\ onTrack'[<<s, m>>].gen = track[s].gen)
    <3>1. m \in LayersOf(s)
      BY <1>0 DEF RouterOK
    <3>2. <<m, o>> \in track[s].sinks \/ (onTrack[<<s, m>>].at = "watch" /\ onTrack[<<s, m>>].gen = track[s].gen)
      BY <1>0, <2>1 DEF StreamOK, Tapped
    <3> QED BY <1>8, <1>10, <3>1, <3>2
  <2> QED BY <1>2, <1>14, <2>1 DEF Tapped
<1>20. HandlerOK(s, l)'
  BY <1>0, <1>1, <1>2, <1>3, <1>5, <1>8, <1>9, <1>14, SimulcastHandler
<1>21. \A m \in LayersOf(s) \ {l} :
          onTrack[<<s, m>>].at \in {"watch", "tell"} /\ onTrack[<<s, m>>].gen = track'[s].gen => m \in track'[s].layers
  BY <1>0, <1>14 DEF StreamOK, HandlerOK
<1>22. /\ \A t \in Streams \ {s} :
            track'[t] = track[t] /\ (t \in late => t \in late') /\ \A u \in SfuUsers : peer'[u].hears[t] = peer[u].hears[t]
       /\ \A u \in SfuUsers : peer'[u].role = peer[u].role /\ peer'[u].conn = peer[u].conn
       /\ gens <= gens' /\ sfuOps <= sfuOps'
  BY <1>2, <1>13
<1> QED BY <1>2, <1>8, <1>15, <1>16, <1>18, <1>19, <1>20, <1>21, <1>22, HandlerStep

\* The group is told about: everyone but its publisher hears it, on the first layer;
\* for a relayed layer the observers are attached under the same lock.
LEMMA GroupIsTold ==
    ASSUME RoomInv, NEW s \in Streams, NEW l \in LayersOf(s), NEW tr \in Routers, SubscribeAll(s, tr, l), Finish(s, l),
           onTrack[<<s, l>>].at \in {"watch", "tell"}, onTrack[<<s, l>>].gen = track[s].gen,
           UNCHANGED <<observers, plan, gens, late, sfuOps>>,
           tr.src = track[s].src, tr.gen = track[s].gen, tr.layers = track[s].layers, track[s].sinks \subseteq tr.sinks,
           onTrack[<<s, l>>].at = "watch" => \A o \in observers : <<l, o>> \in tr.sinks
    PROVE  RoomInv'
<1>0. RoomTyped /\ StreamOK(s) /\ HandlerOK(s, l) /\ RouterOK(s) /\ gens \in Nat /\ sfuOps \in Nat
  BY DEF RoomInv, StreamOK, RoomTyped
<1>1. Kind(s) = "simulcast" /\ track[s].gen # 0 /\ onTrack[<<s, l>>].gen <= gens /\ l \in track[s].layers
  BY <1>0 DEF HandlerOK
<1>2. /\ onTrack' \in [Handlers -> HandlerRecord]
      /\ onTrack'[<<s, l>>].at = "done" /\ onTrack'[<<s, l>>].conn = onTrack[<<s, l>>].conn
      /\ onTrack'[<<s, l>>].gen = onTrack[<<s, l>>].gen
      /\ \A k \in Handlers \ {<<s, l>>} : onTrack'[k] = onTrack[k]
      /\ \A m \in LayersOf(s) \ {l} : onTrack'[<<s, m>>] = onTrack[<<s, m>>]
  BY <1>0, Finishes, Zenon DEF HandlerRecord
<1>3. /\ peer' \in [SfuUsers -> Peers] /\ track' \in [Streams -> Routers]
      /\ \A u \in SfuUsers : peer'[u].role = peer[u].role /\ peer'[u].conn = peer[u].conn
      /\ \A t \in Streams \ {s} :
            track'[t] = track[t] /\ \A u \in SfuUsers : peer'[u].hears[t] = peer[u].hears[t]
      /\ track'[s].src = tr.src /\ track'[s].gen = tr.gen /\ track'[s].layers = tr.layers /\ track'[s].sinks = tr.sinks
  BY <1>0, SubscribeAllEffect, Zenon
<1>4. tr.gen # 0 /\ tr.layers # {} =>
        \A u \in SfuUsers : Present(u) /\ tr.src # u /\ (Kind(s) = "plain" => peer[u].hears[s] = 0) =>
            peer'[u].hears[s] = tr.gen /\ track'[s].at[u] = l
  BY <1>0, SubscribeAllEffect, Zenon
<1>5. RoomTyped'
  BY <1>0, <1>2, <1>3 DEF RoomTyped, HandlerRecord
<1>6. RouterOK(s)'
  BY <1>0, <1>1, <1>3 DEF RouterOK, Kind
<1>7. Informed(s)'
  <2>1. tr.src = SfuStreams[s].src
    BY <1>0, <1>1 DEF RouterOK
  <2>2. \A u \in SfuUsers : Present(u) /\ SfuStreams[s].src # u => peer'[u].hears[s] = tr.gen /\ track'[s].at[u] = l
    BY <1>1, <1>4, <2>1
  <2> QED BY <1>1, <1>3, <2>2 DEF Informed, Hears, Present
<1>8. Tapped(s)'
  <2>1. ASSUME NEW m \in track[s].layers, NEW o \in observers
        PROVE  <<m, o>> \in tr.sinks \/ (onTrack'[<<s, m>>].at = "watch" /\ onTrack'[<<s, m>>].gen = track[s].gen)
    <3>1. m \in LayersOf(s)
      BY <1>0 DEF RouterOK
    <3>2. <<m, o>> \in track[s].sinks \/ (onTrack[<<s, m>>].at = "watch" /\ onTrack[<<s, m>>].gen = track[s].gen)
      BY <1>0, <2>1 DEF StreamOK, Tapped
    <3> QED BY <1>2, <3>1, <3>2
  <2> QED BY <1>3, <2>1 DEF Tapped
<1>9. HandlerOK(s, l)'
  BY <1>0, <1>1, <1>2, <1>3, SimulcastHandler
<1>10. \A m \in LayersOf(s) \ {l} :
          onTrack[<<s, m>>].at \in {"watch", "tell"} /\ onTrack[<<s, m>>].gen = track'[s].gen => m \in track'[s].layers
  BY <1>0, <1>3 DEF StreamOK, HandlerOK
<1>11. gens <= gens' /\ sfuOps <= sfuOps' /\ \A t \in Streams \ {s} : t \in late => t \in late'
  BY <1>0
<1> QED BY <1>2, <1>3, <1>5, <1>6, <1>7, <1>8, <1>9, <1>10, <1>11, HandlerStep

LEMMA TellKeepsRoom ==
    ASSUME RoomInv, NEW s \in Streams, NEW l \in LayersOf(s), handleSimulcastTrack(s, l)
    PROVE  RoomInv'
<1>0. RoomTyped /\ HandlerOK(s, l) /\ track[s] \in Routers
  BY DEF RoomInv, StreamOK, RoomTyped
<1>1. /\ onTrack[<<s, l>>].at = "tell" /\ Finish(s, l) /\ Kind(s) = "simulcast"
      /\ UNCHANGED <<observers, plan, gens, late, sfuOps>>
  BY <1>0 DEF handleSimulcastTrack, HandlerOK
<1>2. CASE track[s].gen # onTrack[<<s, l>>].gen
  BY <1>1, <1>2, HandlerEnds DEF handleSimulcastTrack
<1>3. CASE track[s].gen = onTrack[<<s, l>>].gen
  <2>1. PICK tr : tr = track[s]
    OBVIOUS
  <2>2. tr \in Routers /\ SubscribeAll(s, tr, l)
    BY <1>0, <1>3, <2>1 DEF handleSimulcastTrack
  <2> QED BY <1>1, <1>3, <2>1, <2>2, GroupIsTold
<1> QED BY <1>2, <1>3

LEMMA RelayedLayerArrives ==
    ASSUME RoomInv, NEW s \in Streams, NEW l \in LayersOf(s), injectRelaySimulcastPacket(s, l)
    PROVE  RoomInv'
<1>0. RoomTyped /\ StreamOK(s) /\ HandlerOK(s, l) /\ RouterOK(s) /\ track[s] \in Routers /\ gens \in Nat /\ sfuOps \in Nat
  BY DEF RoomInv, StreamOK, RoomTyped
<1>1. /\ onTrack[<<s, l>>].at = "watch" /\ Finish(s, l) /\ Kind(s) = "simulcast"
      /\ UNCHANGED <<observers, plan, gens, late, sfuOps>>
  BY <1>0 DEF injectRelaySimulcastPacket, HandlerOK
<1>2. CASE track[s].gen # onTrack[<<s, l>>].gen
  BY <1>1, <1>2, HandlerEnds DEF injectRelaySimulcastPacket
<1>3. CASE track[s].gen = onTrack[<<s, l>>].gen
  <2>1. PICK sinks : sinks = track[s].sinks \cup {<<l, o>> : o \in observers}
    OBVIOUS
  <2>2. sinks \subseteq (Layers \cup {"all"}) \X SfuObservers
    BY <1>0, <2>1, SinksOfLayer DEF Routers
  <2>3. PICK tr : tr = [track[s] EXCEPT !.sinks = sinks]
    OBVIOUS
  <2>4. /\ tr \in Routers /\ tr.src = track[s].src /\ tr.gen = track[s].gen /\ tr.layers = track[s].layers
        /\ tr.sinks = sinks /\ tr.at = track[s].at
    BY <1>0, <2>2, <2>3 DEF Routers
  <2>5. track[s].sinks \subseteq tr.sinks /\ \A o \in observers : <<l, o>> \in tr.sinks
    BY <2>1, <2>4
  <2>6. CASE onTrack[<<s, l>>].first
    <3>1. SubscribeAll(s, tr, l)
      BY <1>3, <2>1, <2>3, <2>6 DEF injectRelaySimulcastPacket
    <3> QED BY <1>1, <1>3, <2>4, <2>5, <3>1, GroupIsTold
  <2>7. CASE ~onTrack[<<s, l>>].first
    <3>1. track' = [track EXCEPT ![s] = tr] /\ peer' = peer
      BY <1>3, <2>1, <2>3, <2>7 DEF injectRelaySimulcastPacket
    <3>2. track'[s] = tr /\ (\A t \in Streams \ {s} : track'[t] = track[t]) /\ track' \in [Streams -> Routers]
      BY <1>0, <2>4, <3>1 DEF RoomTyped
    <3>3. /\ onTrack' \in [Handlers -> HandlerRecord]
          /\ onTrack'[<<s, l>>].at = "done" /\ onTrack'[<<s, l>>].conn = onTrack[<<s, l>>].conn
          /\ onTrack'[<<s, l>>].gen = onTrack[<<s, l>>].gen
          /\ \A k \in Handlers \ {<<s, l>>} : onTrack'[k] = onTrack[k]
          /\ \A m \in LayersOf(s) \ {l} : onTrack'[<<s, m>>] = onTrack[<<s, m>>]
      BY <1>0, <1>1, Finishes, Zenon DEF HandlerRecord
    <3>4. RoomTyped'
      BY <1>0, <1>1, <3>1, <3>2, <3>3 DEF RoomTyped, HandlerRecord
    <3>5. RouterOK(s)'
      BY <1>0, <1>1, <2>4, <3>1, <3>2 DEF RouterOK, Kind
    <3>6. Told(s)' => Told(s)
      BY <2>4, <2>7, <3>2, <3>3 DEF Told
    <3>7. Informed(s)'
      BY <1>0, <1>1, <2>4, <3>1, <3>2, <3>6 DEF StreamOK, Informed, Hears, Present, Kind
    <3>8. Tapped(s)'
      <4>1. ASSUME NEW m \in track[s].layers, NEW o \in observers
            PROVE  <<m, o>> \in tr.sinks \/ (onTrack'[<<s, m>>].at = "watch" /\ onTrack'[<<s, m>>].gen = track[s].gen)
        <5>1. m \in LayersOf(s)
          BY <1>0 DEF RouterOK
        <5>2. <<m, o>> \in track[s].sinks \/ (onTrack[<<s, m>>].at = "watch" /\ onTrack[<<s, m>>].gen = track[s].gen)
          BY <1>0, <4>1 DEF StreamOK, Tapped
        <5> QED BY <2>5, <3>3, <5>1, <5>2
      <4> QED BY <1>1, <2>4, <3>2, <4>1 DEF Tapped
    <3>9. HandlerOK(s, l)'
      <4>1. onTrack[<<s, l>>].gen <= gens'
        BY <1>0, <1>1 DEF HandlerOK
      <4> QED BY <1>0, <1>1, <3>1, <3>3, <4>1, SimulcastHandler
    <3>10. \A m \in LayersOf(s) \ {l} :
              onTrack[<<s, m>>].at \in {"watch", "tell"} /\ onTrack[<<s, m>>].gen = track'[s].gen => m \in track'[s].layers
      BY <1>0, <2>4, <3>2 DEF StreamOK, HandlerOK
    <3>11. /\ \A t \in Streams \ {s} :
                track'[t] = track[t] /\ (t \in late => t \in late') /\ \A u \in SfuUsers : peer'[u].hears[t] = peer[u].hears[t]
           /\ \A u \in SfuUsers : peer'[u].role = peer[u].role /\ peer'[u].conn = peer[u].conn
           /\ gens <= gens' /\ sfuOps <= sfuOps'
      BY <1>0, <1>1, <3>1, <3>2
    <3> QED BY <1>1, <3>3, <3>4, <3>5, <3>7, <3>8, <3>9, <3>10, <3>11, HandlerStep
  <2> QED BY <2>6, <2>7
<1> QED BY <1>2, <1>3

\* An observer that comes is attached to every layer there is.
LEMMA ObserversKeepRoom ==
    ASSUME RoomInv, NEW o \in SfuObservers, AddObserver(o) \/ RemoveObserver(o)
    PROVE  RoomInv'
<1>0. RoomTyped /\ PeersNumbered /\ PlansOK /\ \A s \in Streams : StreamOK(s)
  BY DEF RoomInv
<1>1. UNCHANGED <<peer, onTrack, plan, gens, late>> /\ sfuOps' = sfuOps + 1 /\ sfuOps \in Nat
  BY <1>0 DEF AddObserver, RemoveObserver, Bounded, RoomTyped
<1>2. CASE AddObserver(o)
  <2>1. observers' = observers \cup {o} /\ track' = [s \in Streams |-> [track[s] EXCEPT !.sinks = @ \cup (track[s].layers \X {o})]]
    BY <1>2 DEF AddObserver
  <2>2. ASSUME NEW s \in Streams
        PROVE  /\ track'[s] \in Routers /\ track'[s].src = track[s].src /\ track'[s].gen = track[s].gen
               /\ track'[s].layers = track[s].layers /\ track'[s].at = track[s].at
               /\ track'[s].sinks = track[s].sinks \cup (track[s].layers \X {o})
    <3>1. track[s] \in Routers
      BY <1>0 DEF RoomTyped
    <3>2. PICK sinks : sinks = track[s].sinks \cup (track[s].layers \X {o})
      OBVIOUS
    <3>3. sinks \subseteq (Layers \cup {"all"}) \X SfuObservers
      BY <3>1, <3>2 DEF Routers
    <3>4. track'[s] = [track[s] EXCEPT !.sinks = sinks]
      BY <2>1, <3>2
    <3> QED BY <3>1, <3>2, <3>3, <3>4 DEF Routers
  <2>3. RoomTyped'
    <3>1. track' \in [Streams -> Routers]
      BY <2>1, <2>2
    <3>2. observers' \subseteq SfuObservers
      BY <1>0, <2>1 DEF RoomTyped
    <3> QED BY <1>0, <1>1, <3>1, <3>2 DEF RoomTyped
  <2>4. PeersNumbered' /\ PlansOK'
    BY <1>0, <1>1, NumbersTyped DEF PeersNumbered, Present, PlansOK
  <2>5. ASSUME NEW s \in Streams PROVE StreamOK(s)'
    <3>0. StreamOK(s)
      BY <1>0
    <3>1. RouterOK(s)'
      BY <1>1, <2>2, <3>0 DEF StreamOK, RouterOK
    <3>2. Told(s)' <=> Told(s)
      BY <1>1, <2>2 DEF Told
    <3>3. Informed(s)'
      BY <1>1, <2>2, <3>0, <3>2 DEF StreamOK, Informed, Hears, Present
    <3>4. Tapped(s)'
      <4>1. ASSUME NEW l \in track[s].layers, NEW x \in observers \cup {o}
            PROVE  <<l, x>> \in track'[s].sinks \/ (onTrack[<<s, l>>].at = "watch" /\ onTrack[<<s, l>>].gen = track[s].gen)
        <5>1. CASE x = o
          BY <2>2, <4>1, <5>1
        <5>2. CASE x \in observers
          BY <2>2, <3>0, <4>1, <5>2 DEF StreamOK, Tapped
        <5> QED BY <4>1, <5>1, <5>2
      <4> QED BY <1>1, <2>1, <2>2, <4>1 DEF Tapped
    <3>5. ASSUME NEW l \in LayersOf(s) PROVE HandlerOK(s, l)'
      <4>1. HandlerOK(s, l) /\ onTrack[<<s, l>>].conn \in Nat
        BY <1>0, <3>0, HandlerPairs DEF StreamOK, RoomTyped, HandlerRecord
      <4>2. ~Relayed(s) => (Outlived(s, l)' <=> Outlived(s, l))
        BY <1>1 DEF Outlived, Relayed
      <4> QED BY <1>1, <2>2, <4>1, <4>2 DEF HandlerOK, Relayed
    <3> QED BY <3>1, <3>3, <3>4, <3>5 DEF StreamOK
  <2> QED BY <2>3, <2>4, <2>5 DEF RoomInv
<1>3. CASE RemoveObserver(o)
  <2>1. observers' \subseteq observers /\ track' = track
    BY <1>3 DEF RemoveObserver
  <2>2. RoomTyped'
    BY <1>0, <1>1, <2>1 DEF RoomTyped
  <2>3. PeersNumbered' /\ PlansOK'
    BY <1>0, <1>1, NumbersTyped DEF PeersNumbered, Present, PlansOK
  <2>4. ASSUME NEW s \in Streams PROVE StreamOK(s)'
    <3>1. gens <= gens' /\ sfuOps <= sfuOps'
      BY <1>0, <1>1 DEF RoomTyped
    <3> QED BY <1>0, <1>1, <2>1, <2>2, <3>1, StreamFrame
  <2> QED BY <2>2, <2>3, <2>4 DEF RoomInv
<1> QED BY <1>2, <1>3

\* SetSubscriberQuality: the subscriber is moved to a layer that is there.
LEMMA SetQualityKeepsStreams ==
    ASSUME RoomInv, NEW u \in SfuUsers, NEW s \in Streams, NEW q, Kind(s) = "simulcast", SetSubscriberQuality(u, s, q),
           UNCHANGED <<observers, onTrack, gens, late, sfuOps>>
    PROVE  RoomTyped' /\ PeersNumbered' /\ \A t \in Streams : StreamOK(t)'
<1>0. RoomTyped /\ PeersNumbered /\ \A t \in Streams : StreamOK(t)
  BY DEF RoomInv
<1>1. PICK actual : actual = BestAvailableLayer(track[s].layers, q)
  OBVIOUS
<1>2. CASE UNCHANGED <<peer, track>>
  <2>1. RoomTyped' /\ PeersNumbered'
    BY <1>0, <1>2 DEF RoomTyped, PeersNumbered, Present
  <2>2. ASSUME NEW t \in Streams PROVE StreamOK(t)'
    <3>1. gens <= gens' /\ sfuOps <= sfuOps'
      BY <1>0 DEF RoomTyped
    <3> QED BY <1>0, <1>2, <2>1, <3>1, StreamFrame
  <2> QED BY <2>1, <2>2
<1>3. CASE ~UNCHANGED <<peer, track>>
  <2>1. /\ track[s].gen # 0 /\ track[s].layers # {}
        /\ track' = [track EXCEPT ![s].at[u] = actual]
        /\ peer' = [peer EXCEPT ![u].hears[s] = IF @ = 0 THEN track[s].gen ELSE @]
    BY <1>1, <1>3 DEF SetSubscriberQuality
  <2>2. track[s] \in Routers /\ peer[u] \in Peers /\ track[s].layers \subseteq Layers
    BY <1>0 DEF RoomTyped, StreamOK, RouterOK, LayersOf
  <2>3. actual \in Layers /\ actual \in track[s].layers
    BY <1>1, <2>1, <2>2, BestIsThere
  <2>4. PICK at : at = [track[s].at EXCEPT ![u] = actual]
    OBVIOUS
  <2>5. at \in [SfuUsers -> Layers \cup {"all", "none"}] /\ at[u] = actual /\ \A v \in SfuUsers \ {u} : at[v] = track[s].at[v]
    BY <2>2, <2>3, <2>4 DEF Routers
  <2>6. track' = [track EXCEPT ![s] = [track[s] EXCEPT !.at = at]]
    BY <2>1, <2>4
  <2>7. track'[s] = [track[s] EXCEPT !.at = at] /\ \A t \in Streams \ {s} : track'[t] = track[t]
    BY <1>0, <2>6 DEF RoomTyped
  <2>8. /\ track'[s].src = track[s].src /\ track'[s].gen = track[s].gen /\ track'[s].layers = track[s].layers
        /\ track'[s].sinks = track[s].sinks /\ track'[s].at = at /\ track'[s] \in Routers
    BY <2>2, <2>5, <2>7 DEF Routers
  <2>9. PICK hears : hears = [peer[u].hears EXCEPT ![s] = IF peer[u].hears[s] = 0 THEN track[s].gen ELSE peer[u].hears[s]]
    OBVIOUS
  <2>10. /\ hears \in [Streams -> Nat] /\ \A t \in Streams \ {s} : hears[t] = peer[u].hears[t]
         /\ peer[u].hears[s] = track[s].gen => hears[s] = track[s].gen
    BY <2>2, <2>9 DEF Peers, Routers
  <2>11. peer' = [peer EXCEPT ![u] = [peer[u] EXCEPT !.hears = hears]]
    BY <2>1, <2>9
  <2>12. peer'[u] = [peer[u] EXCEPT !.hears = hears] /\ \A v \in SfuUsers \ {u} : peer'[v] = peer[v]
    BY <1>0, <2>11 DEF RoomTyped
  <2>13. peer'[u].role = peer[u].role /\ peer'[u].conn = peer[u].conn /\ peer'[u].hears = hears /\ peer'[u] \in Peers
    BY <2>2, <2>10, <2>12 DEF Peers
  <2>14. RoomTyped'
    BY <1>0, <2>6, <2>8, <2>11, <2>13 DEF RoomTyped
  <2>15. PeersNumbered'
    BY <1>0, <2>12, <2>13 DEF PeersNumbered, Present
  <2>16. gens <= gens' /\ sfuOps <= sfuOps'
    BY <1>0 DEF RoomTyped
  <2>17. ASSUME NEW t \in Streams \ {s} PROVE StreamOK(t)'
    <3>1. \A v \in SfuUsers : /\ peer'[v].role = peer[v].role /\ peer'[v].conn = peer[v].conn
                              /\ peer'[v].hears[t] = peer[v].hears[t]
      BY <2>10, <2>12, <2>13
    <3> QED BY <1>0, <2>7, <2>14, <2>16, <3>1, StreamFrame
  <2>18. StreamOK(s)'
    <3>0. StreamOK(s)
      BY <1>0
    <3>1. RouterOK(s)'
      BY <2>1, <2>8, <3>0 DEF StreamOK, RouterOK, Kind
    <3>2. Told(s)' <=> Told(s)
      BY <2>8 DEF Told
    <3>3. Informed(s)'
      <4> SUFFICES ASSUME Kind(s) = "plain" => s \notin late, Told(s)
                   PROVE  \A v \in SfuUsers : peer'[v].role # "none" /\ SfuStreams[s].src # v =>
                            peer'[v].hears[s] = track[s].gen /\ at[v] \in track[s].layers
        BY <2>1, <2>8, <3>2 DEF Informed, Hears, Present
      <4>1. \A v \in SfuUsers : peer[v].role # "none" /\ SfuStreams[s].src # v =>
                peer[v].hears[s] = track[s].gen /\ track[s].at[v] \in track[s].layers
        BY <2>1, <3>0 DEF StreamOK, Informed, Hears, Present
      <4>2. ASSUME NEW v \in SfuUsers, peer'[v].role # "none", SfuStreams[s].src # v
            PROVE  peer'[v].hears[s] = track[s].gen /\ at[v] \in track[s].layers
        <5>1. peer[v].role # "none"
          BY <2>12, <2>13, <4>2
        <5>2. peer[v].hears[s] = track[s].gen /\ track[s].at[v] \in track[s].layers
          BY <4>1, <4>2, <5>1
        <5>3. CASE v = u
          BY <2>3, <2>5, <2>10, <2>13, <5>2, <5>3
        <5>4. CASE v # u
          BY <2>5, <2>12, <5>2, <5>4
        <5> QED BY <5>3, <5>4
      <4> QED BY <4>2
    <3>4. Tapped(s)'
      BY <2>8, <3>0 DEF StreamOK, Tapped
    <3>5. ASSUME NEW l \in LayersOf(s) PROVE HandlerOK(s, l)'
      <4>1. HandlerOK(s, l)
        BY <3>0 DEF StreamOK
      <4>2. ~Relayed(s) => (Outlived(s, l)' <=> Outlived(s, l)) /\ peer'[SfuStreams[s].src].role = peer[SfuStreams[s].src].role
        BY <2>12, <2>13, SfuAssumption DEF Outlived, Relayed
      <4> QED BY <2>8, <4>1, <4>2 DEF HandlerOK, Relayed
    <3> QED BY <3>1, <3>3, <3>4, <3>5 DEF StreamOK
  <2> QED BY <2>14, <2>15, <2>17, <2>18
<1> QED BY <1>2, <1>3

\* A decision, planned or applied: a plan is about a user and a simulcast stream.
LEMMA QualityKeepsRoom == ASSUME RoomInv, NEW nets, QualityNext(nets) PROVE RoomInv'
<1>0. RoomTyped /\ PeersNumbered /\ PlansOK /\ \A s \in Streams : StreamOK(s)
  BY DEF RoomInv
<1>1. ASSUME UNCHANGED <<peer, track, observers, onTrack, gens, late>>, sfuOps' \in {sfuOps, sfuOps + 1}, PlansOK'
      PROVE  RoomInv'
  <2>1. RoomTyped' /\ PeersNumbered'
    BY <1>0, <1>1 DEF RoomTyped, PeersNumbered, Present, Peers
  <2>2. gens <= gens' /\ sfuOps <= sfuOps'
    BY <1>0, <1>1 DEF RoomTyped
  <2>3. \A s \in Streams : StreamOK(s)'
    BY <1>0, <1>1, <2>1, <2>2, StreamFrame
  <2> QED BY <1>1, <2>1, <2>3 DEF RoomInv
<1>2. ASSUME NEW src \in Sources, ApplyAdaptiveDecision(src) PROVE RoomInv'
  <2>1. plan[src] # NoPlan /\ plan' = [plan EXCEPT ![src] = NoPlan] /\ UNCHANGED <<observers, onTrack, gens, late, sfuOps>>
    BY <1>2 DEF ApplyAdaptiveDecision
  <2>2. plan[src].u \in SfuUsers /\ plan[src].s \in Streams /\ Kind(plan[src].s) = "simulcast"
    BY <1>0, <2>1 DEF PlansOK
  <2>3. PlansOK'
    BY <1>0, <2>1 DEF PlansOK
  <2>4. CASE plan[src].apply
    <3>1. SetSubscriberQuality(plan[src].u, plan[src].s, plan[src].target)
      BY <1>2, <2>4 DEF ApplyAdaptiveDecision
    <3>2. PICK u \in SfuUsers, s \in Streams : u = plan[src].u /\ s = plan[src].s
      BY <2>2
    <3>3. PICK q : q = plan[src].target
      OBVIOUS
    <3>4. SetSubscriberQuality(u, s, q) /\ Kind(s) = "simulcast"
      BY <2>2, <3>1, <3>2, <3>3
    <3> QED BY <2>1, <2>3, <3>4, SetQualityKeepsStreams DEF RoomInv
  <2>5. CASE ~plan[src].apply
    <3>1. UNCHANGED <<peer, track>>
      BY <1>2, <2>5 DEF ApplyAdaptiveDecision
    <3> QED BY <1>1, <2>1, <2>3, <3>1
  <2> QED BY <2>4, <2>5
<1>3. CASE ReportFails
  <2>1. PlansOK'
    BY <1>0, <1>3 DEF ReportFails, PlansOK
  <2> QED BY <1>1, <1>3, <2>1 DEF ReportFails, Bounded
<1>4. ASSUME NEW src \in Sources, NEW u \in SfuUsers, NEW s \in Streams, NEW dt, PlanSubscriberAdaptation(src, u, s, dt)
      PROVE  RoomInv'
  <2>1. /\ UNCHANGED <<peer, track, observers, onTrack, gens, late, sfuOps>>
        /\ Kind(s) = "simulcast"
        /\ \E target, apply : plan' = [plan EXCEPT ![src] = [u |-> u, s |-> s, target |-> target, apply |-> apply]]
    BY <1>4 DEF PlanSubscriberAdaptation
  <2>2. PlansOK'
    BY <1>0, <2>1 DEF PlansOK
  <2> QED BY <1>1, <2>1, <2>2
<1>5. ASSUME NEW u \in SfuUsers, NEW n, NetworkChange(u, n) PROVE RoomInv'
  <2>1. PlansOK'
    BY <1>0, <1>5 DEF NetworkChange, PlansOK
  <2> QED BY <1>1, <1>5, <2>1 DEF NetworkChange, Bounded
<1> QED
  BY <1>2, <1>3, <1>4, <1>5 DEF QualityNext, ReportNetworkQuality, applyServerDrivenAdaptation, Sources

LEMMA RoomNext == ASSUME RoomInv, NEW nets, [TracksNext \/ QualityNext(nets)]_roomVars PROVE RoomInv'
<1>0. RoomTyped /\ PeersNumbered /\ PlansOK /\ \A s \in Streams : StreamOK(s)
  BY DEF RoomInv
<1>1. ASSUME NEW u \in SfuUsers, AddPresenter(u) \/ AddViewer(u) PROVE RoomInv'
  BY <1>1, JoinKeepsRoom DEF AddPresenter, AddViewer, Bounded
<1>2. ASSUME NEW u \in SfuUsers, RemovePeer(u) \/ ConnectionClosed(u) PROVE RoomInv'
  <2>1. UNCHANGED <<observers, onTrack, plan, gens>> /\ sfuOps' \in Nat /\ sfuOps <= sfuOps' /\ DropPeer(u)
    BY <1>0, <1>2 DEF RemovePeer, ConnectionClosed, Bounded, RoomTyped
  <2>2. CASE UNCHANGED <<peer, track, adapt, late>>
    <3>1. RoomTyped' /\ PeersNumbered' /\ PlansOK'
      BY <1>0, <2>1, <2>2 DEF RoomTyped, PeersNumbered, Present, PlansOK, Peers
    <3>2. gens <= gens'
      BY <1>0, <2>1 DEF RoomTyped
    <3>3. \A s \in Streams : StreamOK(s)'
      BY <1>0, <2>1, <2>2, <3>1, <3>2, StreamFrame
    <3> QED BY <3>1, <3>3 DEF RoomInv
  <2>3. CASE removePresenterTracksLocked(u)
    BY <2>1, <2>3, PresenterLeaves
  <2>4. CASE peer[u].role = "viewer" /\ removeViewerSubscriptionsLocked(u)
    BY <2>1, <2>4, ViewerLeaves
  <2>5. Present(u) /\ peer[u].role # "presenter" => peer[u].role = "viewer"
    BY <1>0 DEF RoomTyped, Peers, Present
  <2> QED BY <2>1, <2>2, <2>3, <2>4, <2>5 DEF DropPeer
<1>3. ASSUME NEW k \in Handlers,
             \/ OnTrack(k[1], k[2]) \/ InjectRelayPacket(k[1], k[2]) \/ CheckTrack(k[1], k[2]) \/ handleNewTrack(k[1], k[2])
             \/ MakeGroup(k[1], k[2]) \/ AddLayer(k[1], k[2]) \/ attachObserversToTrackLocked(k[1], k[2])
             \/ handleSimulcastTrack(k[1], k[2]) \/ injectRelaySimulcastPacket(k[1], k[2])
      PROVE  RoomInv'
  <2>1. k[1] \in Streams /\ k[2] \in LayersOf(k[1])
    BY HandlerPairs
  <2> QED
    BY <1>3, <2>1, TrackArrives, PlainTrackJoins, GroupIsMade, LayerIsAdded, ObserversAreAttached, TellKeepsRoom,
       RelayedLayerArrives
<1>4. ASSUME NEW o \in SfuObservers, AddObserver(o) \/ RemoveObserver(o) PROVE RoomInv'
  BY <1>4, ObserversKeepRoom
<1>5. CASE CloseRoom
  BY <1>5, CloseKeepsRoom
<1>6. CASE QualityNext(nets)
  BY <1>6, QualityKeepsRoom
<1>7. CASE UNCHANGED roomVars
  <2>1. UNCHANGED <<peer, track, observers, onTrack, plan, gens, sfuOps, late>>
    BY <1>7 DEF roomVars
  <2>2. RoomTyped' /\ PeersNumbered' /\ PlansOK' /\ gens <= gens' /\ sfuOps <= sfuOps'
    BY <1>0, <2>1 DEF RoomTyped, PeersNumbered, Present, PlansOK
  <2>3. \A s \in Streams : StreamOK(s)'
    BY <1>0, <2>1, <2>2, StreamFrame
  <2> QED BY <2>2, <2>3 DEF RoomInv
<1> QED BY <1>1, <1>2, <1>3, <1>4, <1>5, <1>6, <1>7 DEF TracksNext

LEMMA RoomStarts == ASSUME NEW n, RoomInit(n) PROVE RoomInv
<1>1. /\ \A u \in SfuUsers : peer[u] = Nobody
      /\ \A s \in Streams : track[s] = NoTrack
      /\ \A k \in Handlers : onTrack[k] = [at |-> "none", conn |-> 0, gen |-> 0, first |-> FALSE]
  BY DEF RoomInit
<1>2. RoomTyped
  BY NobodyIsTyped, NoTrackIsTyped DEF RoomInit, RoomTyped, TrackSteps, HandlerRecord
<1>3. PeersNumbered /\ PlansOK
  BY <1>1, NobodyIsTyped DEF RoomInit, PeersNumbered, Present, PlansOK
<1>4. ASSUME NEW s \in Streams PROVE StreamOK(s)
  <2>1. RouterOK(s) /\ Informed(s) /\ Tapped(s)
    BY <1>1, NobodyIsTyped, NoTrackIsTyped DEF RouterOK, Informed, Tapped, RoomInit
  <2>2. \A l \in LayersOf(s) : HandlerOK(s, l)
    BY <1>1, NoTrackIsTyped, HandlerPairs DEF HandlerOK, RoomInit
  <2> QED BY <2>1, <2>2 DEF StreamOK
<1> QED BY <1>2, <1>3, <1>4 DEF RoomInv

\* For any number of users, streams, layers and observers, in whatever order they join,
\* publish, leave and are adapted: once no handler of a track is at work, everyone in
\* the room hears every track of the others, on a layer there is, and every observer
\* is attached to every layer.
THEOREM TracksReachEveryone == ASSUME NEW CONSTANT nets PROVE RoomSpec(nets) => []EveryoneHears
<1>1. RoomInv => EveryoneHears
  <2> SUFFICES ASSUME RoomInv, \A k \in Handlers : onTrack[k].at \in {"none", "done"},
                      NEW s \in Streams \ late, track[s].gen # 0
               PROVE  /\ \A u \in SfuUsers : Present(u) /\ track[s].src # u => Hears(u, s)
                      /\ track[s].layers \X observers \subseteq track[s].sinks
    BY DEF EveryoneHears, Hears
  <2>1. StreamOK(s) /\ \A l \in LayersOf(s) : onTrack[<<s, l>>].at \in {"none", "done"}
    BY HandlerPairs DEF RoomInv
  <2>2. Told(s)
    BY <2>1 DEF Told
  <2>3. track[s].src = SfuStreams[s].src /\ track[s].layers \subseteq LayersOf(s)
    BY <2>1 DEF StreamOK, RouterOK
  <2>4. \A u \in SfuUsers : Present(u) /\ track[s].src # u => Hears(u, s)
    BY <2>1, <2>2, <2>3 DEF StreamOK, Informed
  <2>5. \A l \in track[s].layers, o \in observers : <<l, o>> \in track[s].sinks
    BY <2>1, <2>3 DEF StreamOK, Tapped
  <2> QED BY <2>4, <2>5
<1>2. (\E n \in nets : RoomInit(n)) => RoomInv
  BY RoomStarts
<1>3. RoomInv /\ [TracksNext \/ QualityNext(nets)]_roomVars => RoomInv'
  BY RoomNext
<1> QED BY <1>1, <1>2, <1>3, PTL DEF RoomSpec
=============================================================================
