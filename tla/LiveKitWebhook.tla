---------------------------- MODULE LiveKitWebhook ----------------------------
(***************************************************************************)
(* Delivery of LiveKit webhooks: the table call_livekit_webhook_events,    *)
(* through which HandleLiveKitWebhook (internal/service/call/livekit.go)   *)
(* makes an event's effects happen once although LiveKit repeats a webhook *)
(* until it is answered and several backends receive the copies.           *)
(*                                                                         *)
(* A delivery claims the event under a fresh token and a lease, processes  *)
(* it and marks it processed if the token still stands.  What processing   *)
(* does to a call is the subject of CallLifecycle; here it is one step.    *)
(***************************************************************************)
EXTENDS Integers, FiniteSets

CONSTANTS
    Events,        \* webhook event ids
    Deliveries,    \* HTTP requests that can be open at the same time
    MaxTokens,     \* bound: deliveries ever received, each with its own token
    MaxFaults,     \* bound: failed or crashed deliveries
    MaxSlow        \* bound: leases that run out under a delivery at work

ASSUME WebhookAssumption ==
    /\ MaxTokens \in Nat
    /\ MaxFaults \in Nat
    /\ MaxSlow \in Nat
    /\ IsFiniteSet(Deliveries)

VARIABLES
    status,    \* status[e]: column status, "none" without a row
    token,     \* token[e]: column claim_token
    lease,     \* lease[e]: column lease_expires_at against now()
    pc,        \* pc[d]: where delivery d is in HandleLiveKitWebhook
    ev,        \* ev[d]: the event it carries
    tok,       \* tok[d]: its claimToken
    lastToken, \* tokens drawn so far
    effects,   \* effects[e]: completed runs of processLiveKitWebhook
    acked,     \* events LiveKit has had a success answer for (external)
    faults,    \* failures so far
    slow       \* leases that have run out under a delivery at work so far

rowVars == <<status, token, lease>>
vars == <<status, token, lease, pc, ev, tok, lastToken, effects, acked, faults, slow>>

Steps == {"idle", "insert", "select", "reclaim", "process", "mark"}
Working == {"process", "mark"}
Tokens == 0..MaxTokens

TypeOK ==
    /\ status \in [Events -> {"none", "processing", "processed"}]
    /\ token \in [Events -> Tokens]
    /\ lease \in [Events -> {"none", "live", "expired"}]
    /\ pc \in [Deliveries -> Steps]
    /\ ev \in [Deliveries -> Events]
    /\ tok \in [Deliveries -> Tokens]
    /\ lastToken \in Tokens
    /\ effects \in [Events -> Nat]
    /\ acked \subseteq Events
    /\ faults \in 0..MaxFaults
    /\ slow \in 0..MaxSlow
    /\ \A e \in Events : status[e] = "processing" <=> lease[e] # "none"

Init ==
    /\ status = [e \in Events |-> "none"]
    /\ token = [e \in Events |-> 0]
    /\ lease = [e \in Events |-> "none"]
    /\ pc = [d \in Deliveries |-> "idle"]
    /\ ev \in [Deliveries -> Events]
    /\ tok = [d \in Deliveries |-> 0]
    /\ lastToken = 0
    /\ effects = [e \in Events |-> 0]
    /\ acked = {}
    /\ faults = 0
    /\ slow = 0

Goto(d, step) == pc' = [pc EXCEPT ![d] = step]
Fault == faults < MaxFaults /\ faults' = faults + 1
Ack(e) == acked' = acked \cup {e}

-----------------------------------------------------------------------------
\* LiveKit sends an event, again and again, also when it has been answered
\* (the answer may have been lost on the way).
Deliver(d, e) ==
    /\ pc[d] = "idle"
    /\ lastToken < MaxTokens
    /\ lastToken' = lastToken + 1
    /\ ev' = [ev EXCEPT ![d] = e]
    /\ tok' = [tok EXCEPT ![d] = lastToken + 1]
    /\ Goto(d, "insert")
    /\ UNCHANGED <<rowVars, effects, acked, faults, slow>>

\* INSERT ... ON CONFLICT DO NOTHING
InsertClaim(d) ==
    LET e == ev[d]
    IN  /\ pc[d] = "insert"
        /\ IF status[e] = "none"
           THEN /\ status' = [status EXCEPT ![e] = "processing"]
                /\ token' = [token EXCEPT ![e] = tok[d]]
                /\ lease' = [lease EXCEPT ![e] = "live"]
                /\ Goto(d, "process")
           ELSE UNCHANGED rowVars /\ Goto(d, "select")
        /\ UNCHANGED <<ev, tok, lastToken, effects, acked, faults, slow>>

\* Mutant: any existing row counts as a duplicate.
Duplicate_AnyRow(e) == status[e] # "none"

Duplicate(e) == status[e] = "processed"

\* A duplicate is answered with success, a live claim with 409, for LiveKit to
\* try again later.
SelectClaim(d) ==
    LET e == ev[d]
    IN  /\ pc[d] = "select"
        /\ \/ Duplicate(e) /\ Ack(e) /\ Goto(d, "idle")
           \/ ~Duplicate(e) /\ lease[e] = "live" /\ Goto(d, "idle") /\ UNCHANGED acked
           \/ ~Duplicate(e) /\ lease[e] # "live" /\ Goto(d, "reclaim") /\ UNCHANGED acked
        /\ UNCHANGED <<rowVars, ev, tok, lastToken, effects, faults, slow>>

\* Mutant: the update does not look at the lease again.
Reclaimable_Unchecked(e) == status[e] = "processing"

Reclaimable(e) == status[e] = "processing" /\ lease[e] # "live"

Reclaim(d) ==
    LET e == ev[d]
    IN  /\ pc[d] = "reclaim"
        /\ IF Reclaimable(e)
           THEN /\ status' = [status EXCEPT ![e] = "processing"]
                /\ token' = [token EXCEPT ![e] = tok[d]]
                /\ lease' = [lease EXCEPT ![e] = "live"]
                /\ Goto(d, "process")
           ELSE UNCHANGED rowVars /\ Goto(d, "idle")
        /\ UNCHANGED <<ev, tok, lastToken, effects, acked, faults, slow>>

Process(d) ==
    /\ pc[d] = "process"
    /\ effects' = [effects EXCEPT ![ev[d]] = @ + 1]
    /\ Goto(d, "mark")
    /\ UNCHANGED <<rowVars, ev, tok, lastToken, acked, faults, slow>>

Owns(d) == status[ev[d]] = "processing" /\ token[ev[d]] = tok[d]

\* A superseded claim is answered with 409 and leaves the row alone.
MarkProcessed(d) ==
    LET e == ev[d]
    IN  /\ pc[d] = "mark"
        /\ IF Owns(d)
           THEN /\ status' = [status EXCEPT ![e] = "processed"]
                /\ lease' = [lease EXCEPT ![e] = "none"]
                /\ Ack(e)
           ELSE UNCHANGED <<status, lease, acked>>
        /\ Goto(d, "idle")
        /\ UNCHANGED <<token, ev, tok, lastToken, effects, faults, slow>>

\* A statement or the processing fails, or the backend dies: the claim is kept
\* until its lease runs out, and LiveKit sees an error.
Fail(d) ==
    /\ pc[d] # "idle"
    /\ Fault
    /\ Goto(d, "idle")
    /\ UNCHANGED <<rowVars, ev, tok, lastToken, effects, acked, slow>>

Held(e) == \E d \in Deliveries : pc[d] \in Working /\ ev[d] = e /\ Owns(d)

LeaseExpire(e) ==
    /\ lease[e] = "live"
    /\ lease' = [lease EXCEPT ![e] = "expired"]
    /\ \/ ~Held(e) /\ UNCHANGED slow
       \/ Held(e) /\ slow < MaxSlow /\ slow' = slow + 1
    /\ UNCHANGED <<status, token, pc, ev, tok, lastToken, effects, acked, faults>>

-----------------------------------------------------------------------------
HandlerNext(d) ==
    InsertClaim(d) \/ SelectClaim(d) \/ Reclaim(d) \/ Process(d) \/ MarkProcessed(d)

Next ==
    \/ \E d \in Deliveries : HandlerNext(d) \/ Fail(d) \/ \E e \in Events : Deliver(d, e)
    \/ \E e \in Events : LeaseExpire(e)

Spec == Init /\ [][Next]_vars

-----------------------------------------------------------------------------
(* Properties. *)

\* LiveKit is told that an event is done only when its effects have happened:
\* neither a duplicate, a superseded claim nor a failed delivery acknowledges
\* an event whose processing did not complete (HandleLiveKitWebhook).
AckedWasProcessed == \A e \in acked : effects[e] > 0

\* As long as no lease ran out under a delivery at work, no event is processed
\* by two deliveries at once.
NoOverlap ==
    slow = 0 => \A c, d \in Deliveries :
        pc[c] \in Working /\ pc[d] \in Working /\ ev[c] = ev[d] => c = d

\* The effects are repeated only for a reason: each run beyond the first is
\* paid for by a failed delivery or an expired lease.
RepeatsAreExplained == \A e \in Events : effects[e] <= 1 + faults + slow

\* Once an event is processed it stays so under the claim that processed it,
\* and a delivery that arrives later has no effect: late copies are harmless.
ProcessedIsFinal ==
    [][\A e \in Events : status[e] = "processed" =>
        /\ status'[e] = "processed" /\ token'[e] = token[e]
        /\ slow = 0 => effects'[e] = effects[e]]_vars
=============================================================================
