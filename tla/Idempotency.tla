---------------------------- MODULE Idempotency ----------------------------
(***************************************************************************)
(* middleware/idempotency.go for one key, that is for one user, method,    *)
(* path and Idempotency-Key: requests with different keys share nothing.   *)
(* The requests are copies and reuses of the key, on any backend instance; *)
(* the Redis record is looked up, the handler runs, the client is answered *)
(* and the record is stored, in this order and without any claim.          *)
(***************************************************************************)
EXTENDS Naturals

CONSTANTS
    Requests,       \* the requests that carry the key
    Contents,       \* what they ask for: query, content type and body
    Skipped,        \* multipart or oversized contents, whose body is not hashed
    None,
    Unreliable      \* Redis may fail, and the record may expire

ASSUME IdempotencyAssumption ==
    /\ Skipped \subseteq Contents /\ None \notin Requests \cup Contents
    /\ Unreliable \in BOOLEAN

\* 2xx, 4xx, and 5xx or 499 (the client went away).
Outcomes == {"ok", "rejected", "broken"}

VARIABLES
    content,    \* what each request asks for
    pc,         \* its place in the middleware
    answer,     \* what the client was told: an outcome, "conflict" or None
    source,     \* the request whose answer was replayed, or None
    record      \* the stored record, or None: [hash, outcome, by]

vars == <<content, pc, answer, source, record>>

\* fingerprintRequest; method and path are the same for one key.
Fingerprint(c) == IF c \in Skipped THEN "body-skipped" ELSE c

\* Mutant: 5xx answers are stored as well.
IsCacheableStatus_All(outcome) == TRUE

IsCacheableStatus(outcome) == outcome # "broken"

Init ==
    /\ content \in [Requests -> Contents]
    /\ pc = [q \in Requests |-> "new"]
    /\ answer = [q \in Requests |-> None]
    /\ source = [q \in Requests |-> None]
    /\ record = None

\* No record: the handler will run.
LookupMiss(q) ==
    /\ pc[q] = "new" /\ record = None
    /\ pc' = [pc EXCEPT ![q] = "miss"]
    /\ UNCHANGED <<content, answer, source, record>>

\* Redis fails: the handler will run and nothing will be stored.
LookupError(q) ==
    /\ pc[q] = "new" /\ Unreliable
    /\ pc' = [pc EXCEPT ![q] = "bypass"]
    /\ UNCHANGED <<content, answer, source, record>>

\* Mutant: the fingerprint is not compared.
SameRequest_Any(q) == TRUE

SameRequest(q) == record.hash = Fingerprint(content[q])

\* The record answers the request, or the key was used for another one (409).
LookupHit(q) ==
    /\ pc[q] = "new" /\ record # None
    /\ answer' = [answer EXCEPT ![q] = IF SameRequest(q) THEN record.outcome ELSE "conflict"]
    /\ source' = [source EXCEPT ![q] = IF SameRequest(q) THEN record.by ELSE None]
    /\ pc' = [pc EXCEPT ![q] = "replayed"]
    /\ UNCHANGED <<content, record>>

\* The handler runs and the client is answered.
ServeHTTP(q, outcome) ==
    /\ pc[q] \in {"miss", "bypass"}
    /\ answer' = [answer EXCEPT ![q] = outcome]
    /\ pc' = [pc EXCEPT ![q] = IF pc[q] = "miss" /\ IsCacheableStatus(outcome)
                               THEN "answered" ELSE "done"]
    /\ UNCHANGED <<content, source, record>>

\* The answer is stored, over whatever another copy has stored.
Store(q) ==
    /\ pc[q] = "answered"
    /\ record' = [hash |-> Fingerprint(content[q]), outcome |-> answer[q], by |-> q]
    /\ pc' = [pc EXCEPT ![q] = "done"]
    /\ UNCHANGED <<content, answer, source>>

\* Redis fails, or the process dies.
StoreError(q) ==
    /\ pc[q] = "answered" /\ Unreliable
    /\ pc' = [pc EXCEPT ![q] = "done"]
    /\ UNCHANGED <<content, answer, source, record>>

\* The record's TTL runs out.
Expire ==
    /\ Unreliable /\ record # None
    /\ record' = None
    /\ UNCHANGED <<content, pc, answer, source>>

Next ==
    \/ Expire
    \/ \E q \in Requests :
          \/ LookupMiss(q) \/ LookupError(q) \/ LookupHit(q)
          \/ \E outcome \in Outcomes : ServeHTTP(q, outcome)
          \/ Store(q) \/ StoreError(q)

Spec == Init /\ [][Next]_vars

-----------------------------------------------------------------------------
\* The requests whose handler has run.
Executed(q) == pc[q] \in {"answered", "done"}

\* The variables have their types; a stored record is the answer of a request.
TypeOK ==
    /\ content \in [Requests -> Contents]
    /\ pc \in [Requests -> {"new", "miss", "bypass", "replayed", "answered", "done"}]
    /\ answer \in [Requests -> Outcomes \cup {"conflict", None}]
    /\ source \in [Requests -> Requests \cup {None}]
    /\ record = None \/ record \in [hash : Contents \cup {"body-skipped"},
                                    outcome : Outcomes, by : Requests]

\* A replayed answer is the answer some request with the same fingerprint really
\* got from its handler, also when copies ran at once and overwrote each other's
\* record, when records expired and when Redis failed.
ReplayTellsTheTruth ==
    \A q \in Requests : source[q] # None =>
        LET p == source[q] IN
        /\ p # q /\ Executed(p)
        /\ Fingerprint(content[p]) = Fingerprint(content[q])
        /\ answer[q] = answer[p]

\* A failure is never replayed: "replaying the stored response on retry would
\* skip re-running it and silently drop the write".
FailureIsNotReplayed ==
    \A q \in Requests : source[q] # None => answer[q] # "broken"
=============================================================================
