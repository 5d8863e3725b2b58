------------------------------ MODULE EventLog ------------------------------
(* What the realtime outbox promises those who enqueue events: an event     *)
(* whose transaction commits is delivered, once the stream has it, or given *)
(* up, and that is the end of it, unless a worker outlived its lease; an     *)
(* event whose transaction is rolled back never reaches the stream.          *)
CONSTANT Events

VARIABLES
    log,      \* log[e]: what became of event e
    stored,   \* the events the stream has
    late      \* a worker has outlived its lease

logVars == <<log, stored, late>>

Init ==
    /\ log = [e \in Events |-> "free"]
    /\ stored = {}
    /\ late = FALSE

Begin(e) ==
    /\ log[e] = "free"
    /\ log' = [log EXCEPT ![e] = "open"]
    /\ UNCHANGED <<stored, late>>

Decide(e) ==
    /\ log[e] = "open"
    /\ \E to \in {"accepted", "void"} : log' = [log EXCEPT ![e] = to]
    /\ UNCHANGED <<stored, late>>

Accepted(e) == log[e] \in {"accepted", "delivered", "dropped"}

Store(e) ==
    /\ Accepted(e)
    /\ stored' = stored \cup {e}
    /\ UNCHANGED <<log, late>>

\* A worker whose lease ran out decides again what was decided.
Settle(e, to) ==
    /\ log[e] = "accepted" \/ (late /\ Accepted(e))
    /\ to = "delivered" => e \in stored
    /\ log' = [log EXCEPT ![e] = to]
    /\ UNCHANGED <<stored, late>>

Overrun == late' = TRUE /\ UNCHANGED <<log, stored>>

Next ==
    \/ \E e \in Events : \/ Begin(e) \/ Decide(e) \/ Store(e)
                         \/ \E to \in {"accepted", "delivered", "dropped"} : Settle(e, to)
    \/ Overrun

Spec == Init /\ [][Next]_logVars
=============================================================================
