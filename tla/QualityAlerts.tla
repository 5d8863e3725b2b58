---------------------------- MODULE QualityAlerts ----------------------------
(* Samples of a call's quality and the alerts raised on them               *)
(* (service/mediaops, repository/postgres/media).                          *)
(*                                                                        *)
(* A client's report and the server's collector each append a sample, read *)
(* the latest ones and raise or resolve two kinds of alert, without a      *)
(* transaction, so their evaluations interleave.                           *)
EXTENDS Integers, FiniteSets, Sequences, SequencesExt

CONSTANTS
    QWindow,            \* samples an evaluation looks at
    MaxSamples

Reporters == {"client", "server"}
VARIABLES
    samples,            \* [by, bad], oldest first
    alerting,           \* alerting_enabled of the call's policy
    alert,              \* active row of each kind
    raised,             \* kinds an alert was ever stored of
    eval                \* an evaluation: [at, bad, differs]

alertVars == <<samples, alerting, alert, raised, eval>>

NoEval == [at |-> "idle", bad |-> FALSE, differs |-> FALSE]

\* The last of a reporter's samples.
Latest(window, by) == SelectLastInSeq(window, LAMBDA x : x.by = by)

\* shouldAlertOnSummary: the worst sample counts.
shouldAlertOnSummary(window) == \E i \in DOMAIN window : window[i].bad

\* correlateSnapshots: the latest samples of both sides differ, or one is missing.
correlateSnapshots(window) ==
    LET s == Latest(window, "server")
        c == Latest(window, "client")
    IN  s = 0 \/ c = 0 \/ window[s].bad # window[c].bad

ListQoSSamples == SubSeq(samples, IF Len(samples) > QWindow THEN Len(samples) - QWindow + 1 ELSE 1, Len(samples))

AppendQoSSamples(by, bad) ==
    /\ eval[by].at \in {"idle", "done", "failed"} /\ Len(samples) < MaxSamples
    /\ samples' = Append(samples, [by |-> by, bad |-> bad])
    /\ eval' = [eval EXCEPT ![by] = [NoEval EXCEPT !.at = "evaluate"]]
    /\ UNCHANGED <<alerting, alert, raised>>

\* A client's report and the collector append a sample, then evaluate.
RecordQualitySnapshot(bad) == AppendQoSSamples("client", bad)
collectTelemetry(bad) == AppendQoSSamples("server", bad)

\* evaluateQualityAlerts: without alerting both kinds are resolved.
evaluateQualityAlerts(by) ==
    /\ eval[by].at = "evaluate"
    /\ eval' = [eval EXCEPT ![by] = [at |-> "degraded", bad |-> alerting /\ shouldAlertOnSummary(ListQoSSamples),
                                     differs |-> alerting /\ correlateSnapshots(ListQoSSamples)]]
    /\ UNCHANGED <<samples, alerting, alert, raised>>

\* The kinds the table admits (migration 025).
StoredKinds == {"packet_loss", "jitter", "rtt", "bitrate", "degraded_overall", "mismatch"}

\* UpsertQualityAlert: the active row is updated, or one is inserted.
UpsertQualityAlert(kind, by, next) ==
    IF kind \in alert \/ kind \in StoredKinds
    THEN alert' = alert \cup {kind} /\ raised' = raised \cup {kind} /\ eval' = [eval EXCEPT ![by].at = next]
    ELSE eval' = [eval EXCEPT ![by].at = "failed"] /\ UNCHANGED <<alert, raised>>

ResolveQualityAlert(kind, by, next) ==
    alert' = alert \ {kind} /\ eval' = [eval EXCEPT ![by].at = next] /\ UNCHANGED raised

\* First the alert on a degraded call; a failure ends the evaluation,
AlertDegraded(by) ==
    /\ eval[by].at = "degraded"
    /\ IF eval[by].bad THEN UpsertQualityAlert("degraded_call", by, "mismatch")
       ELSE ResolveQualityAlert("degraded_call", by, "mismatch")
    /\ UNCHANGED <<samples, alerting>>

\* then the one on client and server disagreeing.
AlertMismatch(by) ==
    /\ eval[by].at = "mismatch"
    /\ IF eval[by].differs THEN UpsertQualityAlert("server_client_mismatch", by, "done")
       ELSE ResolveQualityAlert("server_client_mismatch", by, "done")
    /\ UNCHANGED <<samples, alerting>>

UpdateCallQualityPolicy ==
    /\ Len(samples) < MaxSamples /\ alerting' = ~alerting
    /\ UNCHANGED <<samples, alert, raised, eval>>

AlertsInit ==
    /\ samples = <<>> /\ alerting = TRUE /\ alert = {} /\ raised = {}
    /\ eval = [by \in Reporters |-> NoEval]

AlertsNext ==
    \/ \E by \in Reporters : evaluateQualityAlerts(by) \/ AlertDegraded(by) \/ AlertMismatch(by)
    \/ \E bad \in BOOLEAN : RecordQualitySnapshot(bad) \/ collectTelemetry(bad)
    \/ UpdateCallQualityPolicy
------------------------------------------------------------------------------
\* A sample that is beyond the thresholds or that the other side contradicts
\* leaves an alert behind ("expected mismatch or degraded alert to be created",
\* the test of RecordQualitySnapshot).
BadSampleIsAlerted ==
    \A by \in Reporters :
        eval[by].at \in {"done", "failed"} /\ (eval[by].bad \/ eval[by].differs) => raised # {}
=============================================================================
