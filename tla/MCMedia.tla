------------------------------- MODULE MCMedia -------------------------------
(* "room": peers, tracks and observers of a room; "quality": a viewer of a *)
(* simulcast stream whose network changes; "placement": the nodes a call   *)
(* is placed on and relayed to; "alerts": samples and alerts; "webhooks":  *)
(* the webhooks by which LiveKit reports what happens in its rooms.        *)
EXTENDS SfuRoom, MediaOps, QualityAlerts, LiveKitWebhook

CONSTANTS Sides

VARIABLE side

mcVars == <<roomVars, placeVars, alertVars, vars, side>>

Fine == [bw |-> "high", transport |-> "ok", decode |-> FALSE, audio |-> "ok", device |-> "any", mode |-> "auto",
         sampled |-> TRUE]

Nets ==
    {Fine, [Fine EXCEPT !.bw = "critical"], [Fine EXCEPT !.transport = "moderate"],
     [Fine EXCEPT !.bw = "medium", !.decode = TRUE], [Fine EXCEPT !.audio = "priority", !.transport = "critical"],
     [Fine EXCEPT !.device = "low"], [Fine EXCEPT !.device = "legacy"],
     [Fine EXCEPT !.sampled = FALSE], [Fine EXCEPT !.mode = "conserve"],
     [Fine EXCEPT !.mode = "audio_only"]}

MRegionDef == <<"east", "west", "west">>
CapsDef == [one_to_one |-> 2, group |-> 3, meeting |-> 4, webinar |-> 6, selector |-> 6]

SfuStreamsDef ==
    [cam |-> [src |-> "p", kind |-> "simulcast"], mic |-> [src |-> "p", kind |-> "plain"],
     far |-> [src |-> "relay", kind |-> "simulcast"]]

\* "quality" starts with a presenter, a viewer and one layer.
QualityInit ==
    /\ roomOpen = TRUE
    /\ peer = [u \in SfuUsers |->
                CASE u = "p" -> [Nobody EXCEPT !.role = "presenter", !.conn = 1]
                  [] u = "v" -> [Nobody EXCEPT !.role = "viewer", !.conn = 2, !.hears.cam = 1]
                  [] OTHER   -> Nobody]
    /\ track = [[s \in Streams |-> NoTrack] EXCEPT !.cam.src = "p", !.cam.gen = 1, !.cam.layers = {"medium", "high"}, !.cam.at["v"] = "high"]
    /\ observers = {} /\ closing = {} /\ gens = 1 /\ sfuOps = 0 /\ late = {}
    /\ onTrack = [k \in Handlers |-> [at |-> IF k = <<"cam", "high">> THEN "done" ELSE "none", conn |-> IF k[2] = "high" THEN 1 ELSE 0, gen |-> 0,
                                      first |-> FALSE]]
    /\ adapt = [k \in SfuUsers \X Streams |-> NoAdapt] /\ plan = [src \in Sources |-> NoPlan]
    /\ net = [u \in SfuUsers |-> Fine]

FirstEvent == CHOOSE e \in Events : TRUE

\* Bound: a side that is not exercised has one initial state.
MCInit ==
    /\ side \in Sides /\ AlertsInit /\ PlacementInit /\ Init
    /\ ev = [d \in Deliveries |-> FirstEvent]
    /\ IF side = "quality" THEN QualityInit ELSE RoomInit(Fine)
    /\ otherRooms = <<0, 0, 1>>

\* Bounds: two layers of the camera, one of the relayed stream.
RoomStep ==
    /\ side = "room" /\ TracksNext /\ UNCHANGED <<placeVars, alertVars, vars>>
    /\ onTrack'["cam", "medium"].at = "none"
    /\ onTrack'["far", "medium"].at = "none" /\ onTrack'["far", "low"].at = "none"

\* Bounds: one viewer is watched, and two of network changes and new layers.
QualityStep ==
    /\ side = "quality"
    /\ \/ QualityNext(Nets)
       \/ onTrack["cam", "low"].at = "none" /\ OnTrack("cam", "low")
       \/ MakeGroup("cam", "low") \/ AddLayer("cam", "low") \/ attachObserversToTrackLocked("cam", "low")
    /\ \A u \in SfuUsers \ {"v"} : net'[u] = net[u]
    /\ \A src \in Sources : plan'[src].u \in {"v", "none"}
    /\ sfuOps' <= 2
    /\ UNCHANGED <<placeVars, alertVars, vars>>

Compares(n) == n \in rooms \/ keys[n] # {}

\* Bounds: one node crashes, the other two place calls, nodes beat when they start,
\* packets of one edge are followed, and a fabric with nothing to compare is not run;
\* only the first two placements overlap.
PlacementStep ==
    /\ side = "placement" /\ PlacementNext
    /\ up' \in {MNodes, {1, 3}} /\ \A n \in MNodes : heart'[n] \in {heart[n], NoBeat} \/ heart[n] = NoBeat
    /\ task'[2] = NoTask /\ flying' \subseteq {[source |-> 1, target |-> 3]}
    /\ mediaOps' > 2 => \A n \in MNodes \ {1} : task'[n] = NoTask
    /\ live = "new" => up' = up
    /\ live = "ended" => mediaOps' = mediaOps /\ heart' = heart
    /\ \A n \in MNodes : Compares(n) \/ fabric'[n] \in {fabric[n], NoFabric}
    /\ UNCHANGED <<roomVars, alertVars, vars>>
AlertsStep == side = "alerts" /\ AlertsNext /\ UNCHANGED <<roomVars, placeVars, vars>>

\* Bounds: a webhook takes the first free handler (which one does not matter), two
\* deliveries fail or are too slow, and the second event comes before they do, in
\* copies that race for its row.
WebhooksStep ==
    /\ side = "webhooks" /\ Next /\ UNCHANGED <<roomVars, placeVars, alertVars>>
    /\ faults' + slow' <= 2
    /\ \A d \in Deliveries : pc'[d] = "insert" /\ pc[d] = "idle" =>
         /\ \A c \in Deliveries : c < d => pc[c] # "idle"
         /\ ev'[d] # FirstEvent => lastToken > 0 /\ status[ev'[d]] = "none" /\ faults + slow = 0

MCNext == (RoomStep \/ QualityStep \/ PlacementStep \/ AlertsStep \/ WebhooksStep) /\ UNCHANGED side

\* The collector samples the subscribers it has telemetry of and the fabric compares rooms and edges,
\* each on a ticker.
Fairness ==
    /\ WF_mcVars(side = "quality" /\ applyServerDrivenAdaptation("v", "cam") /\ UNCHANGED <<placeVars, alertVars, vars, side>>)
    /\ \A src \in Sources : WF_mcVars(side = "quality" /\ ApplyAdaptiveDecision(src) /\ UNCHANGED <<placeVars, alertVars, vars, side>>)
    /\ \A n \in MNodes :
        /\ WF_mcVars(side = "placement" /\ Compares(n) /\ DesiredObservers(n) /\ UNCHANGED <<roomVars, alertVars, vars, side>>)
        /\ WF_mcVars(side = "placement" /\ reconcileRelayObservers(n) /\ UNCHANGED <<roomVars, alertVars, vars, side>>)

MCSpec == MCInit /\ [][MCNext]_mcVars /\ Fairness
=============================================================================
