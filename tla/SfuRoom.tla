------------------------------ MODULE SfuRoom ------------------------------
(* A room of the SFU: its presenters and viewers, the tracks they publish  *)
(* and hear, the observers tapping them, and the controller choosing the   *)
(* simulcast layer of a subscriber (media/sfu).                            *)
(*                                                                        *)
(* Joining, leaving and closing hold the room's lock throughout; the       *)
(* handler of a new track takes it several times, so others come between.  *)
(* A connection that closed says so later, by its user's name.             *)
EXTENDS Integers, FiniteSets

CONSTANTS
    SfuUsers,
    SfuStreams,         \* [stream -> [src, kind]]: who publishes it; "relay" comes from another node
    MaxPresenters, MaxViewers, MaxTracks,
    SfuObservers,
    GoodSamples,        \* GoodSamplesForUpgrade
    MinUpswitch,        \* samples between switches upwards
    MaxSfuOps           \* bound on joins, leaves, tracks, observers, failed reports and changes of a network

VARIABLES
    roomOpen,
    peer,               \* [role, conn, hears]: hears[s] is the router a peer is attached to
    track,              \* [src, gen, layers, at, sinks]: a router or simulcast group, gen 0 when absent
    observers,
    onTrack,            \* handlers of tracks just received: [stream, layer] -> step
    closing,            \* users a closed connection of whom will still be reported
    adapt,              \* adaptiveState of a user and stream
    plan,               \* decisions made and not yet applied, by their source
    net,                \* network and device of a user, whether the collector samples it, and the host's mode
    gens,               \* routers made
    sfuOps,
    late                \* streams whose handler outlived its publisher's connection

roomVars == <<roomOpen, peer, track, observers, onTrack, closing, adapt, plan, net, gens, sfuOps, late>>

Layers == {"low", "medium", "high"}
Streams == DOMAIN SfuStreams
Kind(s) == SfuStreams[s].kind

\* The words for nobody and for another node name no user; a stream is published by
\* a user or another node.
ASSUME SfuAssumption ==
    /\ {"none", "relay"} \cap SfuUsers = {}
    /\ \A s \in Streams : SfuStreams[s].src \in SfuUsers \cup {"relay"} /\ Kind(s) \in {"plain", "simulcast"}

LayersOf(s) == IF Kind(s) = "plain" THEN {"all"} ELSE Layers

Nobody == [role |-> "none", conn |-> 0, hears |-> [s \in Streams |-> 0]]
NoTrack == [src |-> "none", gen |-> 0, layers |-> {}, at |-> [u \in SfuUsers |-> "none"], sinks |-> {}]
NoAdapt == [on |-> FALSE, good |-> 0, since |-> 0]
NoPlan == [u |-> "none", s |-> "none", target |-> "none", apply |-> FALSE]

Present(u) == peer[u].role # "none"
Presenters == {u \in SfuUsers : peer[u].role = "presenter"}
Viewers == {u \in SfuUsers : peer[u].role = "viewer"}
Bounded == sfuOps < MaxSfuOps /\ sfuOps' = sfuOps + 1
------------------------------------------------------------------------------
(* Simulcast layers.                                                      *)

layerPriority(q) ==
    IF q = "medium" THEN <<"medium", "low", "high">>
    ELSE IF q = "low" THEN <<"low", "medium", "high">>
    ELSE <<"high", "medium", "low">>

\* clampQuality and BestAvailableLayer: the first of the priority that is there.
BestAvailableLayer(layers, q) ==
    LET order == layerPriority(q)
    IN  IF order[1] \in layers THEN order[1]
        ELSE IF order[2] \in layers THEN order[2]
        ELSE IF order[3] \in layers THEN order[3] ELSE "high"

qualityRank(q) == CASE q = "low" -> 1 [] q = "medium" -> 2 [] OTHER -> 3

minQuality(a, b) == IF qualityRank(a) <= qualityRank(b) THEN a ELSE b

downgradeQuality(q) == IF q = "high" THEN "medium" ELSE "low"

\* rawDecision on a smoothed sample, its thresholds as classes: [bw, transport,
\* decode, audio].
rawDecision(n) ==
    LET byBandwidth == CASE n.bw \in {"critical", "low"} -> "low" [] n.bw = "medium" -> "medium" [] OTHER -> "high"
        byTransport == CASE n.transport \in {"critical", "poor"} -> minQuality(byBandwidth, "low")
                         [] n.transport = "moderate" -> minQuality(byBandwidth, "medium")
                         [] OTHER -> byBandwidth
        byDevice == IF n.decode THEN downgradeQuality(byTransport) ELSE byTransport
    IN  [quality |-> IF n.audio = "ok" THEN byDevice ELSE "low",
         urgent |-> n.bw = "critical" \/ n.transport = "critical" \/ n.audio # "ok",
         suspend |-> n.bw = "critical" \/ n.audio = "suspend"]

capForDevice(q, device) ==
    CASE device = "legacy" -> minQuality(q, "low")
      [] device = "low"    -> minQuality(q, "medium")
      [] OTHER             -> q

isDeviceConstrained(device) == device \in {"legacy", "low"}

\* The layer a sample asks for.
Wanted(n, layers) ==
    LET raw == rawDecision(n)
    IN  IF raw.suspend THEN BestAvailableLayer(layers, "low")
        ELSE capForDevice(BestAvailableLayer(layers, raw.quality), n.device)

\* Decide, dt after the last sample: up only after enough good samples and not
\* soon after a switch; one poor sample takes it down (the default), not right
\* after a switch unless it is urgent.
Hysteresis(st, n, current, want, dt, good) ==
    LET up == qualityRank(want) > qualityRank(current)
        down == qualityRank(want) < qualityRank(current)
        since == IF ~st.on THEN 0 ELSE IF st.since < MinUpswitch THEN st.since + dt ELSE st.since
        hold == \/ up /\ (good < GoodSamples \/ since < MinUpswitch)
                \/ down /\ since = 0 /\ ~rawDecision(n).urgent /\ ~isDeviceConstrained(n.device)
        target == IF hold THEN current ELSE want
    IN  [target |-> target, suspend |-> rawDecision(n).suspend,
         st |-> [on |-> TRUE, good |-> good, since |-> IF target # current THEN 0 ELSE since]]

Decide_Restarts(st, n, current, layers, dt) == Hysteresis(st, n, current, Wanted(n, layers), dt, 0)

Decide(st, n, current, layers, dt) ==
    LET want == Wanted(n, layers)
        good == IF qualityRank(want) <= qualityRank(current) THEN 0
                ELSE IF st.good < GoodSamples THEN st.good + 1 ELSE st.good
    IN  Hysteresis(st, n, current, want, dt, good)

\* The host's mode has the last word.
applyRuntimeQualityPolicy(q, mode) ==
    CASE mode = "conserve" -> IF q = "high" THEN "medium" ELSE q
      [] mode \in {"force_low", "audio_only"} -> "low"
      [] OTHER -> q

applyServerDrivenPolicy(q, mode) == applyRuntimeQualityPolicy(q, mode)
------------------------------------------------------------------------------
(* Subscriptions.  Subscribe keeps an attachment there is, whichever       *)
(* router it is to; subscribeToSimulcastLocked makes a new one.            *)

Heard(p, s, u, tr) ==
    IF tr.gen = 0 \/ tr.layers = {} \/ (p.role = "presenter" /\ tr.src = u) THEN p.hears[s]
    ELSE IF Kind(s) = "plain" /\ p.hears[s] # 0 THEN p.hears[s] ELSE tr.gen

\* A presenter starts with the high layer, a viewer with the medium one.
FirstLayer(role, s, layers) ==
    IF Kind(s) = "plain" THEN "all" ELSE BestAvailableLayer(layers, IF role = "presenter" THEN "high" ELSE "medium")

subscribePeerToExistingTracks(u, p) ==
    /\ peer' = [peer EXCEPT ![u] = [p EXCEPT !.hears = [s \in Streams |-> Heard(p, s, u, track[s])]]]
    /\ track' = [s \in Streams |->
                    IF track[s].layers = {} \/ (p.role = "presenter" /\ track[s].src = u) THEN track[s]
                    ELSE [track[s] EXCEPT !.at[u] = FirstLayer(p.role, s, track[s].layers)]]

\* Everyone but the publisher hears router tr of stream s, on layer l.
SubscribeAll(s, tr, l) ==
    LET hearers == {u \in SfuUsers : Present(u) /\ ~(peer[u].role = "presenter" /\ tr.src = u)}
    IN  /\ peer' = [u \in SfuUsers |-> IF u \in hearers THEN [peer[u] EXCEPT !.hears[s] = Heard(peer[u], s, u, tr)]
                                       ELSE peer[u]]
        /\ track' = [track EXCEPT ![s] = [tr EXCEPT !.at = [u \in SfuUsers |-> IF u \in hearers THEN l ELSE tr.at[u]]]]
------------------------------------------------------------------------------
(* Peers.                                                                 *)

newPeer(u, role) == [Nobody EXCEPT !.role = role, !.conn = sfuOps + 1]

AddPresenter(u) ==
    /\ roomOpen /\ ~Present(u) /\ Cardinality(Presenters) < MaxPresenters /\ Bounded
    /\ subscribePeerToExistingTracks(u, newPeer(u, "presenter"))
    /\ UNCHANGED <<roomOpen, observers, onTrack, closing, adapt, plan, net, gens, late>>

AddViewer(u) ==
    /\ roomOpen /\ ~Present(u) /\ Cardinality(Viewers) < MaxViewers /\ Bounded
    /\ subscribePeerToExistingTracks(u, newPeer(u, "viewer"))
    /\ UNCHANGED <<roomOpen, observers, onTrack, closing, adapt, plan, net, gens, late>>

\* removePresenterTracksLocked: the presenter's tracks go, from everyone; its
\* entries in the tracks of others stay.
removePresenterTracksLocked(u) ==
    LET own == {s \in Streams : track[s].src = u}
    IN  /\ track' = [s \in Streams |-> IF s \in own THEN NoTrack ELSE track[s]]
        /\ peer' = [v \in SfuUsers |->
                        IF v = u THEN Nobody
                        ELSE [peer[v] EXCEPT !.hears = [s \in Streams |-> IF s \in own THEN 0 ELSE peer[v].hears[s]]]]
        /\ late' = late \ own
        /\ adapt' = [k \in DOMAIN adapt |-> IF k[1] = u \/ k[2] \in own THEN NoAdapt ELSE adapt[k]]

removeViewerSubscriptionsLocked(u) ==
    /\ track' = [s \in Streams |-> [track[s] EXCEPT !.at[u] = "none"]]
    /\ peer' = [peer EXCEPT ![u] = Nobody]
    /\ adapt' = [k \in DOMAIN adapt |-> IF k[1] = u THEN NoAdapt ELSE adapt[k]]
    /\ UNCHANGED late

DropPeer(u) ==
    IF ~roomOpen \/ ~Present(u) THEN UNCHANGED <<peer, track, adapt, late>>
    ELSE IF peer[u].role = "presenter" THEN removePresenterTracksLocked(u)
    ELSE removeViewerSubscriptionsLocked(u)

\* RemovePeer: its connection is closed afterwards, which is reported in turn.
RemovePeer(u) ==
    /\ roomOpen /\ Present(u) /\ Bounded
    /\ DropPeer(u) /\ closing' = closing \cup {u}
    /\ UNCHANGED <<roomOpen, observers, onTrack, plan, net, gens>>

\* The report removes whoever has that name by now.
ConnectionClosed(u) ==
    /\ u \in closing /\ DropPeer(u)
    /\ closing' = closing \ {u}
    /\ UNCHANGED <<roomOpen, observers, onTrack, plan, net, gens, sfuOps>>

CloseRoom ==
    /\ roomOpen /\ Bounded /\ roomOpen' = FALSE
    /\ peer' = [u \in SfuUsers |-> Nobody] /\ track' = [s \in Streams |-> NoTrack]
    /\ closing' = closing \cup {u \in SfuUsers : Present(u)} /\ late' = {}
    /\ UNCHANGED <<observers, onTrack, adapt, plan, net, gens>>
------------------------------------------------------------------------------
(* Tracks.                                                                *)

publisherTrackCountLocked(u) == Cardinality({s \in Streams : track[s].gen # 0 /\ track[s].src = u})

canPublishTrackLocked(u, s) ==
    (track[s].gen # 0 /\ track[s].src = u) \/ publisherTrackCountLocked(u) < MaxTracks

Relayed(s) == SfuStreams[s].src = "relay"

\* OnTrack: a connection announces each layer of its streams once.
OnTrack(s, l) ==
    LET u == SfuStreams[s].src
    IN  /\ ~Relayed(s) /\ onTrack[<<s, l>>].at \in {"none", "done"} /\ Bounded
        /\ peer[u].role = "presenter" /\ onTrack[<<s, l>>].conn # peer[u].conn
        /\ onTrack' = [onTrack EXCEPT ![<<s, l>>] = [at |-> IF Kind(s) = "plain" THEN "check" ELSE "make",
                                                 conn |-> peer[u].conn, gen |-> 0, first |-> FALSE]]
        /\ UNCHANGED <<roomOpen, peer, track, observers, closing, adapt, plan, net, gens, late>>

\* The first packet of a relayed layer, for a room that is found; it may be closed
\* by the time the track is made.
InjectRelayPacket(s, l) ==
    /\ Relayed(s) /\ onTrack[<<s, l>>].at = "none" /\ roomOpen /\ Bounded
    /\ onTrack' = [onTrack EXCEPT ![<<s, l>>].at = IF Kind(s) = "plain" THEN "add" ELSE "make"]
    /\ UNCHANGED <<roomOpen, peer, track, observers, closing, adapt, plan, net, gens, late>>

\* The publisher's connection is no longer the one that sent the track.
Outlived(s, l) == ~Relayed(s) /\ peer[SfuStreams[s].src].conn # onTrack[<<s, l>>].conn

Finish(s, l) == onTrack' = [onTrack EXCEPT ![<<s, l>>].at = "done"]

\* canPublishTrack, in a section of its own.
CheckTrack(s, l) ==
    /\ onTrack[<<s, l>>].at = "check"
    /\ onTrack' = [onTrack EXCEPT ![<<s, l>>].at =
                    IF canPublishTrackLocked(SfuStreams[s].src, s) THEN "add" ELSE "done"]
    /\ UNCHANGED <<roomOpen, peer, track, observers, closing, adapt, plan, net, gens, sfuOps, late>>

\* handleNewTrack: the router joins the room with its observers and subscribers,
\* unless the room is closed (injectRelayTrackPacket: only when it is not there).
handleNewTrack(s, l) ==
    /\ onTrack[<<s, l>>].at = "add" /\ Finish(s, l)
    /\ IF (IF Relayed(s) THEN track[s].gen # 0 ELSE ~roomOpen) THEN UNCHANGED <<peer, track, gens, late>>
       ELSE /\ gens' = gens + 1
            /\ SubscribeAll(s, [NoTrack EXCEPT !.src = SfuStreams[s].src, !.gen = gens + 1, !.layers = {l},
                                               !.sinks = {<<l, o>> : o \in observers}], l)
            /\ late' = IF Outlived(s, l) THEN late \cup {s} ELSE late
    /\ UNCHANGED <<roomOpen, observers, closing, adapt, plan, net, sfuOps>>

\* handleSimulcastTrack: the group is found or made,
MakeGroup(s, l) ==
    /\ onTrack[<<s, l>>].at = "make"
    /\ IF ~Relayed(s) /\ (~roomOpen \/ (track[s].gen = 0 /\ ~canPublishTrackLocked(SfuStreams[s].src, s)))
       THEN Finish(s, l) /\ UNCHANGED <<track, gens, late>>
       ELSE IF track[s].gen # 0
       THEN onTrack' = [onTrack EXCEPT ![<<s, l>>].at = "layer", ![<<s, l>>].gen = track[s].gen] /\ UNCHANGED <<track, gens, late>>
       ELSE /\ gens' = gens + 1
            /\ track' = [track EXCEPT ![s] = [NoTrack EXCEPT !.src = SfuStreams[s].src, !.gen = gens + 1]]
            /\ onTrack' = [onTrack EXCEPT ![<<s, l>>] = [at |-> "layer", conn |-> @.conn, gen |-> gens + 1, first |-> TRUE]]
            /\ late' = IF Outlived(s, l) THEN late \cup {s} ELSE late
    /\ UNCHANGED <<roomOpen, peer, observers, closing, adapt, plan, net, sfuOps>>

\* its layer is added, unless the group was closed,
AddLayer(s, l) ==
    /\ onTrack[<<s, l>>].at = "layer"
    /\ IF track[s].gen # onTrack[<<s, l>>].gen THEN Finish(s, l) /\ UNCHANGED <<track, late>>
       ELSE /\ track' = [track EXCEPT ![s].layers = @ \cup {l}]
            /\ onTrack' = [onTrack EXCEPT ![<<s, l>>].at = "watch"]
            /\ late' = IF Outlived(s, l) THEN late \cup {s} ELSE late
    /\ UNCHANGED <<roomOpen, peer, observers, closing, adapt, plan, net, gens, sfuOps>>

\* the observers are attached to the layer,
attachObserversToTrackLocked(s, l) ==
    /\ onTrack[<<s, l>>].at = "watch" /\ ~Relayed(s)
    /\ track' = IF track[s].gen # onTrack[<<s, l>>].gen THEN track
                ELSE [track EXCEPT ![s].sinks = @ \cup {<<l, o>> : o \in observers}]
    /\ onTrack' = [onTrack EXCEPT ![<<s, l>>].at = IF onTrack[<<s, l>>].first THEN "tell" ELSE "done"]
    /\ UNCHANGED <<roomOpen, peer, observers, closing, adapt, plan, net, gens, sfuOps, late>>

\* and the first layer of the group is sent to everyone.
handleSimulcastTrack_Later(s, l) ==
    /\ onTrack[<<s, l>>].at = "tell" /\ Finish(s, l)
    /\ UNCHANGED <<roomOpen, peer, track, observers, closing, adapt, plan, net, gens, sfuOps, late>>

handleSimulcastTrack(s, l) ==
    /\ onTrack[<<s, l>>].at = "tell" /\ Finish(s, l)
    /\ IF track[s].gen # onTrack[<<s, l>>].gen THEN UNCHANGED <<peer, track>> ELSE SubscribeAll(s, track[s], l)
    /\ UNCHANGED <<roomOpen, observers, closing, adapt, plan, net, gens, sfuOps, late>>

\* For a relayed layer both happen under one lock.
injectRelaySimulcastPacket(s, l) ==
    LET tr == [track[s] EXCEPT !.sinks = @ \cup {<<l, o>> : o \in observers}]
    IN  /\ onTrack[<<s, l>>].at = "watch" /\ Relayed(s) /\ Finish(s, l)
        /\ IF track[s].gen # onTrack[<<s, l>>].gen THEN UNCHANGED <<peer, track>>
           ELSE IF onTrack[<<s, l>>].first THEN SubscribeAll(s, tr, l)
           ELSE track' = [track EXCEPT ![s] = tr] /\ UNCHANGED peer
        /\ UNCHANGED <<roomOpen, observers, closing, adapt, plan, net, gens, sfuOps, late>>
------------------------------------------------------------------------------
(* Observers.                                                             *)

AddObserver(o) ==
    /\ roomOpen /\ o \notin observers /\ Bounded
    /\ observers' = observers \cup {o}
    /\ track' = [s \in Streams |-> [track[s] EXCEPT !.sinks = @ \cup (track[s].layers \X {o})]]
    /\ UNCHANGED <<roomOpen, peer, onTrack, closing, adapt, plan, net, gens, late>>

\* RemoveObserver leaves the sinks where they are.
RemoveObserver(o) ==
    /\ o \in observers /\ Bounded
    /\ observers' = observers \ {o}
    /\ UNCHANGED <<roomOpen, peer, track, onTrack, closing, adapt, plan, net, gens, late>>
------------------------------------------------------------------------------
(* Adaptation: a client's report or the collector's sample is planned,     *)
(* and applied a while later.                                              *)

Sources == {"client", "server"}

\* A client reports its device; serverDrivenSamplesForParticipant sets neither
\* DeviceClass nor LowPowerMode, and the controller keeps none.
SampleOf(src, u) == IF src = "client" THEN net[u] ELSE [net[u] EXCEPT !.device = "any"]

PlanSubscriberAdaptation(src, u, s, dt) ==
    LET tr == track[s]
        current == IF tr.at[u] = "none" THEN "medium" ELSE tr.at[u]
        d == Decide(adapt[<<u, s>>], SampleOf(src, u), current, tr.layers, dt)
        target == IF src = "client" THEN applyRuntimeQualityPolicy(d.target, net[u].mode)
                  ELSE applyServerDrivenPolicy(d.target, net[u].mode)
    IN  /\ Kind(s) = "simulcast" /\ tr.gen # 0 /\ Present(u) /\ plan[src] = NoPlan
        /\ adapt' = [adapt EXCEPT ![<<u, s>>] = d.st]
        /\ plan' = [plan EXCEPT ![src] = [u |-> u, s |-> s, target |-> target,
                        apply |-> target # current \/ d.suspend \/ net[u].mode = "audio_only"]]
        /\ UNCHANGED <<roomOpen, peer, track, observers, onTrack, closing, net, gens, sfuOps, late>>

\* A client reports where the stream and its peer are there,
ReportNetworkQuality(u, s, dt) == PlanSubscriberAdaptation("client", u, s, dt)

\* the collector samples the streams the peer is recorded on, an interval apart,
\* if ServerDrivenEnabled is on, the room is placed and there is telemetry.
applyServerDrivenAdaptation(u, s) ==
    net[u].sampled /\ track[s].at[u] # "none" /\ PlanSubscriberAdaptation("server", u, s, 1)

\* SetSubscriberQuality: nothing for a layer the user is on or is not there for.
SetSubscriberQuality(u, s, q) ==
    LET actual == BestAvailableLayer(track[s].layers, q)
    IN  IF track[s].gen = 0 \/ track[s].at[u] = actual \/ ~Present(u) \/ track[s].layers = {} THEN UNCHANGED <<peer, track>>
        ELSE /\ track' = [track EXCEPT ![s].at[u] = actual]
             /\ peer' = [peer EXCEPT ![u].hears[s] = IF @ = 0 THEN track[s].gen ELSE @]

ApplyAdaptiveDecision(src) ==
    /\ plan[src] # NoPlan /\ plan' = [plan EXCEPT ![src] = NoPlan]
    /\ IF plan[src].apply THEN SetSubscriberQuality(plan[src].u, plan[src].s, plan[src].target) ELSE UNCHANGED <<peer, track>>
    /\ UNCHANGED <<roomOpen, observers, onTrack, closing, adapt, net, gens, sfuOps, late>>

\* ReportNetworkQuality gives up when its snapshot or the alert on it is not
\* stored, before the decision is applied.
ReportFails ==
    /\ plan["client"] # NoPlan /\ plan' = [plan EXCEPT !["client"] = NoPlan] /\ Bounded
    /\ UNCHANGED <<roomOpen, peer, track, observers, onTrack, closing, adapt, net, gens, late>>

\* A network, a device or the host's policy changes, or telemetry comes or goes.
NetworkChange(u, n) ==
    /\ n # net[u] /\ Bounded /\ net' = [net EXCEPT ![u] = n]
    /\ UNCHANGED <<roomOpen, peer, track, observers, onTrack, closing, adapt, plan, gens, late>>
------------------------------------------------------------------------------
Handlers == {k \in Streams \X (Layers \cup {"all"}) : k[2] \in LayersOf(k[1])}

RoomInit(n) ==
    /\ roomOpen = TRUE /\ peer = [u \in SfuUsers |-> Nobody] /\ track = [s \in Streams |-> NoTrack]
    /\ observers = {} /\ closing = {} /\ gens = 0 /\ sfuOps = 0 /\ late = {}
    /\ onTrack = [k \in Handlers |-> [at |-> "none", conn |-> 0, gen |-> 0, first |-> FALSE]]
    /\ adapt = [k \in SfuUsers \X Streams |-> NoAdapt] /\ plan = [src \in Sources |-> NoPlan]
    /\ net = [u \in SfuUsers |-> n]

TracksNext ==
    \/ \E u \in SfuUsers : AddPresenter(u) \/ AddViewer(u) \/ RemovePeer(u) \/ ConnectionClosed(u)
    \/ \E k \in Handlers :
        \/ OnTrack(k[1], k[2]) \/ InjectRelayPacket(k[1], k[2]) \/ CheckTrack(k[1], k[2]) \/ handleNewTrack(k[1], k[2])
        \/ MakeGroup(k[1], k[2]) \/ AddLayer(k[1], k[2]) \/ attachObserversToTrackLocked(k[1], k[2])
        \/ handleSimulcastTrack(k[1], k[2]) \/ injectRelaySimulcastPacket(k[1], k[2])
    \/ \E o \in SfuObservers : AddObserver(o) \/ RemoveObserver(o)
    \/ CloseRoom

QualityNext(nets) ==
    \/ \E src \in Sources : ApplyAdaptiveDecision(src)
    \/ ReportFails
    \/ \E u \in SfuUsers, s \in Streams :
        (\E dt \in {0, 1} : ReportNetworkQuality(u, s, dt)) \/ applyServerDrivenAdaptation(u, s)
    \/ \E u \in SfuUsers, n \in nets : NetworkChange(u, n)

\* A room whose users are on any of these networks.
RoomSpec(nets) == (\E n \in nets : RoomInit(n)) /\ [][TracksNext \/ QualityNext(nets)]_roomVars
------------------------------------------------------------------------------
\* Whatever the order of joins, tracks, layers and observers: once no handler is
\* at work, everyone in the room hears every track of the others, on a layer there
\* is, and every observer sees every layer.
EveryoneHears ==
    roomOpen /\ (\A k \in Handlers : onTrack[k].at \in {"none", "done"}) =>
        \A s \in Streams \ late : track[s].gen # 0 =>
            /\ \A u \in SfuUsers : Present(u) /\ track[s].src # u =>
                peer[u].hears[s] = track[s].gen /\ track[s].at[u] \in track[s].layers
            /\ track[s].layers \X observers \subseteq track[s].sinks

\* The layer a user's network, device and host ask for.
Goal(u, s) ==
    BestAvailableLayer(track[s].layers, applyRuntimeQualityPolicy(Wanted(net[u], track[s].layers), net[u].mode))

\* When networks stay as they are and reports stop failing, every subscriber the
\* collector samples settles on the layer its network asks for: waiting for good
\* samples never starves an upgrade, a decision applied late is corrected, and
\* clients reporting in between do no harm.  A device that must be capped is
\* excepted: only its own reports know of it, and the collector's samples lift
\* it again.
QualitySettles ==
    \A u \in SfuUsers, s \in Streams :
        Kind(s) = "simulcast" =>
            <>[](net[u].sampled /\ ~isDeviceConstrained(net[u].device)
                 /\ adapt[<<u, s>>].on /\ Present(u) /\ track[s].at[u] # "none"
                    => track[s].at[u] = Goal(u, s))
=============================================================================
