------------------------------ MODULE MediaOps ------------------------------
(* Where the media of a call runs, how it reaches other nodes, and the     *)
(* alerts on its quality (service/mediaops).                               *)
(*                                                                        *)
(* Nodes announce themselves by heartbeats that expire.  A call is placed  *)
(* on one node for good; relay edges name the nodes its media is sent on   *)
(* to.  Every node compares its rooms with the edges now and then and      *)
(* attaches an observer for each target; a node that gets a relayed packet *)
(* opens a room for it.                                                    *)
EXTENDS Integers, FiniteSets, Sequences, SequencesExt

CONSTANTS
    MNodes,             \* numbers, so that node ids are ordered; 0 is no node
    MRegion,            \* [node -> region]
    CallTypes,
    Caps,               \* [type -> cap on participants]
    FanoutThreshold,
    MaxRooms,
    MaxMediaOps         \* bound on crashes and placements

VARIABLES
    up, heart, nodeSet, \* heart[n]: the snapshot of a node's last heartbeat
    rooms,              \* nodes that have a room of the call
    otherRooms,         \* rooms of other calls
    callType, live,
    placed, edges,      \* media_room_placements, media_relay_edges: [source, target, ver]
    task,               \* EnsurePlacement at work on a node
    fabric,             \* reconcileRelayObservers at work on a node
    keys, roomObs, sinks,  \* relayObservers, observers of the room, packet sinks they left
    flying,             \* relayed packets [source, target]
    mediaOps

placeVars == <<up, heart, nodeSet, rooms, otherRooms, callType, live, placed, edges, task, fabric, keys, roomObs,
               sinks, flying, mediaOps>>

NoBeat == [id |-> 0, region |-> "none", load |-> 0, full |-> FALSE]
NoTask == [at |-> "idle", nodes |-> {}, gone |-> {}, row |-> 0, seen |-> {}, ver |-> 0, start |-> FALSE]
NoFabric == [at |-> "idle", want |-> {}]
Targets(es) == {e.target : e \in es}
Counted == mediaOps < MaxMediaOps /\ mediaOps' = mediaOps + 1
------------------------------------------------------------------------------
(* Policy of a call.                                                      *)

minPositive(a, b) == IF a <= 0 THEN b ELSE IF b <= 0 THEN a ELSE IF a < b THEN a ELSE b

participantCapByType(type) == IF type \in DOMAIN Caps THEN Caps[type] ELSE Caps["meeting"]

PolicyForCall(type) ==
    LET cap == participantCapByType(type)
        big == type \in {"webinar", "selector"}
    IN  [viewers  |-> IF big THEN cap ELSE 0, participants |-> cap,
         presenters |-> minPositive(cap, CASE type = "one_to_one" -> 2 [] type = "group" -> 8 [] OTHER -> 32),
         fanout   |-> CASE type \in {"one_to_one", "group"} -> "single"
                        [] big /\ cap >= FanoutThreshold -> "edges"
                        [] OTHER -> "cascade",
         overflow |-> IF type \in {"one_to_one", "group"} THEN "reject" ELSE "move"]
------------------------------------------------------------------------------
(* Nodes.                                                                 *)

RoomsAt(n) == otherRooms[n] + IF n \in rooms THEN 1 ELSE 0

localNodeSnapshot(n) ==
    [id |-> n, region |-> MRegion[n], load |-> RoomsAt(n), full |-> MaxRooms > 0 /\ RoomsAt(n) >= MaxRooms]

publishNodeHeartbeat(n) ==
    /\ heart' = [heart EXCEPT ![n] = localNodeSnapshot(n)] /\ nodeSet' = nodeSet \cup {n}
    /\ UNCHANGED <<up, rooms, otherRooms, callType, live, placed, edges, task, fabric, keys, roomObs, sinks, flying, mediaOps>>

RunNodeHeartbeat(n) == n \in up /\ publishNodeHeartbeat(n)

\* A heartbeat outlives its node until it expires.
HeartbeatExpires(n) ==
    /\ n \notin up /\ heart[n] # NoBeat /\ heart' = [heart EXCEPT ![n] = NoBeat]
    /\ UNCHANGED <<up, nodeSet, rooms, otherRooms, callType, live, placed, edges, task, fabric, keys, roomObs, sinks, flying, mediaOps>>

\* What ListNodes finds; the ids without a heartbeat are taken off the set later.
ListNodes(n) ==
    LET known == {heart[m] : m \in {m \in nodeSet : heart[m] # NoBeat}}
    IN  IF known = {} THEN {localNodeSnapshot(n)} ELSE known

filterAvailableNodes(nodes) == {m \in nodes : ~m.full}

filterNodesByRegion(nodes, region) ==
    LET there == {m \in nodes : m.region = region} IN IF there = {} THEN nodes ELSE there

\* The candidates among which the hash of the call id picks.
selectNode(n, nodes, policy) ==
    LET near == filterAvailableNodes(filterNodesByRegion(nodes, MRegion[n]))
    IN  IF near # {} THEN near ELSE IF policy.overflow = "reject" THEN {} ELSE filterAvailableNodes(nodes)

\* Nodes by load and id.
ByLoad(nodes) ==
    SetToSortSeq(nodes, LAMBDA a, b : a.load < b.load \/ (a.load = b.load /\ a.id < b.id))

\* How many relays: one per other region, or by the size of the audience.
RelayCount(candidates, region, policy) ==
    LET away == {m.region : m \in candidates} \ {region}
        audience == IF policy.viewers > 0 THEN policy.viewers ELSE policy.participants
        extra == (audience + FanoutThreshold - 1) \div FanoutThreshold - 1
        want == IF policy.fanout = "cascade" THEN (IF away = {} THEN 1 ELSE Cardinality(away))
                ELSE IF extra > 1 THEN extra ELSE 1
    IN  IF want > Cardinality(candidates) THEN Cardinality(candidates) ELSE want

\* selectRelayNodes: the least loaded, a cascade one of each region first.
selectRelayNodes(candidates, region, policy) ==
    LET order == ByLoad(candidates)
        pick(acc, m) == IF policy.fanout = "cascade" /\ \E x \in ToSet(acc) : x.region = m.region THEN acc ELSE Append(acc, m)
        first == FoldLeft(pick, <<>>, order)
    IN  SubSeq(first \o SelectSeq(order, LAMBDA m : m \notin ToSet(first)), 1, RelayCount(candidates, region, policy))

buildRelayEdges(row, nodes, policy, v) ==
    LET candidates == {m \in filterAvailableNodes(nodes) : m.id # row}
    IN  IF policy.fanout = "single" \/ candidates = {} THEN {}
        ELSE {[source |-> row, target |-> m.id, ver |-> v] :
                m \in ToSet(selectRelayNodes(candidates, MRegion[row], policy))}
------------------------------------------------------------------------------
(* Placement.                                                             *)

Step(n, t) == task' = [task EXCEPT ![n] = t]

EnsurePlacement(n, start) ==
    /\ n \in up /\ task[n] = NoTask /\ Counted
    /\ IF start THEN live = "new" /\ live' = "live" ELSE live = "live" /\ UNCHANGED live
    /\ Step(n, [NoTask EXCEPT !.at = "listed", !.nodes = ListNodes(n), !.start = start, !.ver = mediaOps + 1,
                              !.gone = {m \in nodeSet : heart[m] = NoBeat}])
    /\ UNCHANGED <<up, heart, nodeSet, rooms, otherRooms, callType, placed, edges, fabric, keys, roomObs, sinks, flying>>

\* A call starts, or someone asks where a participant is served (CanServeNode too).
StartCall(n) == EnsurePlacement(n, TRUE)
ResolveParticipantPlacement(n) == EnsurePlacement(n, FALSE)

\* The ids found missing leave the set; a placement there is stays, else a node
\* is picked.
GetPlacement(n) ==
    /\ task[n].at = "listed" /\ nodeSet' = nodeSet \ task[n].gone
    /\ IF placed # 0 THEN Step(n, [task[n] EXCEPT !.at = "upsert", !.row = placed])
       ELSE LET candidates == selectNode(n, task[n].nodes, PolicyForCall(callType))
            IN  IF candidates = {} THEN Step(n, [task[n] EXCEPT !.at = "end", !.row = 0])
                ELSE \E m \in candidates : Step(n, [task[n] EXCEPT !.at = "upsert", !.row = m.id])
    /\ UNCHANGED <<up, heart, rooms, otherRooms, callType, live, placed, edges, fabric, keys, roomObs, sinks, flying, mediaOps>>

\* The row is written, also when it was read; a failure ends the attempt.
UpsertPlacement(n) ==
    /\ task[n].at = "upsert"
    /\ \/ placed' = task[n].row /\ Step(n, [task[n] EXCEPT !.at = "delete"])
       \/ UNCHANGED placed /\ Step(n, [task[n] EXCEPT !.at = "end", !.row = 0])
    /\ UNCHANGED <<up, heart, nodeSet, rooms, otherRooms, callType, live, edges, fabric, keys, roomObs, sinks, flying, mediaOps>>

\* ReplaceRelayEdges deletes the rows it sees
DeleteEdges(n) ==
    /\ task[n].at = "delete" /\ Step(n, [task[n] EXCEPT !.at = "insert", !.seen = edges])
    /\ UNCHANGED <<up, heart, nodeSet, rooms, otherRooms, callType, live, placed, edges, fabric, keys, roomObs, sinks, flying, mediaOps>>

\* and inserts its own: after one that locked the same rows first, and not where
\* that one put a row for the same target.
ReplaceRelayEdges(n) ==
    LET mine == buildRelayEdges(task[n].row, task[n].nodes, PolicyForCall(callType), task[n].ver)
        left == edges \ task[n].seen
    IN  /\ task[n].at = "insert"
        /\ \A m \in MNodes \ {n} : task[m].at = "insert" /\ task[m].ver < task[n].ver => task[m].seen \cap task[n].seen = {}
        /\ \/ Targets(left) \cap Targets(mine) = {} /\ edges' = left \cup mine /\ Step(n, [task[n] EXCEPT !.at = "end"])
           \/ UNCHANGED edges /\ Step(n, [task[n] EXCEPT !.at = "end", !.row = 0])
        /\ UNCHANGED <<up, heart, nodeSet, rooms, otherRooms, callType, live, placed, fabric, keys, roomObs, sinks, flying, mediaOps>>

\* The call is placed here, or nowhere it is known of.
shouldServePlacementLocally(n) == task[n].row \in {0, n}

\* StartCall opens the room; a full node refuses.
CreateRoom(n) ==
    /\ task[n].at = "end" /\ Step(n, NoTask)
    /\ rooms' = IF task[n].start /\ shouldServePlacementLocally(n) /\ RoomsAt(n) < MaxRooms THEN rooms \cup {n} ELSE rooms
    /\ UNCHANGED <<up, heart, nodeSet, otherRooms, callType, live, placed, edges, fabric, keys, roomObs, sinks, flying, mediaOps>>

\* The node that ends the call closes its own room.
CloseCallRoom(n) ==
    /\ n \in up /\ live = "live" /\ live' = "ended"
    /\ rooms' = rooms \ {n} /\ roomObs' = [roomObs EXCEPT ![n] = {}] /\ sinks' = [sinks EXCEPT ![n] = {}]
    /\ UNCHANGED <<up, heart, nodeSet, otherRooms, callType, placed, edges, task, fabric, keys, flying, mediaOps>>
------------------------------------------------------------------------------
(* The relay fabric.                                                      *)

\* reconcileRelayObservers reads rooms, placement and edges,
DesiredObservers(n) ==
    /\ n \in up /\ fabric[n] = NoFabric
    /\ fabric' = [fabric EXCEPT ![n] = [at |-> "apply", want |-> IF n \in rooms /\ placed = n THEN Targets(edges) ELSE {}]]
    /\ UNCHANGED <<up, heart, nodeSet, rooms, otherRooms, callType, live, placed, edges, task, keys, roomObs, sinks, flying, mediaOps>>

\* then drops the observers that are not wanted and adds the ones without a key.
\* An observer that is dropped leaves its packet sinks behind.
reconcileRelayObservers_Keeps(n) ==
    LET want == fabric[n].want
    IN  /\ fabric[n].at = "apply" /\ fabric' = [fabric EXCEPT ![n] = NoFabric]
        /\ keys' = [keys EXCEPT ![n] = @ \cup (IF n \in rooms THEN want ELSE {})]
        /\ roomObs' = [roomObs EXCEPT ![n] = IF n \in rooms THEN (@ \ (keys[n] \ want)) \cup (want \ keys[n]) ELSE @]
        /\ sinks' = [sinks EXCEPT ![n] = IF n \in rooms THEN @ \cup (want \ keys[n]) ELSE @]
        /\ UNCHANGED <<up, heart, nodeSet, rooms, otherRooms, callType, live, placed, edges, task, flying, mediaOps>>

reconcileRelayObservers(n) ==
    LET want == fabric[n].want
    IN  /\ fabric[n].at = "apply" /\ fabric' = [fabric EXCEPT ![n] = NoFabric]
        /\ keys' = [keys EXCEPT ![n] = (@ \cap want) \cup (IF n \in rooms THEN want ELSE {})]
        /\ roomObs' = [roomObs EXCEPT ![n] = IF n \in rooms THEN (@ \ (keys[n] \ want)) \cup (want \ keys[n]) ELSE @]
        /\ sinks' = [sinks EXCEPT ![n] = IF n \in rooms THEN @ \cup (want \ keys[n]) ELSE @]
        /\ UNCHANGED <<up, heart, nodeSet, rooms, otherRooms, callType, live, placed, edges, task, flying, mediaOps>>

\* A packet of the room goes to every sink; the transport keeps nothing.
WriteRTP(n) ==
    /\ n \in rooms /\ sinks[n] # {}
    /\ flying' = flying \cup {[source |-> n, target |-> t] : t \in sinks[n]}
    /\ UNCHANGED <<up, heart, nodeSet, rooms, otherRooms, callType, live, placed, edges, task, fabric, keys, roomObs, sinks, mediaOps>>

\* The room is opened when there is none, the call is placed and the node has space.
ensureRelayRoom(n) == placed # 0 /\ (n \in rooms \/ RoomsAt(n) < MaxRooms)

\* A node ignores its own packets.
handleRelayPacket(p) ==
    /\ flying' = flying \ {p}
    /\ rooms' = IF p.target \in up /\ p.source # p.target /\ ensureRelayRoom(p.target) THEN rooms \cup {p.target}
                ELSE rooms
    /\ UNCHANGED <<up, heart, nodeSet, otherRooms, callType, live, placed, edges, task, fabric, keys, roomObs, sinks, mediaOps>>

PacketLost(p) ==
    /\ flying' = flying \ {p}
    /\ UNCHANGED <<up, heart, nodeSet, rooms, otherRooms, callType, live, placed, edges, task, fabric, keys, roomObs, sinks, mediaOps>>
------------------------------------------------------------------------------
NodeCrash(n) ==
    /\ n \in up /\ Counted /\ up' = up \ {n} /\ rooms' = rooms \ {n}
    /\ task' = [task EXCEPT ![n] = NoTask] /\ fabric' = [fabric EXCEPT ![n] = NoFabric]
    /\ keys' = [keys EXCEPT ![n] = {}] /\ roomObs' = [roomObs EXCEPT ![n] = {}] /\ sinks' = [sinks EXCEPT ![n] = {}]
    /\ otherRooms' = [otherRooms EXCEPT ![n] = 0]
    /\ UNCHANGED <<heart, nodeSet, callType, live, placed, edges, flying>>

NodeStart(n) ==
    /\ n \notin up /\ up' = up \cup {n}
    /\ UNCHANGED <<heart, nodeSet, rooms, otherRooms, callType, live, placed, edges, task, fabric, keys, roomObs, sinks, flying, mediaOps>>

PlacementInit ==
    /\ up = MNodes /\ rooms = {} /\ callType \in CallTypes /\ live = "new" /\ placed = 0 /\ edges = {}
    /\ otherRooms \in {f \in [MNodes -> 0 .. 1] : \E n \in MNodes : f[n] = 0}
    /\ heart = [n \in MNodes |-> localNodeSnapshot(n)] /\ nodeSet = MNodes
    /\ task = [n \in MNodes |-> NoTask] /\ fabric = [n \in MNodes |-> NoFabric]
    /\ keys = [n \in MNodes |-> {}] /\ roomObs = [n \in MNodes |-> {}] /\ sinks = [n \in MNodes |-> {}]
    /\ flying = {} /\ mediaOps = 0

PlacementNext ==
    \/ \E n \in MNodes :
        \/ RunNodeHeartbeat(n) \/ HeartbeatExpires(n) \/ NodeCrash(n) \/ NodeStart(n)
        \/ StartCall(n) \/ ResolveParticipantPlacement(n)
        \/ GetPlacement(n) \/ UpsertPlacement(n) \/ DeleteEdges(n) \/ ReplaceRelayEdges(n)
        \/ CreateRoom(n) \/ CloseCallRoom(n)
        \/ DesiredObservers(n) \/ reconcileRelayObservers(n) \/ WriteRTP(n)
    \/ \E p \in flying : handleRelayPacket(p) \/ PacketLost(p)
------------------------------------------------------------------------------
\* Once nodes and edges stay as they are, the node a call is placed on relays its
\* room to exactly the targets of the edges: an edge that went and came back, a
\* room that opened late or a crash leaves no key that stops an observer from
\* being attached.
FabricCatchesUp ==
    \A n \in MNodes : <>[](n \in rooms /\ placed = n => roomObs[n] = Targets(edges))
=============================================================================
