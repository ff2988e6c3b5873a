------------------------------- MODULE Canvas -------------------------------
(***************************************************************************)
(* What the web client draws of a snapshot (frontend/lib/canvas.ts) and    *)
(* where a packet's dot is on its way (frontend/lib/anim.ts), as operators *)
(* on records.  A missing route, path or position is the empty sequence.   *)
(*                                                                         *)
(* A topology snapshot has preset, nodes, up, links, paths, route,         *)
(* multipath, source, dest and latency; a status has topologyOn, running   *)
(* and transferring.  A link is the set of its two ends.  Durations come   *)
(* in units of 1/W of a millisecond, W the weight of the whole way, so     *)
(* that the shares of the links are whole numbers.                         *)
(***************************************************************************)
EXTENDS Integers, Sequences, FiniteSets, SequencesExt, FiniteSetsExt

NoPath == <<>>
Ends(ids, i) == {ids[i], ids[i + 1]}
LinksOf(ids) == {Ends(ids, i) : i \in 1..(Len(ids) - 1)}
-----------------------------------------------------------------------------
\* The graph

Least(S) == Min(S)
FirstOf(S) == IF S = {} THEN 0 ELSE Least(S)

DirectGraph(status) ==
    [mode |-> "direct", nodes |-> {"client", "server"},
     up |-> {"client"} \cup (IF status.running THEN {"server"} ELSE {}),
     links |-> {{"client", "server"}}, lane |-> [l \in {{"client", "server"}} |-> 1],
     route |-> IF status.transferring THEN <<"client", "server">> ELSE NoPath,
     paths |-> <<<<"client", "server">>>>, multipathOn |-> FALSE,
     source |-> "client", dest |-> "server",
     latency |-> [l \in {{"client", "server"}} |-> status.latency]]

\* The paths the scheduler may take; without any, the active route.
ShownPaths(topology) ==
    IF topology.paths # <<>> THEN topology.paths
    ELSE IF topology.route # NoPath THEN <<topology.route>> ELSE <<>>

\* The first path a link is on, 0 when it is on none.
LaneOf(paths, link) ==
    LET on == {i \in 1..Len(paths) : link \in LinksOf(paths[i])}
    IN IF on = {} THEN 0 ELSE Least(on)

PresetGraph(topology) ==
    LET paths == ShownPaths(topology)
    IN [mode |-> topology.preset, nodes |-> topology.nodes, up |-> topology.up,
        links |-> topology.links, lane |-> [l \in topology.links |-> LaneOf(paths, l)],
        route |-> topology.route, paths |-> paths,
        multipathOn |-> topology.multipath /\ Len(paths) > 1,
        source |-> topology.source, dest |-> topology.dest,
        latency |-> topology.latency]

BuildCanvasGraph(topology, status) ==
    IF status.topologyOn /\ topology # <<>> THEN PresetGraph(topology) ELSE DirectGraph(status)

\* A route or a path can be drawn when it has two ends and the graph knows its nodes.
PathOf(graph, ids) ==
    IF Len(ids) >= 2 /\ \A i \in 1..Len(ids) : ids[i] \in graph.nodes THEN ids ELSE NoPath

LaneIds(graph, lane) == IF lane \in 1..Len(graph.paths) THEN graph.paths[lane] ELSE graph.route

LanePath(graph, lane) == PathOf(graph, LaneIds(graph, lane))
-----------------------------------------------------------------------------
\* Colours.  Lanes are records with flagged and loss, in per cent.

Tolerance == 2

\* Mutant of SchedulerLaneStates: flagged lanes compete for the lowest loss.
FlaggedCompete(lanes) ==
    LET least == Least({lanes[i].loss : i \in 1..Len(lanes)})
    IN [i \in 1..Len(lanes) |->
            IF lanes[i].loss <= least + Tolerance THEN "optimal"
            ELSE IF lanes[i].flagged THEN "restricted" ELSE "candidate"]

SchedulerLaneStates(lanes) ==
    LET healthy == {i \in 1..Len(lanes) : ~lanes[i].flagged}
        least   == IF healthy = {} THEN 0 ELSE Least({lanes[i].loss : i \in healthy})
    IN [i \in 1..Len(lanes) |->
            IF i \notin healthy THEN "restricted"
            ELSE IF lanes[i].loss <= least + Tolerance THEN "optimal" ELSE "candidate"]

\* Mutant of LaneStates: an active route comes before the scheduler.
LaneStatesOfRoute(lanes, graph) ==
    [i \in 1..Len(graph.paths) |-> IF graph.paths[i] = graph.route THEN "optimal" ELSE "candidate"]

\* The scheduler's, when it has one for every path drawn; else the route is the
\* optimal one.  A scheduler of one lane has none.
LaneStates(lanes, graph) ==
    IF Len(lanes) >= 2 /\ Len(lanes) = Len(graph.paths) THEN SchedulerLaneStates(lanes)
    ELSE [i \in 1..Len(graph.paths) |->
            IF graph.paths[i] = graph.route THEN "optimal" ELSE "candidate"]
-----------------------------------------------------------------------------
\* Timings

\* When the first k links are behind.
Ending(timings) ==
    LET end[k \in 0..Len(timings)] == IF k = 0 THEN 0 ELSE end[k - 1] + timings[k]
    IN end

TotalOf(timings) == Ending(timings)[Len(timings)]

LinkWeights(graph, ids) ==
    [i \in 1..(Len(ids) - 1) |->
        LET l == Ends(ids, i)
        IN IF l \in graph.links THEN Max({1, graph.latency[l]}) ELSE 10]

\* The target, divided among the links by their latency.
BuildTimings(graph, ids, target, reverse) ==
    LET there == LinkWeights(graph, ids)
        w     == IF reverse THEN Reverse(there) ELSE there
    IN [i \in 1..Len(w) |-> w[i] * target]

\* Mutant of PosAlong: the time of the links behind the dot is not taken off.
PosFromStart(path, timings, elapsed) ==
    LET n == Len(timings)
        i == Least({j \in 1..n : elapsed <= Ending(timings)[j] \/ j = n})
    IN [from |-> path[i], to |-> path[i + 1], part |-> Min({elapsed, timings[i]}), whole |-> timings[i]]

\* On which link the dot is, and which part of its time on it has passed.
PosAlong(path, timings, elapsed) ==
    LET n == Len(timings)
        i == Least({j \in 1..n : elapsed <= Ending(timings)[j] \/ j = n})
        t == Max({0, elapsed}) - Ending(timings)[i - 1]
    IN [from |-> path[i], to |-> path[i + 1], part |-> Min({t, timings[i]}), whole |-> timings[i]]
=============================================================================
