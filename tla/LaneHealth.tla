----------------------------- MODULE LaneHealth -----------------------------
(***************************************************************************)
(* The scheduler (PathScheduler) as the page shows it: the snapshot of     *)
(* PathScheduler.state in backend/udp/scheduler.py, and what is drawn of   *)
(* it: the links and the nodes of components/TopologyCanvas.tsx and the    *)
(* lane list of components/PathSwitchHud.tsx and tabs/StatsTab.tsx.        *)
(*                                                                         *)
(* The topology shown is the one of the transfer, with any one node down   *)
(* or none; lanes are its paths, as TopologyManager.prepare_transfer hands *)
(* them to the sender.  Widths come in tenths of a pixel.                  *)
(***************************************************************************)
EXTENDS PathScheduler

CONSTANT Paths      \* of the pick, in the order of the lanes

C == INSTANCE Canvas

ASSUME PathsAssumption ==
    /\ Len(Paths) = LaneCount
    /\ \A l \in Lanes : Paths[l] \in Seq(Range(Paths[l])) /\ Len(Paths[l]) >= 2

\* What canvas.ts:248 takes for granted of the lanes: they share no node but their ends,
\* and no link.
NodeDisjoint(paths) ==
    \A l, m \in 1..Len(paths) :
        /\ l # m => C!LinksOf(paths[l]) \cap C!LinksOf(paths[m]) = {}
        /\ \A i \in 2..(Len(paths[l]) - 1), j \in 1..Len(paths[m]) :
              paths[l][i] = paths[m][j] => l = m /\ j \notin {1, Len(paths[m])}

NoNode == "no node"
PathNodes == UNION {{Paths[l][i] : i \in 1..Len(Paths[l])} : l \in Lanes}
PathLinks == UNION {C!LinksOf(Paths[l]) : l \in Lanes}
Source == Paths[1][1]
Dest == Paths[1][Len(Paths[1])]

Topology(down) ==
    [preset |-> "tri", nodes |-> PathNodes, up |-> PathNodes \ down, links |-> PathLinks,
     paths |-> Paths, route |-> Paths[1], multipath |-> TRUE, source |-> Source, dest |-> Dest,
     latency |-> [l \in PathLinks |-> 10]]

Status == [topologyOn |-> TRUE, running |-> TRUE, transferring |-> TRUE, latency |-> 10]

Graphs == [down \in PathNodes \cup {NoNode} |-> C!BuildCanvasGraph(Topology({down}), Status)]
WholeGraph == Graphs[NoNode]
-----------------------------------------------------------------------------
\* The snapshot.  A loss is rounded, here to a per cent.
State ==
    [l \in Lanes |->
        [flagged |-> l \in flagged,
         loss |-> IF history[l] = <<>> THEN 0
                  ELSE (200 * Lost(history[l]) + Len(history[l])) \div (2 * Len(history[l])),
         weight |-> Weight(l)]]
-----------------------------------------------------------------------------
\* What is drawn, of lanes in the states sts

\* A link without a lane carries traffic when it is on the route.
LinkColour(graph, sts, link) ==
    IF graph.lane[link] # 0 THEN sts[graph.lane[link]]
    ELSE IF link \in C!LinksOf(graph.route) THEN "optimal" ELSE "grey"

\* While a scheduler is live its weights give the width, but for a restricted link.
LinkWidth(graph, lanes, sts, link) ==
    LET colour == LinkColour(graph, sts, link)
    IN IF colour = "restricted" THEN 35
       ELSE IF graph.lane[link] # 0
            THEN 20 + 10 * ((6 * lanes[graph.lane[link]].weight + WholeWeight) \div (2 * WholeWeight))
       ELSE IF colour = "optimal" THEN 30 ELSE 20

\* On the tri-path graph a router has the state of the first path it is on.
NodeState(graph, sts, node) ==
    LET on == {i \in 1..Len(graph.paths) : \E j \in 1..Len(graph.paths[i]) : graph.paths[i][j] = node}
    IN IF graph.mode # "tri" \/ node \in {graph.source, graph.dest} \/ on = {} THEN "none"
       ELSE sts[C!Least(on)]

NodeColour(graph, sts, node) ==
    LET state == NodeState(graph, sts, node)
    IN IF state # "none" THEN IF node \in graph.up THEN state ELSE "restricted"
       ELSE IF node = graph.dest THEN "optimal" ELSE "cyan"

\* A row of the lane list: colour and width of its bar, in per cent of the picks.
HudRow(lanes, l) ==
    [colour |-> C!SchedulerLaneStates(lanes)[l], bar |-> (100 * lanes[l].weight) \div WholeWeight]

\* A row of the scheduler panel: a flagged lane has a badge in the place of its share.
PathsRow(lanes, l) ==
    [colour |-> C!SchedulerLaneStates(lanes)[l], loss |-> lanes[l].loss,
     badge |-> IF lanes[l].flagged THEN "flag" ELSE "share",
     share |-> (200 * lanes[l].weight + WholeWeight) \div (2 * WholeWeight)]
-----------------------------------------------------------------------------
\* What a link carries, as a share of the picks.
LanesOver == [link \in PathLinks |-> {l \in Lanes : link \in C!LinksOf(Paths[l])}]
Carried(lanes, link) == MapThenSumSet(LAMBDA l : lanes[l].weight, LanesOver[link])

DrawnLinks(graph, lanes) ==
    LET sts == C!LaneStates(lanes, graph)
    IN {[colour |-> LinkColour(graph, sts, k), width |-> LinkWidth(graph, lanes, sts, k),
         carried |-> Carried(lanes, k)] : k \in graph.links}

\* The colours are rounded and tolerant, the weights are not.
Slack == (100 - ProbeShare) * Cardinality(flagged) * (C!Tolerance + 2)

\* Traffic follows the colours: a green link carries no less than any other but for
\* the tolerance of the colour, and of two links that are not restricted the one that
\* carries more is not drawn thinner (lib/canvas.ts:98-103, 130-145; scheduler.py:142-160;
\* TopologyCanvas.tsx:462-502).
GreenIsPreferred ==
    \A a, b \in DrawnLinks(WholeGraph, State) :
        /\ a.colour = "optimal" => a.carried + Slack >= b.carried
        /\ "restricted" \notin {a.colour, b.colour} /\ a.carried >= b.carried => a.width >= b.width

\* A lane has one colour, on its links, on its routers that are up and in the two lists
\* of lanes, whichever node is down, and the badge of a flagged lane is red
\* (TopologyCanvas.tsx:101-120, 531-544; PathSwitchHud.tsx:53-60, 163-186;
\* StatsTab.tsx:104-172).
OneColourPerLane ==
    LET lanes == State
        sts   == C!LaneStates(lanes, WholeGraph)
    IN \A l \in Lanes :
        LET hud == HudRow(lanes, l).colour
            row == PathsRow(lanes, l)
        IN /\ row.colour = hud
           /\ row.badge = "flag" <=> hud = "restricted"
           /\ row.badge = "share" => row.share <= 100
           /\ \A k \in C!LinksOf(Paths[l]) : LinkColour(WholeGraph, sts, k) = hud
           /\ \A down \in DOMAIN Graphs, i \in 2..(Len(Paths[l]) - 1) :
                 Paths[l][i] # down => NodeColour(Graphs[down], sts, Paths[l][i]) = hud
-----------------------------------------------------------------------------
\* lib/canvas.ts:248-249, "every edge -> the first lane it belongs to (lanes are
\* node-disjoint except at the endpoints, so this is unambiguous)": a link drawn as
\* restricted is on flagged lanes only.  Refuted on the tri-path graph by a destination
\* that is a router: two lanes reach it over the same link.
RedIsFlagged ==
    LET sts == C!LaneStates(State, WholeGraph)
    IN \A l \in Lanes : \A k \in C!LinksOf(Paths[l]) :
          LinkColour(WholeGraph, sts, k) = "restricted" => l \in flagged
=============================================================================
