--------------------------- MODULE TopologyGraph ---------------------------
(***************************************************************************)
(* The graphs of backend/transfer/topology/graph.py with the path search,  *)
(* the hop each forwarder gets for them (TopologyManager.prepare_transfer   *)
(* in manager.py), and where Forwarder._handle of forwarder.py sends what  *)
(* it receives.  A node stands for its port: no two have the same.         *)
(***************************************************************************)
EXTENDS Integers, Sequences, FiniteSets, SequencesExt, FiniteSetsExt, Functions

CONSTANTS
    Presets,    \* name -> [nodes, links, source, dest]
    NodeOrder   \* the node ids of every preset, in the order of their names

Client == "client"    \* the sender's socket, learned from the first packet
Nowhere == "nowhere"
NoHop == [prev |-> Nowhere, next |-> Nowhere]

AllNodes == UNION {Presets[p].nodes : p \in DOMAIN Presets}
Hop == [prev : AllNodes \cup {Client, Nowhere}, next : AllNodes \cup {Nowhere}]

ASSUME PresetsAssumption ==
    /\ IsInjective(NodeOrder) /\ Range(NodeOrder) = AllNodes
    /\ \A p \in DOMAIN Presets :
          /\ {Presets[p].source, Presets[p].dest} \subseteq Presets[p].nodes
          /\ \A link \in Presets[p].links : link \subseteq Presets[p].nodes
          /\ \A q \in DOMAIN Presets \ {p} : Presets[p].nodes \cap Presets[q].nodes = {}
-----------------------------------------------------------------------------
Rank(n) == CHOOSE i \in 1..Len(NodeOrder) : NodeOrder[i] = n

\* The fewest hops first, then by name.
Before(p, q) ==
    \/ Len(p) < Len(q)
    \/ /\ Len(p) = Len(q)
       /\ \E i \in 1..Len(p) : Rank(p[i]) < Rank(q[i]) /\ \A j \in 1..(i - 1) : p[j] = q[j]

\* The search gives up after eight paths; no preset has as many between two nodes.
SimplePaths(g, s, d) ==
    LET longer(p) == {Append(p, n) : n \in {m \in g.nodes \ Range(p) : {Last(p), m} \in g.links}}
        found[k \in Nat] ==
            IF k = 0 THEN {<<s>>}
            ELSE LET shorter == found[k - 1]
                 IN shorter \cup UNION {longer(p) : p \in {q \in shorter : Last(q) # d}}
    IN {p \in found[Cardinality(g.nodes)] : Last(p) = d /\ s # d}

AllPaths ==
    [p \in DOMAIN Presets |->
        [pick \in Presets[p].nodes \X Presets[p].nodes |->
            SetToSortSeq(SimplePaths(Presets[p], pick[1], pick[2]), Before)]]
-----------------------------------------------------------------------------
\* The route of a node for the lanes of a pick: the last lane through it is the one
\* that stays.  Nodes between no two others have none.
HopOf(paths, n) ==
    LET through == {l \in 1..Len(paths) : \E i \in 2..(Len(paths[l]) - 1) : paths[l][i] = n}
    IN IF through = {} THEN NoHop
       ELSE LET path == paths[Max(through)]
                i    == CHOOSE j \in 2..(Len(path) - 1) : path[j] = n
            IN [prev |-> IF i = 2 THEN Client ELSE path[i - 1], next |-> path[i + 1]]

\* Where a datagram from the given peer goes on to.  A stranger's is dropped.
Target(hop, from) ==
    IF from = hop.prev THEN hop.next
    ELSE IF from = hop.next THEN hop.prev
    ELSE IF hop.prev = Client THEN hop.next ELSE Nowhere

\* How far the sender's first frame gets when it is sent to a node.
Reaches(hops, up, entry) ==
    LET at[k \in Nat] ==
            IF k = 0 THEN [from |-> Client, to |-> entry]
            ELSE LET m == at[k - 1]
                 IN IF m.to \notin up THEN m
                    ELSE [from |-> m.to, to |-> Target(hops[m.to], m.from)]
    IN at[Cardinality(AllNodes)].to
-----------------------------------------------------------------------------
(* On a graph whose nodes all run but the destination *)
DeliversOn(p, pick, path) ==
    LET hops == [n \in AllNodes |-> HopOf(AllPaths[p][pick], n)]
    IN Reaches(hops, Presets[p].nodes \ {pick[2]}, path[2]) = pick[2]

Distinct(p) == {pick \in DOMAIN AllPaths[p] : pick[1] # pick[2]}

\* manager.py:411-414, "Every simple lane between the picks gets its interior hops
\* configured": the frames of every lane arrive.  Refuted on the tri-path graph by a
\* pick of a router, where two lanes want the same node and the last one gets it.
EveryLaneDelivers ==
    \A p \in DOMAIN Presets : \A pick \in Distinct(p) :
        \A l \in DOMAIN AllPaths[p][pick] : DeliversOn(p, pick, AllPaths[p][pick][l])

FirstLaneDelivers ==
    \A p \in DOMAIN Presets : \A pick \in Distinct(p) :
        DeliversOn(p, pick, AllPaths[p][pick][1])

\* There is a lane between any two nodes, and every lane leads from one to the other over
\* nodes of its graph.
LanesAreOfTheirGraph ==
    \A p \in DOMAIN Presets : \A pick \in Distinct(p) :
        LET lanes == AllPaths[p][pick]
        IN /\ lanes \in Seq(Seq(Presets[p].nodes)) /\ lanes # <<>>
           /\ \A l \in 1..Len(lanes) :
                 lanes[l] # <<>> /\ lanes[l][1] = pick[1] /\ lanes[l][Len(lanes[l])] = pick[2]
=============================================================================
