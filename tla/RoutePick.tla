------------------------------ MODULE RoutePick ------------------------------
(***************************************************************************)
(* The pick of source and destination: the pickers and the preset select   *)
(* of the page (components/RoutePicker.tsx, TopologyPanel of               *)
(* components/tabs/ConfigTab.tsx, app/page.tsx and the calls of            *)
(* hooks/useTransferActions.ts in frontend/), with the topology manager    *)
(* (TopologyManager), which other clients call too.                        *)
(*                                                                         *)
(* The page's calls are START and the switch of preset; those that start  *)
(* and stop the receiver count among the others'.  The answer to a call    *)
(* may be lost, and the request goes on all the same.  What the page is    *)
(* told of the server it shows some time later (hooks/useStatusPolling.ts).*)
(***************************************************************************)
EXTENDS TopologyManager

CONSTANTS
    Offered,    \* nodes that the user picks
    MaxWithPage \* requests in all when there is a page

NoPick == DefaultPick

VARIABLES
    shown,     \* the topology that the page shows
    running,   \* and whether a transfer runs, as it shows
    tick,      \* the answers of the poll under way
    routePick, \* the user's, in place of the source and destination of the topology
    busy,
    presses,   \* calls of runOnce under way: the request of each, how far it is, and
               \* the answers of its refresh
    astray,    \* a switch of preset has passed the page by
    open       \* there is a page, and not other clients only

shownVars == <<shown, running>>
pageVars == <<shownVars, tick, routePick, busy, presses, astray, open>>
vars == <<managerVars, calls, made, pageVars>>

Graphs == [preset : DOMAIN Presets, source : AllNodes, dest : AllNodes]
Topology == [preset |-> preset, source |-> source, dest |-> dest]

\* The answers of the server on their way to the page, none where a set is empty.
Answers == [status : SUBSET BOOLEAN, topology : SUBSET Graphs]
NoAnswers == [status |-> {}, topology |-> {}]
Both == [status |-> {transferring}, topology |-> {Topology}]

Press == [id : Requests, at : {"asked", "switched", "over", "clear", "refresh"}, got : Answers]

\* The graphs that the page shows or is about to show.
Views == {shown} \cup tick.topology \cup UNION {b.got.topology : b \in presses}

PageTypeOK ==
    /\ TypeOK
    /\ shown \in Graphs /\ running \in BOOLEAN /\ tick \in Answers
    /\ routePick \in AllNodes \X AllNodes \cup {NoPick}
    /\ busy \in BOOLEAN /\ astray \in BOOLEAN /\ open \in BOOLEAN
    /\ presses \subseteq Press
    /\ \A g \in Views : {g.source, g.dest} \subseteq Presets[g.preset].nodes

PageInit ==
    /\ Init
    /\ shown = Topology /\ running = FALSE /\ tick = NoAnswers
    /\ routePick = NoPick /\ busy = FALSE
    /\ presses = {} /\ astray = FALSE /\ open \in BOOLEAN
-----------------------------------------------------------------------------
\* The page

NoHops == 0

\* The hops that the page counts on the graph it shows, breadth first.
Hops(links, from, to) ==
    LET near[k \in Nat] ==
            IF k = 0 THEN {from}
            ELSE LET seen == near[k - 1]
                 IN seen \cup UNION {link \in links : link \cap seen # {}}
        found == {k \in 1..Cardinality(AllNodes) : to \in near[k]}
    IN IF from = to \/ found = {} THEN NoHops
       ELSE CHOOSE k \in found : \A j \in found : k <= j

\* They are those of the shortest path between the two.
HopsAreOfTheRoute ==
    \A p \in DOMAIN Presets : \A pick \in Presets[p].nodes \X Presets[p].nodes :
        Hops(Presets[p].links, pick[1], pick[2]) =
            IF pick[1] = pick[2] THEN NoHops ELSE Len(AllPaths[p][pick][1]) - 1

ActivePick == IF routePick = NoPick THEN <<shown.source, shown.dest>> ELSE routePick
Locked == busy \/ running

\* One of the two pickers is changed.
PickRoute ==
    /\ ~Locked
    /\ \E n \in Offered \cap Presets[shown.preset].nodes :
          routePick' \in {<<n, ActivePick[2]>>, <<ActivePick[1], n>>}
    /\ UNCHANGED <<managerVars, calls, made, shownVars, tick, busy, presses, astray>>

Presses(op, name, pick) ==
    /\ ~Locked
    /\ Request(op, name, pick)
    /\ presses' = presses \cup {[id |-> made + 1, at |-> "asked", got |-> NoAnswers]}
    /\ busy' = TRUE
    /\ UNCHANGED <<shownVars, tick, routePick, astray>>

PressStart == Presses("start transfer", NoNode, ActivePick)

PressPreset ==
    \E p \in DOMAIN Presets \ {shown.preset} : Presses("set preset", p, DefaultPick)

Moves(b, at) == presses' = (presses \ {b}) \cup {[b EXCEPT !.at = at]}

AnswerLost ==
    /\ \E b \in presses : b.at = "asked" /\ Moves(b, "over")
    /\ UNCHANGED <<managerVars, calls, made, shownVars, tick, routePick, busy, astray>>

\* The call is over; the lock is lifted and a refresh asked for.
Settle ==
    /\ \E b \in presses :
          \/ b.at = "switched" /\ Moves(b, "clear")
          \/ b.at = "over" /\ Moves(b, "refresh")
    /\ busy' = FALSE
    /\ UNCHANGED <<managerVars, calls, made, shownVars, tick, routePick, astray>>

Refreshing(b) == b.at \in {"clear", "refresh"}

\* A refresh asks for both at once, and one moment stands for the two answers.
AskAgain ==
    /\ \E b \in presses :
          /\ Refreshing(b) /\ b.got = NoAnswers
          /\ presses' = (presses \ {b}) \cup {[b EXCEPT !.got = Both]}
    /\ UNCHANGED <<managerVars, calls, made, shownVars, tick, routePick, busy, astray>>

\* What comes of them is shown, unless one or the other has failed.
ShowSome(got) ==
    /\ shown' \in {shown} \cup got.topology
    /\ running' \in {running} \cup got.status

\* Mutant of Refresh: the pick outlives the switch.
RefreshKeeps ==
    /\ \E b \in presses :
          /\ Refreshing(b)
          /\ presses' = presses \ {b}
          /\ ShowSome(b.got)
    /\ UNCHANGED <<managerVars, calls, made, tick, routePick, busy, astray>>

\* A switch that went well takes the pick with it, once the refresh is done or has failed.
Refresh ==
    /\ UNCHANGED <<managerVars, calls, made, tick, busy>>
    /\ \E b \in presses :
          /\ Refreshing(b)
          /\ presses' = presses \ {b}
          /\ ShowSome(b.got)
          /\ IF b.at = "clear"
             THEN routePick' = NoPick /\ astray' = (\E g \in Views' : g.preset # preset)
             ELSE UNCHANGED <<routePick, astray>>

\* A poll asks for the status, then for the topology, and then shows both.
PollStatus ==
    /\ tick = NoAnswers
    /\ tick' = [tick EXCEPT !.status = {transferring}]
    /\ UNCHANGED <<managerVars, calls, made, shownVars, routePick, busy, presses, astray>>

PollTopology ==
    /\ tick.status # {} /\ tick.topology = {}
    /\ tick' = [tick EXCEPT !.topology = {Topology}]
    /\ UNCHANGED <<managerVars, calls, made, shownVars, routePick, busy, presses, astray>>

Poll ==
    /\ tick.topology # {}
    /\ shown' \in tick.topology /\ running' \in tick.status
    /\ tick' = NoAnswers
    /\ UNCHANGED <<managerVars, calls, made, routePick, busy, presses, astray>>

\* One answer fails and the poll is given up.
PollFails ==
    /\ tick # NoAnswers
    /\ tick' = NoAnswers
    /\ UNCHANGED <<managerVars, calls, made, shownVars, routePick, busy, presses, astray>>
-----------------------------------------------------------------------------
\* The press a request came from is answered when it returns.
Reported(c) ==
    LET of == {b \in presses : b.id = c.id /\ b.at = "asked"}
    IN /\ presses' =
             IF c.id \in {d.id : d \in calls'} THEN presses
             ELSE (presses \ of) \cup
                  {[b EXCEPT !.at = IF c.op = "set preset" /\ ~transferring THEN "switched" ELSE "over"] : b \in of}
       /\ astray' = (astray \/ (preset' # preset /\ of = {}))
       /\ UNCHANGED <<shownVars, tick, routePick, busy, open>>

PageStep ==
    \/ PickRoute
    \/ made < MaxWithPage /\ (PressStart \/ PressPreset)
    \/ AnswerLost \/ Settle \/ AskAgain \/ Refresh
    \/ PollStatus \/ PollTopology \/ Poll \/ PollFails

OthersStep ==
    /\ \/ (open => made < MaxWithPage) /\ OthersRequest
       \/ TransferEnds
    /\ UNCHANGED pageVars

\* The bound on the requests is reached.
Exhausted == made = MaxRequests /\ calls = {} /\ ~transferring /\ UNCHANGED vars

Next ==
    \/ \E c \in calls : Step(c) /\ Reported(c)
    \/ OthersStep
    \/ open /\ PageStep /\ UNCHANGED open
    \/ Exhausted

Spec == PageInit /\ [][Next]_vars
-----------------------------------------------------------------------------
\* page.tsx:196-202, "a preset switch invalidates the current source/dest pick": at rest,
\* the pick is of nodes of the graph in force, also one made between the answer to the
\* switch and the refresh.  Not so when the switch has passed the page by: another
\* client's; one whose answer was lost, or whose refresh; and one behind which a poll or
\* a refresh shows a topology it was given before (useStatusPolling.ts:85-93, 130-135).
PickFollowsPreset ==
    presses = {} /\ ~astray /\ routePick # NoPick => {routePick[1], routePick[2]} \subseteq Nodes
=============================================================================
