-------------------------- MODULE TopologyManager --------------------------
(***************************************************************************)
(* The receiver and the forwarders of the topology: start_server,          *)
(* stop_server and start_transfer of backend/transfer/manager.py with      *)
(* set_preset, start_all, stop_all and prepare_transfer of                 *)
(* backend/transfer/topology/manager.py, each call on a thread of its own. *)
(*                                                                         *)
(* A step runs up to where another call can come between: the manager lock *)
(* is let go, the node-lifecycle lock is waited for, or a receiver is       *)
(* stopped or started outside both.  A port is the node that has it.  A     *)
(* forwarder cannot bind where a receiver is bound, nor a receiver where a *)
(* forwarder is; receivers share a port.  The topology is enabled and no    *)
(* node is disabled, and no node's process dies.                           *)
(***************************************************************************)
EXTENDS TopologyGraph

CONSTANTS
    Initial,     \* the main preset
    OthersPicks, \* of source and destination, by other clients
    MaxRequests, \* requests in all
    MaxThreads   \* of them at once

ASSUME ManagerAssumption ==
    /\ Initial \in DOMAIN Presets /\ MaxRequests \in Nat \ {0}
    /\ OthersPicks \subseteq AllNodes \X AllNodes

NoNode == "no node"
NoServer == 0
NoRoute == <<>>
Unlocked == 0
DefaultPick == <<NoNode, NoNode>>

Requests == 1..MaxRequests
Ops == {"start server", "stop server", "start transfer", "set preset"}

VARIABLES
    preset,        \* preset_name and, with it, topology
    source, dest,  \* source_id and dest_id
    route,
    up,            \* nodes whose forwarder runs
    hops,          \* the route of each
    lifecycle,     \* the request that has the node-lifecycle lock
    receivers,     \* the UDPServer each start_server made: its port and whether it runs
    server,        \* the one that is the controller's
    serverStatus,
    transferring,
    calls,         \* requests under way
    made,          \* requests so far
    late           \* forwarders may be up for a receiver that was stopped before

graphVars == <<preset, source, dest, route>>
nodeVars == <<up, hops, late>>
serverVars == <<receivers, server, serverStatus>>
managerVars == <<graphVars, nodeVars, lifecycle, serverVars, transferring>>

Nodes == Presets[preset].nodes
Held == {receivers[i].port : i \in {j \in Requests : receivers[j].on}}

Call == [id : Requests, op : Ops, name : DOMAIN Presets \cup {NoNode},
         pick : AllNodes \X AllNodes \cup {DefaultPick}, server : Requests \cup {NoServer},
         port : AllNodes \cup {NoNode}, alone : BOOLEAN,
         at : {"asked", "port", "boot", "check", "stop nodes", "stop", "lock",
               "unbind", "rebind", "recheck", "forward", "push", "begin"}]

TypeOK ==
    /\ preset \in DOMAIN Presets /\ {source, dest} \subseteq Nodes
    /\ route # NoRoute => route[1] = source /\ route[Len(route)] = dest
    /\ up \subseteq Nodes
    /\ hops \in [AllNodes -> Hop]
    /\ lifecycle \in Requests \cup {Unlocked}
    /\ receivers \in [Requests -> [port : AllNodes \cup {NoNode}, on : BOOLEAN]]
    /\ server \in Requests \cup {NoServer}
    /\ serverStatus \in {"stopped", "running", "error"}
    /\ transferring \in BOOLEAN /\ late \in BOOLEAN
    /\ calls \subseteq Call /\ made \in 1..MaxRequests
    /\ serverStatus = "running" <=> server # NoServer
    /\ up \cap Held = {}

\* A first request to start the receiver has been served.
Init ==
    /\ preset = Initial
    /\ source = Presets[preset].source /\ dest = Presets[preset].dest
    /\ route = NoRoute
    /\ up = Nodes \ {dest} /\ hops = [n \in AllNodes |-> NoHop] /\ late = FALSE
    /\ lifecycle = Unlocked
    /\ receivers = [i \in Requests |-> IF i = 1 THEN [port |-> dest, on |-> TRUE]
                                       ELSE [port |-> NoNode, on |-> FALSE]]
    /\ server = 1 /\ serverStatus = "running"
    /\ transferring = FALSE
    /\ calls = {} /\ made = 1
-----------------------------------------------------------------------------
\* Requests come in, with no other under way or with some.
Request(op, name, pick) ==
    /\ made < MaxRequests /\ Cardinality(calls) < MaxThreads
    /\ made' = made + 1
    /\ calls' = {[c EXCEPT !.alone = FALSE] : c \in calls} \cup
                {[id |-> made + 1, op |-> op, name |-> name, pick |-> pick, server |-> NoServer,
                  port |-> NoNode, alone |-> calls = {}, at |-> "asked"]}
    /\ UNCHANGED managerVars

OthersRequest ==
    \/ Request("start server", NoNode, DefaultPick)
    \/ Request("stop server", NoNode, DefaultPick)
    \/ \E p \in DOMAIN Presets : Request("set preset", p, DefaultPick)
    \/ \E pick \in OthersPicks \cup {DefaultPick} : Request("start transfer", NoNode, pick)

\* A call goes on to its next step, or returns.
Goes(c, at) == calls' = (calls \ {c}) \cup {[c EXCEPT !.at = at]} /\ UNCHANGED made
GoesWith(c, at, s) ==
    calls' = (calls \ {c}) \cup {[c EXCEPT !.at = at, !.server = s]} /\ UNCHANGED made
Returns(c) == calls' = calls \ {c} /\ UNCHANGED made

Does(c, op, at) == c.op = op /\ c.at = at

Stopped(s) == receivers' = [receivers EXCEPT ![s].on = FALSE]
-----------------------------------------------------------------------------
\* The forwarders

\* All but the excluded; those fail whose port a receiver has.
StartAll(exclude) == up' = up \cup ((Nodes \ {exclude}) \ Held)
Failed(exclude) == ((Nodes \ {exclude}) \ up) \cap Held

StopAll == up' = {} /\ late' = FALSE
-----------------------------------------------------------------------------
\* start_server

AlreadyRunning(c) ==
    /\ Does(c, "start server", "asked") /\ serverStatus = "running"
    /\ Returns(c)
    /\ UNCHANGED managerVars

Bind(c) ==
    /\ Does(c, "start server", "asked") /\ serverStatus # "running"
    /\ IF dest \in up
       THEN /\ serverStatus' = "error" /\ Returns(c)
            /\ UNCHANGED <<receivers, server>>
       ELSE /\ receivers' = [receivers EXCEPT ![c.id] = [port |-> dest, on |-> TRUE]]
            /\ server' = c.id /\ serverStatus' = "running"
            /\ GoesWith(c, "port", c.id)
    /\ UNCHANGED <<graphVars, nodeVars, lifecycle, transferring>>

\* Its port is read before the nodes are locked.
ReadPort(c) ==
    /\ Does(c, "start server", "port")
    /\ calls' = (calls \ {c}) \cup {[c EXCEPT !.at = "boot", !.port = receivers[c.server].port]}
    /\ UNCHANGED made
    /\ UNCHANGED managerVars

Boot(c) ==
    /\ Does(c, "start server", "boot") /\ lifecycle = Unlocked
    /\ StartAll(c.port)
    /\ Goes(c, "check")
    /\ UNCHANGED <<graphVars, hops, late, lifecycle, serverVars, transferring>>

\* Mutant of CheckBoot: a receiver stopped meanwhile goes unnoticed.
CheckBootNot(c) ==
    /\ Does(c, "start server", "check")
    /\ Returns(c)
    /\ UNCHANGED managerVars

CheckBoot(c) ==
    /\ Does(c, "start server", "check")
    /\ IF server # c.server THEN Goes(c, "stop nodes") ELSE Returns(c)
    /\ UNCHANGED managerVars

UndoBoot(c) ==
    /\ Does(c, "start server", "stop nodes") /\ lifecycle = Unlocked
    /\ StopAll
    /\ Returns(c)
    /\ UNCHANGED <<graphVars, hops, lifecycle, serverVars, transferring>>
-----------------------------------------------------------------------------
\* stop_server

Release(c) ==
    /\ Does(c, "stop server", "asked")
    /\ server' = NoServer /\ serverStatus' = "stopped"
    /\ GoesWith(c, "stop nodes", server)
    /\ UNCHANGED <<graphVars, nodeVars, lifecycle, receivers, transferring>>

StopNodes(c) ==
    /\ Does(c, "stop server", "stop nodes") /\ lifecycle = Unlocked
    /\ StopAll
    /\ Goes(c, "stop")
    /\ UNCHANGED <<graphVars, hops, lifecycle, serverVars, transferring>>

StopReceiver(c) ==
    /\ Does(c, "stop server", "stop")
    /\ route' = NoRoute
    /\ receivers' = IF c.server = NoServer THEN receivers ELSE [receivers EXCEPT ![c.server].on = FALSE]
    /\ Returns(c)
    /\ UNCHANGED <<preset, source, dest, nodeVars, lifecycle, server, serverStatus, transferring>>
-----------------------------------------------------------------------------
\* set_preset.  A swap gets new forwarders, without a route.

SetPreset(c) ==
    /\ Does(c, "set preset", "asked") /\ lifecycle = Unlocked
    /\ Returns(c)
    /\ IF transferring \/ c.name = preset THEN UNCHANGED <<graphVars, nodeVars>>
       ELSE /\ preset' = c.name /\ route' = NoRoute
            /\ source' = Presets[c.name].source /\ dest' = Presets[c.name].dest
            /\ StopAll
            /\ hops' = [n \in AllNodes |-> NoHop]
    /\ UNCHANGED <<lifecycle, serverVars, transferring>>
-----------------------------------------------------------------------------
\* start_transfer

CanTransfer == ~transferring /\ server # NoServer /\ serverStatus = "running"

CheckTransfer(c) ==
    /\ Does(c, "start transfer", "asked")
    /\ IF CanTransfer THEN GoesWith(c, "lock", server) ELSE Returns(c)
    /\ UNCHANGED managerVars

Source(c) == IF c.pick = DefaultPick THEN source ELSE c.pick[1]
Dest(c) == IF c.pick = DefaultPick THEN dest ELSE c.pick[2]

\* An unknown node, or one node twice.
BadPick(c) == ~({Source(c), Dest(c)} \subseteq Nodes) \/ Source(c) = Dest(c)

RefusePick(c) ==
    /\ Does(c, "start transfer", "lock") /\ lifecycle = Unlocked /\ BadPick(c)
    /\ Returns(c)
    /\ UNCHANGED managerVars

\* Mutant of Elsewhere: the receiver is taken to be where the last pick was.
ElsewhereThanPicked(c) == dest # Dest(c)

Elsewhere(c) == receivers[c.server].port # Dest(c)

\* Mutant of Freed: the forwarder of the destination goes on.
FreedNot(c) == up

Freed(c) == up \ {Dest(c)}

\* The nodes are locked and the port of the destination is freed.
FreePort(c) ==
    /\ Does(c, "start transfer", "lock") /\ lifecycle = Unlocked /\ ~BadPick(c)
    /\ lifecycle' = c.id
    /\ up' = Freed(c)
    /\ late' = (late \/ server # c.server)
    /\ calls' = (calls \ {c}) \cup
            {[c EXCEPT !.pick = <<Source(c), Dest(c)>>,
                       !.at = IF Elsewhere(c) THEN "unbind" ELSE "forward"]}
    /\ UNCHANGED made
    /\ UNCHANGED <<graphVars, hops, serverVars, transferring>>

\* The receiver moves there.
Unbind(c) ==
    /\ Does(c, "start transfer", "unbind")
    /\ Stopped(c.server)
    /\ Goes(c, "rebind")
    /\ UNCHANGED <<graphVars, nodeVars, lifecycle, server, serverStatus, transferring>>

Rebind(c) ==
    /\ Does(c, "start transfer", "rebind")
    /\ receivers' = [receivers EXCEPT ![c.server] = [port |-> Dest(c), on |-> TRUE]]
    /\ Goes(c, "recheck")
    /\ UNCHANGED <<graphVars, nodeVars, lifecycle, server, serverStatus, transferring>>

\* Mutant of Recheck: the error is returned with the nodes locked.
RecheckLocked(c) ==
    /\ Does(c, "start transfer", "recheck")
    /\ IF server # c.server
       THEN Stopped(c.server) /\ Returns(c)
       ELSE Goes(c, "forward") /\ UNCHANGED receivers
    /\ UNCHANGED <<graphVars, nodeVars, lifecycle, server, serverStatus, transferring>>

Recheck(c) ==
    /\ Does(c, "start transfer", "recheck")
    /\ IF server # c.server
       THEN Stopped(c.server) /\ lifecycle' = Unlocked /\ Returns(c)
       ELSE Goes(c, "forward") /\ UNCHANGED <<receivers, lifecycle>>
    /\ UNCHANGED <<graphVars, nodeVars, server, serverStatus, transferring>>

\* Every other node forwards; it is an error when one cannot.
Forward(c) ==
    /\ Does(c, "start transfer", "forward")
    /\ StartAll(Dest(c))
    /\ IF Failed(Dest(c)) # {}
       THEN route' = NoRoute /\ lifecycle' = Unlocked /\ Returns(c)
       ELSE Goes(c, "push") /\ UNCHANGED <<route, lifecycle>>
    /\ UNCHANGED <<preset, source, dest, hops, late, serverVars, transferring>>

Lanes(c) == AllPaths[preset][c.pick]

\* The hops of every lane, and none for the other nodes.
Push(c) ==
    /\ Does(c, "start transfer", "push")
    /\ LET lanes == Lanes(c)
       IN hops' = [n \in AllNodes |-> HopOf(lanes, n)] /\ route' = lanes[1]
    /\ source' = Source(c) /\ dest' = Dest(c)
    /\ lifecycle' = Unlocked
    /\ Goes(c, "begin")
    /\ UNCHANGED <<preset, up, late, serverVars, transferring>>

Begin(c) ==
    /\ Does(c, "start transfer", "begin")
    /\ transferring' = (transferring \/ CanTransfer)
    /\ Returns(c)
    /\ UNCHANGED <<graphVars, nodeVars, lifecycle, serverVars>>

\* The client has finished, one way or another.
TransferEnds ==
    /\ transferring /\ transferring' = FALSE
    /\ UNCHANGED <<graphVars, nodeVars, lifecycle, serverVars, calls, made>>
-----------------------------------------------------------------------------
Step(c) ==
    \/ AlreadyRunning(c) \/ Bind(c) \/ ReadPort(c) \/ Boot(c) \/ CheckBoot(c) \/ UndoBoot(c)
    \/ Release(c) \/ StopNodes(c) \/ StopReceiver(c)
    \/ SetPreset(c)
    \/ CheckTransfer(c) \/ RefusePick(c) \/ FreePort(c) \/ Unbind(c) \/ Rebind(c) \/ Recheck(c)
    \/ Forward(c) \/ Push(c) \/ Begin(c)
-----------------------------------------------------------------------------
\* No ghosts: once every request has returned and the receiver is stopped, no receiver
\* has a port, and no forwarder runs but for a transfer that was prepared for a receiver
\* stopped before (manager.py:199-203, 225-230; topology/manager.py:487-491).
NoGhosts ==
    calls = {} /\ server = NoServer => Held = {} /\ (late \/ up = {})

\* manager.py:200, "stop_server raced the boot: do not leave ghost forwarders", for every
\* way to race it.  Refuted by a preparation that gets the lock after stop_server is done.
NoGhostForwarders == calls = {} /\ server = NoServer => up = {}

\* The lock of the nodes is with a request that runs, or with none: whatever stops a
\* preparation on its way, nobody waits for a request that has returned
\* (topology/manager.py:43-53, 427-530).
LockHasItsHolder == lifecycle # Unlocked => \E c \in calls : c.id = lifecycle

\* What a transfer that begins finds: the first frame on its first lane gets through to
\* the receiver, over nodes of the graph in force.
FirstLaneWorks(c) ==
    LET lane == Lanes(c)[1]
    IN /\ \A i \in 1..Len(lane) : lane[i] \in Nodes
       /\ Reaches(hops, up, lane[2]) = Dest(c)
       /\ receivers[server] = [port |-> Dest(c), on |-> TRUE]

\* A transfer whose start met no other request begins on a path that works,
\* whatever earlier requests left behind when they met (manager.py:310-365,
\* topology/manager.py:427-530).
ReadyWhenStarted ==
    [][\A c \in calls : Begin(c) /\ transferring' /\ c.alone => FirstLaneWorks(c)]_<<calls, transferring>>
=============================================================================
