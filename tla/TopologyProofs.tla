---------------------------- MODULE TopologyProofs ----------------------------
(***************************************************************************)
(* What TopologyManager keeps under the page (RoutePick) and other clients, *)
(* for any graphs, nodes, requests and threads: the lock of the nodes is    *)
(* never left behind, and neither is a receiver or a forwarder; and, for    *)
(* graphs whose lanes lead where they are said to, a transfer whose start   *)
(* met no other begins on a path that works, and the page's pick is of the  *)
(* graph in force.                                                         *)
(*                                                                         *)
(* The lock is with exactly the preparation that is between taking it and   *)
(* giving it back.  A receiver that runs is the controller's, or some call  *)
(* under way will stop it.  Forwarders of a stopped receiver are stopped by *)
(* the call that released it, which cannot overtake a preparation that has  *)
(* the lock, or by the start that notices; what a preparation brings up     *)
(* later than that is known to be late.                                     *)
(*                                                                         *)
(* The graph, the forwarders and their hops change only while no            *)
(* preparation has the lock, so what one has picked and freed stays so; a   *)
(* start that is alone finds the receiver it has left on the port it freed. *)
(***************************************************************************)
EXTENDS RoutePick, TLAPS, WellFoundedInduction

Typed ==
    /\ preset \in DOMAIN Presets /\ source \in AllNodes /\ dest \in AllNodes
    /\ lifecycle \in Requests \cup {Unlocked}
    /\ receivers \in [Requests -> [port : AllNodes \cup {NoNode}, on : BOOLEAN]]
    /\ server \in Requests \cup {NoServer}
    /\ transferring \in BOOLEAN /\ late \in BOOLEAN
    /\ calls \subseteq Call /\ made \in Requests

PageTyped ==
    /\ shown \in Graphs /\ running \in BOOLEAN /\ tick \in Answers
    /\ routePick \in AllNodes \X AllNodes \cup {NoPick}
    /\ busy \in BOOLEAN /\ astray \in BOOLEAN /\ open \in BOOLEAN
    /\ presses \subseteq Press

WellFormed(c) ==
    /\ c.op = "set preset" => c.name \in DOMAIN Presets
    /\ c.op = "start server" /\ c.at # "asked" => c.server \in Requests
    /\ c.op = "start transfer" /\ c.at # "asked" => c.server \in Requests

CallsAreTheirOwn ==
    /\ \A c \in calls : WellFormed(c) /\ c.id <= made
    /\ \A c, d \in calls : c.id = d.id => c = d

\* A preparation between FreePort and its end.
Holds(c) == c.op = "start transfer" /\ c.at \in {"unbind", "rebind", "recheck", "forward", "push"}

LockIsHeld ==
    /\ lifecycle # Unlocked => \E c \in calls : c.id = lifecycle /\ Holds(c)
    /\ \A c \in calls : Holds(c) => c.id = lifecycle

\* Call c will stop receiver i, unless that is the controller's again.
Releases(c, i) ==
    /\ c.server = i
    /\ \/ c.op = "stop server" /\ c.at \in {"stop nodes", "stop"}
       \/ c.op = "start transfer" /\ c.at = "recheck"

ReceiversAreStopped ==
    /\ server # NoServer => serverStatus = "running"
    /\ \A i \in Requests : receivers[i].on => i = server \/ \E c \in calls : Releases(c, i)

\* Call c will stop the forwarders when no receiver is left.
Undoes(c) ==
    \/ c.op = "stop server" /\ c.at = "stop nodes"
    \/ c.op = "start server" /\ c.at \in {"check", "stop nodes"}

NodesAreStopped ==
    server = NoServer /\ ~late /\ (up # {} \/ lifecycle # Unlocked) => \E c \in calls : Undoes(c)

ManagerInv ==
    /\ Typed
    /\ CallsAreTheirOwn /\ LockIsHeld
    /\ ReceiversAreStopped /\ NodesAreStopped

TopologyInv == ManagerInv /\ PageTyped
-----------------------------------------------------------------------------
(* Calls *)

\* A call goes on as the only member of D, or returns when there is none.
Becomes(c, D) ==
    /\ calls' = (calls \ {c}) \cup D /\ made' = made
    /\ \A d \in D : d \in Call /\ WellFormed(d) /\ d.id = c.id
    /\ \A d, e \in D : d = e

LEMMA RequestsLemma == \A i \in Requests : i # NoServer /\ i # Unlocked /\ i <= i
  BY ManagerAssumption DEF Requests, NoServer, Unlocked

\* The id of the next request is a new one.
LEMMA NextIdLemma ==
    ASSUME NEW j \in Requests, j < MaxRequests
    PROVE  j + 1 \in Requests /\ \A i \in Requests : i <= j => i <= j + 1 /\ i # j + 1
  BY ManagerAssumption DEF Requests

LEMMA PresetsLemma ==
    ASSUME NEW p \in DOMAIN Presets
    PROVE  /\ Presets[p].nodes \subseteq AllNodes
           /\ Presets[p].source \in AllNodes /\ Presets[p].dest \in AllNodes
  BY PresetsAssumption DEF AllNodes

LEMMA ReturnsLemma ==
    ASSUME NEW c, Returns(c)
    PROVE  Becomes(c, {})
  BY DEF Returns, Becomes

LEMMA GoesLemma ==
    ASSUME NEW c \in Call, WellFormed(c), c.at # "asked",
           NEW at \in {"boot", "check", "stop nodes", "stop", "unbind", "rebind", "recheck",
                       "forward", "push", "begin"},
           Goes(c, at)
    PROVE  \E d \in Call : Becomes(c, {d}) /\ d.op = c.op /\ d.at = at /\ d.server = c.server
  <1> DEFINE d == [c EXCEPT !.at = at]
  <1>1. /\ d \in Call /\ d.id = c.id /\ d.op = c.op /\ d.name = c.name
        /\ d.at = at /\ d.server = c.server
    BY DEF Call
  <1>2. calls' = (calls \ {c}) \cup {d} /\ made' = made
    BY DEF Goes
  <1> HIDE DEF d
  <1>3. WellFormed(d)
    BY <1>1 DEF WellFormed
  <1>4. Becomes(c, {d})
    BY <1>1, <1>2, <1>3 DEF Becomes
  <1> QED BY <1>1, <1>4

LEMMA GoesWithLemma ==
    ASSUME NEW c \in Call, WellFormed(c),
           NEW at \in {"port", "stop nodes", "lock"}, NEW s \in Requests \cup {NoServer},
           c.op = "stop server" \/ (c.op # "set preset" /\ s \in Requests),
           GoesWith(c, at, s)
    PROVE  \E d \in Call : Becomes(c, {d}) /\ d.op = c.op /\ d.at = at /\ d.server = s
  <1> DEFINE d == [c EXCEPT !.at = at, !.server = s]
  <1>1. /\ d \in Call /\ d.id = c.id /\ d.op = c.op /\ d.name = c.name
        /\ d.at = at /\ d.server = s
    BY DEF Call
  <1>2. calls' = (calls \ {c}) \cup {d} /\ made' = made
    BY DEF GoesWith
  <1> HIDE DEF d
  <1>3. WellFormed(d)
    BY <1>1 DEF WellFormed
  <1>4. Becomes(c, {d})
    BY <1>1, <1>2, <1>3 DEF Becomes
  <1> QED BY <1>1, <1>4

LEMMA CallsKeep ==
    ASSUME Typed, CallsAreTheirOwn, NEW c \in calls, NEW D, Becomes(c, D)
    PROVE  calls' \subseteq Call /\ made' \in Requests /\ CallsAreTheirOwn'
  <1>1. calls' \subseteq Call /\ made' \in Requests
    BY DEF Typed, Becomes
  <1>2. \A x \in calls' : WellFormed(x) /\ x.id <= made'
    BY DEF CallsAreTheirOwn, Becomes
  <1>3. \A x, y \in calls' : x.id = y.id => x = y
    BY DEF CallsAreTheirOwn, Becomes
  <1>4. CallsAreTheirOwn'
    BY <1>2, <1>3 DEF CallsAreTheirOwn, WellFormed
  <1> QED BY <1>1, <1>4

\* The lock changes hands with the call that takes it or gives it back.
LEMMA LockKeeps ==
    ASSUME Typed, CallsAreTheirOwn, LockIsHeld, NEW c \in calls, NEW D, Becomes(c, D),
           \/ lifecycle' = lifecycle /\ (Holds(c) <=> \E d \in D : Holds(d))
           \/ lifecycle' = Unlocked /\ Holds(c) /\ ~(\E d \in D : Holds(d))
           \/ lifecycle = Unlocked /\ lifecycle' = c.id /\ \E d \in D : Holds(d)
    PROVE  LockIsHeld'
  <1>1. \A x : x \in calls' <=> (x \in calls /\ x # c) \/ x \in D
    BY DEF Becomes
  <1>2. \A d \in D : d.id = c.id
    BY DEF Becomes
  <1>3. \A d, e \in D : d = e
    BY DEF Becomes
  <1>4. CASE lifecycle' = lifecycle /\ (Holds(c) <=> \E d \in D : Holds(d))
    <2>1. \A x \in calls' : Holds(x) => x.id = lifecycle'
      BY <1>1, <1>2, <1>3, <1>4 DEF LockIsHeld
    <2>2. lifecycle' # Unlocked => \E x \in calls' : x.id = lifecycle' /\ Holds(x)
      BY <1>1, <1>2, <1>4 DEF LockIsHeld
    <2> QED BY <2>1, <2>2 DEF LockIsHeld, Holds
  <1>5. CASE lifecycle' = Unlocked /\ Holds(c) /\ ~(\E d \in D : Holds(d))
    <2>1. \A x \in calls' : ~Holds(x)
      BY <1>1, <1>5 DEF LockIsHeld, CallsAreTheirOwn
    <2> QED BY <1>5, <2>1 DEF LockIsHeld, Holds
  <1>6. CASE lifecycle = Unlocked /\ lifecycle' = c.id /\ \E d \in D : Holds(d)
    <2>1. \A x \in calls : x.id # Unlocked
      <3>1. \A x \in calls : x.id \in Requests
        BY DEF Typed, Call
      <3> QED BY <3>1, RequestsLemma
    <2>2. \A x \in calls : ~Holds(x)
      BY <1>6, <2>1 DEF LockIsHeld
    <2>3. \A x \in calls' : Holds(x) => x.id = lifecycle'
      BY <1>1, <1>2, <1>6, <2>2
    <2>4. \E x \in calls' : x.id = lifecycle' /\ Holds(x)
      BY <1>1, <1>2, <1>6
    <2> QED BY <2>3, <2>4 DEF LockIsHeld, Holds
  <1> QED BY <1>4, <1>5, <1>6

\* Nobody forgets a receiver when no other runs than before, the controller's is the
\* same, and a call hands on what it is to stop.
LEMMA ReceiversKeep ==
    ASSUME ReceiversAreStopped, NEW c \in calls, NEW D, Becomes(c, D),
           server' = server, serverStatus' = serverStatus,
           \A i \in Requests : receivers'[i].on => receivers[i].on,
           \A i \in Requests : Releases(c, i) /\ receivers'[i].on =>
                                   i = server \/ \E d \in D : Releases(d, i)
    PROVE  ReceiversAreStopped'
  <1>1. \A i \in Requests : receivers'[i].on => i = server' \/ \E x \in calls' : Releases(x, i)
    <2> SUFFICES ASSUME NEW i \in Requests, receivers'[i].on, i # server'
                 PROVE  \E x \in calls' : Releases(x, i)
      OBVIOUS
    <2>1. PICK x \in calls : Releases(x, i)
      BY DEF ReceiversAreStopped
    <2>2. CASE x = c
      BY <2>1, <2>2 DEF Becomes
    <2>3. CASE x # c
      BY <2>1, <2>3 DEF Becomes
    <2> QED BY <2>2, <2>3
  <1> QED BY <1>1 DEF ReceiversAreStopped, Releases

\* Nobody forgets the forwarders when none comes up, the nodes are not locked, and a
\* call that is to stop them goes on.
LEMMA NodesKeep ==
    ASSUME NodesAreStopped, NEW c \in calls, NEW D, Becomes(c, D),
           server' = NoServer /\ ~late' =>
              /\ server = NoServer /\ ~late
              /\ up' # {} \/ lifecycle' # Unlocked => up # {} \/ lifecycle # Unlocked,
           Undoes(c) => \E d \in D : Undoes(d)
    PROVE  NodesAreStopped'
  <1> SUFFICES ASSUME server' = NoServer, ~late', up' # {} \/ lifecycle' # Unlocked
               PROVE  \E x \in calls' : Undoes(x)
    BY DEF NodesAreStopped, Undoes
  <1>1. PICK x \in calls : Undoes(x)
    BY DEF NodesAreStopped
  <1>2. CASE x = c
    BY <1>1, <1>2 DEF Becomes
  <1>3. CASE x # c
    BY <1>1, <1>3 DEF Becomes
  <1> QED BY <1>2, <1>3
-----------------------------------------------------------------------------
(* start_server *)

\* What a call finds that has nothing else to do than to go on.
LEMMA QuietKeeps ==
    ASSUME ManagerInv, NEW c \in calls, NEW D, Becomes(c, D), UNCHANGED managerVars,
           Holds(c) <=> \E d \in D : Holds(d),
           Undoes(c) /\ server = NoServer => \E d \in D : Undoes(d),
           \A i : ~Releases(c, i)
    PROVE  ManagerInv'
  <1>1. UNCHANGED <<preset, source, dest, route, up, hops, late, lifecycle, receivers, server,
                    serverStatus, transferring>>
    BY DEF managerVars, graphVars, nodeVars, serverVars
  <1>2. calls' \subseteq Call /\ made' \in Requests /\ CallsAreTheirOwn'
    BY CallsKeep DEF ManagerInv
  <1>3. Typed'
    BY <1>1, <1>2 DEF ManagerInv, Typed
  <1>4. LockIsHeld'
    BY <1>1, LockKeeps DEF ManagerInv
  <1>5. ReceiversAreStopped'
    BY <1>1, ReceiversKeep DEF ManagerInv
  <1>6. NodesAreStopped'
    <2>1. CASE server = NoServer
      BY <1>1, <2>1, NodesKeep DEF ManagerInv
    <2>2. CASE server # NoServer
      BY <1>1, <2>2 DEF NodesAreStopped, Undoes
    <2> QED BY <2>1, <2>2
  <1> QED BY <1>2, <1>3, <1>4, <1>5, <1>6 DEF ManagerInv

LEMMA CallLemma ==
    ASSUME ManagerInv, NEW c \in calls
    PROVE  /\ c \in Call /\ WellFormed(c) /\ c.id \in Requests
           /\ c.port \in AllNodes \cup {NoNode}
           /\ c.pick \in AllNodes \X AllNodes \cup {DefaultPick}
  <1>1. c \in Call /\ WellFormed(c)
    BY DEF ManagerInv, Typed, CallsAreTheirOwn
  <1> QED BY <1>1 DEF Call

LEMMA AlreadyRunningKeeps ==
    ASSUME ManagerInv, NEW c \in calls, AlreadyRunning(c)
    PROVE  ManagerInv'
  <1>1. Becomes(c, {}) /\ UNCHANGED managerVars /\ c.op = "start server" /\ c.at = "asked"
    BY ReturnsLemma DEF AlreadyRunning, Does
  <1>2. ~Holds(c) /\ ~Undoes(c) /\ \A i : ~Releases(c, i)
    BY <1>1 DEF Holds, Undoes, Releases
  <1> QED BY <1>1, <1>2, QuietKeeps

LEMMA BindKeeps ==
    ASSUME ManagerInv, NEW c \in calls, Bind(c)
    PROVE  ManagerInv'
  <1>1. /\ c.op = "start server" /\ c.at = "asked" /\ serverStatus # "running"
        /\ UNCHANGED <<preset, source, dest, route, up, hops, late, lifecycle, transferring>>
    BY DEF Bind, Does, graphVars, nodeVars
  <1>2. /\ c \in Call /\ WellFormed(c) /\ c.id \in Requests /\ c.id # NoServer
        /\ server = NoServer
    BY <1>1, CallLemma, RequestsLemma DEF ManagerInv, ReceiversAreStopped
  <1>3. ~Holds(c) /\ ~Undoes(c) /\ \A i : ~Releases(c, i)
    BY <1>1 DEF Holds, Undoes, Releases
  <1>4. CASE dest \in up
    <2>1. Becomes(c, {}) /\ UNCHANGED <<receivers, server>>
      BY <1>4, ReturnsLemma DEF Bind
    <2>2. calls' \subseteq Call /\ made' \in Requests /\ CallsAreTheirOwn'
      BY <2>1, CallsKeep DEF ManagerInv
    <2>3. Typed'
      BY <1>1, <2>1, <2>2 DEF ManagerInv, Typed
    <2>4. LockIsHeld'
      BY <1>1, <1>3, <2>1, LockKeeps DEF ManagerInv
    <2>5. ReceiversAreStopped'
      <3>1. \A x \in calls : x # c => x \in calls'
        BY <2>1 DEF Becomes
      <3>2. \A i \in Requests : receivers[i].on => \E x \in calls : x # c /\ Releases(x, i)
        BY <1>2, <1>3, RequestsLemma DEF ManagerInv, ReceiversAreStopped
      <3>3. \A i \in Requests : receivers'[i].on => \E x \in calls' : Releases(x, i)
        BY <2>1, <3>1, <3>2
      <3>4. server' = NoServer
        BY <1>2, <2>1
      <3> QED BY <3>3, <3>4 DEF ReceiversAreStopped, Releases
    <2>6. NodesAreStopped'
      BY <1>1, <1>3, <2>1, NodesKeep DEF ManagerInv
    <2> QED BY <2>2, <2>3, <2>4, <2>5, <2>6 DEF ManagerInv
  <1>5. CASE dest \notin up
    <2>1. /\ receivers' = [receivers EXCEPT ![c.id] = [port |-> dest, on |-> TRUE]]
          /\ server' = c.id /\ serverStatus' = "running"
          /\ GoesWith(c, "port", c.id)
      BY <1>5 DEF Bind
    <2>2. PICK d \in Call : Becomes(c, {d}) /\ d.op = c.op /\ d.at = "port" /\ d.server = c.id
      <3> DEFINE e == [c EXCEPT !.at = "port", !.server = c.id]
      <3>1. /\ e \in Call /\ e.id = c.id /\ e.op = c.op /\ e.at = "port" /\ e.server = c.id
        BY <1>2 DEF Call
      <3>2. calls' = (calls \ {c}) \cup {e} /\ made' = made
        BY <2>1 DEF GoesWith
      <3> HIDE DEF e
      <3>3. WellFormed(e)
        BY <1>1, <1>2, <3>1 DEF WellFormed
      <3>4. Becomes(c, {e})
        BY <3>1, <3>2, <3>3 DEF Becomes
      <3> QED BY <3>1, <3>4
    <2>3. calls' \subseteq Call /\ made' \in Requests /\ CallsAreTheirOwn'
      BY <2>2, CallsKeep DEF ManagerInv
    <2>4. receivers' \in [Requests -> [port : AllNodes \cup {NoNode}, on : BOOLEAN]]
      BY <1>2, <2>1 DEF ManagerInv, Typed
    <2>5. Typed'
      BY <1>1, <1>2, <2>1, <2>3, <2>4 DEF ManagerInv, Typed
    <2>6. LockIsHeld'
      <3>1. ~Holds(d)
        BY <1>1, <2>2 DEF Holds
      <3> QED BY <1>1, <1>3, <2>2, <3>1, LockKeeps DEF ManagerInv
    <2>7. ReceiversAreStopped'
      <3>1. \A x \in calls : x # c => x \in calls'
        BY <2>2 DEF Becomes
      <3>2. \A i \in Requests : i # c.id => receivers'[i] = receivers[i]
        BY <2>1 DEF ManagerInv, Typed
      <3>3. \A i \in Requests : i # c.id /\ receivers'[i].on => \E x \in calls' : Releases(x, i)
        BY <1>2, <1>3, <3>1, <3>2, RequestsLemma DEF ManagerInv, ReceiversAreStopped
      <3> QED BY <2>1, <3>3 DEF ReceiversAreStopped, Releases
    <2>8. NodesAreStopped'
      BY <1>2, <2>1 DEF NodesAreStopped
    <2> QED BY <2>3, <2>5, <2>6, <2>7, <2>8 DEF ManagerInv
  <1> QED BY <1>4, <1>5

LEMMA ReadPortKeeps ==
    ASSUME ManagerInv, NEW c \in calls, ReadPort(c)
    PROVE  ManagerInv'
  <1> DEFINE d == [c EXCEPT !.at = "boot", !.port = receivers[c.server].port]
  <1>1. /\ c.op = "start server" /\ c.at = "port" /\ UNCHANGED managerVars
        /\ calls' = (calls \ {c}) \cup {d} /\ made' = made
    BY DEF ReadPort, Does
  <1>2. c \in Call /\ WellFormed(c)
    BY CallLemma
  <1>3. receivers[c.server].port \in AllNodes \cup {NoNode}
    BY <1>1, <1>2 DEF WellFormed, ManagerInv, Typed
  <1>4. /\ d \in Call /\ d.id = c.id /\ d.op = c.op /\ d.name = c.name /\ d.at = "boot"
        /\ d.server = c.server
    BY <1>2, <1>3 DEF Call
  <1> HIDE DEF d
  <1>5. WellFormed(d)
    BY <1>1, <1>2, <1>4 DEF WellFormed
  <1>6. Becomes(c, {d})
    BY <1>1, <1>4, <1>5 DEF Becomes
  <1>7. ~Holds(c) /\ ~Holds(d) /\ ~Undoes(c) /\ \A i : ~Releases(c, i)
    BY <1>1, <1>4 DEF Holds, Undoes, Releases
  <1> QED BY <1>1, <1>6, <1>7, QuietKeeps

LEMMA BootKeeps ==
    ASSUME ManagerInv, NEW c \in calls, Boot(c)
    PROVE  ManagerInv'
  <1>1. /\ c.op = "start server" /\ c.at = "boot" /\ Goes(c, "check")
        /\ UNCHANGED <<preset, source, dest, route, late, lifecycle, receivers, server,
                       serverStatus, transferring>>
    BY DEF Boot, Does, graphVars, serverVars
  <1>2. PICK d \in Call : Becomes(c, {d}) /\ d.op = c.op /\ d.at = "check" /\ d.server = c.server
    BY <1>1, CallLemma, GoesLemma
  <1>3. ~Holds(c) /\ ~Holds(d) /\ Undoes(d) /\ \A i : ~Releases(c, i)
    BY <1>1, <1>2 DEF Holds, Undoes, Releases
  <1>4. calls' \subseteq Call /\ made' \in Requests /\ CallsAreTheirOwn'
    BY <1>2, CallsKeep DEF ManagerInv
  <1>5. Typed'
    BY <1>1, <1>4 DEF ManagerInv, Typed
  <1>6. LockIsHeld'
    BY <1>1, <1>2, <1>3, LockKeeps DEF ManagerInv
  <1>7. ReceiversAreStopped'
    BY <1>1, <1>2, <1>3, ReceiversKeep DEF ManagerInv
  <1>8. NodesAreStopped'
    <2>1. d \in calls'
      BY <1>2 DEF Becomes
    <2> QED BY <1>3, <2>1 DEF NodesAreStopped, Undoes
  <1> QED BY <1>4, <1>5, <1>6, <1>7, <1>8 DEF ManagerInv

LEMMA CheckBootKeeps ==
    ASSUME ManagerInv, NEW c \in calls, CheckBoot(c)
    PROVE  ManagerInv'
  <1>1. c.op = "start server" /\ c.at = "check" /\ UNCHANGED managerVars
    BY DEF CheckBoot, Does
  <1>2. ~Holds(c) /\ \A i : ~Releases(c, i)
    BY <1>1 DEF Holds, Releases
  <1>3. c \in Call /\ WellFormed(c) /\ c.server # NoServer
    BY <1>1, CallLemma, RequestsLemma DEF WellFormed
  <1>4. CASE server # c.server
    <2>1. PICK d \in Call : Becomes(c, {d}) /\ d.op = c.op /\ d.at = "stop nodes" /\ d.server = c.server
      <3>1. Goes(c, "stop nodes") /\ c.at # "asked"
        BY <1>1, <1>4 DEF CheckBoot
      <3> QED BY <1>3, <3>1, GoesLemma
    <2>2. ~Holds(d) /\ Undoes(d)
      BY <1>1, <2>1 DEF Holds, Undoes
    <2> QED BY <1>1, <1>2, <2>1, <2>2, QuietKeeps
  <1>5. CASE server = c.server
    <2>1. Becomes(c, {})
      BY <1>5, ReturnsLemma DEF CheckBoot
    <2> QED BY <1>1, <1>2, <1>3, <1>5, <2>1, QuietKeeps
  <1> QED BY <1>4, <1>5

\* The forwarders are stopped while the nodes are unlocked: none is left to stop.
LEMMA StopAllKeeps ==
    ASSUME ManagerInv, NEW c \in calls, NEW D, Becomes(c, D), StopAll,
           lifecycle = Unlocked, lifecycle' = lifecycle, receivers' = receivers, server' = server,
           serverStatus' = serverStatus, transferring' = transferring,
           preset' \in DOMAIN Presets, source' \in AllNodes, dest' \in AllNodes,
           ~Holds(c), \A d \in D : ~Holds(d),
           \A i \in Requests : Releases(c, i) => \E d \in D : Releases(d, i)
    PROVE  ManagerInv'
  <1>1. calls' \subseteq Call /\ made' \in Requests /\ CallsAreTheirOwn'
    BY CallsKeep DEF ManagerInv
  <1>2. up' = {} /\ late' = FALSE
    BY DEF StopAll
  <1>3. Typed'
    BY <1>1, <1>2 DEF ManagerInv, Typed
  <1>4. LockIsHeld'
    BY LockKeeps DEF ManagerInv
  <1>5. ReceiversAreStopped'
    BY ReceiversKeep DEF ManagerInv
  <1>6. NodesAreStopped'
    BY <1>2 DEF NodesAreStopped
  <1> QED BY <1>1, <1>3, <1>4, <1>5, <1>6 DEF ManagerInv

LEMMA UndoBootKeeps ==
    ASSUME ManagerInv, NEW c \in calls, UndoBoot(c)
    PROVE  ManagerInv'
  <1>1. /\ c.op = "start server" /\ c.at = "stop nodes" /\ lifecycle = Unlocked
        /\ StopAll /\ Becomes(c, {})
        /\ preset' = preset /\ source' = source /\ dest' = dest
        /\ lifecycle' = lifecycle /\ receivers' = receivers /\ server' = server
        /\ serverStatus' = serverStatus /\ transferring' = transferring
    BY ReturnsLemma DEF UndoBoot, Does, graphVars, serverVars
  <1>2. ~Holds(c) /\ \A i \in Requests : ~Releases(c, i)
    BY <1>1 DEF Holds, Releases
  <1>3. preset' \in DOMAIN Presets /\ source' \in AllNodes /\ dest' \in AllNodes
    BY <1>1 DEF ManagerInv, Typed
  <1>4. PICK D : D = {}
    OBVIOUS
  <1>5. /\ Becomes(c, D)
        /\ \A d \in D : ~Holds(d)
        /\ \A i \in Requests : Releases(c, i) => \E d \in D : Releases(d, i)
    BY <1>1, <1>2, <1>4
  <1> QED BY <1>1, <1>2, <1>3, <1>5, StopAllKeeps
-----------------------------------------------------------------------------
(* stop_server and set_preset *)

LEMMA ReleaseKeeps ==
    ASSUME ManagerInv, NEW c \in calls, Release(c)
    PROVE  ManagerInv'
  <1>1. /\ c.op = "stop server" /\ c.at = "asked" /\ GoesWith(c, "stop nodes", server)
        /\ server' = NoServer /\ serverStatus' = "stopped"
        /\ UNCHANGED <<preset, source, dest, route, up, hops, late, lifecycle, receivers, transferring>>
    BY DEF Release, Does, graphVars, nodeVars
  <1>2. /\ c \in Call /\ WellFormed(c) /\ server \in Requests \cup {NoServer}
    BY CallLemma DEF ManagerInv, Typed
  <1>3. PICK d \in Call : Becomes(c, {d}) /\ d.op = c.op /\ d.at = "stop nodes" /\ d.server = server
    <2>1. server \in Requests \cup {NoServer} /\ "stop nodes" \in {"port", "stop nodes", "lock"}
      BY <1>2
    <2>2. c.op = "stop server" \/ (c.op # "set preset" /\ server \in Requests)
      BY <1>1
    <2>3. \E d \in Call : Becomes(c, {d}) /\ d.op = c.op /\ d.at = "stop nodes" /\ d.server = server
      BY <1>1, <1>2, <2>1, <2>2, GoesWithLemma
    <2> QED BY <2>3
  <1>4. /\ ~Holds(c) /\ ~Holds(d) /\ Undoes(d) /\ \A i : ~Releases(c, i)
        /\ Releases(d, server)
    BY <1>1, <1>3 DEF Holds, Undoes, Releases
  <1>5. d \in calls' /\ \A x \in calls : x # c => x \in calls'
    BY <1>3 DEF Becomes
  <1>6. calls' \subseteq Call /\ made' \in Requests /\ CallsAreTheirOwn'
    BY <1>3, CallsKeep DEF ManagerInv
  <1>7. Typed'
    BY <1>1, <1>6 DEF ManagerInv, Typed
  <1>8. LockIsHeld'
    BY <1>1, <1>3, <1>4, LockKeeps DEF ManagerInv
  <1>9. ReceiversAreStopped'
    <2>1. \A i \in Requests : receivers[i].on => \E x \in calls' : Releases(x, i)
      BY <1>4, <1>5 DEF ManagerInv, ReceiversAreStopped
    <2> QED BY <1>1, <2>1 DEF ReceiversAreStopped, Releases
  <1>10. NodesAreStopped'
    BY <1>4, <1>5 DEF NodesAreStopped, Undoes
  <1> QED BY <1>6, <1>7, <1>8, <1>9, <1>10 DEF ManagerInv

LEMMA StopNodesKeeps ==
    ASSUME ManagerInv, NEW c \in calls, StopNodes(c)
    PROVE  ManagerInv'
  <1>1. /\ c.op = "stop server" /\ c.at = "stop nodes" /\ lifecycle = Unlocked
        /\ StopAll /\ Goes(c, "stop")
        /\ preset' = preset /\ source' = source /\ dest' = dest
        /\ lifecycle' = lifecycle /\ receivers' = receivers /\ server' = server
        /\ serverStatus' = serverStatus /\ transferring' = transferring
    BY DEF StopNodes, Does, graphVars, serverVars
  <1>2. PICK d \in Call : Becomes(c, {d}) /\ d.op = c.op /\ d.at = "stop" /\ d.server = c.server
    BY <1>1, CallLemma, GoesLemma
  <1>3. ~Holds(c) /\ ~Holds(d) /\ \A i \in Requests : Releases(c, i) => Releases(d, i)
    BY <1>1, <1>2 DEF Holds, Releases
  <1>4. preset' \in DOMAIN Presets /\ source' \in AllNodes /\ dest' \in AllNodes
    BY <1>1 DEF ManagerInv, Typed
  <1> QED BY <1>1, <1>2, <1>3, <1>4, StopAllKeeps

LEMMA StopReceiverKeeps ==
    ASSUME ManagerInv, NEW c \in calls, StopReceiver(c)
    PROVE  ManagerInv'
  <1>1. /\ c.op = "stop server" /\ c.at = "stop" /\ Becomes(c, {})
        /\ receivers' = (IF c.server = NoServer THEN receivers
                         ELSE [receivers EXCEPT ![c.server].on = FALSE])
        /\ UNCHANGED <<preset, source, dest, up, hops, late, lifecycle, server, serverStatus,
                       transferring>>
    BY ReturnsLemma DEF StopReceiver, Does, nodeVars
  <1>2. ~Holds(c) /\ ~Undoes(c) /\ \A i \in Requests : Releases(c, i) => c.server = i
    BY <1>1 DEF Holds, Undoes, Releases
  <1>3. /\ receivers' \in [Requests -> [port : AllNodes \cup {NoNode}, on : BOOLEAN]]
        /\ \A i \in Requests : receivers'[i].on => receivers[i].on /\ c.server # i
    <2>1. receivers \in [Requests -> [port : AllNodes \cup {NoNode}, on : BOOLEAN]]
      BY DEF ManagerInv, Typed
    <2> QED BY <1>1, <2>1, RequestsLemma
  <1>4. calls' \subseteq Call /\ made' \in Requests /\ CallsAreTheirOwn'
    BY <1>1, CallsKeep DEF ManagerInv
  <1>5. Typed'
    BY <1>1, <1>3, <1>4 DEF ManagerInv, Typed
  <1>6. LockIsHeld'
    BY <1>1, <1>2, LockKeeps DEF ManagerInv
  <1>7. ReceiversAreStopped'
    <2>1. \A i \in Requests : receivers'[i].on => receivers[i].on
      BY <1>3
    <2>2. \A i \in Requests : Releases(c, i) /\ receivers'[i].on =>
                                  i = server \/ \E d \in {} : Releases(d, i)
      BY <1>2, <1>3
    <2> QED BY <1>1, <2>1, <2>2, ReceiversKeep DEF ManagerInv
  <1>8. NodesAreStopped'
    BY <1>1, <1>2, NodesKeep DEF ManagerInv
  <1> QED BY <1>4, <1>5, <1>6, <1>7, <1>8 DEF ManagerInv

LEMMA SetPresetKeeps ==
    ASSUME ManagerInv, NEW c \in calls, SetPreset(c)
    PROVE  ManagerInv'
  <1>1. /\ c.op = "set preset" /\ c.at = "asked" /\ lifecycle = Unlocked /\ Becomes(c, {})
        /\ lifecycle' = lifecycle /\ receivers' = receivers /\ server' = server
        /\ serverStatus' = serverStatus /\ transferring' = transferring
    BY ReturnsLemma DEF SetPreset, Does, serverVars
  <1>2. ~Holds(c) /\ ~Undoes(c) /\ \A i \in Requests : ~Releases(c, i)
    BY <1>1 DEF Holds, Undoes, Releases
  <1>3. c.name \in DOMAIN Presets
    BY <1>1, CallLemma DEF WellFormed
  <1>4. CASE transferring \/ c.name = preset
    <2>1. UNCHANGED managerVars
      BY <1>1, <1>4 DEF SetPreset, managerVars, serverVars
    <2> QED BY <1>1, <1>2, <2>1, QuietKeeps DEF Releases
  <1>5. CASE ~(transferring \/ c.name = preset)
    <2>1. preset' = c.name /\ source' = Presets[c.name].source /\ dest' = Presets[c.name].dest /\ StopAll
      BY <1>5 DEF SetPreset
    <2>2. preset' \in DOMAIN Presets /\ source' \in AllNodes /\ dest' \in AllNodes
      BY <1>3, <2>1, PresetsLemma
    <2>3. PICK D : D = {}
      OBVIOUS
    <2>4. /\ Becomes(c, D)
          /\ \A d \in D : ~Holds(d)
          /\ \A i \in Requests : Releases(c, i) => \E d \in D : Releases(d, i)
      BY <1>1, <1>2, <2>3
    <2> QED BY <1>1, <1>2, <2>1, <2>2, <2>4, StopAllKeeps
  <1> QED BY <1>4, <1>5
-----------------------------------------------------------------------------
(* start_transfer *)

LEMMA PickLemma ==
    ASSUME ManagerInv, NEW c \in calls
    PROVE  Source(c) \in AllNodes /\ Dest(c) \in AllNodes
  <1>1. c.pick \in AllNodes \X AllNodes \cup {DefaultPick}
    BY CallLemma
  <1>2. source \in AllNodes /\ dest \in AllNodes
    BY DEF ManagerInv, Typed
  <1> QED BY <1>1, <1>2 DEF Source, Dest

LEMMA CheckTransferKeeps ==
    ASSUME ManagerInv, NEW c \in calls, CheckTransfer(c)
    PROVE  ManagerInv'
  <1>1. c.op = "start transfer" /\ c.at = "asked" /\ UNCHANGED managerVars
    BY DEF CheckTransfer, Does
  <1>2. ~Holds(c) /\ ~Undoes(c) /\ \A i : ~Releases(c, i)
    BY <1>1 DEF Holds, Undoes, Releases
  <1>3. CASE CanTransfer
    <2>1. GoesWith(c, "lock", server) /\ server \in Requests
      BY <1>3 DEF CheckTransfer, CanTransfer, ManagerInv, Typed
    <2>2. PICK d \in Call : Becomes(c, {d}) /\ d.op = c.op /\ d.at = "lock" /\ d.server = server
      <3>1. c \in Call /\ WellFormed(c)
        BY CallLemma
      <3>2. server \in Requests \cup {NoServer} /\ "lock" \in {"port", "stop nodes", "lock"}
        BY <2>1
      <3>3. c.op = "stop server" \/ (c.op # "set preset" /\ server \in Requests)
        BY <1>1, <2>1
      <3>4. \E d \in Call : Becomes(c, {d}) /\ d.op = c.op /\ d.at = "lock" /\ d.server = server
        BY <2>1, <3>1, <3>2, <3>3, GoesWithLemma
      <3> QED BY <3>4
    <2>3. ~Holds(d)
      BY <2>2 DEF Holds
    <2> QED BY <1>1, <1>2, <2>2, <2>3, QuietKeeps
  <1>4. CASE ~CanTransfer
    <2>1. Becomes(c, {})
      BY <1>4, ReturnsLemma DEF CheckTransfer
    <2> QED BY <1>1, <1>2, <2>1, QuietKeeps
  <1> QED BY <1>3, <1>4

LEMMA RefusePickKeeps ==
    ASSUME ManagerInv, NEW c \in calls, RefusePick(c)
    PROVE  ManagerInv'
  <1>1. c.op = "start transfer" /\ c.at = "lock" /\ Becomes(c, {}) /\ UNCHANGED managerVars
    BY ReturnsLemma DEF RefusePick, Does
  <1>2. ~Holds(c) /\ ~Undoes(c) /\ \A i : ~Releases(c, i)
    BY <1>1 DEF Holds, Undoes, Releases
  <1> QED BY <1>1, <1>2, QuietKeeps

LEMMA FreePortKeeps ==
    ASSUME ManagerInv, NEW c \in calls, FreePort(c)
    PROVE  ManagerInv'
  <1> DEFINE at == IF Elsewhere(c) THEN "unbind" ELSE "forward"
             d == [c EXCEPT !.pick = <<Source(c), Dest(c)>>, !.at = at]
  <1>1. /\ c.op = "start transfer" /\ c.at = "lock" /\ lifecycle = Unlocked /\ lifecycle' = c.id
        /\ late' = (late \/ server # c.server)
        /\ calls' = (calls \ {c}) \cup {d} /\ made' = made
        /\ UNCHANGED <<preset, source, dest, route, hops, receivers, server, serverStatus, transferring>>
    BY DEF FreePort, Does, graphVars, serverVars
  <1>2. /\ c \in Call /\ WellFormed(c) /\ c.server # NoServer /\ c.id \in Requests
    BY <1>1, CallLemma, RequestsLemma DEF WellFormed
  <1>3. at \in {"unbind", "forward"}
    OBVIOUS
  <1>4. <<Source(c), Dest(c)>> \in AllNodes \X AllNodes
    BY PickLemma
  <1>5. /\ d \in Call /\ d.id = c.id /\ d.op = c.op /\ d.name = c.name /\ d.server = c.server
        /\ d.at \in {"unbind", "forward"}
    BY <1>2, <1>3, <1>4 DEF Call
  <1> HIDE DEF d
  <1>6. WellFormed(d)
    BY <1>1, <1>2, <1>5 DEF WellFormed
  <1>7. Becomes(c, {d})
    BY <1>1, <1>5, <1>6 DEF Becomes
  <1>8. ~Undoes(c) /\ Holds(d) /\ \A i : ~Releases(c, i)
    BY <1>1, <1>5 DEF Undoes, Holds, Releases
  <1>9. calls' \subseteq Call /\ made' \in Requests /\ CallsAreTheirOwn'
    BY <1>7, CallsKeep DEF ManagerInv
  <1>10. Typed'
    <2>1. late' \in BOOLEAN
      BY <1>1 DEF ManagerInv, Typed
    <2> QED BY <1>1, <1>2, <1>9, <2>1 DEF ManagerInv, Typed
  <1>11. LockIsHeld'
    BY <1>1, <1>7, <1>8, LockKeeps DEF ManagerInv
  <1>12. ReceiversAreStopped'
    BY <1>1, <1>7, <1>8, ReceiversKeep DEF ManagerInv
  <1>13. NodesAreStopped'
    <2>1. server' = NoServer => late'
      BY <1>1, <1>2
    <2> QED BY <2>1 DEF NodesAreStopped
  <1> QED BY <1>9, <1>10, <1>11, <1>12, <1>13 DEF ManagerInv

\* A receiver that is stopped or started by the preparation that has the lock.
LEMMA MovesReceiver ==
    ASSUME ManagerInv, NEW c \in calls, NEW D, Becomes(c, D), Holds(c),
           NEW r \in [port : AllNodes \cup {NoNode}, on : BOOLEAN],
           receivers' = [receivers EXCEPT ![c.server] = r],
           preset' = preset, source' = source, dest' = dest, transferring' = transferring,
           server' = server, serverStatus' = serverStatus, up' = up, late' = late,
           \/ lifecycle' = lifecycle /\ \E d \in D : Holds(d)
           \/ lifecycle' = Unlocked /\ ~(\E d \in D : Holds(d)),
           r.on => c.server = server \/ \E d \in D : Releases(d, c.server)
    PROVE  ManagerInv'
  <1>1. calls' \subseteq Call /\ made' \in Requests /\ CallsAreTheirOwn'
    BY CallsKeep DEF ManagerInv
  <1>2. c.server \in Requests /\ c.op = "start transfer" /\ ~Undoes(c)
    BY CallLemma DEF Holds, WellFormed, Undoes
  <1>3. receivers \in [Requests -> [port : AllNodes \cup {NoNode}, on : BOOLEAN]]
    BY DEF ManagerInv, Typed
  <1>4. receivers' \in [Requests -> [port : AllNodes \cup {NoNode}, on : BOOLEAN]]
    BY <1>2, <1>3
  <1>5. receivers'[c.server] = r /\ \A i \in Requests : i # c.server => receivers'[i] = receivers[i]
    BY <1>2, <1>3
  <1>6. Typed'
    BY <1>1, <1>4 DEF ManagerInv, Typed
  <1>7. LockIsHeld'
    BY LockKeeps DEF ManagerInv
  <1>8. ReceiversAreStopped'
    <2>1. \A i \in Requests : receivers'[i].on => i = server' \/ \E x \in calls' : Releases(x, i)
      <3> SUFFICES ASSUME NEW i \in Requests, receivers'[i].on, i # server'
                   PROVE  \E x \in calls' : Releases(x, i)
        OBVIOUS
      <3>1. CASE i = c.server
        BY <1>5, <3>1 DEF Becomes
      <3>2. CASE i # c.server
        <4>1. PICK x \in calls : Releases(x, i)
          BY <1>5, <3>2 DEF ManagerInv, ReceiversAreStopped
        <4>2. x # c
          BY <3>2, <4>1 DEF Releases
        <4> QED BY <4>1, <4>2 DEF Becomes
      <3> QED BY <3>1, <3>2
    <2> QED BY <2>1 DEF ManagerInv, ReceiversAreStopped, Releases
  <1>9. NodesAreStopped'
    <2>1. lifecycle # Unlocked
      BY CallLemma, RequestsLemma DEF ManagerInv, LockIsHeld
    <2> QED BY <1>2, <2>1, NodesKeep DEF ManagerInv
  <1> QED BY <1>1, <1>6, <1>7, <1>8, <1>9 DEF ManagerInv

LEMMA UnbindKeeps ==
    ASSUME ManagerInv, NEW c \in calls, Unbind(c)
    PROVE  ManagerInv'
  <1> DEFINE r == [receivers[c.server] EXCEPT !.on = FALSE]
  <1>1. /\ c.op = "start transfer" /\ c.at = "unbind" /\ Goes(c, "rebind")
        /\ receivers' = [receivers EXCEPT ![c.server].on = FALSE]
        /\ preset' = preset /\ source' = source /\ dest' = dest /\ transferring' = transferring
        /\ server' = server /\ serverStatus' = serverStatus /\ up' = up /\ late' = late
        /\ lifecycle' = lifecycle
    BY DEF Unbind, Does, Stopped, graphVars, nodeVars
  <1>2. c.server \in Requests
    BY <1>1, CallLemma DEF WellFormed
  <1>3. receivers[c.server] \in [port : AllNodes \cup {NoNode}, on : BOOLEAN]
    BY <1>2 DEF ManagerInv, Typed
  <1>4. r \in [port : AllNodes \cup {NoNode}, on : BOOLEAN] /\ ~r.on
    BY <1>3
  <1>5. receivers' = [receivers EXCEPT ![c.server] = r]
    BY <1>1
  <1> HIDE DEF r
  <1>6. PICK d \in Call : Becomes(c, {d}) /\ d.op = c.op /\ d.at = "rebind" /\ d.server = c.server
    BY <1>1, CallLemma, GoesLemma
  <1>7. Holds(c) /\ Holds(d)
    BY <1>1, <1>6 DEF Holds
  <1> QED BY <1>1, <1>4, <1>5, <1>6, <1>7, MovesReceiver

LEMMA RebindKeeps ==
    ASSUME ManagerInv, NEW c \in calls, Rebind(c)
    PROVE  ManagerInv'
  <1> DEFINE r == [port |-> Dest(c), on |-> TRUE]
  <1>1. /\ c.op = "start transfer" /\ c.at = "rebind" /\ Goes(c, "recheck")
        /\ receivers' = [receivers EXCEPT ![c.server] = r]
        /\ preset' = preset /\ source' = source /\ dest' = dest /\ transferring' = transferring
        /\ server' = server /\ serverStatus' = serverStatus /\ up' = up /\ late' = late
        /\ lifecycle' = lifecycle
    BY DEF Rebind, Does, graphVars, nodeVars
  <1>2. r \in [port : AllNodes \cup {NoNode}, on : BOOLEAN]
    BY PickLemma
  <1> HIDE DEF r
  <1>3. PICK d \in Call : Becomes(c, {d}) /\ d.op = c.op /\ d.at = "recheck" /\ d.server = c.server
    BY <1>1, CallLemma, GoesLemma
  <1>4. Holds(c) /\ Holds(d) /\ Releases(d, c.server)
    BY <1>1, <1>3 DEF Holds, Releases
  <1> QED BY <1>1, <1>2, <1>3, <1>4, MovesReceiver

LEMMA RecheckKeeps ==
    ASSUME ManagerInv, NEW c \in calls, Recheck(c)
    PROVE  ManagerInv'
  <1>1. /\ c.op = "start transfer" /\ c.at = "recheck"
        /\ preset' = preset /\ source' = source /\ dest' = dest /\ transferring' = transferring
        /\ server' = server /\ serverStatus' = serverStatus /\ up' = up /\ late' = late
    BY DEF Recheck, Does, graphVars, nodeVars
  <1>2. c.server \in Requests
    BY <1>1, CallLemma DEF WellFormed
  <1>3. receivers[c.server] \in [port : AllNodes \cup {NoNode}, on : BOOLEAN]
    BY <1>2 DEF ManagerInv, Typed
  <1>4. Holds(c)
    BY <1>1 DEF Holds
  <1>5. CASE server # c.server
    <2> DEFINE r == [receivers[c.server] EXCEPT !.on = FALSE]
    <2>1. /\ receivers' = [receivers EXCEPT ![c.server].on = FALSE]
          /\ lifecycle' = Unlocked /\ Becomes(c, {})
      BY <1>5, ReturnsLemma DEF Recheck, Stopped
    <2>2. r \in [port : AllNodes \cup {NoNode}, on : BOOLEAN] /\ ~r.on
      BY <1>3
    <2>3. receivers' = [receivers EXCEPT ![c.server] = r]
      BY <2>1
    <2> HIDE DEF r
    <2>4. PICK D : D = {}
      OBVIOUS
    <2>5. Becomes(c, D) /\ ~(\E d \in D : Holds(d))
      BY <2>1, <2>4
    <2> QED BY <1>1, <1>4, <2>1, <2>2, <2>3, <2>5, MovesReceiver
  <1>6. CASE server = c.server
    <2>1. Goes(c, "forward") /\ receivers' = receivers /\ lifecycle' = lifecycle
      BY <1>6 DEF Recheck
    <2>2. PICK r : r = receivers[c.server]
      OBVIOUS
    <2>3. receivers' = [receivers EXCEPT ![c.server] = r]
      BY <1>2, <2>1, <2>2 DEF ManagerInv, Typed
    <2>4. PICK d \in Call : Becomes(c, {d}) /\ d.op = c.op /\ d.at = "forward" /\ d.server = c.server
      BY <1>1, <2>1, CallLemma, GoesLemma
    <2>5. Holds(d)
      BY <1>1, <2>4 DEF Holds
    <2> QED BY <1>1, <1>3, <1>4, <1>6, <2>1, <2>2, <2>3, <2>4, <2>5, MovesReceiver
  <1> QED BY <1>5, <1>6

LEMMA ForwardKeeps ==
    ASSUME ManagerInv, NEW c \in calls, Forward(c)
    PROVE  ManagerInv'
  <1>1. /\ c.op = "start transfer" /\ c.at = "forward"
        /\ preset' = preset /\ source' = source /\ dest' = dest /\ transferring' = transferring
        /\ receivers' = receivers /\ server' = server /\ serverStatus' = serverStatus
        /\ late' = late
    BY DEF Forward, Does, serverVars
  <1>2. Holds(c) /\ ~Undoes(c) /\ \A i : ~Releases(c, i)
    BY <1>1 DEF Holds, Undoes, Releases
  <1>3. PICK D : /\ Becomes(c, D)
                 /\ \/ lifecycle' = lifecycle /\ \E d \in D : Holds(d)
                    \/ lifecycle' = Unlocked /\ ~(\E d \in D : Holds(d))
    <2>1. CASE Failed(Dest(c)) # {}
      <3>1. PICK D : D = {}
        OBVIOUS
      <3>2. lifecycle' = Unlocked /\ Becomes(c, {})
        BY <2>1, ReturnsLemma DEF Forward
      <3>3. Becomes(c, D) /\ lifecycle' = Unlocked /\ ~(\E d \in D : Holds(d))
        BY <3>1, <3>2
      <3> QED BY <3>3
    <2>2. CASE Failed(Dest(c)) = {}
      <3>1. Goes(c, "push") /\ lifecycle' = lifecycle
        BY <2>2 DEF Forward
      <3>2. PICK d \in Call : Becomes(c, {d}) /\ d.op = c.op /\ d.at = "push" /\ d.server = c.server
        BY <1>1, <3>1, CallLemma, GoesLemma
      <3>3. Holds(d)
        BY <1>1, <3>2 DEF Holds
      <3>4. PICK D : D = {d}
        OBVIOUS
      <3>5. Becomes(c, D) /\ lifecycle' = lifecycle /\ \E e \in D : Holds(e)
        BY <3>1, <3>2, <3>3, <3>4
      <3> QED BY <3>5
    <2> QED BY <2>1, <2>2
  <1>4. calls' \subseteq Call /\ made' \in Requests /\ CallsAreTheirOwn'
    BY <1>3, CallsKeep DEF ManagerInv
  <1>5. Typed'
    BY <1>1, <1>3, <1>4 DEF ManagerInv, Typed
  <1>6. LockIsHeld'
    BY <1>2, <1>3, LockKeeps DEF ManagerInv
  <1>7. ReceiversAreStopped'
    BY <1>1, <1>2, <1>3, ReceiversKeep DEF ManagerInv
  <1>8. NodesAreStopped'
    <2>1. lifecycle # Unlocked
      BY <1>2, CallLemma, RequestsLemma DEF ManagerInv, LockIsHeld
    <2> QED BY <1>1, <1>2, <1>3, <2>1, NodesKeep DEF ManagerInv
  <1> QED BY <1>4, <1>5, <1>6, <1>7, <1>8 DEF ManagerInv

LEMMA PushKeeps ==
    ASSUME ManagerInv, NEW c \in calls, Push(c)
    PROVE  ManagerInv'
  <1>1. /\ c.op = "start transfer" /\ c.at = "push" /\ Goes(c, "begin")
        /\ preset' = preset /\ source' = Source(c) /\ dest' = Dest(c)
        /\ transferring' = transferring /\ receivers' = receivers /\ server' = server
        /\ serverStatus' = serverStatus /\ up' = up /\ late' = late /\ lifecycle' = Unlocked
    BY DEF Push, Does, serverVars
  <1>2. PICK d \in Call : Becomes(c, {d}) /\ d.op = c.op /\ d.at = "begin" /\ d.server = c.server
    BY <1>1, CallLemma, GoesLemma
  <1>3. Holds(c) /\ ~Holds(d) /\ ~Undoes(c) /\ \A i : ~Releases(c, i)
    BY <1>1, <1>2 DEF Holds, Undoes, Releases
  <1>4. calls' \subseteq Call /\ made' \in Requests /\ CallsAreTheirOwn'
    BY <1>2, CallsKeep DEF ManagerInv
  <1>5. Typed'
    BY <1>1, <1>4, PickLemma DEF ManagerInv, Typed
  <1>6. LockIsHeld'
    BY <1>1, <1>2, <1>3, LockKeeps DEF ManagerInv
  <1>7. ReceiversAreStopped'
    BY <1>1, <1>2, <1>3, ReceiversKeep DEF ManagerInv
  <1>8. NodesAreStopped'
    BY <1>1, <1>2, <1>3, NodesKeep DEF ManagerInv
  <1> QED BY <1>4, <1>5, <1>6, <1>7, <1>8 DEF ManagerInv

LEMMA BeginKeeps ==
    ASSUME ManagerInv, NEW c \in calls, Begin(c)
    PROVE  ManagerInv'
  <1>1. /\ c.op = "start transfer" /\ c.at = "begin" /\ Becomes(c, {})
        /\ transferring' = (transferring \/ CanTransfer)
        /\ UNCHANGED <<preset, source, dest, up, late, lifecycle, receivers, server, serverStatus>>
    BY ReturnsLemma DEF Begin, Does, graphVars, nodeVars, serverVars
  <1>2. ~Holds(c) /\ ~Undoes(c) /\ \A i : ~Releases(c, i)
    BY <1>1 DEF Holds, Undoes, Releases
  <1>3. calls' \subseteq Call /\ made' \in Requests /\ CallsAreTheirOwn'
    BY <1>1, CallsKeep DEF ManagerInv
  <1>4. Typed'
    <2>1. transferring' \in BOOLEAN
      BY <1>1 DEF ManagerInv, Typed, CanTransfer
    <2> QED BY <1>1, <1>3, <2>1 DEF ManagerInv, Typed
  <1>5. LockIsHeld'
    BY <1>1, <1>2, LockKeeps DEF ManagerInv
  <1>6. ReceiversAreStopped'
    BY <1>1, <1>2, ReceiversKeep DEF ManagerInv
  <1>7. NodesAreStopped'
    BY <1>1, <1>2, NodesKeep DEF ManagerInv
  <1> QED BY <1>3, <1>4, <1>5, <1>6, <1>7 DEF ManagerInv

LEMMA StepKeeps ==
    ASSUME ManagerInv, NEW c \in calls, Step(c)
    PROVE  ManagerInv'
  BY AlreadyRunningKeeps, BindKeeps, ReadPortKeeps, BootKeeps, CheckBootKeeps, UndoBootKeeps,
     ReleaseKeeps, StopNodesKeeps, StopReceiverKeeps, SetPresetKeeps, CheckTransferKeeps,
     RefusePickKeeps, FreePortKeeps, UnbindKeeps, RebindKeeps, RecheckKeeps, ForwardKeeps,
     PushKeeps, BeginKeeps DEF Step
-----------------------------------------------------------------------------
(* Requests, and the page *)

\* A request joins those under way, which only learn that they are not alone.
LEMMA RequestKeeps ==
    ASSUME ManagerInv, NEW op \in Ops, NEW name \in DOMAIN Presets \cup {NoNode},
           NEW pick \in AllNodes \X AllNodes \cup {DefaultPick},
           op = "set preset" => name \in DOMAIN Presets,
           Request(op, name, pick)
    PROVE  ManagerInv'
  <1> DEFINE new == [id |-> made + 1, op |-> op, name |-> name, pick |-> pick, server |-> NoServer,
                     port |-> NoNode, alone |-> calls = {}, at |-> "asked"]
             Met(c) == [c EXCEPT !.alone = FALSE]
  <1>1. /\ made < MaxRequests /\ made' = made + 1
        /\ calls' = {Met(c) : c \in calls} \cup {new}
    BY DEF Request
  <1>2. UNCHANGED <<preset, source, dest, up, late, lifecycle, receivers, server, serverStatus,
                    transferring>>
    BY DEF Request, managerVars, graphVars, nodeVars, serverVars
  <1>3. /\ made \in Requests /\ made + 1 \in Requests
        /\ \A i \in Requests : i <= made => i <= made + 1 /\ i # made + 1
    <2>1. made \in Requests
      BY DEF ManagerInv, Typed
    <2> QED BY <1>1, <2>1, NextIdLemma
  <1>4. /\ new \in Call /\ new.id = made + 1 /\ new.op = op /\ new.name = name /\ new.at = "asked"
    <2>1. (calls = {}) \in BOOLEAN
      OBVIOUS
    <2> QED BY <1>3, <2>1 DEF Call
  <1>5. ASSUME NEW c \in calls
        PROVE  /\ Met(c) \in Call /\ Met(c).id = c.id /\ Met(c).op = c.op /\ Met(c).name = c.name
               /\ Met(c).at = c.at /\ Met(c).server = c.server
    <2>1. c \in Call
      BY CallLemma
    <2> QED BY <2>1 DEF Call
  <1> HIDE DEF new, Met
  <1>6. /\ \A c \in calls : Met(c) \in calls'
        /\ \A x \in calls' : x = new \/ \E c \in calls : x = Met(c)
    BY <1>1
  <1>7. /\ \A c \in calls : /\ WellFormed(Met(c)) <=> WellFormed(c)
                            /\ Holds(Met(c)) <=> Holds(c)
                            /\ Undoes(Met(c)) <=> Undoes(c)
                            /\ \A i : Releases(Met(c), i) <=> Releases(c, i)
        /\ WellFormed(new) /\ ~Holds(new)
    BY <1>4, <1>5 DEF WellFormed, Holds, Undoes, Releases
  <1>8. calls' \subseteq Call
    BY <1>4, <1>5, <1>6
  <1>9. Typed'
    BY <1>1, <1>2, <1>3, <1>8 DEF ManagerInv, Typed
  <1>10. CallsAreTheirOwn'
    <2>1. \A c \in calls : c.id \in Requests /\ c.id <= made /\ WellFormed(c)
      BY CallLemma DEF ManagerInv, CallsAreTheirOwn
    <2>2. \A c \in calls : Met(c).id = c.id
      BY <1>5
    <2>3. \A x \in calls' : WellFormed(x) /\ x.id <= made'
      <3>1. \A c \in calls : WellFormed(Met(c))
        BY <1>7, <2>1
      <3>2. \A c \in calls : Met(c).id <= made + 1
        BY <1>3, <2>1, <2>2
      <3>3. new.id <= made + 1
        BY <1>4, <1>3, RequestsLemma
      <3>4. \A c \in calls : WellFormed(Met(c)) /\ Met(c).id <= made + 1
        BY <3>1, <3>2
      <3>5. WellFormed(new) /\ new.id <= made + 1
        BY <1>7, <3>3
      <3>6. \A x \in calls' : WellFormed(x) /\ x.id <= made + 1
        BY <1>6, <3>4, <3>5
      <3> QED BY <1>1, <3>6
    <2>4. \A c, d \in calls : Met(c).id = Met(d).id => c = d
      BY <2>2 DEF ManagerInv, CallsAreTheirOwn
    <2>5. \A c \in calls : Met(c).id # new.id
      <3>1. \A c \in calls : c.id # made + 1
        BY <1>3, <2>1
      <3> QED BY <1>4, <2>2, <3>1
    <2>6. \A x, y \in calls' : x.id = y.id => x = y
      BY <1>6, <2>4, <2>5
    <2> QED BY <2>3, <2>6 DEF CallsAreTheirOwn, WellFormed
  <1>11. LockIsHeld'
    <2>1. \A c \in calls : Met(c).id = c.id /\ (Holds(Met(c)) <=> Holds(c))
      BY <1>5, <1>7
    <2>2. lifecycle # Unlocked => \E x \in calls' : x.id = lifecycle /\ Holds(x)
      BY <1>6, <2>1 DEF ManagerInv, LockIsHeld
    <2>3. \A x \in calls' : Holds(x) => x.id = lifecycle
      <3>1. \A c \in calls : Holds(Met(c)) => Met(c).id = lifecycle
        BY <2>1 DEF ManagerInv, LockIsHeld
      <3> QED BY <1>6, <1>7, <3>1
    <2> QED BY <1>2, <2>2, <2>3 DEF LockIsHeld, Holds
  <1>12. ReceiversAreStopped'
    <2>1. \A c \in calls : \A i : Releases(Met(c), i) <=> Releases(c, i)
      BY <1>7
    <2>2. \A i \in Requests : receivers[i].on => i = server \/ \E x \in calls' : Releases(x, i)
      BY <1>6, <2>1 DEF ManagerInv, ReceiversAreStopped
    <2>3. server # NoServer => serverStatus = "running"
      BY DEF ManagerInv, ReceiversAreStopped
    <2> QED BY <1>2, <2>2, <2>3 DEF ReceiversAreStopped, Releases
  <1>13. NodesAreStopped'
    BY <1>2, <1>6, <1>7 DEF ManagerInv, NodesAreStopped, Undoes
  <1> QED BY <1>9, <1>10, <1>11, <1>12, <1>13 DEF ManagerInv

\* The manager's state is read, not written.
LEMMA ManagerStays ==
    ASSUME ManagerInv, UNCHANGED <<managerVars, calls, made>>
    PROVE  ManagerInv'
  <1>1. UNCHANGED <<preset, source, dest, up, late, lifecycle, receivers, server, serverStatus,
                    transferring, calls, made>>
    BY DEF managerVars, graphVars, nodeVars, serverVars
  <1>2. Typed'
    BY <1>1 DEF ManagerInv, Typed
  <1>3. CallsAreTheirOwn' /\ LockIsHeld'
    BY <1>1 DEF ManagerInv, CallsAreTheirOwn, WellFormed, LockIsHeld, Holds
  <1>4. ReceiversAreStopped' /\ NodesAreStopped'
    BY <1>1 DEF ManagerInv, ReceiversAreStopped, Releases, NodesAreStopped, Undoes
  <1> QED BY <1>2, <1>3, <1>4 DEF ManagerInv

LEMMA TransferEndsKeeps ==
    ASSUME ManagerInv, TransferEnds
    PROVE  ManagerInv'
  <1>1. /\ UNCHANGED <<preset, source, dest, up, late, lifecycle, receivers, server, serverStatus,
                       calls, made>>
        /\ transferring' = FALSE
    BY DEF TransferEnds, graphVars, nodeVars, serverVars
  <1>2. Typed'
    BY <1>1 DEF ManagerInv, Typed
  <1>3. CallsAreTheirOwn' /\ LockIsHeld'
    BY <1>1 DEF ManagerInv, CallsAreTheirOwn, WellFormed, LockIsHeld, Holds
  <1>4. ReceiversAreStopped' /\ NodesAreStopped'
    BY <1>1 DEF ManagerInv, ReceiversAreStopped, Releases, NodesAreStopped, Undoes
  <1> QED BY <1>2, <1>3, <1>4 DEF ManagerInv

LEMMA OthersRequestKeeps ==
    ASSUME ManagerInv, OthersRequest
    PROVE  ManagerInv'
  <1>1. NoNode \in DOMAIN Presets \cup {NoNode} /\ DefaultPick \in AllNodes \X AllNodes \cup {DefaultPick}
    OBVIOUS
  <1>2. CASE Request("start server", NoNode, DefaultPick)
    BY <1>1, <1>2, RequestKeeps DEF Ops
  <1>3. CASE Request("stop server", NoNode, DefaultPick)
    BY <1>1, <1>3, RequestKeeps DEF Ops
  <1>4. CASE \E p \in DOMAIN Presets : Request("set preset", p, DefaultPick)
    BY <1>1, <1>4, RequestKeeps DEF Ops
  <1>5. CASE \E pick \in OthersPicks \cup {DefaultPick} : Request("start transfer", NoNode, pick)
    BY <1>1, <1>5, ManagerAssumption, RequestKeeps DEF Ops
  <1> QED BY <1>2, <1>3, <1>4, <1>5 DEF OthersRequest

LEMMA ActivePickLemma ==
    ASSUME PageTyped
    PROVE  ActivePick \in AllNodes \X AllNodes
  BY DEF PageTyped, Graphs, ActivePick, NoPick

LEMMA PressKeeps ==
    ASSUME TopologyInv, PressStart \/ PressPreset
    PROVE  ManagerInv'
  <1>1. NoNode \in DOMAIN Presets \cup {NoNode} /\ DefaultPick \in AllNodes \X AllNodes \cup {DefaultPick}
    OBVIOUS
  <1>2. CASE PressStart
    <2>1. Request("start transfer", NoNode, ActivePick)
      BY <1>2 DEF PressStart, Presses
    <2>2. ActivePick \in AllNodes \X AllNodes \cup {DefaultPick}
      BY ActivePickLemma DEF TopologyInv
    <2> QED BY <1>1, <2>1, <2>2, RequestKeeps DEF Ops, TopologyInv
  <1>3. CASE PressPreset
    <2>1. PICK p \in DOMAIN Presets : Request("set preset", p, DefaultPick)
      BY <1>3 DEF PressPreset, Presses
    <2> QED BY <1>1, <2>1, RequestKeeps DEF Ops, TopologyInv
  <1> QED BY <1>2, <1>3

LEMMA AnswersLemma ==
    ASSUME Typed
    PROVE  Topology \in Graphs /\ Both \in Answers /\ NoAnswers \in Answers
  BY DEF Typed, Topology, Graphs, Both, NoAnswers, Answers

\* A call of the page that goes on is still one.
LEMMA PressLemma ==
    ASSUME NEW b \in Press
    PROVE  /\ b.got \in Answers
           /\ \A at \in {"asked", "switched", "over", "clear", "refresh"} :
                 LET e == [b EXCEPT !.at = at]
                 IN e \in Press /\ e.id = b.id /\ e.at = at /\ e.got = b.got
           /\ \A got \in Answers :
                 LET e == [b EXCEPT !.got = got]
                 IN e \in Press /\ e.id = b.id /\ e.at = b.at /\ e.got = got
  BY DEF Press

LEMMA ReportedTyped ==
    ASSUME PageTyped, NEW c, Reported(c)
    PROVE  PageTyped'
  <1> DEFINE at == IF c.op = "set preset" /\ ~transferring THEN "switched" ELSE "over"
             told(b) == [b EXCEPT !.at = at]
  <1>1. /\ \A b \in presses' : b \in presses \/ \E e \in presses : b = told(e)
        /\ astray' \in BOOLEAN
        /\ UNCHANGED <<shown, running, tick, routePick, busy, open>>
    BY DEF Reported, shownVars, PageTyped
  <1>2. \A b \in presses : told(b) \in Press
    BY PressLemma DEF PageTyped
  <1> HIDE DEF told
  <1> QED BY <1>1, <1>2 DEF PageTyped

LEMMA PressTyped ==
    ASSUME ManagerInv, PageTyped, UNCHANGED open, PressStart \/ PressPreset
    PROVE  PageTyped'
  <1>1. PICK op, name, pick : Presses(op, name, pick)
    BY DEF PressStart, PressPreset
  <1>2. /\ presses' = presses \cup {[id |-> made + 1, at |-> "asked", got |-> NoAnswers]}
        /\ busy' = TRUE /\ UNCHANGED <<shown, running, tick, routePick, astray, open>>
        /\ made < MaxRequests
    BY <1>1 DEF Presses, Request, shownVars
  <1>3. made + 1 \in Requests
    BY <1>2, NextIdLemma DEF ManagerInv, Typed
  <1>4. [id |-> made + 1, at |-> "asked", got |-> NoAnswers] \in Press
    BY <1>3, AnswersLemma DEF Press, ManagerInv
  <1> QED BY <1>2, <1>4 DEF PageTyped

LEMMA PickRouteTyped ==
    ASSUME PageTyped, UNCHANGED open, PickRoute
    PROVE  PageTyped'
  <1>1. ActivePick \in AllNodes \X AllNodes
    BY ActivePickLemma
  <1>2. PICK n \in Offered \cap Presets[shown.preset].nodes :
           routePick' \in {<<n, ActivePick[2]>>, <<ActivePick[1], n>>}
    BY DEF PickRoute
  <1>3. n \in AllNodes
    BY <1>2, PresetsLemma DEF PageTyped, Graphs
  <1>4. routePick' \in AllNodes \X AllNodes
    BY <1>1, <1>2, <1>3
  <1>5. UNCHANGED <<shown, running, tick, busy, presses, astray, open>>
    BY DEF PickRoute, shownVars
  <1> QED BY <1>4, <1>5 DEF PageTyped

LEMMA RunOnceTyped ==
    ASSUME Typed, PageTyped, UNCHANGED open, AnswerLost \/ Settle \/ AskAgain \/ Refresh
    PROVE  PageTyped'
  <1>1. presses \subseteq Press /\ Both \in Answers
    BY AnswersLemma DEF PageTyped
  <1>2. CASE AnswerLost
    <2>1. PICK b \in presses : presses' = (presses \ {b}) \cup {[b EXCEPT !.at = "over"]}
      BY <1>2 DEF AnswerLost, Moves
    <2>2. [b EXCEPT !.at = "over"] \in Press
      BY <1>1, <2>1, PressLemma
    <2>3. UNCHANGED <<shown, running, tick, routePick, busy, astray, open>>
      BY <1>2 DEF AnswerLost, shownVars
    <2> QED BY <2>1, <2>2, <2>3 DEF PageTyped
  <1>3. CASE Settle
    <2>1. PICK b \in presses, at \in {"clear", "refresh"} :
             presses' = (presses \ {b}) \cup {[b EXCEPT !.at = at]}
      BY <1>3 DEF Settle, Moves
    <2>2. [b EXCEPT !.at = at] \in Press
      BY <1>1, <2>1, PressLemma
    <2>3. busy' = FALSE /\ UNCHANGED <<shown, running, tick, routePick, astray, open>>
      BY <1>3 DEF Settle, shownVars
    <2> QED BY <2>1, <2>2, <2>3 DEF PageTyped
  <1>4. CASE AskAgain
    <2>1. PICK b \in presses : presses' = (presses \ {b}) \cup {[b EXCEPT !.got = Both]}
      BY <1>4 DEF AskAgain
    <2>2. [b EXCEPT !.got = Both] \in Press
      BY <1>1, <2>1, PressLemma
    <2>3. UNCHANGED <<shown, running, tick, routePick, busy, astray, open>>
      BY <1>4 DEF AskAgain, shownVars
    <2> QED BY <2>1, <2>2, <2>3 DEF PageTyped
  <1>5. CASE Refresh
    <2>1. UNCHANGED <<tick, busy, open>>
      BY <1>5 DEF Refresh
    <2>2. PICK b \in presses :
             /\ presses' = presses \ {b} /\ ShowSome(b.got)
             /\ \/ routePick' = NoPick /\ astray' \in BOOLEAN
                \/ UNCHANGED <<routePick, astray>>
      BY <1>5 DEF Refresh
    <2>3. b.got.topology \subseteq Graphs /\ b.got.status \subseteq BOOLEAN
      BY <1>1, <2>2, PressLemma DEF Answers
    <2>4. shown' \in Graphs /\ running' \in BOOLEAN
      BY <2>2, <2>3 DEF ShowSome, PageTyped
    <2> QED BY <2>1, <2>2, <2>4 DEF PageTyped
  <1> QED BY <1>2, <1>3, <1>4, <1>5

LEMMA PollTyped ==
    ASSUME Typed, PageTyped, UNCHANGED open, PollStatus \/ PollTopology \/ Poll \/ PollFails
    PROVE  PageTyped'
  <1>1. Topology \in Graphs /\ NoAnswers \in Answers /\ transferring \in BOOLEAN
    BY AnswersLemma DEF Typed
  <1>2. UNCHANGED <<routePick, busy, presses, astray, open>>
    BY DEF PollStatus, PollTopology, Poll, PollFails
  <1>3. /\ [tick EXCEPT !.status = {transferring}] \in Answers
        /\ [tick EXCEPT !.topology = {Topology}] \in Answers
    BY <1>1 DEF PageTyped, Answers
  <1>4. tick' \in Answers
    BY <1>1, <1>3 DEF PollStatus, PollTopology, Poll, PollFails
  <1>5. shown' \in Graphs /\ running' \in BOOLEAN
    BY DEF PollStatus, PollTopology, Poll, PollFails, shownVars, PageTyped, Answers
  <1> QED BY <1>2, <1>4, <1>5 DEF PageTyped

LEMMA PageKeeps ==
    ASSUME TopologyInv, [Next]_vars
    PROVE  PageTyped'
  <1>1. ManagerInv /\ Typed /\ PageTyped
    BY DEF TopologyInv, ManagerInv
  <1>2. CASE \E c \in calls : Step(c) /\ Reported(c)
    BY <1>1, <1>2, ReportedTyped
  <1>3. CASE UNCHANGED pageVars
    BY <1>1, <1>3 DEF PageTyped, pageVars, shownVars
  <1>4. CASE PageStep /\ UNCHANGED open
    BY <1>1, <1>4, PickRouteTyped, PressTyped, RunOnceTyped, PollTyped DEF PageStep
  <1> QED BY <1>2, <1>3, <1>4 DEF Next, OthersStep, Exhausted, vars
-----------------------------------------------------------------------------
LEMMA InitTopology == PageInit => TopologyInv
  <1> SUFFICES ASSUME PageInit PROVE TopologyInv
    OBVIOUS
  <1>1. /\ Init /\ shown = Topology /\ routePick = NoPick
        /\ running = FALSE /\ tick = NoAnswers /\ busy = FALSE /\ presses = {} /\ astray = FALSE
        /\ open \in BOOLEAN
    BY DEF PageInit
  <1>2. 1 \in Requests /\ Initial \in DOMAIN Presets
    BY ManagerAssumption DEF Requests
  <1>3. preset \in DOMAIN Presets /\ source \in AllNodes /\ dest \in AllNodes
    BY <1>1, <1>2, PresetsLemma DEF Init
  <1>4. receivers \in [Requests -> [port : AllNodes \cup {NoNode}, on : BOOLEAN]]
    BY <1>1, <1>3 DEF Init
  <1>5. /\ lifecycle = Unlocked /\ server = 1 /\ serverStatus = "running" /\ transferring = FALSE
        /\ late = FALSE /\ calls = {} /\ made = 1
    BY <1>1 DEF Init
  <1>6. Typed
    BY <1>2, <1>3, <1>4, <1>5 DEF Typed
  <1>7. CallsAreTheirOwn /\ LockIsHeld
    BY <1>5 DEF CallsAreTheirOwn, LockIsHeld
  <1>8. ReceiversAreStopped
    <2>1. \A i \in Requests : receivers[i].on => i = 1
      BY <1>1 DEF Init
    <2> QED BY <1>5, <2>1 DEF ReceiversAreStopped
  <1>9. NodesAreStopped
    BY <1>2, <1>5, RequestsLemma DEF NodesAreStopped
  <1>10. PageTyped
    BY <1>1, <1>6, AnswersLemma DEF PageTyped
  <1> QED BY <1>6, <1>7, <1>8, <1>9, <1>10 DEF TopologyInv, ManagerInv

\* But for its presses, the page does not touch the server.
LEMMA PageStepFrame ==
    ASSUME PageStep
    PROVE  PressStart \/ PressPreset \/ UNCHANGED <<managerVars, calls, made>>
  BY DEF PageStep, PickRoute, AnswerLost, Settle, AskAgain, Refresh, PollStatus, PollTopology,
     Poll, PollFails

LEMMA NextTopology == TopologyInv /\ [Next]_vars => TopologyInv'
  <1> SUFFICES ASSUME TopologyInv, [Next]_vars PROVE TopologyInv'
    OBVIOUS
  <1>1. ManagerInv
    BY DEF TopologyInv
  <1>2. CASE \E c \in calls : Step(c) /\ Reported(c)
    <2>1. ManagerInv'
      BY <1>1, <1>2, StepKeeps
    <2> QED BY <2>1, PageKeeps DEF TopologyInv
  <1>3. CASE OthersRequest \/ TransferEnds
    <2>1. ManagerInv'
      BY <1>1, <1>3, OthersRequestKeeps, TransferEndsKeeps
    <2> QED BY <2>1, PageKeeps DEF TopologyInv
  <1>4. CASE PressStart \/ PressPreset
    <2>1. ManagerInv'
      BY <1>4, PressKeeps
    <2> QED BY <2>1, PageKeeps DEF TopologyInv
  <1>5. CASE UNCHANGED <<managerVars, calls, made>>
    <2>1. ManagerInv'
      BY <1>1, <1>5, ManagerStays
    <2> QED BY <2>1, PageKeeps DEF TopologyInv
  <1> QED BY <1>2, <1>3, <1>4, <1>5, PageStepFrame DEF Next, OthersStep, Exhausted, vars

LEMMA TopologyInvHolds == Spec => []TopologyInv
  BY InitTopology, NextTopology, PTL DEF Spec

\* Nobody waits for the lock of the nodes on a request that has returned: whatever stops
\* a preparation on its way, the lock is with a request that runs, or with none
\* (topology/manager.py:43-53, 427-530).
THEOREM LockHasItsHolderHolds == Spec => []LockHasItsHolder
  <1>1. TopologyInv => LockHasItsHolder
    BY DEF TopologyInv, ManagerInv, LockIsHeld, LockHasItsHolder
  <1> QED BY <1>1, TopologyInvHolds, PTL

\* However starts, stops, preparations and switches of preset meet, once all have returned
\* and the receiver is stopped no receiver has a port, and no forwarder runs but for a
\* preparation for a receiver stopped before (manager.py:199-203, 225-230;
\* topology/manager.py:487-491).
THEOREM NoGhostsHolds == Spec => []NoGhosts
  <1>1. ASSUME TopologyInv, calls = {}, server = NoServer
        PROVE  Held = {} /\ (late \/ up = {})
    <2>1. \A i \in Requests : ~receivers[i].on
      BY <1>1, RequestsLemma DEF TopologyInv, ManagerInv, ReceiversAreStopped
    <2>2. Held = {}
      BY <2>1 DEF Held
    <2>3. late \/ up = {}
      BY <1>1 DEF TopologyInv, ManagerInv, NodesAreStopped
    <2> QED BY <2>2, <2>3
  <1>2. TopologyInv => NoGhosts
    BY <1>1 DEF NoGhosts
  <1> QED BY <1>2, TopologyInvHolds, PTL
-----------------------------------------------------------------------------
(* Preparations, and the pick of the page *)

RouteFits == route # NoRoute => route[1] = source /\ route[Len(route)] = dest

StatusFits ==
    /\ serverStatus \in {"stopped", "running", "error"}
    /\ serverStatus = "running" <=> server # NoServer

\* The graph in force is the one the forwarders, the route and the ends are of, and no
\* forwarder has the port of a receiver.
GraphFits ==
    /\ {source, dest} \subseteq Nodes /\ RouteFits
    /\ up \subseteq Nodes /\ up \cap Held = {}
    /\ hops \in [AllNodes -> Hop]
    /\ StatusFits

Picks(pick) == pick \in Nodes \X Nodes /\ pick[1] # pick[2]

\* A preparation that has the lock keeps the graph and the port it has freed.
PreparedFits ==
    \A c \in calls : Holds(c) =>
        /\ Picks(c.pick) /\ c.pick[2] \notin up
        /\ c.at = "push" => up = Nodes \ {c.pick[2]}

\* A receiver is started once, and the one being stopped is not the controller's.
ServersAreFresh ==
    /\ server <= made
    /\ \A c \in calls :
          /\ c.server <= made
          /\ c.op = "start server" /\ c.at = "asked" =>
                c.id # server /\ \A d \in calls : d.server # c.id
          /\ c.op = "stop server" => c.server # server \/ c.server = NoServer

\* The controller's receiver runs, but while it moves.
ReceiverIsOn ==
    server # NoServer =>
        \/ receivers[server].on
        \/ \E c \in calls : c.op = "start transfer" /\ c.at = "rebind" /\ c.server = server

\* How far a start that met no other request has got.
Prepared(c) ==
    /\ c.server = server
    /\ c.at = "lock" => receivers[server].on
    /\ c.at \in {"recheck", "forward", "push", "begin"} =>
          receivers[server] = [port |-> c.pick[2], on |-> TRUE]
    /\ c.at = "begin" =>
          /\ Picks(c.pick) /\ up = Nodes \ {c.pick[2]}
          /\ hops = [n \in AllNodes |-> HopOf(Lanes(c), n)]

AloneIsPrepared ==
    \A c \in calls : c.alone =>
        calls = {c} /\ (c.op = "start transfer" /\ c.at # "asked" => Prepared(c))

HasOwnEnds(g) == {g.source, g.dest} \subseteq Presets[g.preset].nodes

ViewsFit == \A g \in Views : HasOwnEnds(g)

\* A switch of preset that went well, whose refresh is not done.
Pending == \E b \in presses : b.at \in {"switched", "clear"}

PickIsOfTheGraph ==
    ~astray /\ ~Pending =>
        /\ \A g \in Views : g.preset = preset
        /\ routePick # NoPick => {routePick[1], routePick[2]} \subseteq Nodes

PrepInv == GraphFits /\ PreparedFits /\ ServersAreFresh /\ ReceiverIsOn /\ AloneIsPrepared
PickInv == ViewsFit /\ PickIsOfTheGraph
-----------------------------------------------------------------------------
(* What a step does to the calls *)

\* Call c goes on as d.
GoesOn(c, d) ==
    /\ calls' = (calls \ {c}) \cup {d} /\ made' = made
    /\ d \in Call /\ d.id = c.id /\ d.op = c.op /\ d.alone = c.alone

Over(c) == calls' = calls \ {c} /\ made' = made

Ats == {"asked", "port", "boot", "check", "stop nodes", "stop", "lock",
        "unbind", "rebind", "recheck", "forward", "push", "begin"}

LEMMA GoesOnLemma ==
    ASSUME NEW c \in Call, NEW at \in Ats, Goes(c, at)
    PROVE  \E d : GoesOn(c, d) /\ d.at = at /\ d.server = c.server /\ d.pick = c.pick
  <1> DEFINE d == [c EXCEPT !.at = at]
  <1>1. /\ d \in Call /\ d.id = c.id /\ d.op = c.op /\ d.alone = c.alone
        /\ d.at = at /\ d.server = c.server /\ d.pick = c.pick
    BY DEF Call, Ats
  <1>2. calls' = (calls \ {c}) \cup {d} /\ made' = made
    BY DEF Goes
  <1> HIDE DEF d
  <1> QED BY <1>1, <1>2 DEF GoesOn

LEMMA GoesOnWithLemma ==
    ASSUME NEW c \in Call, NEW at \in Ats, NEW s \in Requests \cup {NoServer}, GoesWith(c, at, s)
    PROVE  \E d : GoesOn(c, d) /\ d.at = at /\ d.server = s /\ d.pick = c.pick
  <1> DEFINE d == [c EXCEPT !.at = at, !.server = s]
  <1>1. /\ d \in Call /\ d.id = c.id /\ d.op = c.op /\ d.alone = c.alone
        /\ d.at = at /\ d.server = s /\ d.pick = c.pick
    BY DEF Call, Ats
  <1>2. calls' = (calls \ {c}) \cup {d} /\ made' = made
    BY DEF GoesWith
  <1> HIDE DEF d
  <1> QED BY <1>1, <1>2 DEF GoesOn

LEMMA OverLemma ==
    ASSUME NEW c, Returns(c)
    PROVE  Over(c)
  BY DEF Returns, Over

LEMMA ReadPortGoesOn ==
    ASSUME ManagerInv, NEW c \in calls, ReadPort(c)
    PROVE  \E d : GoesOn(c, d) /\ d.at = "boot" /\ d.server = c.server /\ d.pick = c.pick
  <1> DEFINE d == [c EXCEPT !.at = "boot", !.port = receivers[c.server].port]
  <1>1. c \in Call /\ c.server \in Requests
    BY CallLemma DEF ReadPort, Does, WellFormed
  <1>2. receivers[c.server].port \in AllNodes \cup {NoNode}
    BY <1>1 DEF ManagerInv, Typed
  <1>3. /\ d \in Call /\ d.id = c.id /\ d.op = c.op /\ d.alone = c.alone
        /\ d.at = "boot" /\ d.server = c.server /\ d.pick = c.pick
    BY <1>1, <1>2 DEF Call
  <1>4. calls' = (calls \ {c}) \cup {d} /\ made' = made
    BY DEF ReadPort
  <1> HIDE DEF d
  <1> QED BY <1>3, <1>4 DEF GoesOn

LEMMA FreePortGoesOn ==
    ASSUME ManagerInv, NEW c \in calls, FreePort(c)
    PROVE  \E d : /\ GoesOn(c, d) /\ d.server = c.server /\ d.pick = <<Source(c), Dest(c)>>
                  /\ d.at = IF Elsewhere(c) THEN "unbind" ELSE "forward"
  <1> DEFINE at == IF Elsewhere(c) THEN "unbind" ELSE "forward"
             d == [c EXCEPT !.pick = <<Source(c), Dest(c)>>, !.at = at]
  <1>1. c \in Call
    BY CallLemma
  <1>2. <<Source(c), Dest(c)>> \in AllNodes \X AllNodes
    BY PickLemma
  <1>3. /\ d \in Call /\ d.id = c.id /\ d.op = c.op /\ d.alone = c.alone
        /\ d.at = at /\ d.server = c.server /\ d.pick = <<Source(c), Dest(c)>>
    BY <1>1, <1>2 DEF Call
  <1>4. calls' = (calls \ {c}) \cup {d} /\ made' = made
    BY DEF FreePort
  <1> HIDE DEF d
  <1> QED BY <1>3, <1>4 DEF GoesOn

\* What each step does to the calls.
StartServerCalls(c) ==
    /\ AlreadyRunning(c) => Over(c)
    /\ Bind(c) => IF dest \in up THEN Over(c)
                  ELSE \E d : GoesOn(c, d) /\ d.at = "port" /\ d.server = c.id /\ d.pick = c.pick
    /\ ReadPort(c) => \E d : GoesOn(c, d) /\ d.at = "boot" /\ d.server = c.server /\ d.pick = c.pick
    /\ Boot(c) => \E d : GoesOn(c, d) /\ d.at = "check" /\ d.server = c.server /\ d.pick = c.pick
    /\ CheckBoot(c) =>
          Over(c) \/ \E d : GoesOn(c, d) /\ d.at = "stop nodes" /\ d.server = c.server /\ d.pick = c.pick
    /\ UndoBoot(c) => Over(c)

OtherCalls(c) ==
    /\ Release(c) =>
          \E d : GoesOn(c, d) /\ d.at = "stop nodes" /\ d.server = server /\ d.pick = c.pick
    /\ StopNodes(c) => \E d : GoesOn(c, d) /\ d.at = "stop" /\ d.server = c.server /\ d.pick = c.pick
    /\ StopReceiver(c) => Over(c)
    /\ SetPreset(c) => Over(c)

PreparationCalls(c) ==
    /\ CheckTransfer(c) =>
          Over(c) \/ \E d : /\ GoesOn(c, d) /\ d.at = "lock" /\ d.server = server /\ d.pick = c.pick
                            /\ server # NoServer
    /\ RefusePick(c) => Over(c)
    /\ FreePort(c) =>
          \E d : /\ GoesOn(c, d) /\ d.server = c.server /\ d.pick = <<Source(c), Dest(c)>>
                 /\ d.at = IF Elsewhere(c) THEN "unbind" ELSE "forward"
    /\ Unbind(c) => \E d : GoesOn(c, d) /\ d.at = "rebind" /\ d.server = c.server /\ d.pick = c.pick
    /\ Rebind(c) => \E d : GoesOn(c, d) /\ d.at = "recheck" /\ d.server = c.server /\ d.pick = c.pick
    /\ Recheck(c) =>
          IF server # c.server THEN Over(c)
          ELSE \E d : GoesOn(c, d) /\ d.at = "forward" /\ d.server = c.server /\ d.pick = c.pick
    /\ Forward(c) =>
          IF Failed(Dest(c)) # {} THEN Over(c)
          ELSE \E d : GoesOn(c, d) /\ d.at = "push" /\ d.server = c.server /\ d.pick = c.pick
    /\ Push(c) => \E d : GoesOn(c, d) /\ d.at = "begin" /\ d.server = c.server /\ d.pick = c.pick
    /\ Begin(c) => Over(c)

LEMMA StepCalls ==
    ASSUME ManagerInv, NEW c \in calls
    PROVE  StartServerCalls(c) /\ OtherCalls(c) /\ PreparationCalls(c)
  <1>1. c \in Call /\ c.id \in Requests /\ server \in Requests \cup {NoServer}
    BY CallLemma DEF ManagerInv, Typed
  <1>2. \A at \in Ats : Goes(c, at) =>
            \E d : GoesOn(c, d) /\ d.at = at /\ d.server = c.server /\ d.pick = c.pick
    BY <1>1, GoesOnLemma
  <1>3. \A at \in Ats : \A s \in Requests \cup {NoServer} : GoesWith(c, at, s) =>
            \E d : GoesOn(c, d) /\ d.at = at /\ d.server = s /\ d.pick = c.pick
    BY <1>1, GoesOnWithLemma
  <1>4. Returns(c) => Over(c)
    BY OverLemma
  <1>5. StartServerCalls(c)
    <2>1. Bind(c) => IF dest \in up THEN Over(c)
                     ELSE \E d : GoesOn(c, d) /\ d.at = "port" /\ d.server = c.id /\ d.pick = c.pick
      <3>1. dest \in up /\ Bind(c) => Over(c)
        BY <1>4 DEF Bind
      <3>2. dest \notin up /\ Bind(c) =>
              \E d : GoesOn(c, d) /\ d.at = "port" /\ d.server = c.id /\ d.pick = c.pick
        <4>1. dest \notin up /\ Bind(c) => GoesWith(c, "port", c.id)
          BY DEF Bind
        <4>2. "port" \in Ats /\ c.id \in Requests \cup {NoServer}
          BY <1>1 DEF Ats
        <4> QED BY <4>1, <4>2, <1>3
      <3> QED BY <3>1, <3>2
    <2>2. Boot(c) => \E d : GoesOn(c, d) /\ d.at = "check" /\ d.server = c.server /\ d.pick = c.pick
      BY <1>2 DEF Boot, Ats
    <2>3. CheckBoot(c) =>
            Over(c) \/ \E d : GoesOn(c, d) /\ d.at = "stop nodes" /\ d.server = c.server /\ d.pick = c.pick
      BY <1>2, <1>4 DEF CheckBoot, Ats
    <2>4. (AlreadyRunning(c) => Over(c)) /\ (UndoBoot(c) => Over(c))
      BY <1>4 DEF AlreadyRunning, UndoBoot
    <2> QED BY <2>1, <2>2, <2>3, <2>4, ReadPortGoesOn DEF StartServerCalls
  <1>6. OtherCalls(c)
    <2>1. Release(c) =>
            \E d : GoesOn(c, d) /\ d.at = "stop nodes" /\ d.server = server /\ d.pick = c.pick
      BY <1>1, <1>3 DEF Release, Ats
    <2>2. StopNodes(c) =>
            \E d : GoesOn(c, d) /\ d.at = "stop" /\ d.server = c.server /\ d.pick = c.pick
      BY <1>2 DEF StopNodes, Ats
    <2>3. (StopReceiver(c) => Over(c)) /\ (SetPreset(c) => Over(c))
      BY <1>4 DEF StopReceiver, SetPreset
    <2> QED BY <2>1, <2>2, <2>3 DEF OtherCalls
  <1>7. PreparationCalls(c)
    <2>1. CheckTransfer(c) =>
            Over(c) \/ \E d : /\ GoesOn(c, d) /\ d.at = "lock" /\ d.server = server /\ d.pick = c.pick
                              /\ server # NoServer
      BY <1>1, <1>3, <1>4 DEF CheckTransfer, CanTransfer, Ats
    <2>2. (RefusePick(c) => Over(c)) /\ (Begin(c) => Over(c))
      BY <1>4 DEF RefusePick, Begin
    <2>3. Unbind(c) =>
            \E d : GoesOn(c, d) /\ d.at = "rebind" /\ d.server = c.server /\ d.pick = c.pick
      BY <1>2 DEF Unbind, Ats
    <2>4. Rebind(c) =>
            \E d : GoesOn(c, d) /\ d.at = "recheck" /\ d.server = c.server /\ d.pick = c.pick
      BY <1>2 DEF Rebind, Ats
    <2>5. Recheck(c) =>
            IF server # c.server THEN Over(c)
            ELSE \E d : GoesOn(c, d) /\ d.at = "forward" /\ d.server = c.server /\ d.pick = c.pick
      BY <1>2, <1>4 DEF Recheck, Ats
    <2>6. Forward(c) =>
            IF Failed(Dest(c)) # {} THEN Over(c)
            ELSE \E d : GoesOn(c, d) /\ d.at = "push" /\ d.server = c.server /\ d.pick = c.pick
      BY <1>2, <1>4 DEF Forward, Ats
    <2>7. Push(c) =>
            \E d : GoesOn(c, d) /\ d.at = "begin" /\ d.server = c.server /\ d.pick = c.pick
      BY <1>2 DEF Push, Ats
    <2> QED BY <2>1, <2>2, <2>3, <2>4, <2>5, <2>6, <2>7, FreePortGoesOn DEF PreparationCalls
  <1> QED BY <1>5, <1>6, <1>7
-----------------------------------------------------------------------------
(* Who does what *)

\* A step takes its own call on, and no other.
LEMMA CallsAfter ==
    ASSUME ManagerInv, NEW c \in calls, Step(c)
    PROVE  /\ made' = made
           /\ \A x \in calls' : (x \in calls /\ x # c) \/ GoesOn(c, x)
           /\ \A x \in calls : x # c => x \in calls'
  <1>1. Over(c) \/ \E d : GoesOn(c, d)
    <2>1. StartServerCalls(c) /\ OtherCalls(c) /\ PreparationCalls(c)
      BY StepCalls
    <2>2. CASE AlreadyRunning(c) \/ Bind(c) \/ ReadPort(c) \/ Boot(c) \/ CheckBoot(c) \/ UndoBoot(c)
      BY <2>1, <2>2 DEF StartServerCalls
    <2>3. CASE Release(c) \/ StopNodes(c) \/ StopReceiver(c) \/ SetPreset(c)
      BY <2>1, <2>3 DEF OtherCalls
    <2>4. CASE CheckTransfer(c) \/ RefusePick(c) \/ FreePort(c) \/ Unbind(c) \/ Rebind(c)
      BY <2>1, <2>4 DEF PreparationCalls
    <2>5. CASE Recheck(c) \/ Forward(c) \/ Push(c) \/ Begin(c)
      BY <2>1, <2>5 DEF PreparationCalls
    <2> QED BY <2>2, <2>3, <2>4, <2>5 DEF Step
  <1>2. CASE Over(c)
    BY <1>2 DEF Over
  <1>3. ASSUME NEW d, GoesOn(c, d)
        PROVE  /\ made' = made
               /\ \A x \in calls' : (x \in calls /\ x # c) \/ GoesOn(c, x)
               /\ \A x \in calls : x # c => x \in calls'
    <2>1. calls' = (calls \ {c}) \cup {d} /\ made' = made
      BY <1>3 DEF GoesOn
    <2> QED BY <1>3, <2>1
  <1> QED BY <1>1, <1>2, <1>3

\* The call that goes on is the one its action says.
LEMMA OneGoesOn ==
    ASSUME CallsAreTheirOwn, NEW c \in calls, NEW d, GoesOn(c, d), NEW x, GoesOn(c, x)
    PROVE  x = d
  BY DEF GoesOn, CallsAreTheirOwn

LEMMA NoneGoesOn ==
    ASSUME CallsAreTheirOwn, NEW c \in calls, Over(c), NEW x, GoesOn(c, x)
    PROVE  FALSE
  BY DEF Over, GoesOn, CallsAreTheirOwn

\* While another call has the lock, no step takes it, and none of a holder is made.
LEMMA OneHolds ==
    ASSUME ManagerInv, NEW c \in calls, NEW x \in calls, x # c, Holds(x)
    PROVE  lifecycle # Unlocked /\ ~Holds(c)
  <1>1. x.id = lifecycle /\ x.id \in Requests
    BY CallLemma DEF ManagerInv, LockIsHeld
  <1>2. Holds(c) => c.id = lifecycle
    BY DEF ManagerInv, LockIsHeld
  <1> QED BY <1>1, <1>2, RequestsLemma DEF ManagerInv, CallsAreTheirOwn

\* What each variable changes by.
LEMMA StepFrame ==
    ASSUME NEW c \in calls, Step(c)
    PROVE  /\ SetPreset(c) \/ preset' = preset
           /\ SetPreset(c) \/ Push(c) \/ (source' = source /\ dest' = dest /\ hops' = hops)
           /\ SetPreset(c) \/ Push(c) \/ Forward(c) \/ StopReceiver(c) \/ route' = route
           /\ \/ Boot(c) \/ UndoBoot(c) \/ StopNodes(c) \/ SetPreset(c) \/ FreePort(c) \/ Forward(c)
              \/ up' = up
           /\ \/ Bind(c) \/ StopReceiver(c) \/ Unbind(c) \/ Rebind(c) \/ Recheck(c)
              \/ receivers' = receivers
           /\ Bind(c) \/ Release(c) \/ (server' = server /\ serverStatus' = serverStatus)
  <1> USE DEF managerVars, graphVars, nodeVars, serverVars
  <1>1. CASE AlreadyRunning(c) \/ ReadPort(c) \/ CheckBoot(c) \/ CheckTransfer(c) \/ RefusePick(c)
    BY <1>1 DEF AlreadyRunning, ReadPort, CheckBoot, CheckTransfer, RefusePick
  <1>2. CASE Bind(c) \/ Boot(c) \/ UndoBoot(c) \/ Release(c) \/ StopNodes(c) \/ StopReceiver(c)
    BY <1>2 DEF Bind, Boot, UndoBoot, Release, StopNodes, StopReceiver
  <1>3. CASE SetPreset(c) \/ FreePort(c) \/ Unbind(c) \/ Rebind(c) \/ Recheck(c)
    BY <1>3 DEF SetPreset, FreePort, Unbind, Rebind, Recheck
  <1>4. CASE Forward(c) \/ Push(c) \/ Begin(c)
    BY <1>4 DEF Forward, Push, Begin
  <1> QED BY <1>1, <1>2, <1>3, <1>4 DEF Step
-----------------------------------------------------------------------------
(* The graph in force *)

LEMMA Least ==
    ASSUME NEW T, T \subseteq Nat, T # {}
    PROVE  \E x \in T : \A y \in T : x <= y
  <1> DEFINE R == OpToRel(<, Nat)
  <1>1. IsWellFoundedOn(R, Nat)
    BY NatLessThanWellFounded
  <1>2. \A x, y \in Nat : x < y => <<x, y>> \in R
    BY DEF OpToRel
  <1> HIDE DEF R
  <1>3. PICK x \in T : \A y \in T : ~(<<y, x>> \in R)
    BY <1>1, WFMin
  <1>4. ASSUME NEW y \in T PROVE x <= y
    <2>1. x \in Nat /\ y \in Nat
      OBVIOUS
    <2>2. ~(y < x)
      BY <1>2, <1>3, <2>1
    <2> QED BY <2>1, <2>2
  <1> QED BY <1>4

LEMMA MaxLemma ==
    ASSUME NEW n \in Nat, NEW S, S \subseteq 1..n, S # {}
    PROVE  Max(S) \in S
  <1> DEFINE T == {n - x : x \in S}
  <1>1. T \subseteq Nat
    <2>1. \A x \in 1..n : n - x \in Nat
      OBVIOUS
    <2> QED BY <2>1
  <1>2. PICK t \in T : \A y \in T : t <= y
    <2>1. T # {}
      OBVIOUS
    <2> QED BY <1>1, <2>1, Least
  <1>3. PICK m \in S : t = n - m
    BY <1>2
  <1>4. ASSUME NEW y \in S PROVE m >= y
    <2>1. n - m <= n - y
      BY <1>2, <1>3
    <2>2. m \in 1..n /\ y \in 1..n
      OBVIOUS
    <2> QED BY <2>1, <2>2
  <1> QED BY <1>3, <1>4 DEF Max

\* Whatever the lanes, a node's hop leads between nodes of theirs.
LEMMA HopLemma ==
    ASSUME NEW paths \in Seq(Seq(AllNodes)), NEW n
    PROVE  HopOf(paths, n) \in Hop
  <1> DEFINE through == {l \in 1..Len(paths) : \E i \in 2..(Len(paths[l]) - 1) : paths[l][i] = n}
             path == paths[Max(through)]
             i == CHOOSE j \in 2..(Len(path) - 1) : path[j] = n
  <1>1. CASE through = {}
    BY <1>1 DEF HopOf, NoHop, Hop
  <1>2. CASE through # {}
    <2>1. Max(through) \in through
      <3>1. Len(paths) \in Nat /\ through \subseteq 1..Len(paths)
        OBVIOUS
      <3> QED BY <1>2, <3>1, MaxLemma
    <2>2. path \in Seq(AllNodes) /\ \E j \in 2..(Len(path) - 1) : path[j] = n
      <3>1. PICK m : m = Max(through)
        OBVIOUS
      <3>2. m \in 1..Len(paths) /\ \E j \in 2..(Len(paths[m]) - 1) : paths[m][j] = n
        BY <2>1, <3>1
      <3>3. paths[m] \in Seq(AllNodes)
        BY <3>2
      <3> QED BY <3>1, <3>2, <3>3
    <2>3. HopOf(paths, n) = [prev |-> IF i = 2 THEN Client ELSE path[i - 1], next |-> path[i + 1]]
      BY <1>2 DEF HopOf
    <2> HIDE DEF path, through
    <2>4. i \in 2..(Len(path) - 1)
      BY <2>2
    <2> HIDE DEF i
    <2>5. path[i + 1] \in AllNodes /\ (i # 2 => path[i - 1] \in AllNodes)
      BY <2>2, <2>4
    <2> QED BY <2>3, <2>5 DEF Hop
  <1> QED BY <1>1, <1>2

LEMMA PickedLemma ==
    ASSUME NEW c, Picks(c.pick)
    PROVE  Source(c) = c.pick[1] /\ Dest(c) = c.pick[2]
  BY DEF Picks, Source, Dest, DefaultPick

LEMMA LanesLemma ==
    ASSUME LanesAreOfTheirGraph, ManagerInv, NEW c, Picks(c.pick)
    PROVE  /\ Lanes(c) \in Seq(Seq(Nodes)) /\ Lanes(c) # <<>> /\ c.pick \in Distinct(preset)
           /\ \A l \in 1..Len(Lanes(c)) : /\ Lanes(c)[l] # <<>> /\ Lanes(c)[l][1] = c.pick[1]
                                          /\ Lanes(c)[l][Len(Lanes(c)[l])] = c.pick[2]
  <1>1. preset \in DOMAIN Presets
    BY DEF ManagerInv, Typed
  <1>2. DOMAIN AllPaths[preset] = Nodes \X Nodes
    BY <1>1 DEF AllPaths, Nodes
  <1>3. c.pick \in Distinct(preset)
    BY <1>2 DEF Distinct, Picks
  <1>4. Lanes(c) = AllPaths[preset][c.pick]
    BY DEF Lanes
  <1>5. PICK lanes : lanes = AllPaths[preset][c.pick]
    OBVIOUS
  <1>6. /\ lanes \in Seq(Seq(Nodes)) /\ lanes # <<>>
        /\ \A l \in 1..Len(lanes) :
              lanes[l] # <<>> /\ lanes[l][1] = c.pick[1] /\ lanes[l][Len(lanes[l])] = c.pick[2]
    BY <1>1, <1>3, <1>5 DEF LanesAreOfTheirGraph, Nodes
  <1> QED BY <1>3, <1>4, <1>5, <1>6

\* Forwarders come and go, and the graph changes, only while no preparation has the nodes.
LEMMA NodesAreLocked ==
    ASSUME ManagerInv, NEW c \in calls, Step(c), NEW x \in calls, x # c, Holds(x)
    PROVE  preset' = preset /\ up' = up
  <1>1. lifecycle # Unlocked /\ ~Holds(c)
    BY OneHolds
  <1>2. ~Forward(c)
    BY <1>1 DEF Holds, Forward, Does
  <1>3. ~Boot(c) /\ ~UndoBoot(c) /\ ~StopNodes(c) /\ ~SetPreset(c) /\ ~FreePort(c)
    BY <1>1 DEF Boot, UndoBoot, StopNodes, SetPreset, FreePort
  <1> QED BY <1>2, <1>3, StepFrame

\* All forward but the destination when none has failed.
LEMMA AllForward ==
    ASSUME NEW d, up \subseteq Nodes, d \notin up, StartAll(d), Failed(d) = {}
    PROVE  up' = Nodes \ {d}
  BY DEF StartAll, Failed

LEMMA PreparedKeeps ==
    ASSUME ManagerInv, PrepInv, NEW c \in calls, Step(c)
    PROVE  PreparedFits'
  <1> DEFINE Fits(x) == /\ Picks(x.pick)' /\ x.pick[2] \notin up'
                        /\ x.at = "push" => up' = Nodes' \ {x.pick[2]}
  <1> SUFFICES ASSUME NEW x \in calls', Holds(x)
               PROVE  Fits(x)
    BY DEF PreparedFits, Holds
  <1>1. CASE x \in calls /\ x # c
    <2>1. preset' = preset /\ up' = up
      BY <1>1, NodesAreLocked
    <2>2. Picks(x.pick) /\ x.pick[2] \notin up /\ (x.at = "push" => up = Nodes \ {x.pick[2]})
      BY <1>1 DEF PrepInv, PreparedFits
    <2> QED BY <2>1, <2>2 DEF Picks, Nodes
  <1>2. CASE GoesOn(c, x)
    <2>1. x.op = c.op /\ c.op = "start transfer"
      BY <1>2 DEF GoesOn, Holds
    <2>2. CallsAreTheirOwn
      BY DEF ManagerInv
    <2>3. PreparationCalls(c)
      BY StepCalls
    <2>4. CASE FreePort(c)
      <3>1. /\ preset' = preset /\ up' = up \ {Dest(c)}
            /\ {Source(c), Dest(c)} \subseteq Nodes /\ Source(c) # Dest(c)
        BY <2>4 DEF FreePort, Freed, BadPick, graphVars
      <3>2. PICK d : /\ GoesOn(c, d) /\ d.pick = <<Source(c), Dest(c)>>
                     /\ d.at = IF Elsewhere(c) THEN "unbind" ELSE "forward"
        BY <2>3, <2>4 DEF PreparationCalls
      <3>3. x = d
        BY <1>2, <2>2, <3>2, OneGoesOn
      <3> QED BY <3>1, <3>2, <3>3 DEF Picks, Nodes
    <2>5. CASE Unbind(c) \/ Rebind(c) \/ Recheck(c)
      <3>1. preset' = preset /\ up' = up /\ Holds(c)
        BY <2>5 DEF Unbind, Rebind, Recheck, Does, Holds, graphVars, nodeVars
      <3>2. Picks(c.pick) /\ c.pick[2] \notin up
        BY <3>1 DEF PrepInv, PreparedFits
      <3>3. ~(Recheck(c) /\ server # c.server)
        BY <1>2, <2>2, <2>3, NoneGoesOn DEF PreparationCalls
      <3>4. PICK d : GoesOn(c, d) /\ d.at \in {"rebind", "recheck", "forward"} /\ d.pick = c.pick
        BY <2>3, <2>5, <3>3 DEF PreparationCalls
      <3>5. x = d
        BY <1>2, <2>2, <3>4, OneGoesOn
      <3> QED BY <3>1, <3>2, <3>4, <3>5 DEF Picks, Nodes
    <2>6. CASE Forward(c)
      <3>1. preset' = preset /\ StartAll(Dest(c)) /\ Holds(c)
        BY <2>6 DEF Forward, Does, Holds
      <3>2. Picks(c.pick) /\ c.pick[2] \notin up
        BY <3>1 DEF PrepInv, PreparedFits
      <3>3. Failed(Dest(c)) = {}
        BY <1>2, <2>2, <2>3, <2>6, NoneGoesOn DEF PreparationCalls
      <3>4. PICK d : GoesOn(c, d) /\ d.pick = c.pick
        BY <2>3, <2>6, <3>3 DEF PreparationCalls
      <3>5. x = d
        BY <1>2, <2>2, <3>4, OneGoesOn
      <3>6. up \subseteq Nodes /\ Dest(c) = c.pick[2]
        BY <3>2, PickedLemma DEF PrepInv, GraphFits
      <3>7. up' = Nodes \ {c.pick[2]}
        BY <3>1, <3>2, <3>3, <3>6, AllForward
      <3> QED BY <3>1, <3>2, <3>4, <3>5, <3>7 DEF Picks, Nodes
    <2>7. ASSUME CheckTransfer(c) \/ RefusePick(c) \/ Push(c) \/ Begin(c)
          PROVE  FALSE
      <3>1. ~(RefusePick(c) \/ Begin(c))
        BY <1>2, <2>2, <2>3, NoneGoesOn DEF PreparationCalls
      <3>2. ~Over(c)
        BY <1>2, <2>2, NoneGoesOn
      <3>3. PICK d : GoesOn(c, d) /\ d.at \in {"lock", "begin"}
        BY <2>3, <2>7, <3>1, <3>2 DEF PreparationCalls
      <3>4. x = d
        BY <1>2, <2>2, <3>3, OneGoesOn
      <3> QED BY <3>3, <3>4 DEF Holds
    <2>8. FreePort(c) \/ Unbind(c) \/ Rebind(c) \/ Recheck(c) \/ Forward(c)
      <3>1. ~(AlreadyRunning(c) \/ Bind(c) \/ ReadPort(c) \/ Boot(c) \/ CheckBoot(c) \/ UndoBoot(c))
        BY <2>1 DEF AlreadyRunning, Bind, ReadPort, Boot, CheckBoot, UndoBoot, Does
      <3>2. ~(Release(c) \/ StopNodes(c) \/ StopReceiver(c) \/ SetPreset(c))
        BY <2>1 DEF Release, StopNodes, StopReceiver, SetPreset, Does
      <3> QED BY <2>7, <3>1, <3>2 DEF Step
    <2> QED BY <2>4, <2>5, <2>6, <2>8
  <1> QED BY <1>1, <1>2, CallsAfter

LEMMA EndsKeep ==
    ASSUME ManagerInv, PrepInv, NEW c \in calls, Step(c)
    PROVE  ({source, dest} \subseteq Nodes)'
  <1>1. CASE SetPreset(c)
    <2>1. CASE transferring \/ c.name = preset
      BY <1>1, <2>1 DEF SetPreset, graphVars, PrepInv, GraphFits, Nodes
    <2>2. CASE ~(transferring \/ c.name = preset)
      <3>1. c.name \in DOMAIN Presets
        BY <1>1, CallLemma DEF SetPreset, Does, WellFormed
      <3>2. /\ preset' = c.name /\ source' = Presets[c.name].source
            /\ dest' = Presets[c.name].dest
        BY <1>1, <2>2 DEF SetPreset
      <3> QED BY <3>1, <3>2, PresetsAssumption DEF Nodes
    <2> QED BY <2>1, <2>2
  <1>2. CASE Push(c)
    <2>1. preset' = preset /\ source' = Source(c) /\ dest' = Dest(c) /\ Holds(c)
      BY <1>2 DEF Push, Does, Holds
    <2>2. Picks(c.pick)
      BY <2>1 DEF PrepInv, PreparedFits
    <2> QED BY <2>1, <2>2, PickedLemma DEF Picks, Nodes
  <1>3. CASE ~SetPreset(c) /\ ~Push(c)
    BY <1>3, StepFrame DEF PrepInv, GraphFits, Nodes
  <1> QED BY <1>1, <1>2, <1>3

LEMMA RouteKeeps ==
    ASSUME LanesAreOfTheirGraph, ManagerInv, PrepInv, NEW c \in calls, Step(c)
    PROVE  RouteFits'
  <1>1. RouteFits
    BY DEF PrepInv, GraphFits, RouteFits
  <1>2. CASE SetPreset(c)
    <2>1. UNCHANGED <<route, source, dest>> \/ route' = NoRoute
      BY <1>2 DEF SetPreset, graphVars
    <2> QED BY <1>1, <2>1 DEF RouteFits
  <1>3. CASE Push(c)
    <2>1. route' = Lanes(c)[1] /\ source' = Source(c) /\ dest' = Dest(c) /\ Holds(c)
      BY <1>3 DEF Push, Does, Holds
    <2>2. Picks(c.pick)
      BY <2>1 DEF PrepInv, PreparedFits
    <2>3. 1 \in 1..Len(Lanes(c))
      <3>1. Lanes(c) \in Seq(Seq(Nodes)) /\ Lanes(c) # <<>>
        BY <2>2, LanesLemma
      <3> QED BY <3>1
    <2>4. Lanes(c)[1][1] = c.pick[1] /\ Lanes(c)[1][Len(Lanes(c)[1])] = c.pick[2]
      BY <2>2, <2>3, LanesLemma
    <2> QED BY <2>1, <2>2, <2>4, PickedLemma DEF RouteFits
  <1>4. CASE Forward(c) \/ StopReceiver(c)
    <2>1. UNCHANGED <<route, source, dest>> \/ route' = NoRoute
      BY <1>4 DEF Forward, StopReceiver
    <2> QED BY <1>1, <2>1 DEF RouteFits
  <1>5. CASE ~(SetPreset(c) \/ Push(c) \/ Forward(c) \/ StopReceiver(c))
    BY <1>1, <1>5, StepFrame DEF RouteFits
  <1> QED BY <1>2, <1>3, <1>4, <1>5

\* The ports of receivers are the old ones, and those of nodes without a forwarder.
LEMMA HeldAfter ==
    ASSUME ManagerInv, PrepInv, NEW c \in calls, Step(c), receivers' # receivers
    PROVE  up' = up /\ preset' = preset /\ \A n \in Held' : n \in Held \/ n \notin up
  <1>1. Bind(c) \/ StopReceiver(c) \/ Unbind(c) \/ Rebind(c) \/ Recheck(c)
    BY StepFrame
  <1>2. up' = up /\ preset' = preset
    BY <1>1 DEF Bind, StopReceiver, Unbind, Rebind, Recheck, nodeVars, graphVars
  <1>3. receivers \in [Requests -> [port : AllNodes \cup {NoNode}, on : BOOLEAN]]
    BY DEF ManagerInv, Typed
  <1>4. \A i \in Requests : receivers'[i].on =>
            \/ receivers'[i].port \notin up
            \/ receivers[i].on /\ receivers'[i].port = receivers[i].port
    <2>1. CASE Bind(c)
      <3>1. receivers' = receivers \/ (dest \notin up /\ receivers' = [receivers EXCEPT ![c.id] = [port |-> dest, on |-> TRUE]])
        BY <2>1 DEF Bind
      <3> QED BY <1>3, <3>1
    <2>2. CASE StopReceiver(c) \/ Unbind(c) \/ Recheck(c)
      <3>1. receivers' = receivers \/ receivers' = [receivers EXCEPT ![c.server].on = FALSE]
        BY <2>2 DEF StopReceiver, Unbind, Recheck, Stopped
      <3> QED BY <1>3, <3>1
    <2>3. CASE Rebind(c)
      <3>1. receivers' = [receivers EXCEPT ![c.server] = [port |-> Dest(c), on |-> TRUE]] /\ Holds(c)
        BY <2>3 DEF Rebind, Does, Holds
      <3>2. Dest(c) \notin up
        BY <3>1, PickedLemma DEF PrepInv, PreparedFits
      <3> QED BY <1>3, <3>1, <3>2
    <2> QED BY <1>1, <2>1, <2>2, <2>3
  <1>5. \A n \in Held' : n \in Held \/ n \notin up
    BY <1>4 DEF Held
  <1> QED BY <1>2, <1>5

LEMMA UpKeeps ==
    ASSUME ManagerInv, PrepInv, NEW c \in calls, Step(c)
    PROVE  (up \subseteq Nodes /\ up \cap Held = {})'
  <1>1. up \subseteq Nodes /\ up \cap Held = {}
    BY DEF PrepInv, GraphFits
  <1>2. CASE receivers' # receivers
    <2>1. up' = up /\ preset' = preset /\ \A n \in Held' : n \in Held \/ n \notin up
      BY <1>2, HeldAfter
    <2> QED BY <1>1, <2>1 DEF Nodes
  <1>3. CASE receivers' = receivers
    <2>1. Held' = Held
      BY <1>3 DEF Held
    <2>2. CASE Boot(c) \/ Forward(c)
      <3>1. preset' = preset
        BY <2>2 DEF Boot, Forward, graphVars
      <3>2. \E d : StartAll(d)
        BY <2>2 DEF Boot, Forward
      <3>3. up' \subseteq up \cup (Nodes \ Held)
        BY <3>2 DEF StartAll
      <3> QED BY <1>1, <2>1, <3>1, <3>3 DEF Nodes
    <2>3. CASE UndoBoot(c) \/ StopNodes(c)
      <3>1. up' = {}
        BY <2>3 DEF UndoBoot, StopNodes, StopAll
      <3> QED BY <3>1
    <2>4. CASE SetPreset(c)
      <3>1. up' = {} \/ (up' = up /\ preset' = preset)
        BY <2>4 DEF SetPreset, StopAll, graphVars, nodeVars
      <3> QED BY <1>1, <2>1, <3>1 DEF Nodes
    <2>5. CASE FreePort(c)
      <3>1. up' \subseteq up /\ preset' = preset
        BY <2>5 DEF FreePort, Freed, graphVars
      <3> QED BY <1>1, <2>1, <3>1 DEF Nodes
    <2>6. CASE ~(Boot(c) \/ UndoBoot(c) \/ StopNodes(c) \/ SetPreset(c) \/ FreePort(c) \/ Forward(c))
      <3>1. up' = up /\ preset' = preset
        BY <2>6, StepFrame
      <3> QED BY <1>1, <2>1, <3>1 DEF Nodes
    <2> QED BY <2>2, <2>3, <2>4, <2>5, <2>6
  <1> QED BY <1>2, <1>3

LEMMA HopsKeep ==
    ASSUME LanesAreOfTheirGraph, ManagerInv, PrepInv, NEW c \in calls, Step(c)
    PROVE  hops' \in [AllNodes -> Hop]
  <1>1. hops \in [AllNodes -> Hop]
    BY DEF PrepInv, GraphFits
  <1>2. CASE SetPreset(c)
    <2>1. hops' = hops \/ hops' = [n \in AllNodes |-> NoHop]
      BY <1>2 DEF SetPreset, nodeVars
    <2>2. NoHop \in Hop
      BY DEF NoHop, Hop
    <2> QED BY <1>1, <2>1, <2>2
  <1>3. CASE Push(c)
    <2>1. hops' = [n \in AllNodes |-> HopOf(Lanes(c), n)] /\ Holds(c)
      BY <1>3 DEF Push, Does, Holds
    <2>2. Lanes(c) \in Seq(Seq(AllNodes))
      <3>1. Lanes(c) \in Seq(Seq(Nodes))
        BY <2>1, LanesLemma DEF PrepInv, PreparedFits
      <3>2. Nodes \subseteq AllNodes
        BY PresetsLemma DEF Nodes, ManagerInv, Typed
      <3> QED BY <3>1, <3>2
    <2>3. \A n \in AllNodes : HopOf(Lanes(c), n) \in Hop
      BY <2>2, HopLemma
    <2> QED BY <2>1, <2>3
  <1>4. CASE ~SetPreset(c) /\ ~Push(c)
    BY <1>1, <1>4, StepFrame
  <1> QED BY <1>2, <1>3, <1>4

LEMMA StatusKeeps ==
    ASSUME ManagerInv, PrepInv, NEW c \in calls, Step(c)
    PROVE  StatusFits'
  <1>1. StatusFits
    BY DEF PrepInv, GraphFits, StatusFits
  <1>2. CASE Bind(c)
    <2>1. serverStatus # "running" /\ c.id # NoServer
      BY <1>2, CallLemma, RequestsLemma DEF Bind
    <2>2. \/ serverStatus' = "error" /\ server' = server
          \/ serverStatus' = "running" /\ server' = c.id
      BY <1>2 DEF Bind
    <2> QED BY <1>1, <2>1, <2>2 DEF StatusFits
  <1>3. CASE Release(c)
    <2>1. serverStatus' = "stopped" /\ server' = NoServer
      BY <1>3 DEF Release
    <2> QED BY <2>1 DEF StatusFits
  <1>4. CASE ~Bind(c) /\ ~Release(c)
    BY <1>1, <1>4, StepFrame DEF StatusFits
  <1> QED BY <1>2, <1>3, <1>4

LEMMA GraphKeeps ==
    ASSUME LanesAreOfTheirGraph, ManagerInv, PrepInv, NEW c \in calls, Step(c)
    PROVE  GraphFits'
  <1>1. ({source, dest} \subseteq Nodes)' /\ (up \subseteq Nodes /\ up \cap Held = {})'
    BY EndsKeep, UpKeeps
  <1>2. RouteFits' /\ hops' \in [AllNodes -> Hop] /\ StatusFits'
    BY RouteKeeps, HopsKeep, StatusKeeps
  <1> QED BY <1>1, <1>2 DEF GraphFits
-----------------------------------------------------------------------------
(* The receiver *)

\* The receiver that a call goes on with is its own, the controller's, or the one it binds.
LEMMA ServerOfCall ==
    ASSUME ManagerInv, NEW c \in calls, Step(c), NEW x, GoesOn(c, x)
    PROVE  /\ x.at # "asked"
           /\ x.op = "stop server" => x.server = c.server \/ server' = NoServer
           /\ \/ x.server \in {c.server, server}
              \/ x.server = c.id /\ c.op = "start server" /\ c.at = "asked"
  <1>1. CallsAreTheirOwn
    BY DEF ManagerInv
  <1>2. StartServerCalls(c) /\ OtherCalls(c) /\ PreparationCalls(c)
    BY StepCalls
  <1>3. ~Over(c)
    BY <1>1, NoneGoesOn
  <1>4. x.op = c.op
    BY DEF GoesOn
  <1>5. CASE Bind(c)
    <2>1. PICK d : GoesOn(c, d) /\ d.at = "port" /\ d.server = c.id
      BY <1>2, <1>3, <1>5 DEF StartServerCalls
    <2>2. x = d /\ c.op = "start server" /\ c.at = "asked"
      BY <1>1, <1>5, <2>1, OneGoesOn DEF Bind, Does
    <2> QED BY <1>4, <2>1, <2>2
  <1>6. CASE AlreadyRunning(c) \/ ReadPort(c) \/ Boot(c) \/ CheckBoot(c) \/ UndoBoot(c)
    <2>1. PICK d : GoesOn(c, d) /\ d.at # "asked" /\ d.server = c.server
      BY <1>2, <1>3, <1>6 DEF StartServerCalls
    <2>2. x = d
      BY <1>1, <2>1, OneGoesOn
    <2> QED BY <2>1, <2>2
  <1>7. CASE Release(c)
    <2>1. PICK d : GoesOn(c, d) /\ d.at = "stop nodes" /\ d.server = server
      BY <1>2, <1>7 DEF OtherCalls
    <2>2. x = d /\ server' = NoServer
      BY <1>1, <1>7, <2>1, OneGoesOn DEF Release
    <2> QED BY <2>1, <2>2
  <1>8. CASE StopNodes(c) \/ StopReceiver(c) \/ SetPreset(c)
    <2>1. PICK d : GoesOn(c, d) /\ d.at = "stop" /\ d.server = c.server
      BY <1>2, <1>3, <1>8 DEF OtherCalls
    <2>2. x = d
      BY <1>1, <2>1, OneGoesOn
    <2> QED BY <2>1, <2>2
  <1>9. CASE CheckTransfer(c)
    <2>1. PICK d : GoesOn(c, d) /\ d.at = "lock" /\ d.server = server
      BY <1>2, <1>3, <1>9 DEF PreparationCalls
    <2>2. x = d /\ c.op = "start transfer"
      BY <1>1, <1>9, <2>1, OneGoesOn DEF CheckTransfer, Does
    <2> QED BY <1>4, <2>1, <2>2
  <1>10. CASE RefusePick(c) \/ FreePort(c) \/ Unbind(c) \/ Rebind(c) \/ Recheck(c)
    <2>1. PICK d : GoesOn(c, d) /\ d.at # "asked" /\ d.server = c.server
      BY <1>2, <1>3, <1>10 DEF PreparationCalls
    <2>2. x = d
      BY <1>1, <2>1, OneGoesOn
    <2> QED BY <2>1, <2>2
  <1>11. CASE Forward(c) \/ Push(c) \/ Begin(c)
    <2>1. PICK d : GoesOn(c, d) /\ d.at # "asked" /\ d.server = c.server
      BY <1>2, <1>3, <1>11 DEF PreparationCalls
    <2>2. x = d
      BY <1>1, <2>1, OneGoesOn
    <2> QED BY <2>1, <2>2
  <1> QED BY <1>5, <1>6, <1>7, <1>8, <1>9, <1>10, <1>11 DEF Step

LEMMA ServersKeep ==
    ASSUME ManagerInv, PrepInv, NEW c \in calls, Step(c)
    PROVE  ServersAreFresh'
  <1>1. /\ server <= made
        /\ \A x \in calls : x.server <= made /\ x.id <= made /\ x.id \in Requests
        /\ \A x \in calls : x.op = "start server" /\ x.at = "asked" =>
              x.id # server /\ \A d \in calls : d.server # x.id
        /\ \A x \in calls : x.op = "stop server" => x.server # server \/ x.server = NoServer
    BY CallLemma DEF PrepInv, ServersAreFresh, ManagerInv, CallsAreTheirOwn
  <1>2. made' = made /\ \A x \in calls' : (x \in calls /\ x # c) \/ GoesOn(c, x)
    BY CallsAfter
  <1>3. \/ server' = server \/ server' = NoServer
        \/ server' = c.id /\ c.op = "start server" /\ c.at = "asked"
    <2>1. CASE Bind(c)
      BY <2>1 DEF Bind, Does
    <2>2. CASE Release(c)
      BY <2>2 DEF Release
    <2> QED BY <2>1, <2>2, StepFrame
  <1>4. \A x \in calls' : GoesOn(c, x) =>
            /\ x.at # "asked"
            /\ x.op = "stop server" => x.server = c.server \/ server' = NoServer
            /\ \/ x.server \in {c.server, server}
               \/ x.server = c.id /\ c.op = "start server" /\ c.at = "asked"
    BY ServerOfCall
  <1>5. server' <= made'
    <2>1. NoServer <= made
      BY DEF ManagerInv, Typed, Requests, NoServer
    <2> QED BY <1>1, <1>2, <1>3, <2>1
  <1>6. ASSUME NEW x \in calls' PROVE x.server <= made'
    BY <1>1, <1>2, <1>4
  <1>7. ASSUME NEW x \in calls', x.op = "start server", x.at = "asked"
        PROVE  x.id # server' /\ \A d \in calls' : d.server # x.id
    <2>1. x \in calls /\ x # c
      BY <1>2, <1>4, <1>7
    <2>2. x.id # server /\ x.id # c.id /\ x.id # NoServer /\ \A d \in calls : d.server # x.id
      BY <1>1, <1>7, <2>1, RequestsLemma DEF ManagerInv, CallsAreTheirOwn
    <2> QED BY <1>2, <1>3, <1>4, <2>2
  <1>8. ASSUME NEW x \in calls', x.op = "stop server"
        PROVE  x.server # server' \/ x.server = NoServer
    <2>1. CASE x \in calls /\ x # c
      BY <1>1, <1>3, <1>8, <2>1
    <2>2. CASE GoesOn(c, x) /\ server' # NoServer
      <3>1. x.op = c.op
        BY <2>2 DEF GoesOn
      <3> QED BY <1>1, <1>3, <1>4, <1>8, <2>2, <3>1
    <2>3. CASE server' = NoServer
      BY <2>3
    <2> QED BY <1>2, <2>1, <2>2, <2>3
  <1> QED BY <1>5, <1>6, <1>7, <1>8 DEF ServersAreFresh

LEMMA ReceiverKeeps ==
    ASSUME ManagerInv, PrepInv, NEW c \in calls, Step(c)
    PROVE  ReceiverIsOn'
  <1> DEFINE Rebinds(x) == x.op = "start transfer" /\ x.at = "rebind" /\ x.server = server'
  <1> SUFFICES ASSUME server' # NoServer
               PROVE  receivers'[server'].on \/ \E x \in calls' : Rebinds(x)
    BY DEF ReceiverIsOn
  <1>1. \A x \in calls : x # c => x \in calls'
    BY CallsAfter
  <1>2. receivers \in [Requests -> [port : AllNodes \cup {NoNode}, on : BOOLEAN]]
    BY DEF ManagerInv, Typed
  <1>3. ASSUME server' = server,
               receivers[server].on \/ Rebinds(c) => receivers'[server].on
        PROVE  receivers'[server'].on \/ \E x \in calls' : Rebinds(x)
    BY <1>1, <1>3 DEF PrepInv, ReceiverIsOn
  <1>4. CASE Bind(c)
    <2>1. CASE dest \in up
      <3>1. receivers' = receivers /\ server' = server /\ ~Rebinds(c)
        BY <1>4, <2>1 DEF Bind, Does
      <3> QED BY <1>3, <3>1
    <2>2. CASE dest \notin up
      <3>1. receivers' = [receivers EXCEPT ![c.id] = [port |-> dest, on |-> TRUE]] /\ server' = c.id
        BY <1>4, <2>2 DEF Bind
      <3>2. c.id \in Requests
        BY CallLemma
      <3> QED BY <1>2, <3>1, <3>2
    <2> QED BY <2>1, <2>2
  <1>5. CASE Release(c)
    BY <1>5 DEF Release
  <1>6. CASE StopReceiver(c)
    <2>1. c.op = "stop server" /\ server' = server
      BY <1>6 DEF StopReceiver, Does
    <2>2. c.server # server \/ c.server = NoServer
      BY <2>1 DEF PrepInv, ServersAreFresh
    <2>3. receivers' = IF c.server = NoServer THEN receivers ELSE [receivers EXCEPT ![c.server].on = FALSE]
      BY <1>6 DEF StopReceiver
    <2>4. receivers'[server] = receivers[server]
      <3>1. server \in Requests
        BY <2>1 DEF ManagerInv, Typed
      <3> QED BY <1>2, <2>2, <2>3, <3>1
    <2> QED BY <1>3, <2>1, <2>4
  <1>7. CASE Unbind(c)
    <2>1. /\ c.op = "start transfer" /\ c.at = "unbind" /\ server' = server
          /\ receivers' = [receivers EXCEPT ![c.server].on = FALSE]
      BY <1>7 DEF Unbind, Does, Stopped
    <2>2. CASE c.server = server
      <3>1. PICK d : GoesOn(c, d) /\ d.at = "rebind" /\ d.server = c.server
        BY <1>7, StepCalls DEF PreparationCalls
      <3>2. d \in calls' /\ d.op = "start transfer"
        BY <2>1, <3>1 DEF GoesOn
      <3> QED BY <2>1, <2>2, <3>1, <3>2
    <2>3. CASE c.server # server
      <3>1. server \in Requests
        BY <2>1 DEF ManagerInv, Typed
      <3>2. receivers'[server] = receivers[server] /\ ~Rebinds(c)
        BY <1>2, <2>1, <2>3, <3>1
      <3> QED BY <1>3, <2>1, <3>2
    <2> QED BY <2>2, <2>3
  <1>8. CASE Rebind(c)
    <2>1. /\ c.op = "start transfer" /\ c.at = "rebind" /\ server' = server
          /\ receivers' = [receivers EXCEPT ![c.server] = [port |-> Dest(c), on |-> TRUE]]
      BY <1>8 DEF Rebind, Does
    <2>2. server \in Requests
      BY <2>1 DEF ManagerInv, Typed
    <2>3. (c.server = server => receivers'[server].on) /\ (c.server # server => receivers'[server] = receivers[server])
      BY <1>2, <2>1, <2>2
    <2> QED BY <1>3, <2>1, <2>3
  <1>9. CASE Recheck(c)
    <2>1. c.at = "recheck" /\ server' = server
      BY <1>9 DEF Recheck, Does
    <2>2. receivers' = receivers \/ (server # c.server /\ receivers' = [receivers EXCEPT ![c.server].on = FALSE])
      BY <1>9 DEF Recheck, Stopped
    <2>3. server \in Requests
      BY <2>1 DEF ManagerInv, Typed
    <2>4. receivers'[server] = receivers[server]
      BY <1>2, <2>2, <2>3
    <2> QED BY <1>3, <2>1, <2>4
  <1>10. CASE ~(Bind(c) \/ Release(c) \/ StopReceiver(c) \/ Unbind(c) \/ Rebind(c) \/ Recheck(c))
    <2>1. receivers' = receivers /\ server' = server
      BY <1>10, StepFrame
    <2>2. ~(c.op = "start transfer" /\ c.at = "rebind")
      BY <1>10 DEF Step, AlreadyRunning, ReadPort, Boot, CheckBoot, UndoBoot, StopNodes, SetPreset,
         CheckTransfer, RefusePick, FreePort, Forward, Push, Begin, Does
    <2> QED BY <1>3, <2>1, <2>2
  <1> QED BY <1>4, <1>5, <1>6, <1>7, <1>8, <1>9, <1>10
-----------------------------------------------------------------------------
(* A start that meets no other request *)

LEMMA AloneKeeps ==
    ASSUME ManagerInv, PrepInv, NEW c \in calls, Step(c)
    PROVE  AloneIsPrepared'
  <1> SUFFICES ASSUME NEW x \in calls', x.alone
               PROVE  calls' = {x} /\ (x.op = "start transfer" /\ x.at # "asked" => Prepared(x)')
    BY DEF AloneIsPrepared, Prepared
  <1>1. \A d \in calls : d.alone =>
            calls = {d} /\ (d.op = "start transfer" /\ d.at # "asked" => Prepared(d))
    BY DEF PrepInv, AloneIsPrepared
  <1>2. GoesOn(c, x)
    BY <1>1, CallsAfter
  <1>3. x.alone = c.alone /\ x.op = c.op /\ calls' = (calls \ {c}) \cup {x}
    BY <1>2 DEF GoesOn
  <1>4. calls = {c} /\ calls' = {x}
    BY <1>1, <1>3
  <1>5. ASSUME c.op = "start transfer" PROVE Prepared(x)'
    <2>1. CallsAreTheirOwn /\ PreparationCalls(c)
      BY StepCalls DEF ManagerInv
    <2>2. receivers \in [Requests -> [port : AllNodes \cup {NoNode}, on : BOOLEAN]]
      BY DEF ManagerInv, Typed
    <2>3. c.at # "asked" => Prepared(c)
      BY <1>1, <1>3, <1>5
    <2>4. server' = server
      BY <1>5, StepFrame DEF Bind, Release, Does
    <2>5. ~Over(c)
      BY <1>2, <2>1, NoneGoesOn
    <2>6. CASE CheckTransfer(c)
      <3>1. PICK d : GoesOn(c, d) /\ d.at = "lock" /\ d.server = server /\ server # NoServer
        BY <2>1, <2>5, <2>6 DEF PreparationCalls
      <3>2. x = d /\ c.at = "asked" /\ receivers' = receivers
        BY <1>2, <2>1, <2>6, <3>1, OneGoesOn DEF CheckTransfer, Does, managerVars, serverVars
      <3>3. receivers[server].on
        BY <1>4, <3>1, <3>2 DEF PrepInv, ReceiverIsOn
      <3> QED BY <2>4, <3>1, <3>2, <3>3 DEF Prepared
    <2>7. CASE FreePort(c)
      <3>1. PICK d : /\ GoesOn(c, d) /\ d.server = c.server /\ d.pick = <<Source(c), Dest(c)>>
                     /\ d.at = IF Elsewhere(c) THEN "unbind" ELSE "forward"
        BY <2>1, <2>7 DEF PreparationCalls
      <3>2. x = d /\ c.at = "lock" /\ receivers' = receivers
        BY <1>2, <2>1, <2>7, <3>1, OneGoesOn DEF FreePort, Does, serverVars
      <3>3. c.server = server /\ receivers[server].on
        BY <2>3, <3>2 DEF Prepared
      <3>4. c.server \in Requests
        BY <1>5, <3>2, CallLemma DEF WellFormed
      <3>5. ~Elsewhere(c) => receivers[server] = [port |-> Dest(c), on |-> TRUE]
        BY <2>2, <3>3, <3>4 DEF Elsewhere
      <3>6. x.at \in {"unbind", "forward"} /\ (x.at = "forward" => ~Elsewhere(c))
        BY <3>1, <3>2
      <3>7. x.pick[2] = Dest(c) /\ x.server = server'
        BY <2>4, <3>1, <3>2, <3>3
      <3>8. x.at = "forward" => receivers'[server'] = [port |-> x.pick[2], on |-> TRUE]
        BY <2>4, <3>2, <3>5, <3>6, <3>7
      <3> QED BY <3>6, <3>7, <3>8 DEF Prepared
    <2>8. CASE Unbind(c)
      <3>1. PICK d : GoesOn(c, d) /\ d.at = "rebind" /\ d.server = c.server
        BY <2>1, <2>8 DEF PreparationCalls
      <3>2. x = d /\ c.server = server
        BY <1>2, <2>1, <2>3, <2>8, <3>1, OneGoesOn DEF Unbind, Does, Prepared
      <3> QED BY <2>4, <3>1, <3>2 DEF Prepared
    <2>9. CASE Rebind(c)
      <3>1. PICK d : GoesOn(c, d) /\ d.at = "recheck" /\ d.server = c.server /\ d.pick = c.pick
        BY <2>1, <2>9 DEF PreparationCalls
      <3>2. /\ x = d /\ c.at = "rebind" /\ c.server = server
            /\ receivers' = [receivers EXCEPT ![c.server] = [port |-> Dest(c), on |-> TRUE]]
        BY <1>2, <2>1, <2>3, <2>9, <3>1, OneGoesOn DEF Rebind, Does, Prepared
      <3>3. c.server \in Requests
        BY <1>5, <3>2, CallLemma DEF WellFormed
      <3>4. Dest(c) = c.pick[2]
        BY <1>5, <3>2, PickedLemma DEF PrepInv, PreparedFits, Holds
      <3>5. receivers'[server] = [port |-> c.pick[2], on |-> TRUE]
        BY <2>2, <3>2, <3>3, <3>4
      <3> QED BY <2>4, <3>1, <3>2, <3>5 DEF Prepared
    <2>10. CASE Recheck(c) \/ Forward(c)
      <3>1. PICK d : GoesOn(c, d) /\ d.at \in {"forward", "push"} /\ d.server = c.server /\ d.pick = c.pick
        BY <2>1, <2>5, <2>10 DEF PreparationCalls
      <3>2. x = d /\ c.at \in {"recheck", "forward"}
        BY <1>2, <2>1, <2>10, <3>1, OneGoesOn DEF Recheck, Forward, Does
      <3>3. c.server = server /\ receivers[server] = [port |-> c.pick[2], on |-> TRUE]
        BY <2>3, <3>2 DEF Prepared
      <3>4. receivers' = receivers
        BY <2>10, <3>3 DEF Recheck, Forward, serverVars
      <3>5. /\ x.server = server' /\ x.at \notin {"lock", "begin"}
            /\ receivers'[server'] = [port |-> x.pick[2], on |-> TRUE]
        BY <2>4, <3>1, <3>2, <3>3, <3>4
      <3> QED BY <3>5 DEF Prepared
    <2>11. CASE Push(c)
      <3>1. PICK d : GoesOn(c, d) /\ d.at = "begin" /\ d.server = c.server /\ d.pick = c.pick
        BY <2>1, <2>11 DEF PreparationCalls
      <3>2. /\ x = d /\ c.at = "push"
            /\ preset' = preset /\ up' = up /\ receivers' = receivers
            /\ hops' = [n \in AllNodes |-> HopOf(Lanes(c), n)]
        BY <1>2, <2>1, <2>11, <3>1, OneGoesOn DEF Push, Does, serverVars
      <3>3. c.server = server /\ receivers[server] = [port |-> c.pick[2], on |-> TRUE]
        BY <2>3, <3>2 DEF Prepared
      <3>4. Picks(c.pick) /\ up = Nodes \ {c.pick[2]}
        BY <1>5, <3>2 DEF PrepInv, PreparedFits, Holds
      <3>5. Picks(c.pick)' /\ up' = Nodes' \ {c.pick[2]}
        BY <3>2, <3>4 DEF Picks, Nodes
      <3>6. Lanes(x)' = Lanes(c)
        BY <3>1, <3>2 DEF Lanes
      <3>7. hops' = [n \in AllNodes |-> HopOf(Lanes(x)', n)]
        BY <3>2, <3>6
      <3> QED BY <2>4, <3>1, <3>2, <3>3, <3>5, <3>7 DEF Prepared
    <2>12. ~RefusePick(c) /\ ~Begin(c)
      BY <2>1, <2>5 DEF PreparationCalls
    <2>13. ~(AlreadyRunning(c) \/ Bind(c) \/ ReadPort(c) \/ Boot(c) \/ CheckBoot(c) \/ UndoBoot(c))
      BY <1>5 DEF AlreadyRunning, Bind, ReadPort, Boot, CheckBoot, UndoBoot, Does
    <2>14. ~(Release(c) \/ StopNodes(c) \/ StopReceiver(c) \/ SetPreset(c))
      BY <1>5 DEF Release, StopNodes, StopReceiver, SetPreset, Does
    <2> QED BY <2>6, <2>7, <2>8, <2>9, <2>10, <2>11, <2>12, <2>13, <2>14 DEF Step
  <1> QED BY <1>3, <1>4, <1>5

LEMMA StepPrepared ==
    ASSUME LanesAreOfTheirGraph, ManagerInv, PrepInv, NEW c \in calls, Step(c)
    PROVE  PrepInv'
  BY GraphKeeps, PreparedKeeps, ServersKeep, ReceiverKeeps, AloneKeeps DEF PrepInv

LEMMA NextLemma == \A s, m \in Nat : s <= m => 0 # m + 1 /\ 0 <= m + 1 /\ s <= m + 1 /\ m + 1 # s
  OBVIOUS

\* A request finds the nodes and the receiver as they are; it is alone, or ends that of
\* the call it meets.
LEMMA RequestPrepared ==
    ASSUME ManagerInv, PrepInv, NEW op \in Ops, NEW name \in DOMAIN Presets \cup {NoNode},
           NEW pick \in AllNodes \X AllNodes \cup {DefaultPick},
           Request(op, name, pick)
    PROVE  PrepInv'
  <1> DEFINE new == [id |-> made + 1, op |-> op, name |-> name, pick |-> pick, server |-> NoServer,
                     port |-> NoNode, alone |-> calls = {}, at |-> "asked"]
             Met(c) == [c EXCEPT !.alone = FALSE]
  <1>1. /\ made < MaxRequests /\ made' = made + 1
        /\ calls' = {Met(c) : c \in calls} \cup {new}
    BY DEF Request
  <1>2. UNCHANGED <<preset, source, dest, route, up, hops, receivers, server, serverStatus>>
    BY DEF Request, managerVars, graphVars, nodeVars, serverVars
  <1>3. /\ new.id = made + 1 /\ new.op = op /\ new.server = NoServer /\ new.at = "asked"
        /\ new.alone = (calls = {})
    OBVIOUS
  <1>4. ASSUME NEW c \in calls
        PROVE  /\ Met(c).id = c.id /\ Met(c).op = c.op /\ Met(c).pick = c.pick
               /\ Met(c).server = c.server /\ Met(c).at = c.at /\ Met(c).alone = FALSE
    BY CallLemma DEF Call
  <1> HIDE DEF new, Met
  <1>5. /\ \A x \in calls' : x = new \/ \E c \in calls : x = Met(c)
        /\ \A c \in calls : Met(c) \in calls'
    BY <1>1
  <1>6. GraphFits'
    BY <1>2 DEF PrepInv, GraphFits, RouteFits, StatusFits, Nodes, Held
  <1>7. PreparedFits'
    <2>1. ~Holds(new) /\ \A c \in calls : Holds(Met(c)) <=> Holds(c)
      BY <1>3, <1>4 DEF Holds
    <2>2. ASSUME NEW x \in calls', Holds(x)
          PROVE  Picks(x.pick) /\ x.pick[2] \notin up /\ (x.at = "push" => up = Nodes \ {x.pick[2]})
      <3>1. PICK c \in calls : x = Met(c) /\ Holds(c)
        BY <1>5, <2>1, <2>2
      <3>2. Picks(c.pick) /\ c.pick[2] \notin up /\ (c.at = "push" => up = Nodes \ {c.pick[2]})
        BY <3>1 DEF PrepInv, PreparedFits
      <3> QED BY <1>4, <3>1, <3>2
    <2> QED BY <1>2, <2>2 DEF PreparedFits, Holds, Picks, Nodes
  <1>8. ServersAreFresh'
    <2>1. /\ server <= made /\ \A c \in calls : c.server <= made
          /\ \A c \in calls : c.op = "start server" /\ c.at = "asked" =>
                c.id # server /\ \A d \in calls : d.server # c.id
          /\ \A c \in calls : c.op = "stop server" => c.server # server \/ c.server = NoServer
      BY DEF PrepInv, ServersAreFresh
    <2>2. /\ made \in Nat /\ server \in Nat
          /\ \A c \in calls : c.server \in Nat /\ c.id \in Nat /\ c.id # NoServer
      <3>1. \A c \in calls : c.server \in Requests \cup {NoServer} /\ c.id \in Requests
        BY CallLemma DEF Call
      <3>2. made \in Requests /\ server \in Requests \cup {NoServer}
        BY DEF ManagerInv, Typed
      <3> QED BY <3>1, <3>2, ManagerAssumption DEF Requests, NoServer
    <2>3. server <= made + 1 /\ made + 1 # server /\ NoServer <= made + 1
      BY <2>1, <2>2, NextLemma DEF NoServer
    <2>4. \A c \in calls : c.server <= made + 1 /\ c.server # made + 1
      BY <2>1, <2>2, NextLemma
    <2>9. \A x \in calls' : x.server = NoServer \/ \E c \in calls : x.server = c.server
      BY <1>3, <1>4, <1>5
    <2>5. \A x \in calls' : x.server <= made'
      BY <1>1, <2>3, <2>4, <2>9
    <2>6. ASSUME NEW x \in calls', x.op = "start server", x.at = "asked"
          PROVE  x.id # server' /\ \A d \in calls' : d.server # x.id
      <3>1. CASE x = new
        <4>1. x.id # server /\ x.id # NoServer /\ \A d \in calls : d.server # x.id
          <5>1. x.id = made + 1 /\ made + 1 # NoServer
            BY <1>3, <2>2, <3>1, NextLemma DEF NoServer
          <5> QED BY <2>3, <2>4, <5>1
        <4> QED BY <1>2, <2>9, <4>1
      <3>2. CASE x # new
        <4>1. PICK c \in calls : x = Met(c)
          BY <1>5, <3>2
        <4>2. c.id # server /\ c.id # NoServer /\ \A d \in calls : d.server # c.id
          <5>1. c.op = "start server" /\ c.at = "asked"
            BY <1>4, <2>6, <4>1
          <5> QED BY <2>1, <2>2, <5>1
        <4>3. x.id = c.id
          BY <1>4, <4>1
        <4> QED BY <1>2, <2>9, <4>2, <4>3
      <3> QED BY <3>1, <3>2
    <2>7. \A x \in calls' : x.op = "stop server" => x.server # server' \/ x.server = NoServer
      <3>1. ASSUME NEW x \in calls', x.op = "stop server"
            PROVE  x.server # server \/ x.server = NoServer
        <4>1. CASE x = new
          BY <1>3, <4>1
        <4>2. ASSUME NEW c \in calls, x = Met(c)
              PROVE  x.server # server \/ x.server = NoServer
          <5>1. x.op = c.op /\ x.server = c.server
            BY <1>4, <4>2
          <5> QED BY <2>1, <3>1, <5>1
        <4> QED BY <1>5, <4>1, <4>2
      <3> QED BY <1>2, <3>1
    <2>8. server' <= made'
      BY <1>1, <1>2, <2>3
    <2> QED BY <2>5, <2>6, <2>7, <2>8 DEF ServersAreFresh
  <1>9. ReceiverIsOn'
    BY <1>2, <1>4, <1>5 DEF PrepInv, ReceiverIsOn
  <1>10. AloneIsPrepared'
    <2> SUFFICES ASSUME NEW x \in calls', x.alone
                 PROVE  calls' = {x} /\ (x.op = "start transfer" /\ x.at # "asked" => Prepared(x)')
      BY DEF AloneIsPrepared, Prepared
    <2>1. x = new /\ calls = {}
      BY <1>3, <1>4, <1>5
    <2>2. calls' = {x} /\ x.at = "asked"
      BY <1>1, <1>3, <2>1
    <2> QED BY <2>2
  <1> QED BY <1>6, <1>7, <1>8, <1>9, <1>10 DEF PrepInv

LEMMA PreparedStays ==
    ASSUME PrepInv,
           UNCHANGED <<preset, source, dest, route, up, hops, receivers, server, serverStatus, calls, made>>
    PROVE  PrepInv'
  <1>1. GraphFits' /\ ServersAreFresh' /\ ReceiverIsOn'
    BY DEF PrepInv, GraphFits, RouteFits, StatusFits, Nodes, Held, ServersAreFresh, ReceiverIsOn
  <1>2. PreparedFits'
    BY DEF PrepInv, PreparedFits, Holds, Picks, Nodes
  <1>3. AloneIsPrepared'
    <2>1. ASSUME NEW c, Prepared(c) PROVE Prepared(c)'
      <3>1. Lanes(c)' = Lanes(c) /\ (Picks(c.pick) => Picks(c.pick)') /\ Nodes' = Nodes
        BY DEF Lanes, Picks, Nodes
      <3>2. c.at = "begin" => hops = [n \in AllNodes |-> HopOf(Lanes(c)', n)]
        BY <2>1, <3>1 DEF Prepared
      <3> QED BY <2>1, <3>1, <3>2 DEF Prepared
    <2> SUFFICES ASSUME NEW c \in calls, c.alone
                 PROVE  calls = {c} /\ (c.op = "start transfer" /\ c.at # "asked" => Prepared(c)')
      BY DEF AloneIsPrepared, Prepared
    <2> QED BY <2>1 DEF PrepInv, AloneIsPrepared
  <1> QED BY <1>1, <1>2, <1>3 DEF PrepInv
-----------------------------------------------------------------------------
(* The page *)

\* A step that gives the page no graph but the one in force, and takes no exception back.
LEMMA ViewsKeep ==
    ASSUME PickInv, {source, dest} \subseteq Nodes,
           \A g \in Views' : g \in Views \/ g = Topology,
           preset' = preset, routePick' = routePick, astray' = astray, Pending => Pending'
    PROVE  PickInv'
  <1>1. Topology.preset = preset /\ HasOwnEnds(Topology)
    BY DEF Topology, HasOwnEnds, Nodes
  <1>2. ViewsFit'
    BY <1>1 DEF PickInv, ViewsFit, HasOwnEnds
  <1>3. PickIsOfTheGraph'
    BY <1>1 DEF PickInv, PickIsOfTheGraph, Nodes
  <1> QED BY <1>2, <1>3 DEF PickInv

\* What a step of a request does to the page: its press is answered, and a switch of
\* preset that no press waits for goes by.
LEMMA StepPicks ==
    ASSUME ManagerInv, PageTyped, PickInv, NEW c \in calls, Step(c), Reported(c)
    PROVE  PickInv'
  <1> DEFINE of == {b \in presses : b.id = c.id /\ b.at = "asked"}
             at == IF c.op = "set preset" /\ ~transferring THEN "switched" ELSE "over"
             told(b) == [b EXCEPT !.at = at]
             over == c.id \notin {d.id : d \in calls'}
  <1>1. /\ presses' = IF over THEN (presses \ of) \cup {told(b) : b \in of} ELSE presses
        /\ astray' = (astray \/ (preset' # preset /\ of = {}))
        /\ UNCHANGED <<shown, tick, routePick>>
    BY DEF Reported, shownVars
  <1>2. \A b \in presses : told(b).at = at /\ told(b).got = b.got
    BY PressLemma DEF PageTyped
  <1> HIDE DEF told
  <1>3. \A b \in presses' : \E e \in presses : b.got = e.got
    BY <1>1, <1>2
  <1>4. \A g \in Views' : g \in Views
    BY <1>1, <1>3 DEF Views
  <1>5. Pending => Pending'
    BY <1>1 DEF Pending
  <1>6. preset' # preset => astray' \/ Pending'
    <2> SUFFICES ASSUME preset' # preset, of # {}
                 PROVE  Pending'
      BY <1>1
    <2>1. SetPreset(c)
      BY StepFrame
    <2>2. c.op = "set preset" /\ ~transferring /\ Over(c)
      BY <2>1, OverLemma DEF SetPreset, Does, graphVars
    <2>3. over
      BY <2>2 DEF Over, ManagerInv, CallsAreTheirOwn
    <2>4. PICK b \in of : TRUE
      OBVIOUS
    <2>5. b \in presses /\ told(b).at = "switched"
      BY <1>2, <2>2, <2>4
    <2>6. told(b) \in presses'
      BY <1>1, <2>3, <2>4
    <2> QED BY <2>5, <2>6 DEF Pending
  <1>7. ViewsFit'
    BY <1>4 DEF PickInv, ViewsFit, HasOwnEnds
  <1>8. PickIsOfTheGraph'
    <2>1. ASSUME ~astray', ~Pending'
          PROVE  ~astray /\ ~Pending /\ preset' = preset
      BY <1>1, <1>5, <1>6, <2>1
    <2> QED BY <1>1, <1>4, <2>1 DEF PickInv, PickIsOfTheGraph, Nodes
  <1> QED BY <1>7, <1>8 DEF PickInv

LEMMA PressPicks ==
    ASSUME PickInv, {source, dest} \subseteq Nodes, NEW op, NEW name, NEW pick, Presses(op, name, pick)
    PROVE  PickInv'
  <1> DEFINE new == [id |-> made + 1, at |-> "asked", got |-> NoAnswers]
  <1>1. /\ presses' = presses \cup {new}
        /\ UNCHANGED <<preset, shown, tick, routePick, astray>>
    BY DEF Presses, Request, managerVars, graphVars, shownVars
  <1>2. new.got.topology = {}
    BY DEF NoAnswers
  <1> HIDE DEF new
  <1>3. \A g \in Views' : g \in Views
    BY <1>1, <1>2 DEF Views
  <1>4. Pending => Pending'
    BY <1>1 DEF Pending
  <1> QED BY <1>1, <1>3, <1>4, ViewsKeep

LEMMA PickRoutePicks ==
    ASSUME PickInv, PickRoute
    PROVE  PickInv'
  <1>1. UNCHANGED <<preset, shown, tick, presses, astray>>
    BY DEF PickRoute, managerVars, graphVars, shownVars
  <1>2. Views' = Views /\ Pending' = Pending /\ Nodes' = Nodes
    BY <1>1 DEF Views, Pending, Nodes
  <1>3. ASSUME ~astray, ~Pending
        PROVE  {routePick'[1], routePick'[2]} \subseteq Nodes
    <2>1. /\ shown.preset = preset /\ HasOwnEnds(shown)
          /\ routePick # NoPick => {routePick[1], routePick[2]} \subseteq Nodes
      BY <1>3 DEF PickInv, PickIsOfTheGraph, ViewsFit, Views
    <2>2. {ActivePick[1], ActivePick[2]} \subseteq Nodes
      BY <2>1 DEF ActivePick, HasOwnEnds, Nodes
    <2>3. PICK n \in Offered \cap Presets[shown.preset].nodes :
             routePick' \in {<<n, ActivePick[2]>>, <<ActivePick[1], n>>}
      BY DEF PickRoute
    <2>4. n \in Nodes
      BY <2>1, <2>3 DEF Nodes
    <2> QED BY <2>2, <2>3, <2>4
  <1>4. ViewsFit' /\ PickIsOfTheGraph'
    BY <1>1, <1>2, <1>3 DEF PickInv, ViewsFit, HasOwnEnds, PickIsOfTheGraph
  <1> QED BY <1>4 DEF PickInv

\* A call of the page goes on: it is still pending, and is given no graph but the one in force.
LEMMA GoingOnPicks ==
    ASSUME PickInv, {source, dest} \subseteq Nodes, NEW b \in presses, NEW e,
           presses' = (presses \ {b}) \cup {e},
           b.at \in {"switched", "clear"} => e.at \in {"switched", "clear"},
           \A g \in e.got.topology : g \in b.got.topology \/ g = Topology,
           UNCHANGED <<preset, shown, tick, routePick, astray>>
    PROVE  PickInv'
  <1>1. \A g \in Views' : g \in Views \/ g = Topology
    BY DEF Views
  <1>2. Pending => Pending'
    BY DEF Pending
  <1> QED BY <1>1, <1>2, ViewsKeep

LEMMA AnswerLostPicks ==
    ASSUME PageTyped, PickInv, {source, dest} \subseteq Nodes, AnswerLost
    PROVE  PickInv'
  <1>1. UNCHANGED <<preset, shown, tick, routePick, astray>>
    BY DEF AnswerLost, managerVars, graphVars, shownVars
  <1>2. PICK b \in presses : b.at = "asked" /\ presses' = (presses \ {b}) \cup {[b EXCEPT !.at = "over"]}
    BY DEF AnswerLost, Moves
  <1>3. [b EXCEPT !.at = "over"].got = b.got
    BY <1>2, PressLemma DEF PageTyped
  <1> QED BY <1>1, <1>2, <1>3, GoingOnPicks

LEMMA SettlePicks ==
    ASSUME PageTyped, PickInv, {source, dest} \subseteq Nodes, Settle
    PROVE  PickInv'
  <1>1. UNCHANGED <<preset, shown, tick, routePick, astray>>
    BY DEF Settle, managerVars, graphVars, shownVars
  <1>2. PICK b \in presses, at \in {"clear", "refresh"} :
           /\ b.at \in {"switched", "clear"} => at = "clear"
           /\ presses' = (presses \ {b}) \cup {[b EXCEPT !.at = at]}
    BY DEF Settle, Moves
  <1>3. [b EXCEPT !.at = at].got = b.got /\ [b EXCEPT !.at = at].at = at
    BY <1>2, PressLemma DEF PageTyped
  <1> QED BY <1>1, <1>2, <1>3, GoingOnPicks

LEMMA AskAgainPicks ==
    ASSUME PageTyped, PickInv, {source, dest} \subseteq Nodes, Typed, AskAgain
    PROVE  PickInv'
  <1>1. UNCHANGED <<preset, shown, tick, routePick, astray>>
    BY DEF AskAgain, managerVars, graphVars, shownVars
  <1>2. PICK b \in presses : presses' = (presses \ {b}) \cup {[b EXCEPT !.got = Both]}
    BY DEF AskAgain
  <1> DEFINE e == [b EXCEPT !.got = Both]
  <1>3. e.got = Both /\ e.at = b.at
    BY <1>2, PressLemma, AnswersLemma DEF PageTyped
  <1>4. presses' = (presses \ {b}) \cup {e}
    BY <1>2
  <1> HIDE DEF e
  <1>5. \A g \in e.got.topology : g = Topology
    BY <1>3 DEF Both
  <1>6. b.at \in {"switched", "clear"} => e.at \in {"switched", "clear"}
    BY <1>3
  <1> QED BY <1>1, <1>4, <1>5, <1>6, GoingOnPicks

LEMMA RefreshPicks ==
    ASSUME PickInv, {source, dest} \subseteq Nodes, Refresh
    PROVE  PickInv'
  <1>1. UNCHANGED <<preset, tick>>
    BY DEF Refresh, managerVars, graphVars
  <1>2. PICK b \in presses :
          /\ presses' = presses \ {b} /\ shown' \in {shown} \cup b.got.topology
          /\ b.at \in {"clear", "refresh"}
          /\ IF b.at = "clear"
             THEN routePick' = NoPick /\ astray' = (\E g \in Views' : g.preset # preset)
             ELSE UNCHANGED <<routePick, astray>>
    BY DEF Refresh, Refreshing, ShowSome
  <1>3. \A g \in Views' : g \in Views
    BY <1>1, <1>2 DEF Views
  <1>4. CASE b.at = "clear"
    <2>1. ViewsFit'
      BY <1>3 DEF PickInv, ViewsFit, HasOwnEnds
    <2>2. PickIsOfTheGraph'
      BY <1>1, <1>2, <1>4 DEF PickIsOfTheGraph
    <2> QED BY <2>1, <2>2 DEF PickInv
  <1>5. CASE b.at # "clear"
    <2>1. UNCHANGED <<routePick, astray>> /\ b.at = "refresh"
      BY <1>2, <1>5
    <2>2. Pending => Pending'
      BY <1>2, <2>1 DEF Pending
    <2> QED BY <1>1, <1>3, <2>1, <2>2, ViewsKeep
  <1> QED BY <1>4, <1>5

LEMMA PollPicks ==
    ASSUME PageTyped, PickInv, {source, dest} \subseteq Nodes,
           PollStatus \/ PollTopology \/ Poll \/ PollFails
    PROVE  PickInv'
  <1>1. UNCHANGED <<preset, routePick, presses, astray>>
    BY DEF PollStatus, PollTopology, Poll, PollFails, managerVars, graphVars
  <1>2. /\ \A g \in tick'.topology : g \in tick.topology \/ g = Topology
        /\ shown' = shown \/ shown' \in tick.topology
    <2>1. NoAnswers.topology = {} /\ [tick EXCEPT !.status = {transferring}].topology = tick.topology
          /\ [tick EXCEPT !.topology = {Topology}].topology = {Topology}
      BY DEF NoAnswers, PageTyped, Answers
    <2> QED BY <2>1 DEF PollStatus, PollTopology, Poll, PollFails, shownVars
  <1>3. \A g \in Views' : g \in Views \/ g = Topology
    BY <1>1, <1>2 DEF Views
  <1>4. Pending => Pending'
    BY <1>1 DEF Pending
  <1> QED BY <1>1, <1>3, <1>4, ViewsKeep

LEMMA PicksStay ==
    ASSUME PickInv, UNCHANGED <<preset, pageVars>>
    PROVE  PickInv'
  <1>1. UNCHANGED <<preset, shown, tick, routePick, presses, astray>>
    BY DEF pageVars, shownVars
  <1>2. Views' = Views /\ Pending' = Pending /\ Nodes' = Nodes
    BY <1>1 DEF Views, Pending, Nodes
  <1>3. ViewsFit' /\ PickIsOfTheGraph'
    BY <1>1, <1>2 DEF PickInv, ViewsFit, HasOwnEnds, PickIsOfTheGraph
  <1> QED BY <1>3 DEF PickInv
-----------------------------------------------------------------------------
PageInv == TopologyInv /\ PrepInv /\ PickInv

LEMMA InitPage == PageInit => PageInv
  <1> SUFFICES ASSUME PageInit PROVE PageInv
    OBVIOUS
  <1>1. /\ Init /\ shown = Topology /\ routePick = NoPick /\ tick = NoAnswers
        /\ presses = {} /\ astray = FALSE
    BY DEF PageInit
  <1>2. 1 \in Requests /\ Initial \in DOMAIN Presets
    BY ManagerAssumption DEF Requests
  <1>3. /\ preset = Initial /\ source = Presets[preset].source /\ dest = Presets[preset].dest
        /\ route = NoRoute /\ up = Nodes \ {dest} /\ hops = [n \in AllNodes |-> NoHop]
        /\ server = 1 /\ serverStatus = "running" /\ calls = {} /\ made = 1
    BY <1>1 DEF Init
  <1>4. receivers = [i \in Requests |-> IF i = 1 THEN [port |-> dest, on |-> TRUE]
                                        ELSE [port |-> NoNode, on |-> FALSE]]
    BY <1>1 DEF Init
  <1>5. {source, dest} \subseteq Nodes
    BY <1>2, <1>3, PresetsAssumption DEF Nodes
  <1>6. GraphFits
    <2>1. up \cap Held = {}
      <3>1. \A i \in Requests : receivers[i].on => receivers[i].port = dest
        BY <1>4
      <3> QED BY <1>3, <3>1 DEF Held
    <2>2. hops \in [AllNodes -> Hop]
      BY <1>3 DEF NoHop, Hop
    <2>3. server # NoServer
      BY <1>2, <1>3, RequestsLemma
    <2> QED BY <1>3, <1>5, <2>1, <2>2, <2>3 DEF GraphFits, RouteFits, StatusFits
  <1>7. PreparedFits /\ AloneIsPrepared
    BY <1>3 DEF PreparedFits, AloneIsPrepared
  <1>8. ServersAreFresh
    BY <1>3 DEF ServersAreFresh
  <1>9. ReceiverIsOn
    BY <1>2, <1>3, <1>4 DEF ReceiverIsOn
  <1>10. Views = {Topology} /\ Topology.preset = preset /\ HasOwnEnds(Topology)
    <2>1. Views = {Topology}
      BY <1>1 DEF Views, NoAnswers
    <2> QED BY <1>5, <2>1 DEF Topology, HasOwnEnds, Nodes
  <1>11. ViewsFit /\ PickIsOfTheGraph
    BY <1>1, <1>10 DEF ViewsFit, PickIsOfTheGraph
  <1> QED BY <1>6, <1>7, <1>8, <1>9, <1>11, InitTopology DEF PageInv, PrepInv, PickInv

LEMMA NextPage ==
    ASSUME LanesAreOfTheirGraph, PageInv, [Next]_vars
    PROVE  PageInv'
  <1>1. /\ ManagerInv /\ Typed /\ PageTyped /\ PrepInv /\ PickInv /\ {source, dest} \subseteq Nodes
    BY DEF PageInv, TopologyInv, ManagerInv, PrepInv, GraphFits
  <1>2. TopologyInv'
    BY NextTopology DEF PageInv
  <1>3. CASE \E c \in calls : Step(c) /\ Reported(c)
    BY <1>1, <1>2, <1>3, StepPrepared, StepPicks DEF PageInv
  <1>4. NoNode \in DOMAIN Presets \cup {NoNode} /\ DefaultPick \in AllNodes \X AllNodes \cup {DefaultPick}
    OBVIOUS
  <1>5. CASE OthersRequest /\ UNCHANGED pageVars
    <2>1. PICK op \in Ops, name \in DOMAIN Presets \cup {NoNode},
               pick \in AllNodes \X AllNodes \cup {DefaultPick} : Request(op, name, pick)
      BY <1>5, ManagerAssumption DEF OthersRequest, Ops
    <2>2. PrepInv'
      BY <1>1, <2>1, RequestPrepared
    <2>3. UNCHANGED <<preset, pageVars>>
      BY <1>5, <2>1 DEF Request, managerVars, graphVars
    <2>4. PickInv'
      BY <1>1, <2>3, PicksStay
    <2> QED BY <1>2, <2>2, <2>4 DEF PageInv
  <1>6. CASE TransferEnds /\ UNCHANGED pageVars
    <2>1. UNCHANGED <<preset, source, dest, route, up, hops, receivers, server, serverStatus, calls, made>>
      BY <1>6 DEF TransferEnds, graphVars, nodeVars, serverVars
    <2> QED BY <1>1, <1>2, <1>6, <2>1, PreparedStays, PicksStay DEF PageInv
  <1>7. CASE PressStart \/ PressPreset
    <2>1. PICK op \in {"start transfer", "set preset"}, name \in DOMAIN Presets \cup {NoNode},
               pick \in AllNodes \X AllNodes \cup {DefaultPick} : Presses(op, name, pick)
      <3>1. CASE PressStart
        <4>1. ActivePick \in AllNodes \X AllNodes
          BY <1>1, ActivePickLemma
        <4> QED BY <3>1, <4>1 DEF PressStart
      <3>2. CASE PressPreset
        BY <3>2 DEF PressPreset
      <3> QED BY <1>7, <3>1, <3>2
    <2>2. op \in Ops /\ Request(op, name, pick)
      BY <2>1 DEF Ops, Presses
    <2>3. PrepInv'
      BY <1>1, <2>2, RequestPrepared
    <2>4. PickInv'
      BY <1>1, <2>1, PressPicks
    <2> QED BY <1>2, <2>3, <2>4 DEF PageInv
  <1>8. ASSUME UNCHANGED <<managerVars, calls, made>> PROVE PrepInv'
    <2>1. UNCHANGED <<preset, source, dest, route, up, hops, receivers, server, serverStatus, calls, made>>
      BY <1>8 DEF managerVars, graphVars, nodeVars, serverVars
    <2> QED BY <1>1, <2>1, PreparedStays
  <1>9. CASE UNCHANGED vars
    <2>1. UNCHANGED <<managerVars, calls, made>> /\ UNCHANGED <<preset, pageVars>>
      BY <1>9 DEF vars, managerVars, graphVars
    <2> QED BY <1>1, <1>2, <1>8, <2>1, PicksStay DEF PageInv
  <1>10. CASE PageStep /\ UNCHANGED <<managerVars, calls, made>>
    <2>1. PickInv'
      BY <1>1, <1>7, <1>10, PickRoutePicks, AnswerLostPicks, SettlePicks, AskAgainPicks,
         RefreshPicks, PollPicks DEF PageStep, PageInv
    <2> QED BY <1>2, <1>8, <1>10, <2>1 DEF PageInv
  <1> QED BY <1>3, <1>5, <1>6, <1>7, <1>9, <1>10, PageStepFrame DEF Next, OthersStep, Exhausted

LEMMA PageInvHolds ==
    ASSUME LanesAreOfTheirGraph
    PROVE  Spec => []PageInv
  <1>1. PageInv /\ [Next]_vars => PageInv'
    BY NextPage
  <1> QED BY <1>1, InitPage, PTL DEF Spec

\* The ends, the route, the forwarders and their hops are of the graph in force, whatever
\* calls meet; no forwarder runs on a receiver's port; and what the page shows, or is about
\* to show, is a graph with its own ends (topology/manager.py:142-174, 318-398, 440-530).
THEOREM PageTypeCorrect ==
    ASSUME LanesAreOfTheirGraph
    PROVE  Spec => []PageTypeOK
  <1>1. ASSUME PageInv PROVE PageTypeOK
    <2>1. Typed /\ PageTyped /\ GraphFits /\ ViewsFit
      BY <1>1 DEF PageInv, TopologyInv, ManagerInv, PrepInv, PickInv
    <2>2. TypeOK
      BY <2>1 DEF TypeOK, Typed, GraphFits, RouteFits, StatusFits, Requests
    <2> QED BY <2>1, <2>2 DEF PageTypeOK, PageTyped, ViewsFit, HasOwnEnds
  <1> QED BY <1>1, PageInvHolds, PTL

\* At rest the page's pick is of nodes of the graph in force, also one that the user made
\* before the refresh behind a switch of preset; unless such a switch has passed the page
\* by, or left it a topology answered before (page.tsx:196-202; useTransferActions.ts:26-39;
\* useStatusPolling.ts:79-93, 130-137).
THEOREM PickFollowsPresetHolds ==
    ASSUME LanesAreOfTheirGraph
    PROVE  Spec => []PickFollowsPreset
  <1>1. PageInv => PickFollowsPreset
    BY DEF PageInv, PickInv, PickIsOfTheGraph, Pending, PickFollowsPreset
  <1> QED BY <1>1, PageInvHolds, PTL

\* A transfer whose start met no other request begins on a path that works, whatever the
\* requests before it left behind (manager.py:310-365, topology/manager.py:427-530).
THEOREM ReadyWhenStartedHolds ==
    ASSUME LanesAreOfTheirGraph, FirstLaneDelivers
    PROVE  Spec => ReadyWhenStarted
  <1>1. ASSUME PageInv, NEW c \in calls, Begin(c), c.alone
        PROVE  FirstLaneWorks(c)
    <2>1. c.op = "start transfer" /\ c.at = "begin"
      BY <1>1 DEF Begin, Does
    <2>2. Prepared(c)
      BY <1>1, <2>1 DEF PageInv, PrepInv, AloneIsPrepared
    <2>3. /\ Picks(c.pick) /\ up = Nodes \ {c.pick[2]}
          /\ hops = [n \in AllNodes |-> HopOf(Lanes(c), n)]
          /\ receivers[server] = [port |-> c.pick[2], on |-> TRUE]
      BY <2>1, <2>2 DEF Prepared
    <2>4. Dest(c) = c.pick[2]
      BY <2>3, PickedLemma
    <2>5. /\ Lanes(c) \in Seq(Seq(Nodes)) /\ Lanes(c) # <<>> /\ c.pick \in Distinct(preset)
          /\ preset \in DOMAIN Presets /\ Lanes(c) = AllPaths[preset][c.pick]
      BY <1>1, <2>3, LanesLemma DEF PageInv, TopologyInv, ManagerInv, Typed, Lanes
    <2>6. Lanes(c)[1] \in Seq(Nodes)
      BY <2>5
    <2>7. \A i \in 1..Len(Lanes(c)[1]) : Lanes(c)[1][i] \in Nodes
      BY <2>6
    <2>8. DeliversOn(preset, c.pick, Lanes(c)[1])
      BY <2>5 DEF FirstLaneDelivers
    <2>9. Reaches(hops, up, Lanes(c)[1][2]) = c.pick[2]
      BY <2>3, <2>5, <2>8 DEF DeliversOn, Nodes
    <2> QED BY <2>3, <2>4, <2>7, <2>9 DEF FirstLaneWorks
  <1>2. PageInv => [\A c \in calls : Begin(c) /\ transferring' /\ c.alone => FirstLaneWorks(c)]_<<calls, transferring>>
    BY <1>1
  <1> QED BY <1>2, PageInvHolds, PTL DEF ReadyWhenStarted
=============================================================================
