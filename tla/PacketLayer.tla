---------------------------- MODULE PacketLayer ----------------------------
(***************************************************************************)
(* The dots of frontend/components/PacketLayer.tsx.  A sender logs the     *)
(* transitions of its packets, the page polls them (useStatusPolling.ts)   *)
(* and hands every batch and every change of transfer_status to the layer; *)
(* between two polls the frame loop moves the dots.                        *)
(*                                                                         *)
(* Frames take no notice of time here: a dot may arrive, and a red one     *)
(* fade, at any frame.  Where it is meanwhile is up to PosAlong (Canvas).  *)
(***************************************************************************)
EXTENDS Canvas

CONSTANTS
    Total,          \* DATA packets of a file
    Topology,       \* the topology snapshot the page shows
    SlowDots,       \* DATA dots at most while in slow motion
    MaxRetries, MaxEvents, MaxTransfers

\* START, the DATA packets and END have their transitions logged alike, and the layer
\* draws them alike.
Packets == 0..(Total + 1)
Controls == {0, Total + 1}

Graph == PresetGraph(Topology)

\* An event without a lane goes to the first.
Lanes == {1} \cup 1..Len(ShownPaths(Topology))

\* A lane that can be drawn leads from the source to the destination over links that
\* are no loops.
LeadsThere(ids) ==
    /\ ids[1] = Topology.source /\ Last(ids) = Topology.dest
    /\ \A i \in 1..(Len(ids) - 1) : ids[i] # ids[i + 1]

ASSUME LayerAssumption ==
    /\ Total \in Nat /\ SlowDots \in Nat \ {0}
    /\ {MaxRetries, MaxEvents, MaxTransfers} \subseteq Nat
    /\ \A l \in Lanes :
          LET ids == LanePath(Graph, l)
          IN ids \in Seq(Topology.nodes) /\ (ids # NoPath => LeadsThere(ids))
    /\ \A link \in Topology.links : Topology.latency[link] \in Nat

VARIABLES
    status,     \* the controller's transfer_status
    transfers,  \* transfers so far
    packet,     \* the sender's packet, what it said of it last, its attempt and lane,
                \* and whether it is replayed
    log,        \* transitions that no poll has taken yet
    nextId,
    acked,      \* history: packets acknowledged or replayed so far, in any transfer
    tick,       \* the status a tick has been told, before it asks for events
    refresh,    \* the status a refresh has been told
    shown,      \* the status the page shows
    events,     \* the last batch it shows
    slow,       \* the speed is below 1
    lastId,     \* lastIdRef
    dots        \* spritesRef

senderVars == <<status, transfers, packet, log, nextId, acked>>
pageVars == <<tick, refresh, shown, events, slow>>
layerVars == <<lastId, dots>>
vars == <<senderVars, pageVars, layerVars>>

Statuses == {"idle", "transferring", "ended"}
Nothing == "nothing"
Kinds == {"SENT", "WAITING", "TIMEOUT", "RETRANSMITTED", "ACKED", "FAILED"}
NoPacket == [seq |-> 0, said |-> Nothing, attempt |-> 0, lane |-> 1, replayed |-> FALSE]
Spoken == [seq : Packets, said : Kinds \cup {Nothing}, attempt : 0..MaxRetries, lane : Lanes,
           replayed : BOOLEAN]
Event == [id : 1..MaxEvents, seq : Packets, kind : Kinds, lane : Lanes]
Dot == [seq : Packets, dir : {"data", "ack"}, phase : {"travel", "hold", "timeout"},
        ackSeen : BOOLEAN, lane : Lanes, path : Seq(Topology.nodes)]

TypeOK ==
    /\ status \in Statuses /\ transfers \in 0..MaxTransfers
    /\ packet \in Spoken
    /\ log \in Seq(Event) /\ nextId \in 1..(MaxEvents + 1)
    /\ acked \subseteq Packets
    /\ {tick, refresh, shown} \subseteq Statuses \cup {Nothing}
    /\ events \in Seq(Event) /\ slow \in BOOLEAN
    /\ lastId \in 0..MaxEvents /\ dots \in Seq(Dot)

\* Speeds in quarters of the real one.
Speeds == {1, 2, 4}
Unset == 0

\* A stored choice wins; without one, who asks for less motion gets the slowest.
InitialSpeed(stored, reducedMotion) ==
    IF stored \in Speeds THEN stored ELSE IF reducedMotion THEN 1 ELSE 4

Init ==
    /\ status = "idle" /\ transfers = 0
    /\ packet = NoPacket
    /\ log = <<>> /\ nextId = 1 /\ acked = {}
    /\ tick = Nothing /\ refresh = Nothing /\ shown = Nothing /\ events = <<>>
    /\ \E stored \in Speeds \cup {Unset}, reducedMotion \in BOOLEAN :
          slow = (InitialSpeed(stored, reducedMotion) < 4)
    /\ lastId = 0 /\ dots = <<>>
-----------------------------------------------------------------------------
\* The sender

Begin ==
    /\ status # "transferring" /\ transfers < MaxTransfers
    /\ status' = "transferring" /\ transfers' = transfers + 1
    /\ packet' = NoPacket
    /\ log' = <<>>
    /\ UNCHANGED <<nextId, acked, pageVars, layerVars>>

\* A packet is sent for the first time, on any lane.
Sends(q) ==
    {[seq |-> q, said |-> "SENT", attempt |-> 0, lane |-> l, replayed |-> FALSE] : l \in Lanes}

\* A resume says of the packets the receiver has that they are acknowledged, from the
\* first on, and of no lane.
Replays(q) == [seq |-> q, said |-> "ACKED", attempt |-> 0, lane |-> 1, replayed |-> TRUE]

\* After the ACK of START come the packets that are replayed, if any, and the first
\* that is missing: a long resume replays none.
Missing(p) == IF p.seq = 0 THEN Packets \ {0} ELSE {p.seq + 1}
Reused(p) == IF p.seq = 0 \/ p.replayed THEN {p.seq + 1} \ Controls ELSE {}
Follows(p) == (UNION {Sends(q) : q \in Missing(p)}) \cup {Replays(q) : q \in Reused(p)}

\* What the sender says after what it said last (client.py:220-311).  It picks a
\* lane with every attempt and names it until the next one.
Sayings ==
    LET p == packet
    IN CASE p.said = Nothing -> Sends(0)
         [] p.said = "ACKED" -> Follows(p)
         [] p.said = "RETRANSMITTED" /\ p.seq \in Controls -> {[p EXCEPT !.said = "SENT"]}
         [] p.said = "WAITING" ->
              {[p EXCEPT !.said = "ACKED"],
               IF p.attempt < MaxRetries THEN [p EXCEPT !.said = "TIMEOUT", !.attempt = @ + 1]
               ELSE [p EXCEPT !.said = "FAILED"]}
         [] p.said = "TIMEOUT" ->
              {[p EXCEPT !.said = "RETRANSMITTED", !.lane = l] : l \in Lanes}
         [] p.said = "FAILED" -> {}
         [] OTHER -> {[p EXCEPT !.said = "WAITING"]}

Say ==
    /\ status = "transferring" /\ nextId <= MaxEvents
    /\ \E p \in Sayings :
          /\ p.seq \in Packets
          /\ packet' = p
          /\ log' = Append(log, [id |-> nextId, seq |-> p.seq, kind |-> p.said, lane |-> p.lane])
          /\ acked' = IF p.said = "ACKED" THEN acked \cup {p.seq} ELSE acked
    /\ nextId' = nextId + 1
    /\ UNCHANGED <<status, transfers, pageVars, layerVars>>

\* completed, failed or cancelled
End ==
    /\ status = "transferring"
    /\ status' = "ended"
    /\ UNCHANGED <<transfers, packet, log, nextId, acked, pageVars, layerVars>>
-----------------------------------------------------------------------------
\* Dots

IsData(d) == d.dir = "data"
DataDots(ds) == SelectSeq(ds, IsData)

\* The active DATA dot of a packet, 0 when there is none.
Active(d, seq) == IsData(d) /\ d.seq = seq /\ d.phase # "timeout"
ActiveData(ds, seq) == FirstOf({i \in 1..Len(ds) : Active(ds[i], seq)})

DataDot(seq, lane) ==
    [seq |-> seq, dir |-> "data", phase |-> "travel", ackSeen |-> FALSE, lane |-> lane,
     path |-> LanePath(Graph, lane)]

\* In slow motion there are never more than so many.
SpawnData(ds, seq, lane) ==
    IF LanePath(Graph, lane) = NoPath THEN ds
    ELSE IF slow /\ Len(DataDots(ds)) >= SlowDots THEN ds
    ELSE Append(ds, DataDot(seq, lane))

SpawnAck(ds, seq, lane) ==
    IF LanePath(Graph, lane) = NoPath THEN ds
    ELSE Append(ds, [DataDot(seq, lane) EXCEPT !.dir = "ack", !.ackSeen = TRUE,
                                               !.path = Reverse(LanePath(Graph, lane))])

\* Mutant of DrawSent: the dots of the packet are not looked at.
DrawSentAgain(ds, e) == SpawnData(ds, e.seq, e.lane)

DrawSent(ds, e) ==
    IF ActiveData(ds, e.seq) # 0 THEN ds ELSE SpawnData(ds, e.seq, e.lane)

DrawAcked(ds, e) ==
    LET i == ActiveData(ds, e.seq)
    IN IF i = 0 THEN SpawnAck(ds, e.seq, e.lane) ELSE [ds EXCEPT ![i].ackSeen = TRUE]

DrawLost(ds, e) ==
    LET i == ActiveData(ds, e.seq)
    IN IF i = 0 THEN ds ELSE [ds EXCEPT ![i].phase = "timeout"]

\* The first DATA dot of the packet makes room for a new one.
DrawRetransmitted(ds, e) ==
    LET i == FirstOf({j \in 1..Len(ds) : IsData(ds[j]) /\ ds[j].seq = e.seq})
    IN SpawnData(IF i = 0 THEN ds ELSE RemoveAt(ds, i), e.seq, e.lane)

Draw(ds, e) ==
    CASE e.kind \in {"SENT", "WAITING"} -> DrawSent(ds, e)
      [] e.kind = "ACKED" -> DrawAcked(ds, e)
      [] e.kind \in {"TIMEOUT", "FAILED"} -> DrawLost(ds, e)
      [] e.kind = "RETRANSMITTED" -> DrawRetransmitted(ds, e)
-----------------------------------------------------------------------------
\* The ingest effect runs when the batch or the status shown has changed.

Fresh(batch) == {k \in 1..Len(batch) : batch[k].id > lastId}

\* What is shown is replaced by what differs from it.
Changed(batch, st) == batch # events \/ st # shown

\* The dots once each of them is drawn: a set of one, which TLC evaluates once.
Drawn(batch) ==
    LET after[k \in 0..Len(batch)] ==
            IF k = 0 THEN {dots}
            ELSE IF k \in Fresh(batch) THEN {Draw(ds, batch[k]) : ds \in after[k - 1]}
            ELSE after[k - 1]
    IN after[Len(batch)]

\* Mutant of Ingest: a page that shows no transfer leaves the layer alone.
IngestKeeps(batch, st) ==
    IF st # "transferring" THEN UNCHANGED layerVars
    ELSE /\ dots' \in Drawn(batch)
         /\ lastId' = IF Fresh(batch) = {} THEN lastId ELSE Last(batch).id

Ingest(batch, st) ==
    IF ~Changed(batch, st) THEN UNCHANGED layerVars
    ELSE IF st # "transferring" THEN dots' = <<>> /\ lastId' = 0
    ELSE /\ dots' \in Drawn(batch)
         /\ lastId' = IF Fresh(batch) = {} THEN lastId ELSE Last(batch).id

TickStatus ==
    /\ tick = Nothing
    /\ tick' = status
    /\ UNCHANGED <<senderVars, refresh, shown, events, slow, layerVars>>

\* The second half of a tick: the events are taken and everything is shown.
TickShows ==
    /\ tick # Nothing
    /\ events' = log /\ log' = <<>>
    /\ shown' = tick /\ tick' = Nothing
    /\ Ingest(log, tick)
    /\ UNCHANGED <<status, transfers, packet, nextId, acked, refresh, slow>>

\* A request fails: nothing is shown and the events stay for the next tick.
TickFails ==
    /\ tick # Nothing
    /\ tick' = Nothing
    /\ UNCHANGED <<senderVars, refresh, shown, events, slow, layerVars>>

RefreshStatus ==
    /\ refresh = Nothing
    /\ refresh' = status
    /\ UNCHANGED <<senderVars, tick, shown, events, slow, layerVars>>

RefreshShows ==
    /\ refresh # Nothing
    /\ shown' = refresh /\ refresh' = Nothing
    /\ Ingest(events, refresh)
    /\ UNCHANGED <<senderVars, tick, events, slow>>

SetSpeed ==
    /\ \E speed \in Speeds : slow' = (speed < 4)
    /\ UNCHANGED <<senderVars, tick, refresh, shown, events, layerVars>>
-----------------------------------------------------------------------------
\* The frame loop

\* A DATA dot is at the destination.
Arrive(i) ==
    /\ IsData(dots[i]) /\ dots[i].phase = "travel"
    /\ dots' = IF dots[i].ackSeen
               THEN SpawnAck(RemoveAt(dots, i), dots[i].seq, dots[i].lane)
               ELSE [dots EXCEPT ![i].phase = "hold"]

\* Mutant of Answer: a dot is answered on its arrival or never.
AnswerNever(i) == FALSE /\ dots' = dots

\* One that waits there has been acknowledged.
Answer(i) ==
    /\ IsData(dots[i]) /\ dots[i].phase = "hold" /\ dots[i].ackSeen
    /\ dots' = SpawnAck(RemoveAt(dots, i), dots[i].seq, dots[i].lane)

\* A red dot has faded, an ACK is back.
Vanish(i) ==
    /\ dots[i].phase = "timeout" \/ dots[i].dir = "ack"
    /\ dots' = RemoveAt(dots, i)

Frame ==
    /\ \E i \in 1..Len(dots) : Arrive(i) \/ Answer(i) \/ Vanish(i)
    /\ UNCHANGED <<senderVars, pageVars, lastId>>
-----------------------------------------------------------------------------
Next ==
    \/ Begin \/ Say \/ End
    \/ TickStatus \/ TickShows \/ TickFails \/ RefreshStatus \/ RefreshShows \/ SetSpeed
    \/ Frame

Spec == Init /\ [][Next]_vars

\* The page goes on polling and not every poll fails, a refresh is answered and frames
\* are drawn.
FairSpec ==
    /\ Spec
    /\ WF_vars(TickStatus) /\ SF_vars(TickShows) /\ WF_vars(RefreshShows)
    /\ WF_vars(Frame)
-----------------------------------------------------------------------------
\* A packet never has two dots on the way, though a transfer the page never saw
\* end may have left dots of the same numbers, and a dot of a packet may fade
\* while its successor travels (PacketLayer.tsx:152-155, 227-239).
OneDotPerPacket ==
    \A i, j \in 1..Len(dots) :
        (/\ IsData(dots[i]) /\ IsData(dots[j]) /\ dots[i].seq = dots[j].seq
         /\ dots[i].phase # "timeout" /\ dots[j].phase # "timeout") => i = j

\* How near to a node a position is, out of its whole.
Near(pos, node) ==
    CASE node = pos.from -> pos.whole - pos.part
      [] node = pos.to -> pos.part
      [] OTHER -> 0

\* The end of a link is the beginning of the next.
SamePoint(p, q) == \A node \in Topology.nodes : Near(p, node) * q.whole = Near(q, node) * p.whole

\* The way back is the way there in a mirror, at every moment.
Retraces(back) ==
    LET there == Reverse(back)
        whole == TotalOf(BuildTimings(Graph, there, 1, FALSE))
    IN \A elapsed \in 0..whole :
          SamePoint(PosAlong(back, BuildTimings(Graph, there, 1, TRUE), elapsed),
                    PosAlong(there, BuildTimings(Graph, there, 1, FALSE), whole - elapsed))

\* An ACK is drawn only of a packet that was acknowledged, and retraces a lane from
\* the destination to the source (PacketLayer.tsx:109-133; lib/anim.ts:23-67).
AcksAreReal ==
    \A i \in 1..Len(dots) : dots[i].dir = "ack" =>
        /\ dots[i].seq \in acked
        /\ dots[i].path[1] = Topology.dest /\ Last(dots[i].path) = Topology.source
        /\ Retraces(dots[i].path)

\* Whether the ACK comes before its dot has arrived or after: the dot does not
\* stay (PacketLayer.tsx:254-285).
Acknowledged(p) == \E i \in 1..Len(dots) : IsData(dots[i]) /\ dots[i].seq = p /\ dots[i].ackSeen
AckComesBack == \A p \in Packets : []<>~Acknowledged(p)

\* Once the transfers are over the canvas is empty for good, whatever answers came
\* late (PacketLayer.tsx:139-145).
Drains == <>[](status # "transferring") => <>[](dots = <<>>)
=============================================================================
