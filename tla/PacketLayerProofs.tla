------------------------- MODULE PacketLayerProofs -------------------------
(***************************************************************************)
(* The dots of PacketLayer, for every number of packets, retries,          *)
(* transfers and events, and every topology that can be shown.             *)
(*                                                                         *)
(* A retransmission takes the first dot of its packet away, red or not, so *)
(* there is one dot on the way only because the dots that are there have   *)
(* turned red before: a batch tells of the timeout first, or the last one  *)
(* did and the dots of it were drawn, or nothing is drawn at all.          *)
(***************************************************************************)
EXTENDS PacketLayer, SequenceTheorems, WellFoundedInduction, TLAPS

\* Of any dots: a packet has one on the way, or none.
One(ds) ==
    \A i, j \in 1..Len(ds) :
        (\E q \in Packets : Active(ds[i], q) /\ Active(ds[j], q)) => i = j

Quiet(ds, q) == \A i \in 1..Len(ds) : ~Active(ds[i], q)

\* A dot that turns round, or will, is of a packet acknowledged; one on its way back
\* takes its lane.
AckIsReal(d) ==
    /\ d.ackSeen => d.seq \in acked
    /\ d.dir = "ack" => /\ d.ackSeen /\ LanePath(Graph, d.lane) # NoPath
                        /\ d.path = Reverse(LanePath(Graph, d.lane))

Good(ds) ==
    /\ ds \in Seq(Dot) /\ One(ds)
    /\ \A i \in 1..Len(ds) : AckIsReal(ds[i])

\* Of any batch: the ids ascend, a retransmission comes straight behind its timeout
\* unless that was in an earlier batch, and who is said to be acknowledged is.
InOrder(batch) == \A i, j \in 1..Len(batch) : i < j => batch[i].id < batch[j].id
Explained(batch) ==
    \A k \in 2..Len(batch) : batch[k].kind = "RETRANSMITTED" =>
        batch[k - 1].kind = "TIMEOUT" /\ batch[k - 1].seq = batch[k].seq
Told(batch) == \A k \in 1..Len(batch) : batch[k].kind = "ACKED" => batch[k].seq \in acked
GoodBatch(batch) == InOrder(batch) /\ Explained(batch) /\ Told(batch)

TimedOut(batch, q) == batch # <<>> /\ Last(batch).kind = "TIMEOUT" /\ Last(batch).seq = q

\* The next event is the retransmission of q, and its timeout is taken.
Owed(q) ==
    \/ log = <<>> /\ packet.said = "TIMEOUT" /\ packet.seq = q
    \/ log # <<>> /\ log[1].kind = "RETRANSMITTED" /\ log[1].seq = q

\* The log ends with what the packet says.
LogInv ==
    /\ GoodBatch(log) /\ \A i \in 1..Len(log) : log[i].id < nextId
    /\ log # <<>> => Last(log).kind = packet.said /\ Last(log).seq = packet.seq

\* The batch shown is older than the log, and drawn unless nothing is.
ShownInv ==
    /\ GoodBatch(events) /\ \A i \in 1..Len(events) : events[i].id < nextId
    /\ \A i \in 1..Len(events), j \in 1..Len(log) : events[i].id < log[j].id
    /\ lastId < nextId /\ \A j \in 1..Len(log) : lastId < log[j].id
    /\ \/ lastId = 0 /\ dots = <<>>
       \/ \A i \in 1..Len(events) : events[i].id <= lastId

OwedIsRed ==
    \A q \in Packets : Owed(q) =>
        Quiet(dots, q) /\ (events # <<>> => TimedOut(events, q))

LayerInv == TypeOK /\ Good(dots) /\ LogInv /\ ShownInv /\ OwedIsRed
-----------------------------------------------------------------------------
\* Sequences of dots.

\* A set of numbers that is not empty has a least element.
LEMMA SmallestInNat ==
    ASSUME NEW S, S \subseteq Nat, S # {}
    PROVE  \E n \in S : \A k \in S : n <= k
<1> DEFINE R == OpToRel(<, Nat)
<1>1. IsWellFoundedOn(R, Nat)
  BY NatLessThanWellFounded
<1>2. \E n \in S : \A k \in S : <<k, n>> \notin R
  BY <1>1, WFMin
<1>3. \A k, n \in Nat : <<k, n>> \in R <=> k < n
  BY DEF OpToRel
<1> HIDE DEF R
<1>4. PICK n \in S : \A k \in S : <<k, n>> \notin R
  BY <1>2
<1>5. \A k \in S : ~(k < n)
  BY <1>3, <1>4
<1>6. \A k \in S : n <= k
  BY <1>5
<1> QED
  BY <1>6

LEMMA FirstLemma ==
    ASSUME NEW n \in Nat, NEW S \in SUBSET (1..n)
    PROVE  /\ S = {} => FirstOf(S) = 0
           /\ S # {} => FirstOf(S) \in S
<1>1. CASE S = {}
  BY <1>1 DEF FirstOf
<1>2. CASE S # {}
  <2>1. S \subseteq Nat
    OBVIOUS
  <2>2. PICK m \in S : \A k \in S : m <= k
    BY <1>2, <2>1, SmallestInNat
  <2>3. FirstOf(S) \in S
    BY <1>2, <2>2 DEF FirstOf, Least, Min
  <2> QED
    BY <1>2, <2>3
<1> QED
  BY <1>1, <1>2

LEMMA RemoveLemma ==
    ASSUME NEW S, NEW s \in Seq(S), NEW i \in 1..Len(s)
    PROVE  /\ RemoveAt(s, i) \in Seq(S) /\ Len(RemoveAt(s, i)) = Len(s) - 1
           /\ \A j \in 1..(Len(s) - 1) :
                 RemoveAt(s, i)[j] = s[IF j < i THEN j ELSE j + 1]
<1>1. SubSeq(s, 1, i - 1) \in Seq(S) /\ Len(SubSeq(s, 1, i - 1)) = i - 1
      /\ \A j \in 1..(i - 1) : SubSeq(s, 1, i - 1)[j] = s[j]
  BY SubSeqProperties
<1>2. SubSeq(s, i + 1, Len(s)) \in Seq(S) /\ Len(SubSeq(s, i + 1, Len(s))) = Len(s) - i
      /\ \A j \in 1..(Len(s) - i) : SubSeq(s, i + 1, Len(s))[j] = s[i + j]
  BY SubSeqProperties
<1> DEFINE a == SubSeq(s, 1, i - 1)
           b == SubSeq(s, i + 1, Len(s))
<1> HIDE DEF a, b
<1>3. a \in Seq(S) /\ Len(a) = i - 1 /\ \A j \in 1..(i - 1) : a[j] = s[j]
  BY <1>1 DEF a
<1>4. b \in Seq(S) /\ Len(b) = Len(s) - i /\ \A j \in 1..(Len(s) - i) : b[j] = s[i + j]
  BY <1>2 DEF b
<1>5. RemoveAt(s, i) = a \o b
  BY DEF RemoveAt, a, b
<1>6. a \o b \in Seq(S) /\ Len(a \o b) = Len(s) - 1
  <2>1. a \o b \in Seq(S) /\ Len(a \o b) = Len(a) + Len(b)
    BY <1>3, <1>4, ConcatProperties
  <2>2. Len(s) \in Nat
    OBVIOUS
  <2> QED
    BY <1>3, <1>4, <2>1, <2>2
<1>7. ASSUME NEW j \in 1..(Len(s) - 1)
      PROVE  (a \o b)[j] = s[IF j < i THEN j ELSE j + 1]
  <2>1. CASE j < i
    BY <2>1, <1>3, <1>4
  <2>2. CASE ~(j < i)
    <3>1. (a \o b)[j] = b[j - (i - 1)]
      BY <2>2, <1>3, <1>4
    <3>2. j - (i - 1) \in 1..(Len(s) - i) /\ i + (j - (i - 1)) = j + 1
      BY <2>2
    <3> QED
      BY <3>1, <3>2, <1>4, <2>2
  <2> QED
    BY <2>1, <2>2
<1> QED
  BY <1>5, <1>6, <1>7

LEMMA WithoutLemma ==
    ASSUME NEW ds, Good(ds), NEW i \in 1..Len(ds)
    PROVE  /\ Good(RemoveAt(ds, i))
           /\ \A q : Quiet(ds, q) => Quiet(RemoveAt(ds, i), q)
<1> DEFINE r == RemoveAt(ds, i)
           p(j) == IF j < i THEN j ELSE j + 1
<1> HIDE DEF r, p
<1>1. ds \in Seq(Dot) /\ One(ds) /\ \A j \in 1..Len(ds) : AckIsReal(ds[j])
  BY DEF Good
<1>2. r \in Seq(Dot) /\ Len(r) = Len(ds) - 1 /\ \A j \in 1..(Len(ds) - 1) : r[j] = ds[p(j)]
  BY <1>1, RemoveLemma DEF r, p
<1>3. \A j \in 1..(Len(ds) - 1) : p(j) \in 1..Len(ds)
  BY <1>1 DEF p
<1>4. \A j, k \in 1..(Len(ds) - 1) : p(j) = p(k) => j = k
  BY <1>1 DEF p
<1>5. One(r)
  BY <1>1, <1>2, <1>3, <1>4 DEF One
<1>6. \A j \in 1..Len(r) : AckIsReal(r[j])
  BY <1>1, <1>2, <1>3
<1>7. \A q : Quiet(ds, q) => Quiet(r, q)
  BY <1>2, <1>3 DEF Quiet
<1> QED
  BY <1>2, <1>5, <1>6, <1>7 DEF Good, r

\* A dot more: another that is active only if it is the first of its packet.
LEMMA WithLemma ==
    ASSUME NEW ds, Good(ds), NEW d \in Dot, AckIsReal(d),
           \A q \in Packets : Active(d, q) => Quiet(ds, q)
    PROVE  /\ Good(Append(ds, d))
           /\ \A q : Quiet(ds, q) /\ ~Active(d, q) => Quiet(Append(ds, d), q)
<1> DEFINE r == Append(ds, d)
           n == Len(ds)
<1>1. ds \in Seq(Dot) /\ One(ds) /\ n \in Nat /\ \A j \in 1..n : AckIsReal(ds[j])
  BY DEF Good
<1>2. r \in Seq(Dot) /\ Len(r) = n + 1 /\ r[n + 1] = d /\ \A j \in 1..n : r[j] = ds[j]
  BY <1>1
<1> HIDE DEF r, n
<1>3. \A j \in 1..(n + 1) : j = n + 1 \/ j \in 1..n
  BY <1>1
<1>4. One(r)
  <2> SUFFICES ASSUME NEW j \in 1..(n + 1), NEW k \in 1..(n + 1), NEW q \in Packets,
                      Active(r[j], q), Active(r[k], q)
               PROVE  j = k
    BY <1>2 DEF One
  <2>1. CASE j \in 1..n /\ k \in 1..n
    BY <2>1, <1>1, <1>2 DEF One, n
  <2>2. CASE j = n + 1 /\ k \in 1..n
    <3>1. Quiet(ds, q)
      BY <2>2, <1>2
    <3> QED
      BY <3>1, <2>2, <1>2 DEF Quiet, n
  <2>3. CASE k = n + 1 /\ j \in 1..n
    <3>1. Quiet(ds, q)
      BY <2>3, <1>2
    <3> QED
      BY <3>1, <2>3, <1>2 DEF Quiet, n
  <2> QED
    BY <2>1, <2>2, <2>3, <1>3
<1>5. \A j \in 1..Len(r) : AckIsReal(r[j])
  BY <1>1, <1>2, <1>3
<1>6. \A q : Quiet(ds, q) /\ ~Active(d, q) => Quiet(r, q)
  BY <1>2, <1>3 DEF Quiet, n
<1> QED
  BY <1>2, <1>4, <1>5, <1>6 DEF Good, r

\* A dot that changes: it is of the same packet, and active only if it was.
LEMMA ChangedLemma ==
    ASSUME NEW ds, Good(ds), NEW i \in 1..Len(ds), NEW d \in Dot, AckIsReal(d),
           \A q : Active(d, q) => Active(ds[i], q)
    PROVE  /\ Good([ds EXCEPT ![i] = d])
           /\ \A q : Quiet(ds, q) => Quiet([ds EXCEPT ![i] = d], q)
           /\ \A q \in Packets : Active(ds[i], q) /\ ~Active(d, q) => Quiet([ds EXCEPT ![i] = d], q)
<1> DEFINE r == [ds EXCEPT ![i] = d]
<1>1. ds \in Seq(Dot) /\ One(ds) /\ \A j \in 1..Len(ds) : AckIsReal(ds[j])
  BY DEF Good
<1>2. r \in Seq(Dot) /\ Len(r) = Len(ds) /\ \A j \in 1..Len(ds) : r[j] = IF j = i THEN d ELSE ds[j]
  BY <1>1
<1> HIDE DEF r
<1>3. \A j \in 1..Len(ds) : \A q : Active(r[j], q) => Active(ds[j], q)
  BY <1>2
<1>4. One(r)
  BY <1>1, <1>2, <1>3 DEF One
<1>5. \A j \in 1..Len(r) : AckIsReal(r[j])
  BY <1>1, <1>2
<1>6. \A q : Quiet(ds, q) => Quiet(r, q)
  BY <1>2, <1>3 DEF Quiet
<1>7. ASSUME NEW q \in Packets, Active(ds[i], q), ~Active(d, q) PROVE Quiet(r, q)
  <2>1. \A j \in 1..Len(ds) : j # i => ~Active(ds[j], q)
    BY <1>1, <1>7 DEF One
  <2> QED
    BY <2>1, <1>2, <1>7 DEF Quiet
<1> QED
  BY <1>2, <1>4, <1>5, <1>6, <1>7 DEF Good, r
-----------------------------------------------------------------------------
\* Drawing one event.

LEMMA ReverseLemma ==
    ASSUME NEW S, NEW s \in Seq(S)
    PROVE  /\ Reverse(s) \in Seq(S) /\ Len(Reverse(s)) = Len(s)
           /\ \A i \in 1..Len(s) : Reverse(s)[i] = s[Len(s) - i + 1]
<1>1. \A i \in 1..Len(s) : Len(s) - i + 1 \in 1..Len(s) /\ s[Len(s) - i + 1] \in S
  OBVIOUS
<1>2. Reverse(s) = [i \in 1..Len(s) |-> s[Len(s) - i + 1]]
  BY DEF Reverse
<1> QED
  BY <1>1, <1>2

LEMMA DataDotLemma ==
    ASSUME NEW q \in Packets, NEW l \in Lanes
    PROVE  /\ DataDot(q, l) \in Dot /\ AckIsReal(DataDot(q, l))
           /\ \A p : Active(DataDot(q, l), p) => p = q
<1>1. LanePath(Graph, l) \in Seq(Topology.nodes)
  BY LayerAssumption
<1> QED
  BY <1>1 DEF DataDot, Dot, AckIsReal, Active

LEMMA SpawnDataLemma ==
    ASSUME NEW ds, Good(ds), NEW q \in Packets, Quiet(ds, q), NEW l \in Lanes
    PROVE  Good(SpawnData(ds, q, l))
<1>1. Good(Append(ds, DataDot(q, l)))
  BY DataDotLemma, WithLemma
<1> QED
  BY <1>1 DEF SpawnData

LEMMA SpawnAckLemma ==
    ASSUME NEW ds, Good(ds), NEW q \in Packets, q \in acked, NEW l \in Lanes
    PROVE  /\ Good(SpawnAck(ds, q, l))
           /\ \A p : Quiet(ds, p) => Quiet(SpawnAck(ds, q, l), p)
<1>1. CASE LanePath(Graph, l) = NoPath
  BY <1>1 DEF SpawnAck
<1>2. CASE LanePath(Graph, l) # NoPath
  <2> DEFINE d == [DataDot(q, l) EXCEPT !.dir = "ack", !.ackSeen = TRUE,
                                        !.path = Reverse(LanePath(Graph, l))]
  <2>1. Reverse(LanePath(Graph, l)) \in Seq(Topology.nodes)
    BY LayerAssumption, ReverseLemma
  <2>2. DataDot(q, l) \in Dot /\ DataDot(q, l).seq = q /\ DataDot(q, l).lane = l
    BY DataDotLemma DEF DataDot
  <2>3. d \in Dot
    BY <2>1, <2>2 DEF Dot
  <2>4. AckIsReal(d)
    BY <1>2, <2>2 DEF AckIsReal, Dot
  <2>5. \A p : ~Active(d, p)
    BY <2>2 DEF Active, IsData, Dot
  <2>6. Good(Append(ds, d)) /\ \A p : Quiet(ds, p) => Quiet(Append(ds, d), p)
    BY <2>3, <2>4, <2>5, WithLemma
  <2> QED
    BY <1>2, <2>6 DEF SpawnAck, d
<1> QED
  BY <1>1, <1>2

LEMMA ActiveDataLemma ==
    ASSUME NEW ds, Good(ds), NEW q \in Packets
    PROVE  /\ ActiveData(ds, q) = 0 => Quiet(ds, q)
           /\ ActiveData(ds, q) # 0 => /\ ActiveData(ds, q) \in 1..Len(ds)
                                       /\ Active(ds[ActiveData(ds, q)], q)
<1> DEFINE S == {i \in 1..Len(ds) : Active(ds[i], q)}
<1>1. Len(ds) \in Nat
  BY DEF Good
<1>2. ActiveData(ds, q) = FirstOf(S)
  BY DEF ActiveData
<1>3. \A i : i \in S <=> i \in 1..Len(ds) /\ Active(ds[i], q)
  OBVIOUS
<1> HIDE DEF S
<1>4. S \subseteq 1..Len(ds)
  BY <1>3
<1>5. (S = {} => FirstOf(S) = 0) /\ (S # {} => FirstOf(S) \in S)
  BY <1>1, <1>4, FirstLemma
<1>6. S = {} => Quiet(ds, q)
  BY <1>3 DEF Quiet
<1>7. S # {} => FirstOf(S) \in 1..Len(ds)
  BY <1>4, <1>5
<1>8. \A i \in 1..Len(ds) : i # 0
  BY <1>1
<1> QED
  BY <1>2, <1>3, <1>5, <1>6, <1>7, <1>8

LEMMA DrawSentLemma ==
    ASSUME NEW ds, Good(ds), NEW e \in Event
    PROVE  Good(DrawSent(ds, e))
<1>1. e.seq \in Packets /\ e.lane \in Lanes
  BY DEF Event
<1> QED
  BY <1>1, ActiveDataLemma, SpawnDataLemma DEF DrawSent

LEMMA DrawAckedLemma ==
    ASSUME NEW ds, Good(ds), NEW e \in Event, e.seq \in acked
    PROVE  Good(DrawAcked(ds, e))
<1> DEFINE i == ActiveData(ds, e.seq)
<1>1. e.seq \in Packets /\ e.lane \in Lanes
  BY DEF Event
<1>2. CASE i = 0
  BY <1>1, <1>2, SpawnAckLemma DEF DrawAcked
<1>3. CASE i # 0
  <2>1. i \in 1..Len(ds) /\ Active(ds[i], e.seq)
    BY <1>1, <1>3, ActiveDataLemma
  <2> DEFINE d == [ds[i] EXCEPT !.ackSeen = TRUE]
  <2>2. ds[i] \in Dot /\ AckIsReal(ds[i])
    BY <2>1 DEF Good
  <2>3. DrawAcked(ds, e) = [ds EXCEPT ![i] = d]
    BY <1>3 DEF DrawAcked
  <2> HIDE DEF i
  <2>4. d \in Dot /\ AckIsReal(d) /\ \A q : Active(d, q) => Active(ds[i], q)
    BY <2>1, <2>2 DEF Dot, AckIsReal, Active, IsData
  <2>5. Good([ds EXCEPT ![i] = d])
    BY <2>1, <2>4, ChangedLemma
  <2> QED
    BY <2>3, <2>5
<1> QED
  BY <1>2, <1>3

LEMMA DrawLostLemma ==
    ASSUME NEW ds, Good(ds), NEW e \in Event
    PROVE  Good(DrawLost(ds, e)) /\ Quiet(DrawLost(ds, e), e.seq)
<1> DEFINE i == ActiveData(ds, e.seq)
<1>1. e.seq \in Packets
  BY DEF Event
<1>2. CASE i = 0
  BY <1>1, <1>2, ActiveDataLemma DEF DrawLost
<1>3. CASE i # 0
  <2>1. i \in 1..Len(ds) /\ Active(ds[i], e.seq)
    BY <1>1, <1>3, ActiveDataLemma
  <2> DEFINE d == [ds[i] EXCEPT !.phase = "timeout"]
  <2>2. ds[i] \in Dot /\ AckIsReal(ds[i])
    BY <2>1 DEF Good
  <2>3. DrawLost(ds, e) = [ds EXCEPT ![i] = d]
    BY <1>3 DEF DrawLost
  <2> HIDE DEF i
  <2>4. d \in Dot /\ AckIsReal(d) /\ \A q : ~Active(d, q)
    BY <2>1, <2>2 DEF Dot, AckIsReal, Active, IsData
  <2>5. Good([ds EXCEPT ![i] = d]) /\ Quiet([ds EXCEPT ![i] = d], e.seq)
    BY <1>1, <2>1, <2>4, ChangedLemma
  <2> QED
    BY <2>3, <2>5
<1> QED
  BY <1>2, <1>3

LEMMA DrawRetransmittedLemma ==
    ASSUME NEW ds, Good(ds), NEW e \in Event, Quiet(ds, e.seq)
    PROVE  Good(DrawRetransmitted(ds, e))
<1> DEFINE S == {j \in 1..Len(ds) : IsData(ds[j]) /\ ds[j].seq = e.seq}
           i == FirstOf(S)
           r == IF i = 0 THEN ds ELSE RemoveAt(ds, i)
<1>1. e.seq \in Packets /\ e.lane \in Lanes /\ Len(ds) \in Nat
  BY DEF Event, Good
<1>2. S \subseteq 1..Len(ds)
  OBVIOUS
<1>3. DrawRetransmitted(ds, e) = SpawnData(r, e.seq, e.lane)
  BY DEF DrawRetransmitted
<1> HIDE DEF S
<1>4. i = 0 \/ i \in 1..Len(ds)
  BY <1>1, <1>2, FirstLemma
<1> HIDE DEF i
<1>5. Good(r) /\ Quiet(r, e.seq)
  BY <1>4, WithoutLemma
<1> HIDE DEF r
<1> QED
  BY <1>1, <1>3, <1>5, SpawnDataLemma

\* What drawing an event keeps, and what a timeout leaves.
LEMMA DrawLemma ==
    ASSUME NEW ds, Good(ds), NEW e \in Event,
           e.kind = "ACKED" => e.seq \in acked,
           e.kind = "RETRANSMITTED" => Quiet(ds, e.seq)
    PROVE  /\ Good(Draw(ds, e))
           /\ e.kind = "TIMEOUT" => Quiet(Draw(ds, e), e.seq)
<1>1. e.kind \in Kinds
  BY DEF Event
<1>2. CASE e.kind \in {"SENT", "WAITING"}
  BY <1>2, DrawSentLemma DEF Draw
<1>3. CASE e.kind = "ACKED"
  BY <1>3, DrawAckedLemma DEF Draw
<1>4. CASE e.kind \in {"TIMEOUT", "FAILED"}
  BY <1>4, DrawLostLemma DEF Draw
<1>5. CASE e.kind = "RETRANSMITTED"
  BY <1>5, DrawRetransmittedLemma DEF Draw
<1> QED
  BY <1>1, <1>2, <1>3, <1>4, <1>5 DEF Kinds
-----------------------------------------------------------------------------
\* Drawing a batch.

Stages(batch, n, f) ==
    f = [k \in 0..n |-> IF k = 0 THEN {dots}
                        ELSE IF k \in Fresh(batch) THEN {Draw(ds, batch[k]) : ds \in f[k - 1]}
                        ELSE f[k - 1]]

LEMMA StagesGrow ==
    ASSUME NEW batch, NEW n \in Nat, NEW f, Stages(batch, n, f)
    PROVE  \E g : Stages(batch, n + 1, g)
<1> DEFINE Stage(k, before) ==
             IF k = 0 THEN {dots}
             ELSE IF k \in Fresh(batch) THEN {Draw(ds, batch[k]) : ds \in before}
             ELSE before
           g == [k \in 0..(n + 1) |-> Stage(k, f[k - 1])]
<1> HIDE DEF Stage
<1>1. f = [k \in 0..n |-> Stage(k, f[k - 1])]
  BY DEF Stages, Stage
<1>2. \A k \in 0..n : g[k] = f[k]
  BY <1>1
<1>3. \A k \in 0..(n + 1) : k = 0 \/ k - 1 \in 0..n
  OBVIOUS
<1>4. \A k \in 0..(n + 1) : k # 0 => g[k - 1] = f[k - 1]
  BY <1>2, <1>3
<1>5. \A a, b : Stage(0, a) = Stage(0, b)
  BY DEF Stage
<1>6. \A k \in 0..(n + 1) : Stage(k, f[k - 1]) = Stage(k, g[k - 1])
  BY <1>4, <1>5
<1>7. g = [k \in 0..(n + 1) |-> Stage(k, g[k - 1])]
  BY <1>6
<1> HIDE DEF g
<1>8. Stages(batch, n + 1, g)
  BY <1>7 DEF Stages, Stage
<1> QED
  BY <1>8

LEMMA StagesExist ==
    ASSUME NEW batch, NEW n \in Nat
    PROVE  \E f : Stages(batch, n, f)
<1> DEFINE None == {m \in Nat : ~ \E f : Stages(batch, m, f)}
<1>1. \E f : Stages(batch, 0, f)
  <2> DEFINE f == [k \in 0..0 |-> {dots}]
  <2>1. f = [k \in 0..0 |-> IF k = 0 THEN {dots}
                            ELSE IF k \in Fresh(batch) THEN {Draw(ds, batch[k]) : ds \in f[k - 1]}
                            ELSE f[k - 1]]
    OBVIOUS
  <2> HIDE DEF f
  <2> QED
    BY <2>1 DEF Stages
<1>2. ASSUME None # {} PROVE FALSE
  <2>1. PICK m \in None : \A k \in None : m <= k
    BY <1>2, SmallestInNat
  <2>2. m \in Nat /\ m # 0
    BY <1>1
  <2>3. m - 1 \in Nat /\ m - 1 \notin None /\ (m - 1) + 1 = m
    BY <2>1, <2>2
  <2>4. PICK f : Stages(batch, m - 1, f)
    BY <2>3
  <2>5. \E g : Stages(batch, m, g)
    BY <2>3, <2>4, StagesGrow
  <2> QED
    BY <2>1, <2>5
<1> QED
  BY <1>2

\* Nothing is drawn of a batch that is known.
LEMMA DrawnKnown ==
    ASSUME NEW batch \in Seq(Event), Fresh(batch) = {}
    PROVE  Drawn(batch) = {dots}
<1> DEFINE n == Len(batch)
           F == CHOOSE f : Stages(batch, n, f)
<1>1. n \in Nat
  OBVIOUS
<1>2. Drawn(batch) = F[n]
  BY DEF Drawn, Stages
<1> HIDE DEF n
<1>3. Stages(batch, n, F)
  BY <1>1, StagesExist
<1> HIDE DEF F
<1>4. F = [k \in 0..n |-> IF k = 0 THEN {dots} ELSE F[k - 1]]
  BY <1>3 DEF Stages
<1> DEFINE None == {k \in Nat : k <= n /\ F[k] # {dots}}
<1>5. ASSUME None # {} PROVE FALSE
  <2>1. PICK m \in None : \A k \in None : m <= k
    BY <1>5, SmallestInNat
  <2>2. m \in 0..n /\ F[m] # {dots}
    BY <1>1
  <2>3. m # 0
    BY <1>1, <1>4, <2>2
  <2>4. m - 1 \in Nat /\ m - 1 <= n /\ F[m] = F[m - 1]
    BY <1>1, <1>4, <2>2, <2>3
  <2>5. m - 1 \in None
    BY <2>2, <2>4
  <2> QED
    BY <2>1, <2>2, <2>5
<1> QED
  BY <1>1, <1>2, <1>5

\* What drawing a whole batch keeps, and what it leaves when it ends with a timeout.
LEMMA DrawnLemma ==
    ASSUME Good(dots), NEW batch \in Seq(Event), Fresh(batch) = 1..Len(batch),
           Explained(batch), Told(batch),
           batch # <<>> /\ batch[1].kind = "RETRANSMITTED" => Quiet(dots, batch[1].seq),
           NEW ds \in Drawn(batch)
    PROVE  /\ Good(ds)
           /\ \A q : TimedOut(batch, q) => Quiet(ds, q)
<1> DEFINE n == Len(batch)
           F == CHOOSE f : Stages(batch, n, f)
           Fine(k, d) == /\ Good(d)
                         /\ k # 0 /\ batch[k].kind = "TIMEOUT" => Quiet(d, batch[k].seq)
<1>1. n \in Nat /\ Fresh(batch) = 1..n
  OBVIOUS
<1>2. Drawn(batch) = F[n]
  BY DEF Drawn, Stages
<1>3. \A k \in 1..n : batch[k] \in Event /\ (batch[k].kind = "ACKED" => batch[k].seq \in acked)
  BY DEF Told
<1>4. \A k \in 1..n : batch[k].kind = "RETRANSMITTED" =>
         \/ k = 1 /\ Quiet(dots, batch[k].seq)
         \/ k # 1 /\ batch[k - 1].kind = "TIMEOUT" /\ batch[k - 1].seq = batch[k].seq
  BY DEF Explained
<1>5. \A q : TimedOut(batch, q) => n # 0 /\ batch[n].kind = "TIMEOUT" /\ batch[n].seq = q
  BY <1>1 DEF TimedOut, Last
<1> HIDE DEF n
<1>6. Stages(batch, n, F)
  BY <1>1, StagesExist
<1> HIDE DEF F
<1>7. F[0] = {dots} /\ \A k \in 1..n : F[k] = {Draw(d, batch[k]) : d \in F[k - 1]}
  <2>1. F = [k \in 0..n |-> IF k = 0 THEN {dots}
                           ELSE IF k \in 1..n THEN {Draw(d, batch[k]) : d \in F[k - 1]}
                           ELSE F[k - 1]]
    BY <1>1, <1>6 DEF Stages
  <2>2. 0 \in 0..n /\ \A k \in 1..n : k \in 0..n /\ k # 0
    BY <1>1
  <2> QED
    BY <2>1, <2>2
<1> DEFINE None == {k \in Nat : k <= n /\ ~ \A d \in F[k] : Fine(k, d)}
<1>8. ASSUME None # {} PROVE FALSE
  <2>1. PICK m \in None : \A k \in None : m <= k
    BY <1>8, SmallestInNat
  <2>2. m \in 0..n
    BY <1>1
  <2>3. m # 0
    BY <1>7
  <2>4. m \in 1..n /\ m - 1 \in Nat /\ m - 1 <= n /\ m - 1 \notin None
    BY <1>1, <2>1, <2>2, <2>3
  <2>5. \A d \in F[m - 1] : Fine(m - 1, d)
    BY <2>4
  <2>6. PICK d \in F[m - 1] : ~Fine(m, Draw(d, batch[m]))
    BY <1>7, <2>1, <2>4
  <2>7. Fine(m - 1, d)
    BY <2>5, <2>6
  <2>8. batch[m].kind = "RETRANSMITTED" => Quiet(d, batch[m].seq)
    <3>1. CASE m = 1
      <4>1. d = dots
        BY <1>7, <2>6, <3>1
      <4> QED
        BY <1>4, <2>4, <3>1, <4>1
    <3>2. CASE m # 1
      <4>1. m - 1 # 0
        BY <2>4, <3>2
      <4> QED
        BY <1>4, <2>4, <2>7, <3>2, <4>1
    <3> QED
      BY <3>1, <3>2
  <2>9. Fine(m, Draw(d, batch[m]))
    BY <1>3, <2>4, <2>7, <2>8, DrawLemma
  <2> QED
    BY <2>6, <2>9
<1>9. Fine(n, ds)
  BY <1>1, <1>2, <1>8
<1> QED
  BY <1>5, <1>9
-----------------------------------------------------------------------------
\* The steps

LEMMA EmptyLemma == Good(<<>>) /\ (\A q : Quiet(<<>>, q)) /\ GoodBatch(<<>>)
<1>1. <<>> \in Seq(Dot) /\ Len(<<>>) = 0 /\ \A i \in 1..0 : FALSE
  OBVIOUS
<1>2. \A i \in 2..0 : FALSE
  OBVIOUS
<1> QED
  BY <1>1, <1>2 DEF Good, One, Quiet, GoodBatch, InOrder, Explained, Told

\* Three things can come of a batch, of which everything is new or nothing.
LEMMA IngestLemma ==
    ASSUME Good(dots), NEW batch \in Seq(Event), NEW st,
           Fresh(batch) = 1..Len(batch) \/ Fresh(batch) = {}, Explained(batch), Told(batch),
           Fresh(batch) # {} /\ batch[1].kind = "RETRANSMITTED" => Quiet(dots, batch[1].seq),
           Ingest(batch, st)
    PROVE  \/ UNCHANGED layerVars /\ (batch = events \/ Fresh(batch) = {})
           \/ dots' = <<>> /\ lastId' = 0
           \/ /\ batch # <<>> /\ Fresh(batch) = 1..Len(batch)
              /\ Good(dots') /\ lastId' = Last(batch).id
              /\ \A q : TimedOut(batch, q) => Quiet(dots', q)
<1>1. CASE ~Changed(batch, st)
  BY <1>1 DEF Ingest, Changed
<1>2. CASE st # "transferring"
  BY <1>2, <1>1 DEF Ingest
<1>3. CASE Changed(batch, st) /\ st = "transferring" /\ Fresh(batch) = {}
  <2>1. dots' \in Drawn(batch) /\ lastId' = lastId
    BY <1>3 DEF Ingest
  <2> QED
    BY <1>3, <2>1, DrawnKnown DEF layerVars
<1>4. CASE Changed(batch, st) /\ st = "transferring" /\ Fresh(batch) # {}
  <2>1. dots' \in Drawn(batch) /\ lastId' = Last(batch).id
    BY <1>4 DEF Ingest
  <2>2. Fresh(batch) = 1..Len(batch)
    BY <1>4
  <2>3. batch # <<>>
    BY <1>4, <2>2
  <2>4. Good(dots') /\ \A q : TimedOut(batch, q) => Quiet(dots', q)
    BY <1>4, <2>1, <2>2, DrawnLemma
  <2> QED
    BY <2>1, <2>2, <2>3, <2>4
<1> QED
  BY <1>1, <1>2, <1>3, <1>4

LEMMA LastLemma ==
    ASSUME NEW batch \in Seq(Event), batch # <<>>, InOrder(batch)
    PROVE  /\ Len(batch) \in 1..Len(batch) /\ 1 \in 1..Len(batch)
           /\ Last(batch).id \in 1..MaxEvents
           /\ \A i \in 1..Len(batch) : batch[i].id <= Last(batch).id
<1>1. Len(batch) \in Nat /\ Len(batch) # 0
  OBVIOUS
<1>2. Len(batch) \in 1..Len(batch) /\ 1 \in 1..Len(batch)
  BY <1>1
<1>3. \A i \in 1..Len(batch) : batch[i].id \in 1..MaxEvents
  <2>1. \A i \in 1..Len(batch) : batch[i] \in Event
    OBVIOUS
  <2> QED
    BY <2>1 DEF Event
<1>4. \A i \in 1..Len(batch) : i = Len(batch) \/ i < Len(batch)
  BY <1>1
<1>5. \A i \in 1..Len(batch) : i < Len(batch) => batch[i].id < batch[Len(batch)].id
  BY <1>2 DEF InOrder
<1>6. \A i \in 1..Len(batch) : batch[i].id <= batch[Len(batch)].id
  BY <1>2, <1>3, <1>4, <1>5, LayerAssumption
<1> QED
  BY <1>2, <1>3, <1>6 DEF Last

\* The types of what the steps below compute with.
LEMMA TypesLemma ==
    ASSUME LayerInv
    PROVE  /\ log \in Seq(Event) /\ events \in Seq(Event) /\ MaxEvents \in Nat
           /\ lastId \in Nat /\ lastId <= MaxEvents /\ nextId \in Nat
           /\ \A i \in 1..Len(log) : log[i] \in Event /\ log[i].id \in 1..MaxEvents
           /\ \A i \in 1..Len(events) : events[i] \in Event /\ events[i].id \in 1..MaxEvents
<1>1. log \in Seq(Event) /\ events \in Seq(Event) /\ MaxEvents \in Nat
      /\ lastId \in 0..MaxEvents /\ nextId \in 1..(MaxEvents + 1)
  BY LayerAssumption DEF LayerInv, TypeOK
<1>2. (\A i \in 1..Len(log) : log[i] \in Event) /\ (\A i \in 1..Len(events) : events[i] \in Event)
  BY <1>1
<1>3. \A e \in Event : e.id \in 1..MaxEvents
  BY DEF Event
<1> QED
  BY <1>1, <1>2, <1>3

LEMMA StepTickShows ==
    ASSUME LayerInv, TickShows
    PROVE  LayerInv'
<1> USE DEF LayerInv
<1>1. events' = log /\ log' = <<>> /\ Ingest(log, tick) /\ tick \in Statuses
      /\ shown' = tick /\ tick' = Nothing
      /\ UNCHANGED <<status, transfers, packet, nextId, acked, refresh, slow>>
  BY DEF TickShows, TypeOK
<1>2. Fresh(log) = 1..Len(log)
  BY TypesLemma DEF Fresh, ShownInv
<1>3. log # <<>> => log # events /\ Fresh(log) # {} /\ 1 \in 1..Len(log)
  <2> SUFFICES ASSUME log # <<>> PROVE log # events /\ Fresh(log) # {} /\ 1 \in 1..Len(log)
    OBVIOUS
  <2>1. 1 \in 1..Len(log)
    BY TypesLemma
  <2>2. log = events => log[1].id < log[1].id
    BY <2>1 DEF ShownInv
  <2> QED
    BY <1>2, <2>1, <2>2, TypesLemma
<1>4. Fresh(log) # {} /\ log[1].kind = "RETRANSMITTED" => Quiet(dots, log[1].seq)
  <2> SUFFICES ASSUME Fresh(log) # {}, log[1].kind = "RETRANSMITTED"
               PROVE  Quiet(dots, log[1].seq)
    OBVIOUS
  <2>1. log # <<>> /\ 1 \in 1..Len(log)
    BY <1>2, <1>3, TypesLemma
  <2>2. log[1].seq \in Packets
    BY <2>1, TypesLemma DEF Event
  <2> QED
    BY <2>1, <2>2 DEF OwedIsRed, Owed
<1>5. GoodBatch(log) /\ log \in Seq(Event)
  BY TypesLemma DEF LogInv
<1>6. \/ UNCHANGED layerVars /\ log = <<>>
      \/ dots' = <<>> /\ lastId' = 0
      \/ /\ log # <<>> /\ Good(dots') /\ lastId' = Last(log).id
         /\ \A q : TimedOut(log, q) => Quiet(dots', q)
  BY <1>1, <1>2, <1>3, <1>4, <1>5, IngestLemma DEF GoodBatch
<1>7. log # <<>> => /\ Last(log).id \in 1..MaxEvents /\ Last(log).id < nextId
                    /\ \A i \in 1..Len(log) : log[i].id <= Last(log).id
  BY <1>5, LastLemma DEF GoodBatch, LogInv, Last
<1>8. Good(dots')
  BY <1>6, EmptyLemma DEF layerVars
<1>9. Good(dots)'
  BY <1>1, <1>8 DEF Good, AckIsReal
<1>10. lastId' \in 0..MaxEvents /\ lastId' < nextId
       /\ \/ lastId' = 0 /\ dots' = <<>>
          \/ \A i \in 1..Len(log) : log[i].id <= lastId'
  BY <1>6, <1>7, TypesLemma DEF layerVars, ShownInv, TypeOK
<1>11. TypeOK'
  BY <1>1, <1>8, <1>10 DEF TypeOK, Good
<1>12. LogInv'
  BY <1>1, EmptyLemma DEF LogInv, GoodBatch, InOrder, Explained, Told
<1>13. ShownInv'
  <2>1. GoodBatch(events)'
    BY <1>1, <1>5 DEF GoodBatch, InOrder, Explained, Told
  <2>2. \A i \in 1..Len(events') : events'[i].id < nextId'
    BY <1>1 DEF LogInv
  <2>3. Len(log') = 0 /\ \A j \in 1..0 : FALSE
    BY <1>1
  <2> QED
    BY <1>1, <1>10, <2>1, <2>2, <2>3 DEF ShownInv
<1>14. OwedIsRed'
  <2> SUFFICES ASSUME NEW q \in Packets, Owed(q)'
               PROVE  Quiet(dots', q) /\ (events' # <<>> => TimedOut(events', q))
    BY DEF OwedIsRed, Quiet, TimedOut
  <2>1. packet.said = "TIMEOUT" /\ packet.seq = q
    BY <1>1 DEF Owed
  <2>2. CASE log = <<>>
    <3>1. Quiet(dots, q)
      BY <2>1, <2>2 DEF OwedIsRed, Owed
    <3> QED
      BY <1>1, <1>6, <2>2, <3>1, EmptyLemma DEF layerVars
  <2>3. CASE log # <<>>
    <3>1. TimedOut(log, q)
      BY <2>1, <2>3 DEF LogInv, TimedOut
    <3> QED
      BY <1>1, <1>6, <2>3, <3>1, EmptyLemma
  <2> QED
    BY <2>2, <2>3
<1> QED
  BY <1>9, <1>11, <1>12, <1>13, <1>14

LEMMA StepRefreshShows ==
    ASSUME LayerInv, RefreshShows
    PROVE  LayerInv'
<1> USE DEF LayerInv
<1>1. Ingest(events, refresh) /\ refresh \in Statuses /\ shown' = refresh /\ refresh' = Nothing
      /\ UNCHANGED <<status, transfers, packet, log, nextId, acked, tick, events, slow>>
  BY DEF RefreshShows, TypeOK, senderVars
<1>2. \/ Fresh(events) = {}
      \/ Fresh(events) = 1..Len(events) /\ dots = <<>>
  <2>1. CASE lastId = 0 /\ dots = <<>>
    <3>1. \A i \in 1..Len(events) : events[i].id > lastId
      BY <2>1, TypesLemma
    <3> QED
      BY <2>1, <3>1 DEF Fresh
  <2>2. CASE \A i \in 1..Len(events) : events[i].id <= lastId
    <3>1. \A i \in 1..Len(events) : ~(events[i].id > lastId)
      BY <2>2, TypesLemma
    <3> QED
      BY <3>1 DEF Fresh
  <2> QED
    BY <2>1, <2>2 DEF ShownInv
<1>3. GoodBatch(events) /\ events \in Seq(Event)
  BY TypesLemma DEF ShownInv
<1>4. \/ UNCHANGED layerVars
      \/ dots' = <<>> /\ lastId' = 0
      \/ /\ events # <<>> /\ Good(dots') /\ lastId' = Last(events).id
         /\ \A q : TimedOut(events, q) => Quiet(dots', q)
  BY <1>1, <1>2, <1>3, EmptyLemma, IngestLemma DEF GoodBatch
<1>5. events # <<>> => /\ Last(events).id \in 1..MaxEvents /\ Last(events).id < nextId
                       /\ \A j \in 1..Len(log) : Last(events).id < log[j].id
                       /\ \A i \in 1..Len(events) : events[i].id <= Last(events).id
  BY <1>3, LastLemma DEF GoodBatch, ShownInv, Last
<1>6. Good(dots')
  BY <1>4, EmptyLemma DEF layerVars
<1>7. Good(dots)'
  BY <1>1, <1>6 DEF Good, AckIsReal
<1>8. lastId' \in 0..MaxEvents /\ lastId' < nextId /\ \A j \in 1..Len(log) : lastId' < log[j].id
  BY <1>4, <1>5, TypesLemma DEF layerVars, ShownInv, TypeOK
<1>9. \/ lastId' = 0 /\ dots' = <<>>
      \/ \A i \in 1..Len(events) : events[i].id <= lastId'
  BY <1>4, <1>5 DEF layerVars, ShownInv
<1>10. TypeOK'
  BY <1>1, <1>6, <1>8 DEF TypeOK, Good
<1>11. LogInv'
  BY <1>1 DEF LogInv, GoodBatch, InOrder, Explained, Told
<1>12. ShownInv'
  BY <1>1, <1>8, <1>9 DEF ShownInv, GoodBatch, InOrder, Explained, Told
<1>13. OwedIsRed'
  <2> SUFFICES ASSUME NEW q \in Packets, Owed(q)'
               PROVE  Quiet(dots', q) /\ (events' # <<>> => TimedOut(events', q))
    BY DEF OwedIsRed, Quiet, TimedOut
  <2>1. Owed(q)
    BY <1>1 DEF Owed
  <2>2. Quiet(dots, q) /\ (events # <<>> => TimedOut(events, q))
    BY <2>1 DEF OwedIsRed
  <2> QED
    BY <1>1, <1>4, <2>2, EmptyLemma DEF layerVars
<1> QED
  BY <1>7, <1>10, <1>11, <1>12, <1>13

LEMMA StepBegin ==
    ASSUME LayerInv, Begin
    PROVE  LayerInv'
<1> USE DEF LayerInv
<1>1. /\ status' = "transferring" /\ transfers' = transfers + 1 /\ transfers < MaxTransfers
      /\ packet' = NoPacket /\ log' = <<>>
      /\ UNCHANGED <<nextId, acked, tick, refresh, shown, events, slow, lastId, dots>>
  BY DEF Begin, pageVars, layerVars
<1>2. Good(dots)'
  BY <1>1 DEF Good, One, AckIsReal
<1>3. TypeOK'
  <2>1. packet' \in Spoken
    BY <1>1, LayerAssumption DEF NoPacket, Spoken, Packets, Lanes
  <2>2. transfers' \in 0..MaxTransfers
    BY <1>1, LayerAssumption DEF TypeOK
  <2>3. log' \in Seq(Event) /\ status' \in Statuses
    BY <1>1 DEF Statuses
  <2> QED
    BY <1>1, <2>1, <2>2, <2>3 DEF TypeOK
<1>4. Len(log') = 0 /\ \A j \in 1..0 : FALSE
  BY <1>1
<1>5. LogInv'
  BY <1>1, <1>4, EmptyLemma DEF LogInv, GoodBatch, InOrder, Explained, Told
<1>6. ShownInv'
  BY <1>1, <1>4 DEF ShownInv, GoodBatch, InOrder, Explained, Told
<1>7. OwedIsRed'
  <2>1. packet'.said # "TIMEOUT"
    BY <1>1 DEF NoPacket, Nothing
  <2> QED
    BY <1>1, <2>1 DEF OwedIsRed, Owed
<1> QED
  BY <1>2, <1>3, <1>5, <1>6, <1>7

\* What the sender may say next.
LEMMA SayingsLemma ==
    ASSUME TypeOK, NEW p \in Sayings, p.seq \in Packets
    PROVE  /\ p \in Spoken /\ p.said \in Kinds
           /\ p.said = "RETRANSMITTED" => packet.said = "TIMEOUT" /\ p.seq = packet.seq
<1>1. packet \in Spoken /\ MaxRetries \in Nat
  BY LayerAssumption DEF TypeOK
<1>2. ASSUME NEW q, p \in Sends(q)
      PROVE  p \in Spoken /\ p.said = "SENT"
  <2>1. PICK l \in Lanes :
           p = [seq |-> q, said |-> "SENT", attempt |-> 0, lane |-> l, replayed |-> FALSE]
    BY <1>2 DEF Sends
  <2> QED
    BY <1>1, <2>1 DEF Spoken, Kinds
<1>3. ASSUME NEW q, p = Replays(q)
      PROVE  p \in Spoken /\ p.said = "ACKED"
  BY <1>1, <1>3 DEF Replays, Spoken, Kinds, Lanes
<1>4. CASE packet.said = Nothing
  <2>1. p \in Sends(0)
    BY <1>4 DEF Sayings, Nothing
  <2> QED
    BY <1>2, <2>1 DEF Kinds
<1>5. CASE packet.said = "ACKED"
  <2>1. p \in Follows(packet)
    BY <1>5 DEF Sayings, Nothing
  <2>2. p \in UNION {Sends(q) : q \in Missing(packet)}
        \/ p \in {Replays(q) : q \in Reused(packet)}
    BY <2>1 DEF Follows
  <2>3. (\E q : p \in Sends(q)) \/ (\E q : p = Replays(q))
    BY <2>2
  <2> QED
    BY <1>2, <1>3, <2>3 DEF Kinds
<1>6. CASE packet.said = "RETRANSMITTED" /\ packet.seq \in Controls
  <2>1. p = [packet EXCEPT !.said = "SENT"]
    BY <1>6 DEF Sayings, Nothing
  <2> QED
    BY <1>1, <2>1 DEF Spoken, Kinds
<1>7. CASE packet.said = "SENT" \/ (packet.said = "RETRANSMITTED" /\ packet.seq \notin Controls)
  <2>1. p = [packet EXCEPT !.said = "WAITING"]
    BY <1>7 DEF Sayings, Nothing
  <2> QED
    BY <1>1, <2>1 DEF Spoken, Kinds
<1>8. CASE packet.said = "WAITING"
  <2>1. \/ p = [packet EXCEPT !.said = "ACKED"]
        \/ packet.attempt < MaxRetries /\ p = [packet EXCEPT !.said = "TIMEOUT", !.attempt = @ + 1]
        \/ p = [packet EXCEPT !.said = "FAILED"]
    BY <1>8 DEF Sayings, Nothing
  <2>2. CASE p = [packet EXCEPT !.said = "ACKED"]
    BY <1>1, <2>2 DEF Spoken, Kinds
  <2>3. CASE packet.attempt < MaxRetries /\ p = [packet EXCEPT !.said = "TIMEOUT", !.attempt = @ + 1]
    <3>1. packet.attempt + 1 \in 0..MaxRetries
      BY <1>1, <2>3 DEF Spoken
    <3> QED
      BY <1>1, <2>3, <3>1 DEF Spoken, Kinds
  <2>4. CASE p = [packet EXCEPT !.said = "FAILED"]
    BY <1>1, <2>4 DEF Spoken, Kinds
  <2> QED
    BY <2>1, <2>2, <2>3, <2>4
<1>9. CASE packet.said = "TIMEOUT"
  <2>1. PICK l \in Lanes : p = [packet EXCEPT !.said = "RETRANSMITTED", !.lane = l]
    BY <1>9 DEF Sayings, Nothing
  <2> QED
    BY <1>1, <1>9, <2>1 DEF Spoken, Kinds
<1>10. CASE packet.said = "FAILED"
  BY <1>10 DEF Sayings, Nothing
<1> QED
  BY <1>1, <1>4, <1>5, <1>6, <1>7, <1>8, <1>9, <1>10 DEF Spoken, Kinds

LEMMA StepSay ==
    ASSUME LayerInv, Say
    PROVE  LayerInv'
<1> USE DEF LayerInv
<1>1. PICK p \in Sayings :
         /\ p.seq \in Packets /\ packet' = p
         /\ log' = Append(log, [id |-> nextId, seq |-> p.seq, kind |-> p.said, lane |-> p.lane])
         /\ acked' = IF p.said = "ACKED" THEN acked \cup {p.seq} ELSE acked
  BY DEF Say
<1> DEFINE e == [id |-> nextId, seq |-> p.seq, kind |-> p.said, lane |-> p.lane]
           n == Len(log)
<1>2. nextId <= MaxEvents /\ nextId' = nextId + 1
      /\ UNCHANGED <<status, transfers, tick, refresh, shown, events, slow, lastId, dots>>
  BY DEF Say, pageVars, layerVars
<1>3. p \in Spoken /\ p.said \in Kinds
      /\ (p.said = "RETRANSMITTED" => packet.said = "TIMEOUT" /\ p.seq = packet.seq)
  BY <1>1, SayingsLemma
<1>4. nextId \in 1..MaxEvents
  BY <1>2, LayerAssumption DEF TypeOK
<1>5. e \in Event /\ e.id = nextId /\ e.seq = p.seq /\ e.kind = p.said
  BY <1>1, <1>3, <1>4 DEF Event, Spoken
<1>6. log \in Seq(Event) /\ n \in Nat
  BY TypesLemma
<1>7. log' = Append(log, e)
  BY <1>1
<1> HIDE DEF e, n
<1>8. /\ log' \in Seq(Event) /\ Len(log') = n + 1 /\ log'[n + 1] = e
      /\ \A i \in 1..n : log'[i] = log[i]
  BY <1>5, <1>6, <1>7 DEF n
<1>9. \A i \in 1..(n + 1) : i = n + 1 \/ i \in 1..n
  BY <1>6
<1>10. acked \subseteq acked' /\ acked' \subseteq Packets /\ (e.kind = "ACKED" => e.seq \in acked')
  BY <1>1, <1>5 DEF TypeOK
<1>11. Good(dots)'
  BY <1>2, <1>10 DEF Good, One, AckIsReal
<1>12. TypeOK'
  <2>1. nextId' \in 1..(MaxEvents + 1)
    BY <1>2, <1>4, LayerAssumption
  <2> QED
    BY <1>1, <1>2, <1>3, <1>8, <1>10, <2>1 DEF TypeOK
<1>13. InOrder(log)'
  <2> SUFFICES ASSUME NEW i \in 1..(n + 1), NEW j \in 1..(n + 1), i < j
               PROVE  log'[i].id < log'[j].id
    BY <1>8 DEF InOrder
  <2>1. i \in 1..n
    BY <1>6
  <2>2. CASE j \in 1..n
    BY <1>8, <2>1, <2>2 DEF LogInv, GoodBatch, InOrder, n
  <2>3. CASE j = n + 1
    BY <1>5, <1>8, <2>1, <2>3 DEF LogInv, n
  <2> QED
    BY <1>9, <2>2, <2>3
<1>14. Explained(log)'
  <2> SUFFICES ASSUME NEW k \in 2..(n + 1), log'[k].kind = "RETRANSMITTED"
               PROVE  log'[k - 1].kind = "TIMEOUT" /\ log'[k - 1].seq = log'[k].seq
    BY <1>8 DEF Explained
  <2>1. k \in 1..(n + 1) /\ k - 1 \in 1..n
    BY <1>6
  <2>2. CASE k \in 1..n
    <3>1. k \in 2..n
      BY <2>2
    <3> QED
      BY <1>8, <2>1, <2>2, <3>1 DEF LogInv, GoodBatch, Explained, n
  <2>3. CASE k = n + 1
    <3>1. k - 1 = n /\ log # <<>>
      BY <1>6, <2>1, <2>3 DEF n
    <3>2. log[n].kind = packet.said /\ log[n].seq = packet.seq
      BY <3>1 DEF LogInv, Last, n
    <3> QED
      BY <1>3, <1>5, <1>8, <2>1, <2>3, <3>1, <3>2
  <2> QED
    BY <1>9, <2>1, <2>2, <2>3
<1>15. Told(log)'
  BY <1>8, <1>9, <1>10 DEF Told, LogInv, GoodBatch, n
<1>16. \A i \in 1..Len(log') : log'[i].id < nextId'
  <2>1. \A i \in 1..n : log[i].id < nextId /\ log[i].id \in Nat
    BY TypesLemma DEF LogInv, n
  <2>2. \A i \in 1..n : log[i].id < nextId + 1
    BY <1>4, <2>1
  <2>3. nextId < nextId + 1
    BY <1>4
  <2> QED
    BY <1>2, <1>5, <1>8, <1>9, <2>2, <2>3
<1>17. Last(log').kind = packet'.said /\ Last(log').seq = packet'.seq
  BY <1>1, <1>5, <1>8 DEF Last
<1>18. LogInv'
  BY <1>13, <1>14, <1>15, <1>16, <1>17 DEF LogInv, GoodBatch
<1>19. ShownInv'
  <2>1. GoodBatch(events)'
    BY <1>2, <1>10 DEF ShownInv, GoodBatch, InOrder, Explained, Told
  <2>2. \A i \in 1..Len(events) : events[i].id < nextId + 1
    BY <1>4, TypesLemma DEF ShownInv
  <2>3. \A i \in 1..Len(events), j \in 1..Len(log') : events[i].id < log'[j].id
    BY <1>5, <1>8, <1>9 DEF ShownInv, n
  <2>4. lastId < nextId + 1 /\ \A j \in 1..Len(log') : lastId < log'[j].id
    BY <1>4, <1>5, <1>8, <1>9, TypesLemma DEF ShownInv, n
  <2> QED
    BY <1>2, <2>1, <2>2, <2>3, <2>4 DEF ShownInv
<1>20. OwedIsRed'
  <2> SUFFICES ASSUME NEW q \in Packets, Owed(q)'
               PROVE  Owed(q)
    BY <1>2 DEF OwedIsRed, Quiet, TimedOut
  <2>1. log' # <<>>
    BY <1>6, <1>8
  <2>2. log'[1].kind = "RETRANSMITTED" /\ log'[1].seq = q
    BY <2>1 DEF Owed
  <2>3. CASE n = 0
    BY <1>3, <1>5, <1>6, <1>8, <2>2, <2>3 DEF Owed, n
  <2>4. CASE n # 0
    <3>1. 1 \in 1..n /\ log # <<>>
      BY <1>6, <2>4 DEF n
    <3> QED
      BY <1>8, <2>2, <3>1 DEF Owed
  <2> QED
    BY <2>3, <2>4
<1> QED
  BY <1>11, <1>12, <1>18, <1>19, <1>20

LEMMA StepFrame ==
    ASSUME LayerInv, Frame
    PROVE  LayerInv'
<1> USE DEF LayerInv
<1>1. PICK i \in 1..Len(dots) : Arrive(i) \/ Answer(i) \/ Vanish(i)
  BY DEF Frame
<1>2. UNCHANGED <<status, transfers, packet, log, nextId, acked, tick, refresh, shown, events,
                  slow, lastId>>
  BY DEF Frame, senderVars, pageVars
<1>3. dots[i] \in Dot /\ AckIsReal(dots[i])
  BY DEF Good
<1>4. dots[i].seq \in Packets /\ dots[i].lane \in Lanes
  BY <1>3 DEF Dot
<1>5. ASSUME dots[i].ackSeen
      PROVE  /\ Good(SpawnAck(RemoveAt(dots, i), dots[i].seq, dots[i].lane))
             /\ \A q : Quiet(dots, q) =>
                    Quiet(SpawnAck(RemoveAt(dots, i), dots[i].seq, dots[i].lane), q)
  <2>1. dots[i].seq \in acked
    BY <1>3, <1>5 DEF AckIsReal
  <2>2. Good(RemoveAt(dots, i)) /\ \A q : Quiet(dots, q) => Quiet(RemoveAt(dots, i), q)
    BY WithoutLemma
  <2> QED
    BY <1>4, <2>1, <2>2, SpawnAckLemma
<1>6. Good(dots') /\ \A q : Quiet(dots, q) => Quiet(dots', q)
  <2>1. CASE Arrive(i) /\ dots[i].ackSeen
    BY <1>5, <2>1 DEF Arrive
  <2>2. CASE Arrive(i) /\ ~dots[i].ackSeen
    <3> DEFINE d == [dots[i] EXCEPT !.phase = "hold"]
    <3>1. IsData(dots[i]) /\ dots[i].phase = "travel" /\ dots' = [dots EXCEPT ![i] = d]
      BY <2>2 DEF Arrive
    <3>2. d \in Dot /\ AckIsReal(d)
      BY <1>3 DEF Dot, AckIsReal
    <3>3. \A q : Active(d, q) => Active(dots[i], q)
      BY <1>3, <3>1 DEF Dot, Active, IsData
    <3> HIDE DEF d
    <3> QED
      BY <3>1, <3>2, <3>3, ChangedLemma
  <2>3. CASE Answer(i)
    BY <1>5, <2>3 DEF Answer
  <2>4. CASE Vanish(i)
    BY <2>4, WithoutLemma DEF Vanish
  <2> QED
    BY <1>1, <2>1, <2>2, <2>3, <2>4
<1>7. Good(dots)'
  BY <1>2, <1>6 DEF Good, AckIsReal
<1>8. TypeOK'
  BY <1>2, <1>6 DEF TypeOK, Good
<1>9. LogInv'
  BY <1>2 DEF LogInv, GoodBatch, InOrder, Explained, Told
<1>10. dots # <<>>
  BY <1>1
<1>11. ShownInv'
  BY <1>2, <1>10 DEF ShownInv, GoodBatch, InOrder, Explained, Told
<1>12. OwedIsRed'
  <2> SUFFICES ASSUME NEW q \in Packets, Owed(q)'
               PROVE  Quiet(dots', q) /\ (events # <<>> => TimedOut(events, q))
    BY <1>2 DEF OwedIsRed, Quiet, TimedOut
  <2>1. Owed(q)
    BY <1>2 DEF Owed
  <2> QED
    BY <1>6, <2>1 DEF OwedIsRed
<1> QED
  BY <1>7, <1>8, <1>9, <1>11, <1>12

\* The steps that take no part in it.
LEMMA StepOther ==
    ASSUME LayerInv, TypeOK',
           UNCHANGED <<packet, log, nextId, acked, events, lastId, dots>>
    PROVE  LayerInv'
<1>1. Good(dots)'
  BY DEF LayerInv, Good, One, AckIsReal
<1>2. LogInv' /\ ShownInv'
  BY DEF LayerInv, LogInv, ShownInv, GoodBatch, InOrder, Explained, Told
<1>3. OwedIsRed'
  BY DEF LayerInv, OwedIsRed, Owed, Quiet, TimedOut
<1> QED
  BY <1>1, <1>2, <1>3 DEF LayerInv

LEMMA StepKeepsLayerInv == LayerInv /\ [Next]_vars => LayerInv'
<1> SUFFICES ASSUME LayerInv, [Next]_vars PROVE LayerInv'
  OBVIOUS
<1>1. CASE Begin
  BY <1>1, StepBegin
<1>2. CASE Say
  BY <1>2, StepSay
<1>3. CASE End
  <2>1. TypeOK'
    BY <1>3 DEF End, LayerInv, TypeOK, Statuses, pageVars, layerVars
  <2> QED
    BY <1>3, <2>1, StepOther DEF End, pageVars, layerVars
<1>4. CASE TickStatus
  <2>1. TypeOK'
    BY <1>4 DEF TickStatus, LayerInv, TypeOK, senderVars, layerVars
  <2> QED
    BY <1>4, <2>1, StepOther DEF TickStatus, senderVars, layerVars
<1>5. CASE TickShows
  BY <1>5, StepTickShows
<1>6. CASE TickFails
  <2>1. TypeOK'
    BY <1>6 DEF TickFails, LayerInv, TypeOK, senderVars, layerVars
  <2> QED
    BY <1>6, <2>1, StepOther DEF TickFails, senderVars, layerVars
<1>7. CASE RefreshStatus
  <2>1. TypeOK'
    BY <1>7 DEF RefreshStatus, LayerInv, TypeOK, senderVars, layerVars
  <2> QED
    BY <1>7, <2>1, StepOther DEF RefreshStatus, senderVars, layerVars
<1>8. CASE RefreshShows
  BY <1>8, StepRefreshShows
<1>9. CASE SetSpeed
  <2>1. TypeOK'
    BY <1>9 DEF SetSpeed, LayerInv, TypeOK, senderVars, layerVars
  <2> QED
    BY <1>9, <2>1, StepOther DEF SetSpeed, senderVars, layerVars
<1>10. CASE Frame
  BY <1>10, StepFrame
<1>11. CASE UNCHANGED vars
  <2>1. TypeOK'
    BY <1>11 DEF LayerInv, TypeOK, vars, senderVars, pageVars, layerVars
  <2> QED
    BY <1>11, <2>1, StepOther DEF vars, senderVars, pageVars, layerVars
<1> QED
  BY <1>1, <1>2, <1>3, <1>4, <1>5, <1>6, <1>7, <1>8, <1>9, <1>10, <1>11 DEF Next

LEMMA InitLayerInv == Init => LayerInv
<1> SUFFICES ASSUME Init PROVE LayerInv
  OBVIOUS
<1>1. packet \in Spoken
  BY LayerAssumption DEF Init, NoPacket, Spoken, Packets, Lanes
<1>2. TypeOK
  BY <1>1, LayerAssumption DEF Init, TypeOK, Statuses
<1>3. Good(dots) /\ GoodBatch(log) /\ GoodBatch(events)
  BY EmptyLemma DEF Init
<1>4. Len(log) = 0 /\ Len(events) = 0 /\ \A j \in 1..0 : FALSE
  BY DEF Init
<1>5. LogInv /\ ShownInv
  BY <1>3, <1>4 DEF Init, LogInv, ShownInv
<1>6. OwedIsRed
  BY DEF Init, OwedIsRed, Owed, NoPacket, Nothing
<1> QED
  BY <1>2, <1>3, <1>5, <1>6 DEF LayerInv

LEMMA LayerInvHolds == Spec => []LayerInv
  BY InitLayerInv, StepKeepsLayerInv, PTL DEF Spec
-----------------------------------------------------------------------------
\* What the layer promises

\* The layer's values are of their types, those of the dots among them.
THEOREM TypeCorrect == Spec => []TypeOK
<1>1. LayerInv => TypeOK
  BY DEF LayerInv
<1> QED
  BY <1>1, LayerInvHolds, PTL

\* A packet has one dot on the way at most, whatever polls were late, refused or
\* overtaken by a refresh (PacketLayer.tsx:152-155, 227-239).
THEOREM OneDotPerPacketHolds == Spec => []OneDotPerPacket
<1>1. LayerInv => OneDotPerPacket
  <2> SUFFICES ASSUME LayerInv,
                      NEW i \in 1..Len(dots), NEW j \in 1..Len(dots),
                      IsData(dots[i]), IsData(dots[j]), dots[i].seq = dots[j].seq,
                      dots[i].phase # "timeout", dots[j].phase # "timeout"
               PROVE  i = j
    BY DEF OneDotPerPacket
  <2>1. dots \in Seq(Dot) /\ One(dots)
    BY DEF LayerInv, Good
  <2>2. dots[i] \in Dot
    BY <2>1
  <2>3. dots[i].seq \in Packets
    BY <2>2 DEF Dot
  <2>4. Active(dots[i], dots[i].seq) /\ Active(dots[j], dots[i].seq)
    BY DEF Active
  <2> QED
    BY <2>1, <2>3, <2>4 DEF One
<1> QED
  BY <1>1, LayerInvHolds, PTL
-----------------------------------------------------------------------------
\* The way back

Sums(w, n, f) == f = [k \in 0..n |-> IF k = 0 THEN 0 ELSE f[k - 1] + w[k]]

LEMMA SumsGrow ==
    ASSUME NEW w, NEW n \in Nat, NEW f, Sums(w, n, f)
    PROVE  \E g : Sums(w, n + 1, g)
<1> DEFINE g == [k \in 0..(n + 1) |-> IF k = 0 THEN 0 ELSE f[k - 1] + w[k]]
<1>1. f = [k \in 0..n |-> IF k = 0 THEN 0 ELSE f[k - 1] + w[k]]
  BY DEF Sums
<1>2. \A k \in 0..n : g[k] = f[k]
  BY <1>1
<1>3. \A k \in 0..(n + 1) : k = 0 \/ k - 1 \in 0..n
  OBVIOUS
<1>4. \A k \in 0..(n + 1) : k # 0 => g[k - 1] = f[k - 1]
  BY <1>2, <1>3
<1>5. g = [k \in 0..(n + 1) |-> IF k = 0 THEN 0 ELSE g[k - 1] + w[k]]
  BY <1>4
<1> HIDE DEF g
<1> QED
  BY <1>5 DEF Sums

LEMMA SumsExist ==
    ASSUME NEW w, NEW n \in Nat
    PROVE  \E f : Sums(w, n, f)
<1> DEFINE None == {m \in Nat : ~ \E f : Sums(w, m, f)}
<1>1. \E f : Sums(w, 0, f)
  <2> DEFINE f == [k \in 0..0 |-> 0]
  <2>1. f = [k \in 0..0 |-> IF k = 0 THEN 0 ELSE f[k - 1] + w[k]]
    OBVIOUS
  <2> HIDE DEF f
  <2> QED
    BY <2>1 DEF Sums
<1>2. ASSUME None # {} PROVE FALSE
  <2>1. PICK m \in None : \A k \in None : m <= k
    BY <1>2, SmallestInNat
  <2>2. m \in Nat /\ m # 0
    BY <1>1
  <2>3. m - 1 \in Nat /\ m - 1 \notin None /\ (m - 1) + 1 = m
    BY <2>1, <2>2
  <2>4. PICK f : Sums(w, m - 1, f)
    BY <2>3
  <2>5. \E g : Sums(w, m, g)
    BY <2>3, <2>4, SumsGrow
  <2> QED
    BY <2>1, <2>5
<1> QED
  BY <1>2

\* The ends of the links are numbers, each later than the one before.
LEMMA EndingLemma ==
    ASSUME NEW w \in Seq(Nat \ {0}), NEW n \in Nat, n = Len(w)
    PROVE  /\ Ending(w)[0] = 0
           /\ \A k \in 1..n : Ending(w)[k] = Ending(w)[k - 1] + w[k]
           /\ \A k \in 0..n : Ending(w)[k] \in Nat
           /\ \A j, k \in 0..n : j < k => Ending(w)[j] < Ending(w)[k]
<1> DEFINE E == Ending(w)
<1>1. E = CHOOSE f : Sums(w, n, f)
  BY DEF Ending, Sums
<1> HIDE DEF E
<1>2. Sums(w, n, E)
  BY <1>1, SumsExist
<1>3. E = [k \in 0..n |-> IF k = 0 THEN 0 ELSE E[k - 1] + w[k]]
  BY <1>2 DEF Sums
<1>4. E[0] = 0
  <2>1. 0 \in 0..n
    OBVIOUS
  <2> QED
    BY <1>3, <2>1
<1>5. \A k \in 1..n : E[k] = E[k - 1] + w[k]
  <2>1. \A k \in 1..n : k \in 0..n /\ k # 0
    OBVIOUS
  <2> QED
    BY <1>3, <2>1
<1>6. \A k \in 1..n : w[k] \in Nat /\ w[k] > 0
  OBVIOUS
<1> DEFINE None == {k \in Nat : k <= n /\ E[k] \notin Nat}
<1>7. ASSUME None # {} PROVE FALSE
  <2>1. PICK m \in None : \A k \in None : m <= k
    BY <1>7, SmallestInNat
  <2>2. m \in 1..n
    BY <1>4, <2>1
  <2>3. m - 1 \in Nat /\ m - 1 <= n /\ m - 1 \notin None
    BY <2>1, <2>2
  <2>4. E[m - 1] \in Nat
    BY <2>3
  <2>5. E[m] \in Nat
    BY <1>5, <1>6, <2>2, <2>4
  <2> QED
    BY <2>1, <2>5
<1>8. \A k \in 0..n : E[k] \in Nat
  BY <1>7
<1>9. ASSUME NEW j \in 0..n, NEW k \in 0..n, j < k PROVE E[j] < E[k]
  <2> DEFINE Low == {m \in Nat : m <= n /\ j < m /\ ~(E[j] < E[m])}
  <2>1. ASSUME Low # {} PROVE FALSE
    <3>1. PICK m \in Low : \A i \in Low : m <= i
      BY <2>1, SmallestInNat
    <3>2. m \in 1..n /\ m - 1 \in 0..n /\ m - 1 \in Nat /\ m - 1 \notin Low /\ j <= m - 1
      BY <3>1
    <3>3. E[m] = E[m - 1] + w[m] /\ E[m - 1] \in Nat /\ w[m] \in Nat /\ w[m] > 0 /\ E[j] \in Nat
      BY <1>5, <1>6, <1>8, <3>2
    <3>4. j = m - 1 \/ E[j] < E[m - 1]
      BY <3>2
    <3>5. E[j] <= E[m - 1]
      BY <3>3, <3>4
    <3>6. E[j] < E[m]
      BY <3>3, <3>5
    <3> QED
      BY <3>1, <3>6
  <2> QED
    BY <1>9, <2>1
<1> QED
  BY <1>4, <1>5, <1>8, <1>9 DEF E

\* The sums of the mirrored links.
LEMMA MirrorLemma ==
    ASSUME NEW w \in Seq(Nat \ {0}), NEW r \in Seq(Nat \ {0}), NEW n \in Nat,
           n = Len(w), n = Len(r), \A i \in 1..n : r[i] = w[n + 1 - i]
    PROVE  \A k \in 0..n : Ending(r)[k] = Ending(w)[n] - Ending(w)[n - k]
<1> DEFINE E == Ending(w)
           F == Ending(r)
<1>1. \A k \in 1..n : E[k] = E[k - 1] + w[k]
  BY EndingLemma
<1>5. \A k \in 1..n : w[k] \in Nat
  <2> SUFFICES ASSUME NEW k \in 1..n PROVE w[k] \in Nat
    OBVIOUS
  <2>1. w[k] \in Nat \ {0}
    BY ElementOfSeq
  <2> QED
    BY <2>1
<1>2. F[0] = 0 /\ \A k \in 1..n : F[k] = F[k - 1] + r[k]
  BY EndingLemma
<1>3. \A k \in 0..n : E[k] \in Nat /\ F[k] \in Nat
  BY EndingLemma
<1> HIDE DEF E, F
<1> DEFINE None == {k \in Nat : k <= n /\ F[k] # E[n] - E[n - k]}
<1>4. ASSUME None # {} PROVE FALSE
  <2>1. PICK m \in None : \A k \in None : m <= k
    BY <1>4, SmallestInNat
  <2>2. m # 0
    BY <1>2, <1>3, <2>1
  <2>10. m \in 1..n /\ m - 1 \in Nat /\ m - 1 <= n /\ ~(m <= m - 1)
    BY <2>1, <2>2
  <2>3. m \in 1..n /\ m - 1 \in Nat /\ m - 1 <= n /\ m - 1 \notin None
    BY <2>1, <2>10
  <2> DEFINE c == n + 1 - m
  <2>4. c \in 1..n /\ c - 1 = n - m /\ c = n - (m - 1)
    BY <2>3
  <2>5. F[m - 1] = E[n] - E[c]
    BY <2>3, <2>4
  <2>6. F[m] = F[m - 1] + w[c]
    BY <1>2, <2>3
  <2>7. E[c] = E[c - 1] + w[c] /\ w[c] \in Nat /\ E[c] \in Nat /\ E[c - 1] \in Nat /\ E[n] \in Nat
    BY <1>1, <1>3, <1>5, <2>4
  <2>8. E[c - 1] = E[n - m]
    BY <2>4
  <2> HIDE DEF c
  <2>9. F[m] = E[n] - E[c - 1]
    BY <2>5, <2>6, <2>7
  <2> QED
    BY <2>1, <2>8, <2>9
<1>6. ASSUME NEW k \in 0..n PROVE F[k] = E[n] - E[n - k]
  <2>1. k \in Nat /\ k <= n
    OBVIOUS
  <2>2. k \notin None
    BY <1>4
  <2> QED
    BY <2>1, <2>2
<1> QED
  BY <1>6 DEF E, F

At(from, to, part, whole) == [from |-> from, to |-> to, part |-> part, whole |-> whole]

\* After a time of e a dot is on link i, the first it has not behind it.
OnLink(path, w, e, i) ==
    /\ i \in 1..Len(w)
    /\ Ending(w)[i - 1] <= e /\ e <= Ending(w)[i]
    /\ \A j \in 1..Len(w) : e <= Ending(w)[j] => i <= j
    /\ PosAlong(path, w, e) = At(path[i], path[i + 1], e - Ending(w)[i - 1], w[i])

\* A dot that is not late is on a link.
LEMMA PosLemma ==
    ASSUME NEW path, NEW w \in Seq(Nat \ {0}), Len(w) # 0, NEW e \in 0..Ending(w)[Len(w)]
    PROVE  \E i \in 1..Len(w) : OnLink(path, w, e, i)
<1> DEFINE n == Len(w)
<1>0. n \in Nat /\ n # 0 /\ e \in 0..Ending(w)[n]
  OBVIOUS
<1>20. n = Len(w)
  OBVIOUS
<1> HIDE DEF n
<1> DEFINE E == Ending(w)
           S == {j \in 1..n : e <= E[j] \/ j = n}
<1>1. E[0] = 0 /\ \A k \in 1..n : E[k] = E[k - 1] + w[k] /\ w[k] \in Nat
  BY <1>0, <1>20, EndingLemma
<1>2. \A k \in 0..n : E[k] \in Nat
  BY <1>0, <1>20, EndingLemma
<1>3. PosAlong(path, w, e) =
         LET i == Least(S)
             t == Max({0, e}) - E[i - 1]
         IN [from |-> path[i], to |-> path[i + 1], part |-> Min({t, w[i]}), whole |-> w[i]]
  BY <1>20 DEF PosAlong
<1>4. e \in Nat /\ e <= E[n]
  BY <1>0, <1>2
<1> HIDE DEF E
<1>5. S \subseteq Nat /\ n \in S
  BY <1>0
<1>6. PICK i \in S : \A k \in S : i <= k
  BY <1>5, SmallestInNat
<1>7. Least(S) = i
  <2>1. \A x \in S : (\A y \in S : x <= y) => x = i
    BY <1>5, <1>6
  <2> QED
    BY <1>6, <2>1 DEF Least, Min
<1>8. i \in 1..n /\ e <= E[i] /\ \A j \in 1..n : e <= E[j] => i <= j
  BY <1>4, <1>6
<1>9. E[i - 1] <= e
  <2>1. CASE i = 1
    BY <1>1, <1>4, <2>1
  <2>2. CASE i # 1
    <3>1. i - 1 \in 1..n /\ i - 1 \in 0..n /\ ~(i <= i - 1)
      BY <1>0, <1>8, <2>2
    <3>2. ~(e <= E[i - 1])
      BY <1>8, <3>1
    <3> QED
      BY <1>2, <1>4, <3>1, <3>2
  <2> QED
    BY <2>1, <2>2
<1>10. Max({0, e}) = e
  BY <1>4 DEF Max
<1>11. i - 1 \in 0..n /\ E[i] = E[i - 1] + w[i] /\ w[i] \in Nat /\ E[i - 1] \in Nat
  <2>1. i - 1 \in 0..n
    BY <1>0, <1>8
  <2> QED
    BY <1>1, <1>2, <1>8, <2>1
<1>12. e - E[i - 1] \in Nat /\ e - E[i - 1] <= w[i]
  BY <1>4, <1>8, <1>9, <1>11
<1>13. Min({e - E[i - 1], w[i]}) = e - E[i - 1]
  <2> DEFINE a == e - E[i - 1]
             b == w[i]
  <2>1. a \in Nat /\ b \in Nat /\ a <= b
    BY <1>11, <1>12
  <2> HIDE DEF a, b
  <2>2. Min({a, b}) = a
    BY <2>1 DEF Min
  <2> QED
    BY <2>2 DEF a, b
<1>14. PosAlong(path, w, e) = At(path[i], path[i + 1], e - E[i - 1], w[i])
  BY <1>3, <1>7, <1>10, <1>13 DEF At
<1>15. OnLink(path, w, e, i)
  BY <1>8, <1>9, <1>14, <1>20 DEF OnLink, E
<1> QED
  BY <1>8, <1>15, <1>20

\* How near a position is.
LEMMA NearLemma ==
    ASSUME NEW from, NEW to, from # to, NEW part, NEW whole, NEW node
    PROVE  LET pos == At(from, to, part, whole)
           IN  /\ node = from => Near(pos, node) = whole - part
               /\ node = to => Near(pos, node) = part
               /\ node # from /\ node # to => Near(pos, node) = 0
  BY DEF Near, At

\* On the same link, from its two sides.
LEMMA SameLink ==
    ASSUME NEW a, NEW b, a # b, NEW whole \in Nat, NEW part \in Nat, part <= whole
    PROVE  SamePoint(At(b, a, whole - part, whole), At(a, b, part, whole))
<1> DEFINE p == At(b, a, whole - part, whole)
           q == At(a, b, part, whole)
<1>1. ASSUME NEW node PROVE Near(p, node) = Near(q, node)
  <2>1. CASE node = a
    <3>1. Near(p, node) = whole - part /\ Near(q, node) = whole - part
      BY <2>1, NearLemma
    <3> QED
      BY <3>1
  <2>2. CASE node = b
    <3>1. Near(p, node) = whole - (whole - part) /\ Near(q, node) = part
      BY <2>2, NearLemma
    <3>2. whole - (whole - part) = part
      OBVIOUS
    <3> QED
      BY <3>1, <3>2
  <2>3. CASE node # a /\ node # b
    <3>1. Near(p, node) = 0 /\ Near(q, node) = 0
      BY <2>3, NearLemma
    <3> QED
      BY <3>1
  <2> QED
    BY <2>1, <2>2, <2>3
<1>2. p.whole = q.whole
  BY DEF At
<1> HIDE DEF p, q
<1>3. SamePoint(p, q)
  BY <1>1, <1>2 DEF SamePoint
<1> QED
  BY <1>3 DEF p, q

\* At the end of two links that meet there.
LEMMA SameEnd ==
    ASSUME NEW a, NEW b, NEW c, a # b, c # b, NEW v \in Nat, NEW u \in Nat
    PROVE  SamePoint(At(a, b, v, v), At(c, b, u, u))
<1> DEFINE p == At(a, b, v, v)
           q == At(c, b, u, u)
<1>1. v - v = 0 /\ u - u = 0 /\ 0 * u = 0 /\ 0 * v = 0 /\ v * u = u * v
  OBVIOUS
<1>2. p.whole = v /\ q.whole = u
  BY DEF At
<1>3. ASSUME NEW node PROVE Near(p, node) * q.whole = Near(q, node) * p.whole
  <2>1. CASE node = b
    <3>1. Near(p, node) = v /\ Near(q, node) = u
      BY <2>1, NearLemma
    <3> HIDE DEF p, q
    <3> QED
      BY <1>1, <1>2, <3>1
  <2>2. CASE node # b
    <3>1. Near(p, node) = 0
      <4>1. CASE node = a
        <5>1. Near(p, node) = v - v
          BY <4>1, NearLemma
        <5> QED
          BY <1>1, <5>1
      <4>2. CASE node # a
        BY <2>2, <4>2, NearLemma
      <4> QED
        BY <4>1, <4>2
    <3>2. Near(q, node) = 0
      <4>1. CASE node = c
        <5>1. Near(q, node) = u - u
          BY <4>1, NearLemma
        <5> QED
          BY <1>1, <5>1
      <4>2. CASE node # c
        BY <2>2, <4>2, NearLemma
      <4> QED
        BY <4>1, <4>2
    <3> HIDE DEF p, q
    <3> QED
      BY <1>1, <1>2, <3>1, <3>2
  <2> QED
    BY <2>1, <2>2
<1> HIDE DEF p, q
<1>4. SamePoint(p, q)
  BY <1>3 DEF SamePoint
<1> QED
  BY <1>4 DEF p, q

\* A dot on its way back is where the dot on its way there was as long before its
\* arrival.
LEMMA WayBackLemma ==
    ASSUME NEW w \in Seq(Nat \ {0}), NEW r \in Seq(Nat \ {0}), NEW n \in Nat,
           n = Len(w), n = Len(r), n # 0, \A i \in 1..n : r[i] = w[n + 1 - i],
           NEW ids, NEW back, \A i \in 1..n : ids[i] # ids[i + 1],
           \A i \in 1..(n + 1) : back[i] = ids[n + 2 - i],
           NEW e \in 0..Ending(w)[n]
    PROVE  SamePoint(PosAlong(back, r, e), PosAlong(ids, w, Ending(w)[n] - e))
<1> DEFINE E == Ending(w)
           F == Ending(r)
           f == E[n] - e
<1>1. E[0] = 0 /\ (\A k \in 1..n : E[k] = E[k - 1] + w[k]) /\ (\A k \in 0..n : E[k] \in Nat)
  BY EndingLemma
<1>2. \A j, k \in 0..n : j < k => E[j] < E[k]
  BY EndingLemma
<1>3. \A k \in 0..n : F[k] = E[n] - E[n - k]
  BY MirrorLemma
<1>4. F[n] = E[n] /\ E[n] \in Nat
  <2>1. n \in 0..n /\ n - n = 0 /\ E[n] \in Nat
    BY <1>1
  <2> QED
    BY <1>1, <1>3, <2>1
<1>7. e \in 0..E[n]
  OBVIOUS
<1>8. Ending(w)[n] - e = f
  OBVIOUS
<1>9. e \in 0..F[n] /\ f \in 0..E[n] /\ e \in Nat /\ f \in Nat /\ e = E[n] - f
  BY <1>4, <1>7
<1> HIDE DEF f
<1>5. PICK i \in 1..n : OnLink(back, r, e, i)
  BY <1>9, PosLemma
<1>6. PICK k \in 1..n : OnLink(ids, w, f, k)
  BY <1>9, PosLemma
<1>10. /\ i \in 1..n /\ F[i - 1] <= e /\ e <= F[i]
       /\ PosAlong(back, r, e) = At(back[i], back[i + 1], e - F[i - 1], r[i])
  BY <1>5 DEF OnLink
<1>11. /\ k \in 1..n /\ E[k - 1] <= f /\ f <= E[k] /\ \A j \in 1..n : f <= E[j] => k <= j
       /\ PosAlong(ids, w, f) = At(ids[k], ids[k + 1], f - E[k - 1], w[k])
  BY <1>6 DEF OnLink
<1> HIDE DEF E, F
<1> DEFINE c == n + 1 - i
<1>12. c \in 1..n /\ c - 1 \in 0..n /\ c \in 0..n /\ i \in 0..n /\ i - 1 \in 0..n
       /\ n - i = c - 1 /\ n - (i - 1) = c /\ n + 2 - i = c + 1 /\ n + 2 - (i + 1) = c
       /\ i \in 1..(n + 1) /\ i + 1 \in 1..(n + 1)
  BY <1>10
<1>13. r[i] = w[c] /\ back[i] = ids[c + 1] /\ back[i + 1] = ids[c] /\ ids[c] # ids[c + 1]
  BY <1>10, <1>12
<1> HIDE DEF c
<1>14. F[i] = E[n] - E[c - 1] /\ F[i - 1] = E[n] - E[c]
  BY <1>3, <1>12
<1>15. E[c] = E[c - 1] + w[c] /\ E[c] \in Nat /\ E[c - 1] \in Nat
  BY <1>1, <1>12
<1>16. w[c] \in Nat /\ w[k] \in Nat
  <2>1. w[c] \in Nat \ {0} /\ w[k] \in Nat \ {0}
    BY <1>11, <1>12, ElementOfSeq
  <2> QED
    BY <2>1
<1>17. E[k] = E[k - 1] + w[k] /\ E[k] \in Nat /\ E[k - 1] \in Nat
  <2>1. k \in 0..n /\ k - 1 \in 0..n
    BY <1>11
  <2> QED
    BY <1>1, <1>11, <2>1
<1>18. E[c - 1] <= f /\ f <= E[c] /\ e - F[i - 1] = E[c] - f
  <2>1. E[n] - E[c] <= E[n] - f /\ E[n] - f <= E[n] - E[c - 1]
    BY <1>9, <1>10, <1>14
  <2>2. \A x, y, z \in Nat : x - y <= x - z => z <= y
    OBVIOUS
  <2>3. E[c - 1] <= f /\ f <= E[c]
    BY <1>4, <1>9, <1>15, <2>1, <2>2
  <2>4. \A x, y, z \in Nat : (x - z) - (x - y) = y - z
    OBVIOUS
  <2>5. e - F[i - 1] = (E[n] - f) - (E[n] - E[c])
    BY <1>9, <1>14
  <2> QED
    BY <1>4, <1>9, <1>15, <2>3, <2>4, <2>5
<1>19. k <= c /\ (k = c \/ k + 1 = c) /\ (k + 1 = c => f = E[c - 1] /\ f = E[k])
  <2>1. k <= c
    BY <1>11, <1>12, <1>18
  <2>6. PICK h \in 0..n : h = c - 1
    BY <1>12
  <2>7. k \in 0..n
    OBVIOUS
  <2>2. k < h => E[k] < E[h]
    BY <1>2, <2>7
  <2>3. E[h] <= f /\ f <= E[k] /\ E[h] \in Nat /\ E[k] \in Nat
    BY <1>11, <1>15, <1>17, <1>18, <2>6
  <2>8. ~(E[k] < E[h])
    BY <1>9, <2>3
  <2>4. ~(k < c - 1)
    BY <2>2, <2>6, <2>8
  <2>5. ASSUME k + 1 = c PROVE f = E[c - 1] /\ f = E[k]
    <3>1. c - 1 = k
      BY <1>12, <2>5
    <3>2. E[k] <= f /\ f <= E[k] /\ E[k] \in Nat
      BY <1>11, <1>17, <1>18, <3>1
    <3> QED
      BY <1>9, <3>1, <3>2
  <2> QED
    BY <1>12, <2>1, <2>4, <2>5
<1> DEFINE lo == E[c - 1]
           hi == E[c]
           before == E[k - 1]
           behind == E[k]
           wc == w[c]
           wk == w[k]
           part == f - lo
<1>22. hi = lo + wc /\ behind = before + wk /\ lo <= f /\ f <= hi
  BY <1>15, <1>17, <1>18
<1>23. lo \in Nat /\ hi \in Nat /\ wc \in Nat /\ wk \in Nat /\ before \in Nat /\ behind \in Nat
  BY <1>15, <1>16, <1>17
<1>24. PosAlong(back, r, e) = At(ids[c + 1], ids[c], hi - f, wc)
  BY <1>10, <1>13, <1>18
<1>25. PosAlong(ids, w, f) = At(ids[k], ids[k + 1], f - before, wk)
  BY <1>11
<1>26. (k = c => before = lo /\ wk = wc) /\ (k + 1 = c => f = lo /\ f = behind)
  BY <1>19
<1> HIDE DEF c, lo, hi, before, behind, wc, wk
<1>27. part \in Nat /\ part <= wc /\ hi - f = wc - part
  BY <1>9, <1>22, <1>23
<1> HIDE DEF part
<1>20. CASE k = c
  <2>1. PosAlong(ids, w, f) = At(ids[c], ids[c + 1], part, wc)
    BY <1>20, <1>25, <1>26 DEF part
  <2>2. PosAlong(back, r, e) = At(ids[c + 1], ids[c], wc - part, wc)
    BY <1>24, <1>27
  <2>3. SamePoint(PosAlong(back, r, e), PosAlong(ids, w, f))
    <3> DEFINE a == ids[c]
               b == ids[c + 1]
    <3>1. a # b /\ PosAlong(ids, w, f) = At(a, b, part, wc)
          /\ PosAlong(back, r, e) = At(b, a, wc - part, wc)
      BY <1>13, <2>1, <2>2
    <3> HIDE DEF a, b
    <3>2. SamePoint(At(b, a, wc - part, wc), At(a, b, part, wc))
      BY <1>23, <1>27, <3>1, SameLink
    <3> QED
      BY <3>1, <3>2
  <2> QED
    BY <1>8, <2>3
<1>21. CASE k + 1 = c
  <2>1. hi - f = wc /\ f - before = wk
    BY <1>21, <1>22, <1>23, <1>26
  <2>2. PosAlong(back, r, e) = At(ids[c + 1], ids[c], wc, wc)
    BY <1>24, <2>1
  <2>3. PosAlong(ids, w, f) = At(ids[k], ids[c], wk, wk)
    BY <1>21, <1>25, <2>1
  <2>4. ids[k] # ids[c]
    BY <1>11, <1>21
  <2>5. SamePoint(PosAlong(back, r, e), PosAlong(ids, w, f))
    BY <1>13, <1>23, <2>2, <2>3, <2>4, SameEnd
  <2> QED
    BY <1>8, <2>5
<1> QED
  BY <1>19, <1>20, <1>21

\* The links of a lane have weights.
LEMMA WeightsLemma ==
    ASSUME NEW ids, NEW m \in Nat, m = Len(ids), m >= 2
    PROVE  /\ LinkWeights(Graph, ids) \in Seq(Nat \ {0})
           /\ Len(LinkWeights(Graph, ids)) = m - 1
<1> DEFINE weight(i) == IF Ends(ids, i) \in Graph.links THEN Max({1, Graph.latency[Ends(ids, i)]})
                        ELSE 10
<1>1. Graph.links = Topology.links /\ Graph.latency = Topology.latency
  BY DEF Graph, PresetGraph
<1>2. ASSUME NEW i \in 1..(m - 1) PROVE weight(i) \in Nat \ {0}
  <2>1. CASE Ends(ids, i) \in Graph.links
    <3> DEFINE x == Graph.latency[Ends(ids, i)]
    <3>1. x \in Nat
      BY <1>1, <2>1, LayerAssumption
    <3> HIDE DEF x
    <3>2. Max({1, x}) \in Nat \ {0}
      <4>1. CASE x <= 1
        <5>1. Max({1, x}) = 1
          BY <3>1, <4>1 DEF Max
        <5> QED
          BY <5>1
      <4>2. CASE x > 1
        <5>1. Max({1, x}) = x
          BY <3>1, <4>2 DEF Max
        <5> QED
          BY <3>1, <4>2, <5>1
      <4> QED
        BY <3>1, <4>1, <4>2
    <3> QED
      BY <2>1, <3>2 DEF x
  <2>2. CASE Ends(ids, i) \notin Graph.links
    BY <2>2
  <2> QED
    BY <2>1, <2>2
<1>3. LinkWeights(Graph, ids) = [i \in 1..(m - 1) |-> weight(i)]
  BY DEF LinkWeights
<1> HIDE DEF weight
<1>4. m - 1 \in Nat
  OBVIOUS
<1> QED
  BY <1>2, <1>3, <1>4

LEMMA RetracesLemma ==
    ASSUME NEW l \in Lanes, LanePath(Graph, l) # NoPath
    PROVE  /\ Reverse(LanePath(Graph, l))[1] = Topology.dest
           /\ Last(Reverse(LanePath(Graph, l))) = Topology.source
           /\ Retraces(Reverse(LanePath(Graph, l)))
<1> DEFINE ids == LanePath(Graph, l)
           back == Reverse(ids)
           m == Len(ids)
           n == m - 1
           w == LinkWeights(Graph, ids)
           T == BuildTimings(Graph, ids, 1, FALSE)
           R == BuildTimings(Graph, ids, 1, TRUE)
<1>1. ids \in Seq(Topology.nodes) /\ LeadsThere(ids)
  BY LayerAssumption
<1>2. m >= 2
  BY DEF LanePath, PathOf
<1> HIDE DEF ids
<1>3. m \in Nat /\ n \in Nat /\ n # 0 /\ m = n + 1
  BY <1>1, <1>2
<1>4. back \in Seq(Topology.nodes) /\ Len(back) = m /\ \A i \in 1..m : back[i] = ids[m - i + 1]
  BY <1>1, ReverseLemma
<1>5. Reverse(back) = ids
  <2>1. Reverse(back) \in Seq(Topology.nodes) /\ Len(Reverse(back)) = m
        /\ \A i \in 1..m : Reverse(back)[i] = back[m - i + 1]
    BY <1>4, ReverseLemma
  <2>2. \A i \in 1..m : m - i + 1 \in 1..m /\ m - (m - i + 1) + 1 = i
    BY <1>3
  <2>3. \A i \in 1..m : Reverse(back)[i] = ids[i]
    BY <1>4, <2>1, <2>2
  <2> QED
    BY <1>1, <2>1, <2>3, SeqEqual
<1>6. w \in Seq(Nat \ {0}) /\ Len(w) = n
  BY <1>2, <1>3, WeightsLemma
<1>7. Reverse(w) \in Seq(Nat \ {0}) /\ Len(Reverse(w)) = n
      /\ \A i \in 1..n : Reverse(w)[i] = w[n - i + 1]
  <2> HIDE DEF w, n
  <2> QED
    BY <1>6, ReverseLemma
<1>8. T = [i \in 1..Len(w) |-> w[i] * 1] /\ R = [i \in 1..Len(Reverse(w)) |-> Reverse(w)[i] * 1]
  BY DEF BuildTimings
<1> HIDE DEF w, T, R, back, m, n
<1>9. \A i \in 1..n : w[i] \in Nat \ {0} /\ w[i] * 1 = w[i]
  <2>1. \A i \in 1..n : w[i] \in Nat \ {0}
    BY <1>6, ElementOfSeq
  <2> QED
    BY <2>1
<1>10. \A i \in 1..n : Reverse(w)[i] \in Nat \ {0} /\ Reverse(w)[i] * 1 = Reverse(w)[i]
  <2>1. \A i \in 1..n : Reverse(w)[i] \in Nat \ {0}
    BY <1>7, ElementOfSeq
  <2> QED
    BY <2>1
<1>11. T \in Seq(Nat \ {0}) /\ Len(T) = n /\ \A i \in 1..n : T[i] = w[i]
  BY <1>3, <1>6, <1>8, <1>9
<1>12. R \in Seq(Nat \ {0}) /\ Len(R) = n /\ \A i \in 1..n : R[i] = w[n - i + 1]
  BY <1>3, <1>7, <1>8, <1>10
<1>13. \A i \in 1..n : R[i] = T[n + 1 - i]
  <2>1. \A i \in 1..n : n + 1 - i \in 1..n /\ n - i + 1 = n + 1 - i
    BY <1>3
  <2> QED
    BY <1>11, <1>12, <2>1
<1>14. \A i \in 1..n : ids[i] # ids[i + 1]
  BY <1>1 DEF LeadsThere, n, m
<1>15. \A i \in 1..(n + 1) : back[i] = ids[n + 2 - i]
  <2>1. \A i \in 1..(n + 1) : m - i + 1 = n + 2 - i /\ i \in 1..m
    BY <1>3
  <2> QED
    BY <1>4, <2>1
<1>16. \A e \in 0..Ending(T)[n] :
          SamePoint(PosAlong(back, R, e), PosAlong(ids, T, Ending(T)[n] - e))
  BY <1>3, <1>11, <1>12, <1>13, <1>14, <1>15, WayBackLemma
<1>17. TotalOf(T) = Ending(T)[n]
  BY <1>11 DEF TotalOf
<1>18. Retraces(back)
  BY <1>5, <1>16, <1>17 DEF Retraces, T, R
<1>19. back[1] = ids[m] /\ back[m] = ids[1]
  <2>1. 1 \in 1..m /\ m \in 1..m /\ m - 1 + 1 = m /\ m - m + 1 = 1
    BY <1>3
  <2> QED
    BY <1>4, <2>1
<1>20. back[1] = Topology.dest /\ Last(back) = Topology.source
  BY <1>1, <1>4, <1>19 DEF LeadsThere, Last, m
<1> QED
  BY <1>18, <1>20 DEF back, ids

\* An ACK is drawn only of a packet that was acknowledged, whatever order events and
\* arrivals come in, and retraces its lane at every moment, however slow each of its
\* links is (PacketLayer.tsx:109-133; lib/anim.ts:23-67).
THEOREM AcksAreRealHolds == Spec => []AcksAreReal
<1>1. LayerInv => AcksAreReal
  <2> SUFFICES ASSUME LayerInv, NEW i \in 1..Len(dots), dots[i].dir = "ack"
               PROVE  /\ dots[i].seq \in acked
                      /\ dots[i].path[1] = Topology.dest /\ Last(dots[i].path) = Topology.source
                      /\ Retraces(dots[i].path)
    BY DEF AcksAreReal
  <2>1. dots[i] \in Dot /\ AckIsReal(dots[i])
    BY DEF LayerInv, Good
  <2>2. /\ dots[i].seq \in acked /\ dots[i].lane \in Lanes
        /\ LanePath(Graph, dots[i].lane) # NoPath
        /\ dots[i].path = Reverse(LanePath(Graph, dots[i].lane))
    BY <2>1 DEF AckIsReal, Dot
  <2> QED
    BY <2>2, RetracesLemma
<1> QED
  BY <1>1, LayerInvHolds, PTL
=============================================================================
