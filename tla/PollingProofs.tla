---------------------------- MODULE PollingProofs ----------------------------
(***************************************************************************)
(* What EventLog and StatusPolling keep, for any packets, sizes of the     *)
(* ring, the table and the answers, and any number of transfers, events    *)
(* and polls.                                                              *)
(*                                                                         *)
(* The log is consistent because the ring is always the last ids in a row  *)
(* and the order never longer than the table may be, so that the row that  *)
(* leaves is not the one just written.  An answer then begins after the    *)
(* cursor it was asked with; the controller may move on while the answer   *)
(* is on its way, the answer does not change.                              *)
(***************************************************************************)
EXTENDS StatusPolling, SequenceTheorems, TLAPS

\* The order is never longer than the table may be between two calls.
LogInv == LogConsistent /\ Len(order) <= MaxRows

\* Events that are newer than "after", not newer than "upto", and ascend.
Between(es, after, upto) ==
    /\ \A i \in 1..Len(es) : es[i].id > after /\ es[i].id <= upto
    /\ \A i, j \in 1..Len(es) : i < j => es[i].id < es[j].id

\* The client has never drained more than there is, and an answer on its way is
\* one to the cursor it still has.
TickInv ==
    /\ cursor \in Int /\ cursor < nextId
    /\ tick.at \in {"events", "rows"} =>
          /\ tick.told.cursor \in Int
          /\ cursor <= tick.told.cursor /\ tick.told.cursor < nextId
          /\ Between(tick.told.events, cursor, tick.told.cursor)

PollInv == LogInv /\ TickInv
-----------------------------------------------------------------------------
(* The ring and the table *)

\* s[-n:] is no longer than n, and its elements are the last ones of s, in their order.
LEMMA NewestLemma ==
    ASSUME NEW S, NEW s \in Seq(S), NEW n \in Nat \ {0}
    PROVE  /\ Newest(s, n) \in Seq(S)
           /\ Len(Newest(s, n)) = (IF Len(s) <= n THEN Len(s) ELSE n)
           /\ \A i \in 1..Len(Newest(s, n)) : Newest(s, n)[i] = s[i + Len(s) - Len(Newest(s, n))]
  <1>1. CASE Len(s) <= n
    <2>1. Newest(s, n) = s
      BY <1>1 DEF Newest
    <2> QED BY <1>1, <2>1
  <1>2. CASE Len(s) > n
    <2> DEFINE m == Len(s) - n + 1
               t == SubSeq(s, m, Len(s))
    <2>1. m \in 1..Len(s) /\ Len(s) \in Nat /\ Len(s) - m + 1 = n
      BY <1>2
    <2>2. t \in Seq(S) /\ Len(t) = n
      BY <1>2, <2>1
    <2>3. \A i \in 1..Len(t) : t[i] = s[i + Len(s) - n]
      BY <1>2, <2>1, <2>2
    <2>4. Newest(s, n) = t
      BY <1>2 DEF Newest
    <2> HIDE DEF t
    <2> QED BY <1>2, <2>2, <2>3, <2>4
  <1> QED BY <1>1, <1>2

\* A new transfer leaves a consistent log, and an empty one (event_log.py:28-32).
LEMMA ResetLemma == ASSUME LogInv, Reset PROVE LogInv'
  BY EventLogAssumption DEF LogInv, LogConsistent, LogTypeOK, Reset, NoRow, Event

\* The order after a transition: every packet of the new table once, and the new
\* packet never the one that leaves (event_log.py:51-58).
LEMMA RecordKeepsOrder ==
    ASSUME LogInv, NEW seq \in Packets, Record(seq)
    PROVE  /\ table' \in [Packets -> Nat] /\ order' \in Seq(Packets)
           /\ Len(order') <= MaxRows
           /\ \A i, j \in 1..Len(order') : order'[i] = order'[j] => i = j
           /\ {order'[i] : i \in 1..Len(order')} = {p \in Packets : table'[p] # NoRow}
           /\ table'[seq] = nextId
           /\ \A p \in Packets : table'[p] # NoRow => table'[p] \in {table[p], nextId}
  <1> DEFINE known  == table[seq] # NoRow
             listed == IF known THEN order ELSE Append(order, seq)
             full   == Len(listed) > MaxRows
  <1>1. /\ nextId \in Nat \ {0} /\ table \in [Packets -> Nat] /\ order \in Seq(Packets)
        /\ Len(order) <= MaxRows /\ MaxRows \in Nat \ {0}
        /\ \A i, j \in 1..Len(order) : order[i] = order[j] => i = j
        /\ {order[i] : i \in 1..Len(order)} = {p \in Packets : table[p] # NoRow}
    BY EventLogAssumption DEF LogInv, LogConsistent, LogTypeOK
  <1>2. /\ order' = IF full THEN Tail(listed) ELSE listed
        /\ table' = [p \in Packets |->
                        IF full /\ p = listed[1] THEN NoRow
                        ELSE IF p = seq THEN nextId ELSE table[p]]
    BY DEF Record
  <1>3. /\ listed \in Seq(Packets)
        /\ \A i, j \in 1..Len(listed) : listed[i] = listed[j] => i = j
        /\ {listed[i] : i \in 1..Len(listed)} = {p \in Packets : table[p] # NoRow} \cup {seq}
    <2>1. CASE known
      BY <1>1, <2>1
    <2>2. CASE ~known
      <3>1. \A i \in 1..Len(order) : order[i] # seq
        BY <1>1, <2>2
      <3>2. /\ listed = Append(order, seq) /\ Len(listed) = Len(order) + 1
            /\ listed[Len(order) + 1] = seq
            /\ \A i \in 1..Len(order) : listed[i] = order[i]
        BY <1>1, <2>2
      <3>3. \A i, j \in 1..Len(listed) : listed[i] = listed[j] => i = j
        BY <1>1, <3>1, <3>2
      <3>4. {listed[i] : i \in 1..Len(listed)} = {order[i] : i \in 1..Len(order)} \cup {seq}
        BY <1>1, <3>2
      <3> QED BY <1>1, <2>2, <3>3, <3>4
    <2> QED BY <2>1, <2>2
  <1>4. CASE ~full
    BY <1>1, <1>2, <1>3, <1>4 DEF NoRow
  <1>5. CASE full
    <2>1. /\ ~known /\ Len(listed) = Len(order) + 1 /\ Len(order) >= 1
          /\ listed[Len(listed)] = seq /\ listed[1] # seq
      BY <1>1, <1>3, <1>5
    <2>2. /\ order' \in Seq(Packets) /\ Len(order') = Len(listed) - 1
          /\ \A i \in 1..Len(order') : order'[i] = listed[i + 1]
      BY <1>2, <1>3, <1>5
    <2>3. \A i, j \in 1..Len(order') : order'[i] = order'[j] => i = j
      BY <1>3, <2>2
    <2>4. {order'[i] : i \in 1..Len(order')} = {listed[i] : i \in 1..Len(listed)} \ {listed[1]}
      <3>1. \A i \in 1..Len(order') : order'[i] # listed[1]
        BY <1>3, <2>2
      <3>2. \A k \in 1..Len(listed) : k # 1 => listed[k] = order'[k - 1] /\ k - 1 \in 1..Len(order')
        BY <1>3, <2>2
      <3>3. \A i \in 1..Len(order') : i + 1 \in 1..Len(listed) /\ order'[i] = listed[i + 1]
        BY <1>3, <2>2
      <3> HIDE DEF listed
      <3>4. {order'[i] : i \in 1..Len(order')} \subseteq {listed[i] : i \in 1..Len(listed)} \ {listed[1]}
        BY <3>1, <3>3
      <3>5. ASSUME NEW p \in {listed[i] : i \in 1..Len(listed)} \ {listed[1]}
            PROVE  p \in {order'[i] : i \in 1..Len(order')}
        BY <3>2
      <3> QED BY <3>4, <3>5
    <2>5. \A p \in Packets : table'[p] = IF p = listed[1] THEN NoRow
                                         ELSE IF p = seq THEN nextId ELSE table[p]
      BY <1>2, <1>5
    <2>6. table' \in [Packets -> Nat]
      BY <1>1, <1>2 DEF NoRow
    <2>7. {p \in Packets : table'[p] # NoRow}
              = ({p \in Packets : table[p] # NoRow} \cup {seq}) \ {listed[1]}
      BY <1>1, <2>1, <2>5 DEF NoRow
    <2>8. table'[seq] = nextId
      BY <2>1, <2>5
    <2>9. \A p \in Packets : table'[p] # NoRow => table'[p] \in {table[p], nextId}
      BY <2>5
    <2>10. Len(order') <= MaxRows
      BY <1>1, <2>1, <2>2
    <2>11. {order'[i] : i \in 1..Len(order')} = {p \in Packets : table'[p] # NoRow}
      BY <1>3, <2>4, <2>7
    <2> HIDE DEF listed, full, known
    <2> QED BY <2>2, <2>3, <2>6, <2>8, <2>9, <2>10, <2>11
  <1> QED BY <1>4, <1>5

\* The ring after a transition: the last ids in a row, the newest at its end
\* (event_log.py:59-72).
LEMMA RecordKeepsRing ==
    ASSUME LogInv, NEW seq \in Packets, Record(seq)
    PROVE  /\ stream' \in Seq(Event) /\ Len(stream') <= MaxStream /\ Len(stream') > 0
           /\ stream'[Len(stream')] = [id |-> nextId, seq |-> seq]
           /\ \A i \in 1..Len(stream') :
                  /\ stream'[i].id = nextId - Len(stream') + i
                  /\ i # Len(stream') =>
                        \E j \in 1..Len(stream) : stream'[i] = stream[j]
  <1> DEFINE e == [id |-> nextId, seq |-> seq]
             longer == Append(stream, e)
  <1>1. /\ nextId \in Nat \ {0} /\ stream \in Seq(Event) /\ Len(stream) <= MaxStream
        /\ MaxStream \in Nat \ {0}
        /\ \A i \in 1..Len(stream) : stream[i].id = nextId - 1 - Len(stream) + i
    BY EventLogAssumption DEF LogInv, LogConsistent, LogTypeOK
  <1>2. e \in Event /\ e.id = nextId
    BY <1>1 DEF Event
  <1>3. stream' = Newest(longer, MaxStream)
    BY DEF Record
  <1> HIDE DEF e
  <1>4. /\ longer \in Seq(Event) /\ Len(longer) = Len(stream) + 1
        /\ longer[Len(longer)] = e
        /\ \A i \in 1..Len(stream) : longer[i] = stream[i]
    BY <1>1, <1>2
  <1> HIDE DEF longer
  <1>5. \A i \in 1..Len(longer) : longer[i].id = nextId - Len(longer) + i
    BY <1>1, <1>2, <1>4
  <1>6. /\ stream' \in Seq(Event) /\ Len(stream') = (IF Len(longer) <= MaxStream THEN Len(longer) ELSE MaxStream)
        /\ \A i \in 1..Len(stream') : stream'[i] = longer[i + Len(longer) - Len(stream')]
    BY <1>1, <1>3, <1>4, NewestLemma
  <1>7. Len(stream') \in Nat /\ Len(longer) \in Nat /\ Len(stream) \in Nat /\ Len(stream') <= Len(longer)
    BY <1>1, <1>4, <1>6
  <1>8. \A i \in 1..Len(stream') : stream'[i].id = nextId - Len(stream') + i
    <2> TAKE i \in 1..Len(stream')
    <2> DEFINE k == i + Len(longer) - Len(stream')
    <2>1. k \in 1..Len(longer) /\ nextId - Len(longer) + k = nextId - Len(stream') + i
      BY <1>1, <1>7
    <2>2. stream'[i] = longer[k]
      BY <1>6
    <2> HIDE DEF k
    <2>3. longer[k].id = nextId - Len(longer) + k
      BY <1>5, <2>1
    <2> QED BY <2>1, <2>2, <2>3
  <1>9. \A i \in 1..Len(stream') : i # Len(stream') => \E j \in 1..Len(stream) : stream'[i] = stream[j]
    <2> SUFFICES ASSUME NEW i \in 1..Len(stream'), i # Len(stream')
                 PROVE  \E j \in 1..Len(stream) : stream'[i] = stream[j]
      OBVIOUS
    <2>1. i + Len(longer) - Len(stream') \in 1..Len(stream)
      BY <1>4, <1>7
    <2> QED BY <1>4, <1>6, <2>1
  <1>10. stream'[Len(stream')] = e /\ Len(stream') > 0
    <2>1. Len(stream') > 0 /\ Len(stream') + Len(longer) - Len(stream') = Len(longer)
      BY <1>1, <1>4, <1>6, <1>7
    <2>2. stream'[Len(stream')] = longer[Len(longer)]
      BY <1>6, <1>7, <2>1
    <2> QED BY <1>4, <2>1, <2>2
  <1> QED BY <1>1, <1>6, <1>7, <1>8, <1>9, <1>10 DEF e

\* A transition leaves a consistent log.
LEMMA RecordLemma ==
    ASSUME LogInv, NEW seq \in Packets, Record(seq)
    PROVE  LogInv'
  <1>1. /\ nextId \in Nat \ {0} /\ table \in [Packets -> Nat] /\ stream \in Seq(Event)
        /\ Len(stream) \in Nat
        /\ \A i \in 1..Len(stream) : stream[i].id = nextId - 1 - Len(stream) + i
    BY DEF LogInv, LogConsistent, LogTypeOK
  <1>8. \A i \in 1..Len(stream) : table[stream[i].seq] # NoRow => table[stream[i].seq] >= stream[i].id
    BY DEF LogInv, LogConsistent, LogTypeOK
  <1>2. nextId' = nextId + 1
    BY DEF Record
  <1> DEFINE Older(i) == \E j \in 1..Len(stream) : stream'[i] = stream[j]
  <1>3. /\ stream' \in Seq(Event) /\ Len(stream') <= MaxStream /\ Len(stream') > 0
        /\ stream'[Len(stream')] = [id |-> nextId, seq |-> seq]
        /\ \A i \in 1..Len(stream') : stream'[i].id = nextId - Len(stream') + i
    BY RecordKeepsRing
  <1>9. \A i \in 1..Len(stream') : i # Len(stream') => Older(i)
    BY RecordKeepsRing
  <1> HIDE DEF Older
  <1>5. /\ table' \in [Packets -> Nat] /\ order' \in Seq(Packets) /\ table'[seq] = nextId
        /\ \A p \in Packets : table'[p] # NoRow => table'[p] \in {table[p], nextId}
    BY RecordKeepsOrder
  <1>6. LogTypeOK'
    BY <1>1, <1>2, <1>3, <1>5 DEF LogTypeOK
  <1>4. ASSUME NEW i \in 1..Len(stream')
        PROVE  /\ stream'[i].id = nextId' - 1 - Len(stream') + i
               /\ table'[stream'[i].seq] # NoRow => table'[stream'[i].seq] >= stream'[i].id
               /\ i = Len(stream') => table'[stream'[i].seq] = stream'[i].id
    <2>1. /\ stream' \in Seq(Event) /\ Len(stream') \in Nat
          /\ stream'[i].id = nextId - Len(stream') + i
      BY <1>3
    <2>2. stream'[i].id = nextId' - 1 - Len(stream') + i
      BY <1>1, <1>2, <2>1
    <2>3. CASE i = Len(stream')
      <3>1. stream'[i].id = nextId /\ stream'[i].seq = seq
        BY <1>3, <2>3
      <3> QED BY <1>1, <1>5, <2>2, <3>1
    <2>4. CASE i # Len(stream')
      <3>1. PICK j \in 1..Len(stream) : stream'[i] = stream[j]
        BY <1>9, <2>4 DEF Older
      <3>5. stream[j] \in Event /\ Len(stream) \in Nat
        BY <1>1
      <3>6. stream[j].seq \in Packets /\ stream[j].id \in Nat
        BY <3>5 DEF Event
      <3>7. stream[j].id = nextId - 1 - Len(stream) + j
        BY <1>1
      <3>8. j \in Nat /\ j <= Len(stream)
        BY <3>5
      <3>2. stream[j].seq \in Packets /\ stream[j].id \in Nat /\ stream[j].id <= nextId
        BY <1>1, <3>5, <3>6, <3>7, <3>8
      <3>3. table'[stream[j].seq] # NoRow => table'[stream[j].seq] \in {table[stream[j].seq], nextId}
        BY <1>5, <3>2
      <3>4. table'[stream[j].seq] # NoRow => table'[stream[j].seq] >= stream[j].id
        BY <1>1, <1>8, <3>2, <3>3
      <3> QED BY <2>2, <2>4, <3>1, <3>4
    <2> QED BY <2>3, <2>4
  <1>7. /\ Len(order') <= MaxRows
        /\ \A i, j \in 1..Len(order') : order'[i] = order'[j] => i = j
        /\ {order'[i] : i \in 1..Len(order')} = {p \in Packets : table'[p] # NoRow}
    BY RecordKeepsOrder
  <1> QED BY <1>4, <1>6, <1>7 DEF LogInv, LogConsistent
-----------------------------------------------------------------------------
(* Answers *)

\* What is kept of the ring for a client are exactly the events newer than its cursor
\* (event_log.py:103-104).
LEMMA NewerLemma ==
    ASSUME LogInv, NEW since \in Int
    PROVE  /\ Newer(since) \in Seq(Event)
           /\ \E k \in 0..Len(stream) :
                 /\ \A i \in 1..Len(stream) : i <= k <=> stream[i].id <= since
                 /\ Len(Newer(since)) = Len(stream) - k
                 /\ \A i \in 1..Len(Newer(since)) : Newer(since)[i] = stream[i + k]
  <1> DEFINE P(k) == \A i \in 1..Len(stream) : i <= k <=> stream[i].id <= since
             last == CHOOSE k \in 0..Len(stream) : P(k)
  <1>1. /\ nextId \in Nat \ {0} /\ stream \in Seq(Event) /\ Len(stream) \in Nat
        /\ \A i \in 1..Len(stream) : stream[i].id = nextId - 1 - Len(stream) + i
    BY DEF LogInv, LogConsistent, LogTypeOK
  <1>2. \E k \in 0..Len(stream) : P(k)
    <2> DEFINE m == since - (nextId - 1 - Len(stream))
               k == IF m < 0 THEN 0 ELSE IF m > Len(stream) THEN Len(stream) ELSE m
    <2>1. k \in 0..Len(stream)
      BY <1>1
    <2>2. P(k)
      BY <1>1
    <2> QED BY <2>1, <2>2
  <1>3. last \in 0..Len(stream) /\ P(last)
    BY <1>2
  <1>4. Newer(since) = SubSeq(stream, last + 1, Len(stream))
    BY DEF Newer
  <1> HIDE DEF last
  <1>5. /\ Newer(since) \in Seq(Event)
        /\ Len(Newer(since)) = Len(stream) - last
        /\ \A i \in 1..Len(Newer(since)) : Newer(since)[i] = stream[i + last]
    <2>1. CASE last = Len(stream)
      BY <1>1, <1>3, <1>4, <2>1, SubSeqEmpty
    <2>2. CASE last < Len(stream)
      BY <1>1, <1>3, <1>4, <2>2
    <2> QED BY <1>1, <1>3, <2>1, <2>2
  <1> QED BY <1>3, <1>5

\* An answer goes from the cursor it was asked with to the one it gives.
LEMMA AnswerLemma ==
    ASSUME LogInv, NEW since \in Int, since < nextId
    PROVE  /\ PacketEvents(since).cursor = nextId - 1
           /\ Between(PacketEvents(since).events, since, nextId - 1)
  <1> DEFINE es == Newest(Newer(since), PollLimit)
  <1>1. /\ nextId \in Nat \ {0} /\ stream \in Seq(Event) /\ Len(stream) \in Nat
        /\ \A i \in 1..Len(stream) : stream[i].id = nextId - 1 - Len(stream) + i
    BY DEF LogInv, LogConsistent, LogTypeOK
  <1>2. /\ Newer(since) \in Seq(Event)
        /\ \E k \in 0..Len(stream) :
                 /\ \A i \in 1..Len(stream) : i <= k <=> stream[i].id <= since
                 /\ Len(Newer(since)) = Len(stream) - k
                 /\ \A i \in 1..Len(Newer(since)) : Newer(since)[i] = stream[i + k]
    BY NewerLemma
  <1>3. PICK k \in 0..Len(stream) :
             /\ \A i \in 1..Len(stream) : i <= k <=> stream[i].id <= since
             /\ Len(Newer(since)) = Len(stream) - k
             /\ \A i \in 1..Len(Newer(since)) : Newer(since)[i] = stream[i + k]
    BY <1>2
  <1>4. /\ es \in Seq(Event) /\ Len(es) \in Nat /\ Len(es) <= Len(Newer(since))
        /\ \A i \in 1..Len(es) : es[i] = Newer(since)[i + Len(Newer(since)) - Len(es)]
    <2>1. PollLimit \in Nat \ {0}
      BY EventLogAssumption
    <2>3. Newer(since) \in Seq(Event)
      BY <1>2
    <2>2. /\ es \in Seq(Event)
          /\ Len(es) = (IF Len(Newer(since)) <= PollLimit THEN Len(Newer(since)) ELSE PollLimit)
          /\ \A i \in 1..Len(es) : es[i] = Newer(since)[i + Len(Newer(since)) - Len(es)]
      BY <2>1, <2>3, NewestLemma
    <2>4. Len(Newer(since)) \in Nat
      BY <2>3
    <2>5. Len(es) \in Nat /\ Len(es) <= Len(Newer(since))
      BY <2>1, <2>2, <2>4
    <2> QED BY <2>2, <2>5
  <1> HIDE DEF es
  <1>5. ASSUME NEW i \in 1..Len(es)
        PROVE  /\ es[i] = stream[i + Len(stream) - Len(es)]
               /\ i + Len(stream) - Len(es) \in k + 1..Len(stream)
    <2>1. i + Len(Newer(since)) - Len(es) \in 1..Len(Newer(since))
      BY <1>1, <1>3, <1>4
    <2>2. Newer(since)[i + Len(Newer(since)) - Len(es)] = stream[i + Len(Newer(since)) - Len(es) + k]
      BY <1>3, <2>1
    <2>3. i + Len(Newer(since)) - Len(es) + k = i + Len(stream) - Len(es)
      BY <1>1, <1>3, <1>4
    <2> QED BY <1>1, <1>3, <1>4, <2>1, <2>2, <2>3
  <1>6. ASSUME NEW i \in 1..Len(es)
        PROVE  /\ es[i].id = nextId - 1 - Len(es) + i
               /\ es[i].id > since
    <2>1. i + Len(stream) - Len(es) \in 1..Len(stream) /\ i + Len(stream) - Len(es) > k
      BY <1>1, <1>4, <1>5
    <2>2. stream[i + Len(stream) - Len(es)].id = nextId - 1 - Len(stream) + (i + Len(stream) - Len(es))
      BY <1>1, <2>1
    <2>3. ~(stream[i + Len(stream) - Len(es)].id <= since)
      BY <1>1, <1>3, <2>1
    <2>4. nextId - 1 - Len(stream) + (i + Len(stream) - Len(es)) = nextId - 1 - Len(es) + i
      BY <1>1, <1>4
    <2>5. es[i] = stream[i + Len(stream) - Len(es)]
      BY <1>5
    <2>6. es[i].id = nextId - 1 - Len(es) + i /\ ~(es[i].id <= since)
      BY <2>2, <2>3, <2>4, <2>5
    <2> QED BY <1>1, <1>4, <2>6
  <1>7. Between(es, since, nextId - 1)
    BY <1>1, <1>4, <1>6 DEF Between
  <1> QED BY <1>7 DEF PacketEvents, es
-----------------------------------------------------------------------------
(* Polls *)

LEMMA InitPoll == Init => PollInv
  BY EventLogAssumption DEF Init, LogInit, PollInv, LogInv, LogConsistent, LogTypeOK, TickInv, Resting,
                            NoRow, Event

\* An answer stays one while the controller goes on.
LEMMA TickKeeps ==
    ASSUME TickInv, nextId \in Nat, nextId' \in Nat, nextId' >= nextId, tick' = tick, cursor' = cursor
    PROVE  TickInv'
  <1>1. /\ cursor' \in Int /\ cursor' < nextId'
    BY DEF TickInv
  <1>2. ASSUME tick'.at \in {"events", "rows"}
        PROVE  /\ tick'.told.cursor \in Int
               /\ cursor' <= tick'.told.cursor /\ tick'.told.cursor < nextId'
               /\ Between(tick'.told.events, cursor', tick'.told.cursor)
    <2>2. /\ tick.told.cursor \in Int
          /\ cursor <= tick.told.cursor /\ tick.told.cursor < nextId
          /\ Between(tick.told.events, cursor, tick.told.cursor)
      BY <1>2 DEF TickInv
    <2>3. tick.told.cursor < nextId'
      BY <2>2
    <2> QED BY <2>2, <2>3
  <1> QED BY <1>1, <1>2 DEF TickInv

LEMMA NextPoll == PollInv /\ [Next]_vars => PollInv'
  <1> SUFFICES ASSUME PollInv, [Next]_vars PROVE PollInv'
    OBVIOUS
  <1>1. LogInv /\ TickInv /\ nextId \in Nat \ {0}
    BY DEF PollInv, LogInv, LogConsistent, LogTypeOK
  <1>2. ASSUME UNCHANGED logVars PROVE LogInv' /\ nextId' = nextId
    BY <1>1, <1>2 DEF logVars, LogInv, LogConsistent, LogTypeOK
  <1>3. CASE Begin
    <2>1. nextId' = nextId /\ Reset /\ UNCHANGED <<tick, cursor>>
      BY <1>3 DEF Begin, Reset, clientVars
    <2> QED BY <1>1, <2>1, ResetLemma, TickKeeps DEF PollInv
  <1>4. CASE Emit
    <2>1. PICK seq \in Packets : Record(seq)
      BY <1>4 DEF Emit
    <2>2. nextId' = nextId + 1 /\ UNCHANGED <<tick, cursor>>
      BY <1>4, <2>1 DEF Emit, Record, clientVars
    <2> QED BY <1>1, <2>1, <2>2, RecordLemma, TickKeeps DEF PollInv
  <1>5. CASE End \/ RefreshStatus \/ RefreshShows \/ UNCHANGED vars
    <2>1. UNCHANGED logVars /\ UNCHANGED <<tick, cursor>>
      BY <1>5 DEF End, RefreshStatus, RefreshShows, vars, clientVars, controllerVars
    <2> QED BY <1>1, <1>2, <2>1, TickKeeps DEF PollInv
  <1>6. CASE TickMoves \/ TickFails
    <2>1. LogInv' /\ nextId' = nextId
      BY <1>2, <1>6 DEF TickMoves, TickStatus, TickEvents, TickRows, TickShows, TickFails, controllerVars
    <2>2. CASE TickStatus \/ TickFails
      BY <1>1, <2>1, <2>2 DEF TickStatus, TickFails, TickInv, Resting, PollInv
    <2>3. CASE TickEvents
      <3>1. /\ tick'.told = PacketEvents(cursor) /\ tick'.at = "events" /\ cursor' = cursor
        BY <2>3 DEF TickEvents
      <3>2. /\ PacketEvents(cursor).cursor = nextId - 1
            /\ Between(PacketEvents(cursor).events, cursor, nextId - 1)
        BY <1>1, AnswerLemma DEF TickInv
      <3> QED BY <1>1, <2>1, <3>1, <3>2 DEF TickInv, PollInv
    <2>4. CASE TickRows
      <3>1. /\ tick'.told = tick.told /\ tick'.at = "rows" /\ cursor' = cursor /\ tick.at = "events"
        BY <2>4 DEF TickRows
      <3> QED BY <1>1, <2>1, <3>1 DEF TickInv, PollInv
    <2>5. CASE TickShows
      <3>1. tick.at = "rows" /\ cursor' = tick.told.cursor /\ tick'.at = "rest"
        BY <2>5 DEF TickShows, Resting
      <3> QED BY <1>1, <2>1, <3>1 DEF TickInv, PollInv
    <2> QED BY <1>6, <2>2, <2>3, <2>4, <2>5 DEF TickMoves
  <1> QED BY <1>3, <1>4, <1>5, <1>6 DEF Next

LEMMA PollInvHolds == Spec => []PollInv
  BY InitPoll, NextPoll, PTL DEF Spec

\* The log is consistent whatever is recorded, in any order, across transfers: the
\* order lists exactly the packets with a row, each once, and the ring is the last
\* ids in a row (event_log.py:51-72).
THEOREM LogIsConsistent == Spec => []LogConsistent
  <1>1. PollInv => LogConsistent
    BY DEF PollInv, LogInv
  <1> QED BY <1>1, PollInvHolds, PTL

\* Events reach the page in the order they happened and none twice, across
\* transfers, trimmed rings, late and failed polls (event_log.py:88-105,
\* useStatusPolling.ts:56-92).
THEOREM ComesOnceHolds == Spec => ComesOnce
  <1>1. ASSUME PollInv, [Next]_vars
        PROVE  [TickShows =>
                    LET es == tick.told.events
                    IN /\ cursor' >= cursor
                       /\ \A i \in 1..Len(es) : es[i].id > cursor /\ es[i].id <= cursor'
                       /\ \A i, j \in 1..Len(es) : i < j => es[i].id < es[j].id]_vars
    BY <1>1 DEF PollInv, TickInv, Between, TickShows
  <1> QED BY <1>1, PollInvHolds, PTL DEF Spec, ComesOnce
=============================================================================
