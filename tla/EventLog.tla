------------------------------ MODULE EventLog ------------------------------
(***************************************************************************)
(* The bounded event containers of backend/transfer/event_log.py: the ring *)
(* of transitions a polling client drains with a cursor, and the packet    *)
(* table with its insertion order.                                         *)
(*                                                                         *)
(* An event is its id and the packet it is about.  A row of the table is   *)
(* the last event of its packet, so an id stands for it.                   *)
(***************************************************************************)
EXTENDS Integers, Sequences

CONSTANTS
    Packets,     \* sequence numbers of the packets the sender reports on
    MaxStream,   \* MAX_EVENT_STREAM
    MaxRows,     \* MAX_LOG_ENTRIES
    PollLimit    \* events one answer holds at most

ASSUME EventLogAssumption == {MaxStream, MaxRows, PollLimit} \subseteq Nat \ {0}

VARIABLES nextId, stream, table, order

logVars == <<nextId, stream, table, order>>

NoRow == 0
Event == [id : Nat \ {0}, seq : Packets]

LogTypeOK ==
    /\ nextId \in Nat \ {0}
    /\ stream \in Seq(Event) /\ Len(stream) <= MaxStream
    /\ table \in [Packets -> Nat]
    /\ order \in Seq(Packets)

LogInit ==
    /\ nextId = 1
    /\ stream = <<>>
    /\ table = [p \in Packets |-> NoRow]
    /\ order = <<>>

\* s[-n:]
Newest(s, n) == IF Len(s) <= n THEN s ELSE SubSeq(s, Len(s) - n + 1, Len(s))

\* Mutant of Reset: ids start again with every transfer.
ResetWithIds ==
    /\ nextId' = 1
    /\ stream' = <<>>
    /\ table' = [p \in Packets |-> NoRow]
    /\ order' = <<>>

\* A new transfer: everything is emptied and the ids go on.
Reset ==
    /\ stream' = <<>>
    /\ table' = [p \in Packets |-> NoRow]
    /\ order' = <<>>
    /\ UNCHANGED nextId

\* Mutant of Record: the oldest packet leaves the order and keeps its row.
RecordKeepsRow(seq) ==
    LET known == table[seq] # NoRow
    IN /\ order' = Newest(IF known THEN order ELSE Append(order, seq), MaxRows)
       /\ table' = [table EXCEPT ![seq] = nextId]
       /\ stream' = Newest(Append(stream, [id |-> nextId, seq |-> seq]), MaxStream)
       /\ nextId' = nextId + 1

\* A transition of packet seq.  A packet without a row goes to the end of the
\* order, and the first of the order leaves when there are too many.
Record(seq) ==
    LET listed == IF table[seq] # NoRow THEN order ELSE Append(order, seq)
        full   == Len(listed) > MaxRows
    IN /\ order' = IF full THEN Tail(listed) ELSE listed
       /\ table' = [p \in Packets |->
                        IF full /\ p = listed[1] THEN NoRow
                        ELSE IF p = seq THEN nextId ELSE table[p]]
       /\ stream' = Newest(Append(stream, [id |-> nextId, seq |-> seq]), MaxStream)
       /\ nextId' = nextId + 1

\* The newest rows, oldest first.
PacketLog(limit) == [i \in 1..Len(Newest(order, limit)) |-> table[Newest(order, limit)[i]]]

\* The events newer than "since".  Ids ascend along the ring, so that they are its
\* end: there is such a "last" in no other ring.
Newer(since) ==
    LET last == CHOOSE k \in 0..Len(stream) :
                    \A i \in 1..Len(stream) : i <= k <=> stream[i].id <= since
    IN SubSeq(stream, last + 1, Len(stream))

\* What a client that has seen everything up to "since" is told.  It starts with
\* -1 and gets what is there.
PacketEvents(since) ==
    [events |-> Newest(Newer(since), PollLimit),
     cursor |-> nextId - 1,
     gap    |-> since >= 0 /\ stream # <<>> /\ stream[1].id > since + 1]
-----------------------------------------------------------------------------
\* The log is well typed and bounded.  The order lists every packet that has a row exactly once, a row is the last
\* event of its packet, and the newest event is never the one that was trimmed:
\* also when a packet comes back whose row was dropped (event_log.py:51-58).
LogConsistent ==
    /\ LogTypeOK
    /\ \A i, j \in 1..Len(order) : order[i] = order[j] => i = j
    /\ {order[i] : i \in 1..Len(order)} = {p \in Packets : table[p] # NoRow}
    /\ \A i \in 1..Len(stream) : LET e == stream[i] IN
          /\ e.id = nextId - 1 - Len(stream) + i
          /\ table[e.seq] # NoRow => table[e.seq] >= e.id
          /\ i = Len(stream) => table[e.seq] = e.id
=============================================================================
