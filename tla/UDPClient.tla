------------------------------ MODULE UDPClient ------------------------------
(***************************************************************************)
(* The sending thread of backend/udp/client.py: one Stop-and-Wait transfer *)
(* from START over DATA 1..total to END.  How the thread ends is the       *)
(* business of the controller, whose callback it calls.                    *)
(*                                                                         *)
(*   created  the thread exists and has not entered send_file              *)
(*   loop     at the top of the packet loop, about to look at the stop flag*)
(*   send     about to transmit packet seq                                 *)
(*   wait     blocked in _wait_ack for the ACK of seq                      *)
(*   unacked  _wait_ack returned without the ACK                           *)
(***************************************************************************)
EXTENDS Datagrams

CONSTANT MaxRetries
ASSUME MaxRetriesAssumption == MaxRetries \in Nat

VARIABLES
    pc,       \* where the sending thread is, "none" without one
    job,      \* what it sends: the arguments of send_file
    seq,      \* the packet it is at
    attempt,  \* retransmissions of that packet so far
    stop      \* the flag cancel() sets

clientVars == <<pc, job, seq, attempt, stop>>

Job == [id : Nat \ {0}, file : Files, ver : Versions, ps : PacketSizes,
        resume : BOOLEAN]

ClientTypeOK ==
    /\ pc \in {"none", "created", "loop", "send", "wait", "unacked"}
    /\ job \in Job
    /\ seq \in Nat
    /\ attempt \in 0..MaxRetries
    /\ stop \in BOOLEAN

total == TotalPackets(job.file, job.ps)

InData == seq \in 1..total

\* The packet the thread is at.
Packet ==
    IF seq = SeqStart
    THEN [type |-> "START", seq |-> seq, from |-> job.id, file |-> job.file,
          ps |-> job.ps, resume |-> job.resume]
    ELSE IF InData
    THEN [type |-> "DATA", seq |-> seq, from |-> job.id,
          data |-> Chunk(job.file, job.ver, job.ps, seq)]
    ELSE [type |-> "END", seq |-> seq, from |-> job.id]

\* Packet n is the next to send: the stop flag is looked at before a DATA
\* packet and not before END.
MoveTo(n) ==
    /\ pc' = IF n \in 1..total THEN "loop" ELSE "send"
    /\ seq' = n
    /\ attempt' = 0

\* send_file begins: whatever cancel() set before is cleared, a socket is open.
EnterSendFile ==
    /\ pc = "created"
    /\ stop' = FALSE
    /\ sock' = job.id
    /\ pc' = "send" /\ seq' = SeqStart /\ attempt' = 0
    /\ UNCHANGED <<job, toServer, toClient>>

PassStopCheck ==
    /\ pc = "loop" /\ ~stop
    /\ pc' = "send"
    /\ UNCHANGED <<job, seq, attempt, stop, netVars>>

\* One attempt; with the flag set _wait_ack returns at once.
Transmit(reaches) ==
    /\ pc = "send"
    /\ toServer' = IF reaches THEN Queued(toServer, Packet) ELSE toServer
    /\ pc' = IF stop THEN "unacked" ELSE "wait"
    /\ UNCHANGED <<job, seq, attempt, stop, toClient, sock>>

\* The timer ran out, the socket reported an error, or the flag was set and
\* the wait came round to its top.
Timeout ==
    /\ pc = "wait"
    /\ pc' = "unacked"
    /\ UNCHANGED <<job, seq, attempt, stop, netVars>>

\* Mutant of Retransmit: the number of attempts has no limit.
RetransmitWithoutLimit ==
    /\ pc = "unacked"
    /\ pc' = "send" /\ attempt' = attempt + 1
    /\ UNCHANGED <<job, seq, stop, netVars>>

\* Mutant of Retransmit: the attempts are not counted.
RetransmitUncounted ==
    /\ pc = "unacked" /\ attempt < MaxRetries
    /\ pc' = "send"
    /\ UNCHANGED <<job, seq, attempt, stop, netVars>>

Retransmit ==
    /\ pc = "unacked" /\ attempt < MaxRetries
    /\ pc' = "send" /\ attempt' = attempt + 1
    /\ UNCHANGED <<job, seq, stop, netVars>>

Arrives(i) ==
    /\ toClient' = Without(toClient, i)
    /\ UNCHANGED <<toServer, sock>>

\* An ACK of another packet: the wait goes on.
IgnoreAck ==
    /\ pc = "wait"
    /\ \E i \in Deliverable(toClient) : toClient[i].seq # seq /\ Arrives(i)
    /\ UNCHANGED clientVars

\* The simulated loss of the ACK ends the wait as a timeout does.
LoseMatchingAck ==
    /\ pc = "wait"
    /\ \E i \in Deliverable(toClient) : toClient[i].seq = seq /\ Arrives(i)
    /\ pc' = "unacked"
    /\ UNCHANGED <<job, seq, attempt, stop>>

\* The ACK of START says where to begin, never behind the end of the file.
TakeStartAck(i) ==
    /\ pc = "wait" /\ seq = SeqStart
    /\ toClient[i].seq = seq
    /\ Arrives(i)
    /\ MoveTo(Lesser(toClient[i].resume.seq, total) + 1)
    /\ UNCHANGED <<job, stop>>

AcceptStartAck == \E i \in Deliverable(toClient) : TakeStartAck(i)

AcceptDataAck ==
    /\ pc = "wait" /\ InData
    /\ \E i \in Deliverable(toClient) : toClient[i].seq = seq /\ Arrives(i)
    /\ MoveTo(seq + 1)
    /\ UNCHANGED <<job, stop>>

\* The ways to give up: the flag at the top of the loop, the last attempt
\* unanswered, an error of the connected socket when nobody holds the port.
GivesUp(portUnbound) ==
    \/ pc = "loop" /\ stop
    \/ pc = "unacked" /\ attempt = MaxRetries
    \/ pc = "send" /\ Direct /\ portUnbound

\* Mutant of ThreadEnds: what was coming back waits for the next transfer.
AcksOutliveSocket(inFlight) ==
    /\ pc' = "none" /\ stop' = FALSE /\ seq' = SeqStart /\ attempt' = 0
    /\ sock' = 0
    /\ toClient' = inFlight
    /\ UNCHANGED <<job, toServer>>

\* The thread is over: its socket is closed, and on the direct path what was
\* still coming back goes with it; on lanes, inFlight stays on its way.
ThreadEnds(inFlight) ==
    /\ pc' = "none" /\ stop' = FALSE /\ seq' = SeqStart /\ attempt' = 0
    /\ sock' = 0
    /\ toClient' = IF Direct THEN <<>> ELSE inFlight
    /\ UNCHANGED <<job, toServer>>

\* Mutant of AcceptEndAck: any ACK is taken for the one of END.
AnyAckEnds ==
    /\ pc = "wait" /\ seq = SeqEnd(job.file, job.ps)
    /\ \E i \in Deliverable(toClient) : ThreadEnds(Without(toClient, i))

\* The ACK of END: the transfer is over.
AcceptEndAck ==
    /\ pc = "wait" /\ seq = SeqEnd(job.file, job.ps)
    /\ \E i \in Deliverable(toClient) :
          /\ toClient[i].seq = seq
          /\ ThreadEnds(Without(toClient, i))

GiveUp(portUnbound) ==
    /\ GivesUp(portUnbound)
    /\ ThreadEnds(toClient)

ClientStep(reaches) ==
    \/ EnterSendFile
    \/ PassStopCheck
    \/ Transmit(reaches)
    \/ Timeout
    \/ Retransmit
    \/ IgnoreAck
    \/ LoseMatchingAck
    \/ AcceptStartAck
    \/ AcceptDataAck
=============================================================================
