------------------------------ MODULE Datagrams ------------------------------
(***************************************************************************)
(* The UDP path between the sending thread and the receiving thread.       *)
(*                                                                         *)
(* Direct is the single-path mode: the sender's connected loopback socket  *)
(* talks to the receiver's port, datagrams stay in order, and whatever is  *)
(* still on its way back dies with the sender's socket.  Otherwise the     *)
(* datagrams cross forwarders on several lanes: they overtake each other,  *)
(* survive the socket that sent them, and a late ACK is handed to whatever *)
(* client the forwarders know by then.                                     *)
(*                                                                         *)
(* NetCap bounds the datagrams in flight each way; one more is dropped, as *)
(* a full socket buffer does.                                              *)
(***************************************************************************)
EXTENDS UDPProtocol

CONSTANTS Direct, NetCap
ASSUME DirectAssumption == Direct \in BOOLEAN
ASSUME NetCapAssumption == NetCap \in Nat

VARIABLES
    toServer,  \* datagrams on their way to the receiver
    toClient,  \* ACKs on their way to a sender
    sock       \* the transfer whose socket is open, 0 when there is none

netVars == <<toServer, toClient, sock>>

\* s without its i-th element, written pointwise.
Without(s, i) == [j \in 1..(Len(s) - 1) |-> IF j < i THEN s[j] ELSE s[j + 1]]

Queued(s, m) == IF Len(s) < NetCap THEN Append(s, m) ELSE s

\* The positions of s that may be delivered next.
Deliverable(s) == IF Direct THEN 1..Lesser(1, Len(s)) ELSE 1..Len(s)

\* The ACK (seq, resume) on its way to the sender of a datagram from transfer t.
Replied(t, seq, resume) ==
    IF Direct /\ (sock = 0 \/ t # sock)
    THEN toClient
    ELSE Queued(toClient, [seq |-> seq, resume |-> resume])

\* The network, a full buffer, the simulated loss of the receiver or a bit flip
\* that the CRC check catches: the datagram is gone and nobody answers.
LoseDatagram ==
    /\ \E i \in Deliverable(toServer) : toServer' = Without(toServer, i)
    /\ UNCHANGED <<toClient, sock>>

\* The same on the way back; a corrupted ACK does not end the sender's wait.
LoseAck ==
    /\ \E i \in Deliverable(toClient) : toClient' = Without(toClient, i)
    /\ UNCHANGED <<toServer, sock>>

NetTypeOK ==
    /\ toServer \in Seq(Datagram)
    /\ toClient \in Seq(Ack)
    /\ sock \in Nat
=============================================================================
