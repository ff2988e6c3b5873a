----------------------------- MODULE UDPProtocol -----------------------------
(***************************************************************************)
(* What both ends of a transfer agree on: how a file is cut into packets,  *)
(* which sequence numbers the packets carry and what the datagrams look    *)
(* like (backend/udp/protocol.py and the arithmetic both ends share).      *)
(*                                                                         *)
(* A file is named by (name, size), the pair every matching rule of the    *)
(* receiver compares, so an element of Files stands for such a pair.  No   *)
(* two of them share a name (ResumeStore says where it matters).  The      *)
(* content is a sequence of units <<file, version, position>>; a version   *)
(* is one content of that name and size.  A packet size is in units.       *)
(***************************************************************************)
EXTENDS Integers, Sequences

CONSTANTS
    Files,         \* (name, size) pairs a user may send, one per name
    Versions,      \* contents a file of that name and size may have
    FileSize,      \* FileSize[f]: number of units in f
    PacketSizes    \* packet sizes the configuration may be set to

\* An empty upload is refused before any transfer starts (uploads.py:40-42)
\* and the configuration bounds the packet size from below (models.py:13).
ASSUME FileSizeAssumption == FileSize \in [Files -> Nat \ {0}]
ASSUME PacketSizesAssumption == PacketSizes \subseteq Nat \ {0}

Unit == Files \X Versions \X (Nat \ {0})

\* The whole of version v of file f.
Content(f, v) == [i \in 1..FileSize[f] |-> <<f, v, i>>]

\* math.ceil(file_size / packet_size)
TotalPackets(f, ps) == (FileSize[f] + ps - 1) \div ps

Lesser(a, b) == IF a < b THEN a ELSE b

\* Number of units of f that the first n packets hold.
Covered(f, ps, n) == Lesser(n * ps, FileSize[f])

\* fh.read(packet_size) with the file positioned at packet n (n >= 1).
Chunk(f, v, ps, n) ==
    [i \in 1..(Covered(f, ps, n) - Covered(f, ps, n - 1)) |->
        <<f, v, Covered(f, ps, n - 1) + i>>]

\* START is 0, the n-th DATA packet is n, END follows the last DATA packet.
SeqStart == 0
SeqEnd(f, ps) == TotalPackets(f, ps) + 1

(***************************************************************************)
(* Datagrams.  "from" is the transfer whose socket sent it: the address a  *)
(* reply goes back to.  Nothing in the payload identifies the transfer.    *)
(***************************************************************************)
StartMsg == [type : {"START"}, seq : {SeqStart}, from : Nat,
             file : Files, ps : PacketSizes, resume : BOOLEAN]
DataMsg  == [type : {"DATA"}, seq : Nat \ {0}, from : Nat, data : Seq(Unit)]
EndMsg   == [type : {"END"}, seq : Nat \ {0}, from : Nat]
Datagram == StartMsg \cup DataMsg \cup EndMsg

\* The resume metadata of a START ACK: the whole packets the receiver holds and
\* the bytes they are, both in the packet size of its session.
ResumePoint == [seq : Nat, bytes : Nat]

\* An empty payload.
NoResume == [seq |-> 0, bytes |-> 0]

Ack == [seq : Nat, resume : ResumePoint]
=============================================================================
