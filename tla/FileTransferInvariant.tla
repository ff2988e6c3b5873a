------------------------ MODULE FileTransferInvariant ------------------------
(***************************************************************************)
(* Why Integrity, Lockstep and CompletedIsPublished hold: the inductive    *)
(* invariants behind them, and the circumstances they need.                *)
(***************************************************************************)
EXTENDS FileTransfer

\* One content per name and size, one packet size, no write that fails half
\* way, and either the FIFO path or no second file to mix up.  Integrity is lost
\* without any of the first three: a file edited under its name and size is
\* resumed behind its old content, a retry under another packet size joins the
\* old session (FileTransferClaims!IdenticalFile), and a retransmission is
\* appended to the first half of its packet.
NothingToMixUp ==
    /\ \E v \in Versions : Versions = {v}
    /\ \E ps \in PacketSizes : PacketSizes = {ps}
    /\ "torn" \notin Faults
    /\ Direct \/ \E f \in Files : Files = {f}

\* The receiver's count and the file it writes agree: as long as it is there, the
\* .part of a session has exactly the packets before the expected one.
SessionFits ==
    session # None =>
        /\ session.path[2] = session.file
        /\ \E ps \in PacketSizes :
              /\ session.total = TotalPackets(session.file, ps)
              /\ session.expected \in 1..(session.total + 1)
              /\ parts[session.path] # None =>
                    Len(parts[session.path].data) =
                        Covered(session.file, ps, session.expected - 1)

\* The datagram at position i carries a packet of f.
Carries(i, f) ==
    \E v \in Versions, ps \in PacketSizes :
        /\ toServer[i].seq \in 1..TotalPackets(f, ps)
        /\ toServer[i].data = Chunk(f, v, ps, toServer[i].seq)

\* The receiver is or will be set up for f before position i is handled.
SetUpFor(f, i) ==
    /\ session # None => session.file = f
    /\ \A j \in 1..(i - 1) : toServer[j].type = "START" => toServer[j].file = f

\* A DATA packet meets no session but one of its own file.
DataMeetsItsFile ==
    \A i \in 1..Len(toServer) : toServer[i].type = "DATA" =>
        \E f \in Files : Carries(i, f) /\ SetUpFor(f, i)

Sending == pc \notin {"none", "created"}

\* On the direct path the queue holds the transfers in the order they were
\* started, and an ACK reaches nobody but the transfer it answers.
TransfersInOrder ==
    /\ pc # "none" => status = "transferring" /\ job.id = transfers
    /\ sock = IF Sending THEN transfers ELSE 0
    /\ Sending \/ toClient = <<>>
    /\ \A i \in 1..Len(toServer) :
          /\ toServer[i].from \in 1..transfers
          /\ pc = "created" => toServer[i].from < transfers
          /\ Sending /\ toServer[i].type = "START" /\ toServer[i].from = transfers =>
                toServer[i].file = job.file
          /\ \A j \in 1..i : toServer[j].from <= toServer[i].from

\* The sender knows that its START was handled, or an ACK tells it.
StartAnswered ==
    seq # SeqStart \/ \E k \in 1..Len(toClient) : toClient[k].seq = SeqStart

\* Once its START is answered, nothing but the sender's own file is on the way.
AnsweredIsAlone ==
    Sending /\ StartAnswered => SetUpFor(job.file, Len(toServer) + 1)

\* The invariant behind Integrity.  It holds under NothingToMixUp.
IntegrityInv ==
    /\ Integrity
    /\ SessionFits
    /\ DataMeetsItsFile
    /\ Direct => TransfersInOrder /\ AnsweredIsAlone
-----------------------------------------------------------------------------
\* Why the two ends stay in step on the direct path.

\* A session tells where it began, and never goes back behind it.
SessionOpened ==
    session # None =>
        session.resume.seq = session.start - 1 /\ session.start <= session.expected

AckOnWay(n) == \E k \in 1..Len(toClient) : toClient[k].seq = n

SeqInRange == seq \in 0..SeqEnd(job.file, job.ps)

\* What the sender has on the wire is the past of its own packet loop, in order.
PacketsBehind ==
    \A i \in 1..Len(toServer) : toServer[i].from = transfers =>
        /\ toServer[i].seq <= seq
        /\ toServer[i].type = "DATA" => toServer[i].seq \in 1..total
        /\ toServer[i].type = "END" => toServer[i].seq = SeqEnd(job.file, job.ps)
        /\ \A j \in 1..i :
              toServer[j].from = transfers => toServer[j].seq <= toServer[i].seq

AcksBehind == \A k \in 1..Len(toClient) : toClient[k].seq <= seq

\* An answered START was the first datagram of its transfer to be handled, so
\* what older transfers had sent is gone.
OldPacketsGone ==
    StartAnswered => \A i \in 1..Len(toServer) : toServer[i].from = transfers

WireBehind == Sending => SeqInRange /\ PacketsBehind /\ AcksBehind /\ OldPacketsGone

\* The session is for the sender's file and has taken no packet.
Fresh == session # None /\ session.file = job.file /\ session.expected = session.start

\* As long as a START may still be handled, a session that answered one is such
\* that it takes the next one for a repetition.
HandshakeHolds ==
    /\ StartAnswered
       /\ (seq = SeqStart \/ \E i \in 1..Len(toServer) : toServer[i].type = "START")
       => Fresh
    /\ seq = SeqStart =>
          \A k \in 1..Len(toClient) :
              toClient[k].seq = SeqStart => toClient[k].resume = session.resume

DataHolds ==
    InData =>
        /\ session # None /\ session.file = job.file
        /\ session.expected \in {seq, seq + 1}
        /\ AckOnWay(seq) => session.expected = seq + 1

Published ==
    \E p \in Path : p[2] = job.file /\ finals[p] = Content(job.file, job.ver)

EndHolds ==
    seq = SeqEnd(job.file, job.ps) =>
        /\ session # None => session.file = job.file /\ AllReceived /\ ~AckOnWay(seq)
        /\ session = None => Published

InStep == intact /\ Sending => HandshakeHolds /\ DataHolds /\ EndHolds

\* With IntegrityInv, the invariant behind Lockstep and CompletedIsPublished.
\* It holds under NothingToMixUp on the direct path.
LockstepInv == SessionOpened /\ WireBehind /\ InStep /\ CompletedIsPublished
=============================================================================
