------------------------- MODULE FileTransferProofs -------------------------
(***************************************************************************)
(* What a transfer promises, for every number of files, packets,           *)
(* transfers, losses, cancels and crashes.                                 *)
(*                                                                         *)
(* First, what the operations of ResumeStore keep of a directory, the type *)
(* correctness of FileTransfer, and at most one leftover per file and      *)
(* packet size.  Then, under NothingToMixUp, the integrity of what the     *)
(* receiver writes and publishes, and on the direct path: the receiver     *)
(* keeps in step with the sender, a transfer reported as completed is on   *)
(* disk, and the whole implements Delivery.                                *)
(*                                                                         *)
(* Last, the counters of TransferProgress: they take part in no step of    *)
(* the transfer, what the dashboard makes of them is the acknowledged      *)
(* prefix of the file, and what it calls confirmed is in the receiver's    *)
(* file.                                                                   *)
(***************************************************************************)
EXTENDS TransferProgress, FileTransferInvariant, WellFoundedInduction,
        SequenceTheorems, TLAPS
-----------------------------------------------------------------------------
\* Numbers, packets and cuts.

LEMMA CutLemma ==
    ASSUME NEW S, NEW s \in Seq(S), NEW n \in Nat
    PROVE  /\ Cut(s, n) \in Seq(S)
           /\ Len(Cut(s, n)) = Lesser(n, Len(s))
           /\ \A j \in 1..Len(Cut(s, n)) : j <= Len(s) /\ Cut(s, n)[j] = s[j]
  BY DEF Cut, Lesser

\* A set of numbers that is not empty has a least element.
LEMMA SmallestInNat ==
    ASSUME NEW S, S \subseteq Nat, S # {}
    PROVE  \E n \in S : \A k \in S : n <= k
<1> DEFINE R == OpToRel(<, Nat)
<1>1. IsWellFoundedOn(R, Nat)
  BY NatLessThanWellFounded
<1>2. \E n \in S : \A k \in S : <<k, n>> \notin R
  BY <1>1, WFMin
<1>3. \A k, n \in Nat : <<k, n>> \in R <=> k < n
  BY DEF OpToRel
<1> HIDE DEF R
<1>4. PICK n \in S : \A k \in S : <<k, n>> \notin R
  BY <1>2
<1>5. \A k \in S : ~(k < n)
  BY <1>3, <1>4
<1>6. \A k \in S : n <= k
  BY <1>5
<1> QED
  BY <1>6

LEMMA TotalLemma ==
    ASSUME NEW f \in Files, NEW ps \in PacketSizes
    PROVE  /\ FileSize[f] \in Nat \ {0}
           /\ ps \in Nat \ {0}
           /\ TotalPackets(f, ps) \in Nat \ {0}
           /\ TotalPackets(f, ps) * ps >= FileSize[f]
           /\ (TotalPackets(f, ps) - 1) * ps < FileSize[f]
<1>1. FileSize[f] \in Nat \ {0} /\ ps \in Nat \ {0}
  BY FileSizeAssumption, PacketSizesAssumption
<1> DEFINE n == FileSize[f] + ps - 1
           t == n \div ps
<1>2. n \in Nat /\ ps \in Nat /\ ps > 0 /\ n >= ps
  BY <1>1
<1>3. t \in Int /\ t * ps <= n /\ n < (t + 1) * ps
  BY <1>2
<1>4. t * ps >= FileSize[f] /\ (t - 1) * ps < FileSize[f]
  <2>1. (t + 1) * ps = t * ps + ps /\ (t - 1) * ps = t * ps - ps
    BY <1>1, <1>3
  <2> QED
    BY <2>1, <1>1, <1>3
<1>5. t > 0
  <2>1. SUFFICES ASSUME t <= 0 PROVE FALSE
    BY <1>3
  <2>2. t * ps <= 0
    BY <2>1, <1>3, <1>1
  <2> QED
    BY <2>2, <1>4, <1>1
<1> QED
  BY <1>1, <1>3, <1>4, <1>5 DEF TotalPackets

LEMMA CoveredLemma ==
    ASSUME NEW f \in Files, NEW ps \in PacketSizes, NEW n \in Nat \ {0}
    PROVE  /\ Covered(f, ps, n) \in Nat
           /\ Covered(f, ps, n - 1) \in Nat
           /\ Covered(f, ps, n - 1) <= Covered(f, ps, n)
           /\ Covered(f, ps, n) <= FileSize[f]
<1>1. FileSize[f] \in Nat /\ ps \in Nat
  BY TotalLemma
<1>2. n * ps = (n - 1) * ps + ps /\ (n - 1) * ps \in Nat /\ n * ps \in Nat
  BY <1>1
<1> QED
  BY <1>1, <1>2 DEF Covered, Lesser

LEMMA CoveredEnds ==
    ASSUME NEW f \in Files, NEW ps \in PacketSizes
    PROVE  /\ Covered(f, ps, 0) = 0
           /\ Covered(f, ps, TotalPackets(f, ps)) = FileSize[f]
<1>1. FileSize[f] \in Nat \ {0} /\ ps \in Nat /\ 0 * ps = 0
  BY TotalLemma
<1> QED
  BY <1>1, TotalLemma DEF Covered, Lesser

\* Resuming keeps whole packets: what stays after the cut is what the packets
\* before the next one hold.
LEMMA ResumeArithmetic ==
    ASSUME NEW f \in Files, NEW ps \in PacketSizes, NEW r \in Nat
    PROVE  /\ ResumeSeq(r, f, ps) \in 0..TotalPackets(f, ps)
           /\ Aligned(r, f, ps) \in Nat
           /\ Aligned(r, f, ps) <= r
           /\ Aligned(r, f, ps) = Covered(f, ps, ResumeSeq(r, f, ps))
<1> DEFINE t == TotalPackets(f, ps)
<1>1. FileSize[f] \in Nat \ {0} /\ ps \in Nat \ {0} /\ t \in Nat \ {0}
      /\ t * ps >= FileSize[f]
  BY TotalLemma
<1> HIDE DEF t
<1>2. CASE r >= FileSize[f]
  <2>1. ResumeSeq(r, f, ps) = t /\ Aligned(r, f, ps) = FileSize[f]
    BY <1>2 DEF ResumeSeq, Aligned, t
  <2>2. Covered(f, ps, t) = FileSize[f]
    BY CoveredEnds DEF t
  <2> QED
    BY <2>1, <2>2, <1>1, <1>2 DEF t
<1>3. CASE r < FileSize[f]
  <2> DEFINE q == r \div ps
  <2>1. q \in Nat /\ q * ps <= r
    BY <1>1
  <2>2. ResumeSeq(r, f, ps) = q /\ Aligned(r, f, ps) = q * ps
    BY <1>1, <1>3 DEF ResumeSeq, Aligned
  <2> HIDE DEF q
  <2>3. q * ps \in Nat /\ q * ps < FileSize[f]
    BY <2>1, <1>1, <1>3
  <2>4. q < t
    <3>1. SUFFICES ASSUME q >= t PROVE FALSE
      BY <2>1, <1>1
    <3>2. q * ps >= t * ps
      BY <3>1, <2>1, <1>1
    <3>3. t * ps \in Nat
      BY <1>1
    <3> QED
      BY <3>2, <3>3, <2>3, <1>1
  <2>5. Covered(f, ps, q) = q * ps
    BY <2>3 DEF Covered, Lesser
  <2> QED
    BY <2>1, <2>2, <2>3, <2>4, <2>5, <1>1 DEF t
<1> QED
  BY <1>1, <1>2, <1>3

LEMMA PrefixCut ==
    ASSUME NEW f \in Files, NEW v \in Versions, NEW data \in Seq(Unit),
           NEW n \in Nat, PrefixOf(data, f, v)
    PROVE  PrefixOf(Cut(data, n), f, v)
<1>1. Len(Cut(data, n)) <= Len(data) /\ Len(Cut(data, n)) \in Nat
  BY CutLemma DEF Lesser
<1>2. \A j \in 1..Len(Cut(data, n)) : j \in 1..Len(data) /\ Cut(data, n)[j] = data[j]
  BY CutLemma, <1>1
<1>3. FileSize[f] \in Nat
  BY FileSizeAssumption
<1> QED
  BY <1>1, <1>2, <1>3 DEF PrefixOf
-----------------------------------------------------------------------------
\* Directories.

LEMMA PartLemma ==
    ASSUME NEW dir \in Directory, NEW p \in Path, dir[p] # None
    PROVE  /\ dir[p] \in Part
           /\ dir[p].data \in Seq(Unit)
           /\ Len(dir[p].data) \in Nat
           /\ p[2] \in Files
<1>1. dir[p] \in Part
  BY DEF Directory
<1>2. dir[p].data \in Seq(Unit)
  BY <1>1 DEF Part
<1> QED
  BY <1>1, <1>2 DEF Path

Replaced(dir, p, part) == [dir EXCEPT ![p] = part]

\* One file is replaced, the others stay.
LEMMA ReplaceLemma ==
    ASSUME NEW dir \in Directory, NEW p \in Path, NEW part \in Part
    PROVE  /\ Replaced(dir, p, part) \in Directory
           /\ Replaced(dir, p, part)[p] = part
           /\ \A q \in Path : q # p => Replaced(dir, p, part)[q] = dir[q]
           /\ HoldsPrefixes(dir) /\ (\E v \in Versions : PrefixOf(part.data, p[2], v))
                => HoldsPrefixes(Replaced(dir, p, part))
<1> DEFINE out == Replaced(dir, p, part)
<1>1. /\ out \in Directory /\ out[p] = part
      /\ \A q \in Path : q # p => out[q] = dir[q]
  BY DEF Directory, Replaced
<1> HIDE DEF out
<1>2. HoldsPrefixes(dir) /\ (\E v \in Versions : PrefixOf(part.data, p[2], v))
        => HoldsPrefixes(out)
  BY <1>1 DEF HoldsPrefixes
<1> QED
  BY <1>1, <1>2 DEF out

LEMMA DiscardedLemma ==
    ASSUME NEW dir \in Directory, NEW S
    PROVE  /\ Discarded(dir, S) \in Directory
           /\ \A p \in Path : Discarded(dir, S)[p] = IF p \in S THEN None ELSE dir[p]
           /\ HoldsPrefixes(dir) => HoldsPrefixes(Discarded(dir, S))
<1>1. /\ Discarded(dir, S) \in Directory
      /\ \A p \in Path : Discarded(dir, S)[p] = IF p \in S THEN None ELSE dir[p]
  BY DEF Discarded, Directory
<1> QED
  BY <1>1 DEF HoldsPrefixes

LEMMA TruncatedLemma ==
    ASSUME NEW dir \in Directory, NEW p \in Path, dir[p] # None, NEW n \in Nat
    PROVE  /\ Truncated(dir, p, n) \in Directory
           /\ Truncated(dir, p, n)[p].data = Cut(dir[p].data, n)
           /\ Truncated(dir, p, n)[p].ps = dir[p].ps
           /\ \A q \in Path : q # p => Truncated(dir, p, n)[q] = dir[q]
           /\ HoldsPrefixes(dir) => HoldsPrefixes(Truncated(dir, p, n))
<1> DEFINE part == [dir[p] EXCEPT !.data = Cut(dir[p].data, n)]
<1>1. dir[p] \in Part /\ dir[p].data \in Seq(Unit) /\ p[2] \in Files
  BY PartLemma
<1>2. Cut(dir[p].data, n) \in Seq(Unit)
  BY <1>1, CutLemma
<1>3. part \in Part /\ part.data = Cut(dir[p].data, n) /\ part.ps = dir[p].ps
  BY <1>1, <1>2 DEF Part
<1>4. Truncated(dir, p, n) = Replaced(dir, p, part)
  BY DEF Truncated, Replaced
<1> HIDE DEF part
<1>5. HoldsPrefixes(dir) => \E v \in Versions : PrefixOf(part.data, p[2], v)
  <2>1. HoldsPrefixes(dir) => \E v \in Versions : PrefixOf(dir[p].data, p[2], v)
    BY DEF HoldsPrefixes
  <2> QED
    BY <2>1, <1>1, <1>3, PrefixCut
<1> QED
  BY <1>3, <1>4, <1>5, ReplaceLemma

\* A sidecar is written anew or lost.
LEMMA SidecarLemma ==
    ASSUME NEW dir \in Directory, NEW p \in Path, dir[p] # None,
           NEW ps \in PacketSizes \cup {NoSidecar}
    PROVE  /\ Relabelled(dir, p, ps) \in Directory
           /\ Relabelled(dir, p, ps)[p].data = dir[p].data
           /\ Relabelled(dir, p, ps)[p].ps = ps
           /\ \A q \in Path : Relabelled(dir, p, ps)[q] # None <=> dir[q] # None
           /\ \A q \in Path : q # p => Relabelled(dir, p, ps)[q] = dir[q]
           /\ HoldsPrefixes(dir) => HoldsPrefixes(Relabelled(dir, p, ps))
<1> DEFINE part == [dir[p] EXCEPT !.ps = ps]
           out == Relabelled(dir, p, ps)
<1>1. dir[p] \in Part
  BY PartLemma
<1>2. part \in Part /\ part.data = dir[p].data /\ part.ps = ps
  BY <1>1 DEF Part
<1>3. out = Replaced(dir, p, part)
  BY DEF Relabelled, Replaced
<1> HIDE DEF part, out
<1>4. HoldsPrefixes(dir) => \E v \in Versions : PrefixOf(part.data, p[2], v)
  BY <1>2 DEF HoldsPrefixes
<1>5. /\ out \in Directory /\ out[p] = part
      /\ \A q \in Path : q # p => out[q] = dir[q]
      /\ HoldsPrefixes(dir) => HoldsPrefixes(out)
  BY <1>2, <1>3, <1>4, ReplaceLemma
<1>6. part # None
  BY <1>2, NoneAssumption
<1> QED
  BY <1>2, <1>5, <1>6 DEF out

LEMMA UndiscardedLemma ==
    ASSUME NEW dir \in Directory, NEW p \in Path, dir[p] # None,
           NEW d \in Undiscarded(dir, p)
    PROVE  /\ d \in Directory
           /\ d[p].data = dir[p].data
           /\ d[p].ps \in {dir[p].ps, NoSidecar}
           /\ \A q \in Path : d[q] # None <=> dir[q] # None
           /\ \A q \in Path : q # p => d[q] = dir[q]
           /\ HoldsPrefixes(dir) => HoldsPrefixes(d)
<1>1. CASE d = dir
  BY <1>1
<1>2. CASE d = Relabelled(dir, p, NoSidecar)
  <2>1. NoSidecar \in PacketSizes \cup {NoSidecar}
    OBVIOUS
  <2> QED
    BY <1>2, <2>1, SidecarLemma
<1> QED
  BY <1>1, <1>2 DEF Undiscarded

\* A file that was to be removed is gone or holds the same data.
LEMMA DiscardOutcomesLemma ==
    ASSUME NEW dir \in Directory, NEW p \in Path, dir[p] # None,
           NEW d \in {Discarded(dir, {p})} \cup Undiscarded(dir, p)
    PROVE  /\ d \in Directory
           /\ \A q \in Path : d[q] # None => dir[q] # None /\ d[q].data = dir[q].data
           /\ HoldsPrefixes(dir) => HoldsPrefixes(d)
<1>1. CASE d = Discarded(dir, {p})
  BY <1>1, DiscardedLemma
<1>2. CASE d \in Undiscarded(dir, p)
  <2>1. /\ d \in Directory /\ d[p].data = dir[p].data
        /\ \A q \in Path : d[q] # None <=> dir[q] # None
        /\ \A q \in Path : q # p => d[q] = dir[q]
        /\ HoldsPrefixes(dir) => HoldsPrefixes(d)
    BY <1>2, UndiscardedLemma
  <2> QED
    BY <2>1
<1> QED
  BY <1>1, <1>2

\* find_partial returns one of the files it looks for.
LEMMA FirstLemma ==
    ASSUME NEW S, S \subseteq Path, S # {}
    PROVE  First(S) \in S
<1> DEFINE I == {n \in Nat : \E p \in S : p[1] = n}
<1>1. \A p \in S : p[1] \in Nat
  BY MaxClockAssumption DEF Path
<1>2. I # {} /\ I \subseteq Nat
  BY <1>1
<1>3. PICK n \in I : \A k \in I : n <= k
  BY <1>2, SmallestInNat
<1>4. \E p \in S : \A q \in S : p[1] <= q[1]
  BY <1>1, <1>3
<1> QED
  BY <1>4 DEF First
-----------------------------------------------------------------------------
\* Sequences built by the network: taking an element out and putting one in
\* keep the type and bring no element that was not there.
LEMMA WithoutLemma ==
    ASSUME NEW S, NEW s \in Seq(S), NEW i \in 1..Len(s)
    PROVE  /\ Without(s, i) \in Seq(S)
           /\ \A j \in 1..Len(Without(s, i)) :
                 \E k \in 1..Len(s) : Without(s, i)[j] = s[k]
<1>1. Len(s) \in Nat /\ \A j \in 1..Len(s) : s[j] \in S
  OBVIOUS
<1>2. Without(s, i) = [j \in 1..(Len(s) - 1) |-> IF j < i THEN s[j] ELSE s[j + 1]]
  BY DEF Without
<1>3. \A j \in 1..(Len(s) - 1) : (IF j < i THEN s[j] ELSE s[j + 1]) \in S
  BY <1>1
<1>4. Without(s, i) \in Seq(S) /\ Len(Without(s, i)) = Len(s) - 1
  BY <1>1, <1>2, <1>3
<1>5. \A j \in 1..(Len(s) - 1) : \E k \in 1..Len(s) : Without(s, i)[j] = s[k]
  BY <1>1, <1>2
<1> QED
  BY <1>4, <1>5

LEMMA QueuedLemma ==
    ASSUME NEW S, NEW s \in Seq(S), NEW m \in S
    PROVE  /\ Queued(s, m) \in Seq(S)
           /\ \A j \in 1..Len(Queued(s, m)) :
                 Queued(s, m)[j] = m \/ \E k \in 1..Len(s) : Queued(s, m)[j] = s[k]
  BY DEF Queued

LEMMA DeliverableLemma ==
    ASSUME NEW S, NEW s \in Seq(S), NEW i \in Deliverable(s)
    PROVE  i \in 1..Len(s)
  BY DEF Deliverable, Lesser

\* The payload of packet n is the run of units that follows the first n - 1
\* packets.
LEMMA ChunkLemma ==
    ASSUME NEW f \in Files, NEW v \in Versions, NEW ps \in PacketSizes,
           NEW n \in Nat \ {0}
    PROVE  /\ Chunk(f, v, ps, n) \in Seq(Unit)
           /\ Len(Chunk(f, v, ps, n)) = Covered(f, ps, n) - Covered(f, ps, n - 1)
           /\ \A i \in 1..Len(Chunk(f, v, ps, n)) :
                 Chunk(f, v, ps, n)[i] = <<f, v, Covered(f, ps, n - 1) + i>>
<1> DEFINE b == Covered(f, ps, n - 1)
           l == Covered(f, ps, n) - b
<1>1. b \in Nat /\ l \in Nat
  BY CoveredLemma
<1>2. Chunk(f, v, ps, n) = [i \in 1..l |-> <<f, v, b + i>>]
  BY DEF Chunk
<1>3. \A i \in 1..l : <<f, v, b + i>> \in Unit
  BY <1>1 DEF Unit
<1> HIDE DEF b, l
<1>4. [i \in 1..l |-> <<f, v, b + i>>] \in Seq(Unit)
  BY <1>1, <1>3
<1>5. Len([i \in 1..l |-> <<f, v, b + i>>]) = l
  BY <1>1
<1> QED
  BY <1>2, <1>4, <1>5 DEF b, l

-----------------------------------------------------------------------------
\* The sender never puts anything but a datagram of the protocol on the wire.
LEMMA PacketType ==
    ASSUME ClientTypeOK
    PROVE  Packet \in Datagram
<1> USE DEF ClientTypeOK
<1>1. job \in Job /\ seq \in Nat /\ total \in Nat \ {0}
  BY TotalLemma DEF Job, total
<1>2. CASE seq = SeqStart
  BY <1>1, <1>2 DEF Packet, Datagram, StartMsg, Job
<1>3. CASE seq # SeqStart /\ InData
  <2>1. Chunk(job.file, job.ver, job.ps, seq) \in Seq(Unit)
    BY <1>1, <1>3, ChunkLemma DEF Job, SeqStart
  <2>2. Packet = [type |-> "DATA", seq |-> seq, from |-> job.id,
                  data |-> Chunk(job.file, job.ver, job.ps, seq)]
    BY <1>3 DEF Packet
  <2> QED
    BY <2>1, <2>2, <1>1, <1>3 DEF Datagram, DataMsg, Job, SeqStart
<1>4. CASE seq # SeqStart /\ ~InData
  BY <1>1, <1>4 DEF Packet, Datagram, EndMsg, Job, SeqStart
<1> QED
  BY <1>2, <1>3, <1>4

\* An empty payload is a resume point too: no packet of no bytes.
LEMMA NoResumeType == NoResume \in ResumePoint /\ NoResume.seq = 0
BY DEF NoResume, ResumePoint

LEMMA RepliedType ==
    ASSUME NetTypeOK, NEW t, NEW s \in Nat, NEW r \in ResumePoint
    PROVE  Replied(t, s, r) \in Seq(Ack)
<1>1. [seq |-> s, resume |-> r] \in Ack
  BY DEF Ack
<1> QED
  BY <1>1, QueuedLemma DEF Replied, NetTypeOK

\* A step of the sending thread keeps the types of what it changes.
LEMMA ClientStepType ==
    ASSUME TypeOK, ClientStep(bound)
    PROVE  NetTypeOK' /\ ClientTypeOK'
<1> USE DEF TypeOK, NetTypeOK, ClientTypeOK, netVars, clientVars
<1>0. job \in Job /\ total \in Nat \ {0}
  BY TotalLemma DEF Job, total
<1>a. ASSUME NEW i \in Deliverable(toClient), Arrives(i) PROVE NetTypeOK'
  BY <1>a, DeliverableLemma, WithoutLemma DEF Arrives
<1>1. CASE EnterSendFile
  <2>1. job.id \in Nat /\ 0 \in 0..MaxRetries
    BY <1>0, MaxRetriesAssumption DEF Job
  <2> QED
    BY <2>1, <1>1 DEF EnterSendFile, SeqStart
<1>2. CASE PassStopCheck
  BY <1>2 DEF PassStopCheck
<1>3. CASE Transmit(bound)
  <2>1. Queued(toServer, Packet) \in Seq(Datagram)
    BY PacketType, QueuedLemma
  <2> QED
    BY <2>1, <1>3 DEF Transmit
<1>4. CASE Timeout
  BY <1>4 DEF Timeout
<1>5. CASE Retransmit
  BY <1>5, MaxRetriesAssumption DEF Retransmit
<1>6. CASE IgnoreAck
  BY <1>6, <1>a DEF IgnoreAck
<1>7. CASE LoseMatchingAck
  BY <1>7, <1>a DEF LoseMatchingAck
<1>8. CASE AcceptStartAck
  <2>1. PICK i \in Deliverable(toClient) :
            Arrives(i) /\ MoveTo(Lesser(toClient[i].resume.seq, total) + 1)
    BY <1>8 DEF AcceptStartAck, TakeStartAck
  <2>2. toClient[i].resume.seq \in Nat
    <3>1. i \in 1..Len(toClient)
      BY DeliverableLemma
    <3>2. toClient[i] \in Ack
      BY <3>1
    <3> QED
      BY <3>2 DEF Ack, ResumePoint
  <2>3. Lesser(toClient[i].resume.seq, total) + 1 \in Nat
    BY <2>2, <1>0 DEF Lesser
  <2> QED
    BY <2>1, <2>3, <1>a, <1>8, MaxRetriesAssumption DEF AcceptStartAck, TakeStartAck, MoveTo
<1>9. CASE AcceptDataAck
  BY <1>9, <1>a, MaxRetriesAssumption DEF AcceptDataAck, MoveTo
<1> QED
  BY <1>1, <1>2, <1>3, <1>4, <1>5, <1>6, <1>7, <1>8, <1>9 DEF ClientStep

LEMMA ThreadEndsType ==
    ASSUME TypeOK, NEW q \in Seq(Ack), ThreadEnds(q)
    PROVE  NetTypeOK' /\ ClientTypeOK'
<1> USE DEF TypeOK, NetTypeOK, ClientTypeOK
<1>1. toClient' \in Seq(Ack)
  BY DEF ThreadEnds
<1>2. attempt' \in 0..MaxRetries /\ seq' \in Nat
  BY MaxRetriesAssumption DEF ThreadEnds, SeqStart
<1>3. stop' \in BOOLEAN /\ sock' \in Nat
  BY DEF ThreadEnds
<1> QED
  BY <1>1, <1>2, <1>3 DEF ThreadEnds

\* What the receiver finds when it handles a START: the directory after the old
\* file was closed and a fresh start wiped it, and a candidate that is in it.
LEMMA ClosedLemma ==
    ASSUME TypeOK, NEW dir \in Closed
    PROVE  dir \in Directory /\ (HoldsPrefixes(parts) => HoldsPrefixes(dir))
<1>0. parts \in Directory /\ session \in Session \cup {None}
  BY DEF TypeOK, ServerTypeOK
<1>1. CASE dir = parts
  BY <1>0, <1>1
<1>2. CASE dir # parts
  <2>1. Writing /\ \E n \in 0..Len(parts[session.path].data) :
            dir = Truncated(parts, session.path, n)
    BY <1>2 DEF Closed
  <2>2. session.path \in Path /\ parts[session.path] # None
    BY <2>1, <1>0 DEF Writing, Session
  <2>3. Len(parts[session.path].data) \in Nat
    BY <2>2, <1>0, PartLemma
  <2>4. PICK n \in Nat : dir = Truncated(parts, session.path, n)
    BY <2>1, <2>3
  <2> QED
    BY <2>2, <2>4, <1>0, TruncatedLemma
<1> QED
  BY <1>1, <1>2

Candidate(offer, f) ==
    offer.found # None =>
        offer.found \in Path /\ offer.found[2] = f /\ offer.dir[offer.found] # None

LEMMA WipedLemma ==
    ASSUME NEW dir \in Directory, NEW f \in Files, NEW offer \in Wiped(dir, f)
    PROVE  /\ offer.dir \in Directory /\ Candidate(offer, f)
           /\ HoldsPrefixes(dir) => HoldsPrefixes(offer.dir)
<1>1. CASE offer = [dir |-> Discarded(dir, Leftovers(dir, f)), found |-> None]
  BY <1>1, DiscardedLemma DEF Candidate
<1>2. CASE \E stuck \in Leftovers(dir, f) :
              LET older == {p \in Leftovers(dir, f) : p[1] < stuck[1]}
              IN \E d \in Undiscarded(Discarded(dir, older), stuck) :
                    offer = [dir |-> d, found |-> stuck]
  <2>1. PICK stuck \in Leftovers(dir, f) :
            LET older == {p \in Leftovers(dir, f) : p[1] < stuck[1]}
            IN \E d \in Undiscarded(Discarded(dir, older), stuck) :
                  offer = [dir |-> d, found |-> stuck]
    BY <1>2
  <2> DEFINE older == {p \in Leftovers(dir, f) : p[1] < stuck[1]}
             rest == Discarded(dir, older)
  <2>2. stuck \in Path /\ stuck[2] = f /\ dir[stuck] # None /\ stuck[1] \in Nat
    BY MaxClockAssumption DEF Leftovers, Path
  <2>3. stuck \notin older
    BY <2>2
  <2> HIDE DEF older
  <2>4. /\ rest \in Directory /\ rest[stuck] # None
        /\ HoldsPrefixes(dir) => HoldsPrefixes(rest)
    BY <2>2, <2>3, DiscardedLemma
  <2>5. PICK d \in Undiscarded(rest, stuck) : offer = [dir |-> d, found |-> stuck]
    BY <2>1 DEF older
  <2> HIDE DEF rest
  <2>6. /\ d \in Directory /\ d[stuck] # None
        /\ HoldsPrefixes(rest) => HoldsPrefixes(d)
    BY <2>2, <2>4, <2>5, UndiscardedLemma
  <2> QED
    BY <2>2, <2>4, <2>5, <2>6 DEF Candidate
<1> QED
  BY <1>1, <1>2 DEF Wiped

LEMMA OffersLemma ==
    ASSUME TypeOK, NEW m \in StartMsg, NEW offer \in Offers(m)
    PROVE  /\ offer.dir \in Directory /\ Candidate(offer, m.file)
           /\ HoldsPrefixes(parts) => HoldsPrefixes(offer.dir)
<1>1. m.file \in Files
  BY DEF StartMsg
<1>2. PICK dir \in Closed :
          offer \in IF m.resume
                    THEN {[dir |-> dir, found |-> First(Matching(dir, m.file, m.ps))]}
                    ELSE Wiped(dir, m.file)
  BY DEF Offers
<1>3. dir \in Directory /\ (HoldsPrefixes(parts) => HoldsPrefixes(dir))
  BY ClosedLemma
<1>4. CASE m.resume
  <2> DEFINE S == Matching(dir, m.file, m.ps)
  <2>1. offer.dir = dir /\ offer.found = First(S)
    BY <1>2, <1>4
  <2>2. S \subseteq {p \in Path : p[2] = m.file /\ dir[p] # None}
    BY DEF Matching, Leftovers
  <2> HIDE DEF S
  <2>3. CASE S = {}
    BY <2>1, <2>3, <1>3 DEF First, Candidate
  <2>4. CASE S # {}
    BY <2>1, <2>2, <2>4, <1>3, FirstLemma DEF Candidate
  <2> QED
    BY <2>3, <2>4
<1>5. CASE ~m.resume
  BY <1>1, <1>2, <1>3, <1>5, WipedLemma
<1> QED
  BY <1>4, <1>5

\* A resume keeps whole packets of the candidate, and the session it opens
\* counts exactly those.
LEMMA ResumeLemma ==
    ASSUME NEW m \in StartMsg, NEW offer, offer.dir \in Directory,
           Candidate(offer, m.file), ResumeAfter(m, offer) > 0
    PROVE  /\ offer.found \in Path /\ offer.found[2] = m.file
           /\ ResumeAfter(m, offer) \in 0..TotalPackets(m.file, m.ps)
           /\ Trimmed(m, offer) \in Directory
           /\ ResumeAt(m, offer) \in ResumePoint
           /\ ResumeAt(m, offer).seq = ResumeAfter(m, offer)
           /\ Len(Trimmed(m, offer)[offer.found].data) =
                  Covered(m.file, m.ps, ResumeAfter(m, offer))
           /\ HoldsPrefixes(offer.dir) => HoldsPrefixes(Trimmed(m, offer))
<1> DEFINE dir == offer.dir
           path == offer.found
           r == Len(dir[path].data)
           kept == Aligned(r, m.file, m.ps)
<1>1. path # None
  BY DEF ResumeAfter
<1>2. path \in Path /\ path[2] = m.file /\ dir[path] # None
  BY <1>1 DEF Candidate
<1>3. m.file \in Files /\ m.ps \in PacketSizes
  BY DEF StartMsg
<1>4. dir[path].data \in Seq(Unit) /\ r \in Nat
  BY <1>2, PartLemma
<1>5. ResumeAfter(m, offer) = ResumeSeq(r, m.file, m.ps)
  BY <1>1 DEF ResumeAfter
<1>6. /\ Trimmed(m, offer) = Truncated(dir, path, kept)
      /\ ResumeAt(m, offer) = [seq |-> ResumeAfter(m, offer), bytes |-> kept]
  BY DEF Trimmed, ResumeAt, ResumeBytes
<1> HIDE DEF r
<1>7. /\ ResumeSeq(r, m.file, m.ps) \in 0..TotalPackets(m.file, m.ps)
      /\ kept \in Nat /\ kept <= r
      /\ kept = Covered(m.file, m.ps, ResumeSeq(r, m.file, m.ps))
  BY <1>3, <1>4, ResumeArithmetic
<1> HIDE DEF dir, path, kept
<1>8. /\ Truncated(dir, path, kept) \in Directory
      /\ Truncated(dir, path, kept)[path].data = Cut(dir[path].data, kept)
      /\ HoldsPrefixes(dir) => HoldsPrefixes(Truncated(dir, path, kept))
  BY <1>2, <1>7, TruncatedLemma DEF dir
<1>9. Len(Cut(dir[path].data, kept)) = kept
  <2>1. Lesser(kept, r) = kept
    BY <1>4, <1>7 DEF Lesser
  <2> QED
    BY <2>1, <1>4, <1>7, CutLemma DEF r
<1>10. ResumeAt(m, offer) \in ResumePoint /\ ResumeAt(m, offer).seq = ResumeAfter(m, offer)
  <2>1. TotalPackets(m.file, m.ps) \in Nat
    BY <1>3, TotalLemma
  <2>2. ResumeAfter(m, offer) \in Nat
    BY <2>1, <1>5, <1>7
  <2> QED
    BY <2>2, <1>6, <1>7 DEF ResumePoint
<1> QED
  BY <1>2, <1>5, <1>6, <1>7, <1>8, <1>9, <1>10 DEF dir, path

LEMMA OpenedType ==
    ASSUME NEW m \in StartMsg, NEW path \in Path, NEW r \in ResumePoint
    PROVE  Opened(m, path, r) \in Session
<1>1. m.file \in Files /\ TotalPackets(m.file, m.ps) \in Nat
  BY TotalLemma DEF StartMsg
<1>2. r.seq + 1 \in Nat \ {0}
  BY DEF ResumePoint
<1> QED
  BY <1>1, <1>2 DEF Opened, Session

LEMMA ClearedLemma ==
    ASSUME NEW offer, NEW f, offer.dir \in Directory, Candidate(offer, f),
           NEW d \in Cleared(offer)
    PROVE  d \in Directory /\ (HoldsPrefixes(offer.dir) => HoldsPrefixes(d))
<1>1. CASE offer.found = None
  BY <1>1 DEF Cleared
<1>2. CASE offer.found # None
  <2>1. offer.found \in Path /\ offer.dir[offer.found] # None
    BY <1>2 DEF Candidate
  <2>2. d \in {Discarded(offer.dir, {offer.found})} \cup Undiscarded(offer.dir, offer.found)
    BY <1>2 DEF Cleared, DiscardOutcomes
  <2> QED
    BY <2>1, <2>2, DiscardOutcomesLemma
<1> QED
  BY <1>1, <1>2

LEMMA HalfPreparedLemma ==
    ASSUME NEW m \in StartMsg, NEW offer, offer.dir \in Directory,
           Candidate(offer, m.file), NEW d \in HalfPrepared(m, offer)
    PROVE  d \in Directory /\ (HoldsPrefixes(offer.dir) => HoldsPrefixes(d))
<1>1. CASE d = offer.dir
  BY <1>1
<1>2. CASE ResumeAfter(m, offer) > 0 /\ d = Trimmed(m, offer)
  BY <1>2, ResumeLemma
<1>3. CASE d \in Cleared(offer)
  BY <1>3, ClearedLemma
<1>4. CASE \E dir \in Cleared(offer), p \in Path :
              dir[p] # None /\ d = Relabelled(dir, p, m.ps)
  <2>1. PICK dir \in Cleared(offer), p \in Path :
            dir[p] # None /\ d = Relabelled(dir, p, m.ps)
    BY <1>4
  <2>2. dir \in Directory /\ (HoldsPrefixes(offer.dir) => HoldsPrefixes(dir))
    BY ClearedLemma
  <2>3. m.ps \in PacketSizes \cup {NoSidecar}
    BY DEF StartMsg
  <2> QED
    BY <2>1, <2>2, <2>3, SidecarLemma
<1> QED
  BY <1>1, <1>2, <1>3, <1>4 DEF HalfPrepared

LEMMA WrittenType ==
    ASSUME TypeOK, session # None, NEW data \in Seq(Unit)
    PROVE  Written(data) \in Directory
<1>1. CASE parts[session.path] = None
  BY <1>1 DEF Written, TypeOK, ServerTypeOK, Directory
<1>2. CASE parts[session.path] # None
  <2>1. session.path \in Path /\ parts[session.path] \in Part
    BY <1>2 DEF TypeOK, ServerTypeOK, Directory, Session
  <2>2. [parts[session.path] EXCEPT !.data = @ \o data] \in Part
    <3>1. parts[session.path].data \o data \in Seq(Unit)
      BY <2>1 DEF Part
    <3> QED
      BY <2>1, <3>1 DEF Part
  <2>3. Written(data) = [parts EXCEPT ![session.path] =
            [parts[session.path] EXCEPT !.data = @ \o data]]
    BY <1>2 DEF Written
  <2> QED
    BY <2>1, <2>2, <2>3 DEF TypeOK, ServerTypeOK, Directory
<1> QED
  BY <1>1, <1>2

\* Closing the session, and dying with it open.
LEMMA ResetType ==
    ASSUME TypeOK, ResetSession
    PROVE  parts' \in Directory /\ session' = None /\ intact' \in BOOLEAN
  BY ClosedLemma DEF ResetSession, TypeOK, ServerTypeOK

LEMMA CrashLemma ==
    ASSUME TypeOK, Crash
    PROVE  /\ parts' \in Directory
           /\ HoldsPrefixes(parts) => HoldsPrefixes(parts')
<1>0. parts \in Directory /\ session \in Session \cup {None}
  BY DEF TypeOK, ServerTypeOK
<1>1. CASE ~Writing
  BY <1>0, <1>1 DEF Crash
<1>2. CASE Writing
  <2>1. session.path \in Path /\ parts[session.path] # None
    BY <1>0, <1>2 DEF Writing, Session
  <2>2. Len(parts[session.path].data) \in Nat
    BY <2>1, <1>0, PartLemma
  <2>3. PICK n \in Nat : parts' = Truncated(parts, session.path, n)
    BY <1>2, <2>2 DEF Crash
  <2>4. PICK dir \in {parts'} : dir = Truncated(parts, session.path, n)
    BY <2>3
  <2>5. dir \in Directory /\ (HoldsPrefixes(parts) => HoldsPrefixes(dir))
    BY <2>1, <2>4, <1>0, TruncatedLemma
  <2> QED
    BY <2>4, <2>5
<1> QED
  BY <1>1, <1>2

\* So does a step of the receiving thread.
LEMMA ServerStepType ==
    ASSUME TypeOK, ServerStep
    PROVE  NetTypeOK' /\ ServerTypeOK'
<1> USE DEF TypeOK, NetTypeOK, ServerTypeOK
<1>a. ASSUME NEW i \in Deliverable(toServer), Receive(i)
      PROVE  /\ toServer[i] \in Datagram
             /\ toServer' \in Seq(Datagram) /\ sock' \in Nat
  BY <1>a, DeliverableLemma, WithoutLemma DEF Receive
<1>b. ASSUME NEW m \in Datagram, NEW r \in ResumePoint, Acks(m, r)
      PROVE  toClient' \in Seq(Ack)
  BY <1>b, RepliedType DEF Acks, Datagram, StartMsg, DataMsg, EndMsg, SeqStart
<1>c. \A i \in Arrivals("START") : i \in Deliverable(toServer) /\ toServer[i] \in StartMsg
  BY DeliverableLemma DEF Arrivals, Datagram, StartMsg, DataMsg, EndMsg
<1>d. \A i \in Arrivals("DATA") : i \in Deliverable(toServer) /\ toServer[i] \in DataMsg
  BY DeliverableLemma DEF Arrivals, Datagram, StartMsg, DataMsg, EndMsg
<1>e. \A i \in Arrivals("END") : i \in Deliverable(toServer) /\ toServer[i] \in EndMsg
  BY DeliverableLemma DEF Arrivals, Datagram, StartMsg, DataMsg, EndMsg
<1>f. StartMsg \subseteq Datagram /\ DataMsg \subseteq Datagram /\ EndMsg \subseteq Datagram
  BY DEF Datagram
<1>1. CASE HandleDuplicateStart
  <2>1. PICK i \in Arrivals("START") :
            Receive(i) /\ Acks(toServer[i], session.resume) /\ session # None
            /\ UNCHANGED serverVars
    BY <1>1 DEF HandleDuplicateStart, IsDuplicateStart
  <2>2. session.resume \in ResumePoint
    BY <2>1 DEF Session
  <2> QED
    BY <2>1, <2>2, <1>a, <1>b, <1>c, <1>f DEF serverVars
<1>2. CASE HandleStartResume
  <2>0. PICK i \in Arrivals("START") : \E offer \in Offers(toServer[i]) :
            /\ Receive(i)
            /\ ResumeAfter(toServer[i], offer) > 0
            /\ session' = Opened(toServer[i], offer.found,
                                 ResumeAt(toServer[i], offer))
            /\ parts' = Trimmed(toServer[i], offer)
            /\ Acks(toServer[i], ResumeAt(toServer[i], offer))
            /\ UNCHANGED <<listening, finals, intact>>
    BY <1>2 DEF HandleStartResume
  <2>1. PICK offer \in Offers(toServer[i]) :
            /\ Receive(i)
            /\ ResumeAfter(toServer[i], offer) > 0
            /\ session' = Opened(toServer[i], offer.found,
                                 ResumeAt(toServer[i], offer))
            /\ parts' = Trimmed(toServer[i], offer)
            /\ Acks(toServer[i], ResumeAt(toServer[i], offer))
            /\ UNCHANGED <<listening, finals, intact>>
    BY <2>0
  <2>2. toServer[i] \in StartMsg
    BY <2>1, <1>c
  <2>3. offer.dir \in Directory /\ Candidate(offer, toServer[i].file)
    BY <2>2, OffersLemma
  <2>4. /\ ResumeAt(toServer[i], offer) \in ResumePoint
        /\ offer.found \in Path
        /\ Trimmed(toServer[i], offer) \in Directory
    BY <2>1, <2>2, <2>3, ResumeLemma, TotalLemma DEF StartMsg
  <2>5. session' \in Session
    BY <2>1, <2>2, <2>4, OpenedType
  <2> QED
    BY <2>1, <2>2, <2>4, <2>5, <1>a, <1>b, <1>c, <1>f
<1>3. CASE HandleStartFresh
  <2>0. PICK i \in Arrivals("START"), now \in 0..MaxClock :
            \E offer \in Offers(toServer[i]) : \E dir \in Cleared(offer) :
                /\ Receive(i)
                /\ parts' = [dir EXCEPT ![<<now, toServer[i].file>>] =
                                [ps |-> toServer[i].ps, data |-> <<>>]]
                /\ session' = Opened(toServer[i], <<now, toServer[i].file>>, NoResume)
                /\ Acks(toServer[i], NoResume)
                /\ UNCHANGED <<listening, finals, intact>>
    BY <1>3 DEF HandleStartFresh
  <2>1. PICK offer \in Offers(toServer[i]) : \E dir \in Cleared(offer) :
            /\ Receive(i)
            /\ parts' = [dir EXCEPT ![<<now, toServer[i].file>>] =
                            [ps |-> toServer[i].ps, data |-> <<>>]]
            /\ session' = Opened(toServer[i], <<now, toServer[i].file>>, NoResume)
            /\ Acks(toServer[i], NoResume)
            /\ UNCHANGED <<listening, finals, intact>>
    BY <2>0
  <2>2. toServer[i] \in StartMsg
    BY <2>1, <1>c
  <2>3. <<now, toServer[i].file>> \in Path
    BY <2>2 DEF StartMsg, Path
  <2>4. [ps |-> toServer[i].ps, data |-> <<>>] \in Part
    BY <2>2 DEF StartMsg, Part
  <2>5. \A dir \in Cleared(offer) : dir \in Directory
    BY <2>2, OffersLemma, ClearedLemma
  <2>6. parts' \in Directory
    BY <2>1, <2>3, <2>4, <2>5 DEF Directory
  <2>7. session' \in Session
    BY <2>1, <2>2, <2>3, OpenedType, NoResumeType
  <2> QED
    BY <2>1, <2>2, <2>6, <2>7, <1>a, <1>b, <1>c, <1>f, NoResumeType
<1>4. CASE HandleStartFails
  <2>1. PICK i \in Arrivals("START") : \E offer \in Offers(toServer[i]) :
            /\ Receive(i)
            /\ parts' \in HalfPrepared(toServer[i], offer)
            /\ session' = None /\ NoReply
            /\ UNCHANGED <<listening, finals, intact>>
    BY <1>4 DEF HandleStartFails
  <2>2. toServer[i] \in StartMsg
    BY <2>1, <1>c
  <2>3. parts' \in Directory
    BY <2>1, <2>2, OffersLemma, HalfPreparedLemma
  <2> QED
    BY <2>1, <2>3, <1>a, <1>c DEF NoReply
<1>12. CASE HandleExpectedData
  <2>1. PICK i \in Arrivals("DATA") :
            /\ Receive(i)
            /\ session # None
            /\ parts' = Written(toServer[i].data)
            /\ session' = [session EXCEPT !.expected = @ + 1]
            /\ Acks(toServer[i], NoResume)
            /\ UNCHANGED <<listening, finals, intact>>
    BY <1>12 DEF HandleExpectedData
  <2>2. toServer[i].data \in Seq(Unit)
    BY <2>1, <1>d DEF DataMsg
  <2>3. parts' \in Directory
    BY <2>1, <2>2, WrittenType
  <2>4. session' \in Session
    <3>1. session \in Session /\ session.expected + 1 \in Nat \ {0}
      BY <2>1 DEF Session
    <3> QED
      BY <2>1, <3>1 DEF Session
  <2> QED
    BY <2>1, <2>3, <2>4, <1>a, <1>b, <1>d, <1>f, NoResumeType
<1>13. CASE HandleDataWriteFails
  <2>1. PICK i \in Arrivals("DATA") :
            /\ Receive(i)
            /\ session # None
            /\ \E n \in 0..(Len(toServer[i].data) - 1) :
                  parts' = Written(Cut(toServer[i].data, n))
            /\ NoReply
            /\ UNCHANGED <<listening, session, finals, intact>>
    BY <1>13 DEF HandleDataWriteFails
  <2>2. toServer[i].data \in Seq(Unit)
    BY <2>1, <1>d DEF DataMsg
  <2>3. parts' \in Directory
    BY <2>1, <2>2, WrittenType, CutLemma
  <2> QED
    BY <2>1, <2>3, <1>a, <1>d DEF NoReply
<1>5. CASE HandleDuplicateData
  BY <1>5, <1>a, <1>b, <1>d, <1>f, NoResumeType DEF HandleDuplicateData, serverVars
<1>6. CASE IgnoreData
  BY <1>6, <1>a, <1>d, <1>f DEF IgnoreData, serverVars, NoReply
<1>7. CASE ReAckEnd
  BY <1>7, <1>a, <1>b, <1>e, <1>f, NoResumeType DEF ReAckEnd, serverVars
<1>8. CASE IgnoreIncompleteEnd
  BY <1>8, <1>a, <1>e, <1>f DEF IgnoreIncompleteEnd, serverVars, NoReply
<1>9. CASE Finalize
  <2>1. PICK i \in Arrivals("END") :
            /\ Receive(i)
            /\ session # None /\ parts[session.path] # None
            /\ finals' = [finals EXCEPT ![session.path] = parts[session.path].data]
            /\ parts' = [parts EXCEPT ![session.path] = None]
            /\ session' = None
            /\ Acks(toServer[i], NoResume)
            /\ UNCHANGED <<listening, intact>>
    BY <1>9 DEF Finalize, AllReceived
  <2>2. session.path \in Path /\ parts[session.path].data \in Seq(Unit)
    BY <2>1 DEF Session, Part, Directory
  <2> QED
    BY <2>1, <2>2, <1>a, <1>b, <1>e, <1>f, NoResumeType DEF Directory
<1>10. CASE FinalizeFails
  <2>1. PICK i \in Arrivals("END") :
            /\ Receive(i)
            /\ session # None
            /\ session' \in {session, [session EXCEPT !.out = "closed"]}
            /\ NoReply
            /\ UNCHANGED <<listening, parts, finals, intact>>
    BY <1>10 DEF FinalizeFails, AllReceived
  <2>2. session \in Session
    BY <2>1
  <2>3. session' \in Session
    BY <2>1, <2>2 DEF Session
  <2> QED
    BY <2>1, <2>3, <1>a, <1>e DEF NoReply
<1>11. CASE UseClosedFile
  BY <1>11, <1>a, <1>d, <1>e DEF UseClosedFile, NoReply
<1> QED
  BY <1>1, <1>2, <1>3, <1>4, <1>5, <1>6, <1>7, <1>8, <1>9, <1>10, <1>11, <1>12,
     <1>13
  DEF ServerStep
-----------------------------------------------------------------------------
\* Everything that is not an action of one of the threads.
THEOREM TypeCorrect == Spec => []TypeOK
<1>1. Init => TypeOK
  <2> SUFFICES ASSUME Init PROVE TypeOK
    OBVIOUS
  <2>1. NetTypeOK
    BY DEF Init, NetTypeOK
  <2>2. ClientTypeOK
    <3>1. job \in Job
      BY DEF Init, Job
    <3>2. seq \in Nat
      BY DEF Init, SeqStart
    <3>3. attempt \in 0..MaxRetries
      BY MaxRetriesAssumption DEF Init
    <3>4. stop \in BOOLEAN
      BY DEF Init
    <3>5. pc \in {"none", "created", "loop", "send", "wait", "unacked"}
      BY DEF Init
    <3> QED
      BY <3>1, <3>2, <3>3, <3>4, <3>5 DEF ClientTypeOK
  <2>3. ServerTypeOK
    BY DEF Init, ServerInit, ServerTypeOK, Directory
  <2>4. NoCancel \in Canceller
    BY DEF NoCancel, Canceller
  <2>5. transfers \in 0..MaxTransfers
    BY MaxTransfersAssumption DEF Init
  <2> QED
    BY <2>1, <2>2, <2>3, <2>4, <2>5 DEF Init, TypeOK
<1>2. TypeOK /\ [Next]_vars => TypeOK'
  <2> SUFFICES ASSUME TypeOK, [Next]_vars PROVE TypeOK'
    OBVIOUS
  <2> USE DEF TypeOK
  <2>1. CASE StartServer
    BY <2>1 DEF StartServer, netVars, clientVars, NetTypeOK, ClientTypeOK,
       ServerTypeOK
  <2>2. CASE StopServer
    <3>1. NetTypeOK' /\ ClientTypeOK'
      BY <2>2 DEF StopServer, clientVars, NetTypeOK, ClientTypeOK
    <3>2. ServerTypeOK'
      BY <2>2, ResetType DEF StopServer, ServerTypeOK
    <3>3. canceller' \in Canceller
      BY <2>2 DEF StopServer, Canceller
    <3> QED
      BY <3>1, <3>2, <3>3, <2>2 DEF StopServer
  <2>3. CASE StartTransfer
    <3>1. NetTypeOK' /\ ServerTypeOK'
      BY <2>3 DEF StartTransfer, netVars, NetTypeOK, ServerTypeOK
    <3>2. transfers + 1 \in 1..MaxTransfers
      BY <2>3, MaxTransfersAssumption DEF StartTransfer
    <3>3. job' \in Job
      BY <2>3, <3>2 DEF StartTransfer, Job
    <3>4. canceller' \in Canceller
      BY <2>3 DEF StartTransfer, Canceller
    <3>5. ClientTypeOK'
      <4>1. pc' = "created" /\ UNCHANGED <<seq, attempt, stop>>
        BY <2>3 DEF StartTransfer
      <4> QED
        BY <3>3, <4>1 DEF ClientTypeOK
    <3>6. status' = "transferring" /\ cancelRequested' = FALSE /\ bound' = bound
          /\ transfers' = transfers + 1
      BY <2>3 DEF StartTransfer
    <3>7. transfers' \in 0..MaxTransfers
      BY <3>2, <3>6
    <3> QED
      BY <3>1, <3>4, <3>5, <3>6, <3>7
  <2>4. CASE Succeed \/ Fail \/ Abort
    <3>1. NetTypeOK' /\ ClientTypeOK'
      <4>1. PICK q \in {toClient} \cup
                       {Without(toClient, i) : i \in Deliverable(toClient)} :
                ThreadEnds(q)
        BY <2>4 DEF Succeed, Fail, Abort, AcceptEndAck, GiveUp
      <4>2. q \in Seq(Ack)
        BY DeliverableLemma, WithoutLemma DEF NetTypeOK
      <4> QED
        BY <4>1, <4>2, ThreadEndsType
    <3>2. status' \in {"completed", "failed", "cancelled"}
      BY <2>4 DEF Succeed, Fail, Abort, Finish, Outcome
    <3> QED
      BY <3>1, <3>2, <2>4
      DEF Succeed, Fail, Abort, Finish, serverVars, ServerTypeOK
  <2>5. CASE RequestCancel
    BY <2>5 DEF RequestCancel, Canceller, netVars, clientVars, serverVars,
       NetTypeOK, ClientTypeOK, ServerTypeOK
  <2>6. CASE CancelClient
    BY <2>6 DEF CancelClient, Canceller, netVars, serverVars, NetTypeOK,
       ClientTypeOK, ServerTypeOK
  <2>7. CASE CancelSession
    <3>1. NetTypeOK' /\ ClientTypeOK'
      BY <2>7 DEF CancelSession, netVars, clientVars, NetTypeOK, ClientTypeOK
    <3>2. parts' \in Directory /\ session' \in Session \cup {None} /\ intact' \in BOOLEAN
      BY <2>7, ResetType DEF CancelSession, ServerTypeOK
    <3>3. ServerTypeOK'
      BY <2>7, <3>2 DEF CancelSession, ServerTypeOK
    <3>4. canceller' \in Canceller
      BY <2>7 DEF CancelSession, NoCancel, Canceller
    <3> QED
      BY <3>1, <3>3, <3>4, <2>7 DEF CancelSession
  <2>8. CASE DiscardLeftover
    <3>1. PICK f \in Files :
              /\ Leftovers(parts, f) # {}
              /\ parts' \in DiscardOutcomes(parts, First(Leftovers(parts, f)),
                                            "locked" \in Faults)
      BY <2>8 DEF DiscardLeftover
    <3>2. Leftovers(parts, f) \subseteq {p \in Path : parts[p] # None}
      BY DEF Leftovers
    <3>3. PICK p \in {First(Leftovers(parts, f))} : p \in Path /\ parts[p] # None
      BY <3>1, <3>2, FirstLemma
    <3>4. PICK d \in {Discarded(parts, {p})} \cup Undiscarded(parts, p) : d = parts'
      BY <3>1, <3>3 DEF DiscardOutcomes
    <3>5. parts' \in Directory
      BY <3>3, <3>4, DiscardOutcomesLemma DEF ServerTypeOK
    <3> QED
      BY <3>5, <2>8 DEF DiscardLeftover, netVars, clientVars, managerVars,
         NetTypeOK, ClientTypeOK, ServerTypeOK
  <2>9. CASE Crash
    <3>1. parts' \in Directory
      BY <2>9, CrashLemma
    <3>2. NetTypeOK'
      BY <2>9 DEF Crash, NetTypeOK
    <3>3. attempt' \in 0..MaxRetries /\ seq' \in Nat
      BY <2>9, MaxRetriesAssumption DEF Crash, SeqStart
    <3>4. ClientTypeOK'
      BY <2>9, <3>3 DEF Crash, ClientTypeOK
    <3>5. canceller' \in Canceller
      BY <2>9 DEF Crash, NoCancel, Canceller
    <3> QED
      BY <3>1, <3>2, <3>4, <3>5, <2>9 DEF Crash, ServerTypeOK
  <2>10. CASE ClientMoves
    BY <2>10, ClientStepType DEF ClientMoves, serverVars, managerVars, ServerTypeOK
  <2>11. CASE ServerMoves
    BY <2>11, ServerStepType DEF ServerMoves, clientVars, managerVars, ClientTypeOK
  <2>12. CASE NetworkMoves
    <3>1. NetTypeOK'
      BY <2>12, DeliverableLemma, WithoutLemma
      DEF NetworkMoves, LoseDatagram, LoseAck, NetTypeOK
    <3> QED
      BY <3>1, <2>12 DEF NetworkMoves, clientVars, serverVars, managerVars,
         ClientTypeOK, ServerTypeOK
  <2>13. CASE UNCHANGED vars
    BY <2>13 DEF vars, netVars, clientVars, serverVars, managerVars, NetTypeOK,
       ClientTypeOK, ServerTypeOK
  <2> QED
    BY <2>1, <2>2, <2>3, <2>4, <2>5, <2>6, <2>7, <2>8, <2>9, <2>10, <2>11, <2>12,
       <2>13
    DEF Next
<1> QED
  BY <1>1, <1>2, PTL DEF Spec
-----------------------------------------------------------------------------
\* At most one leftover per file and packet size.

OneEach(dir) ==
    \A f \in Files, ps \in PacketSizes : \A p, q \in Matching(dir, f, ps) : p = q

\* What find_partial can find in d, it finds under the same packet size in dir.
Fewer(d, dir) ==
    \A p \in Path : d[p] # None /\ d[p].ps # NoSidecar =>
        dir[p] # None /\ d[p].ps = dir[p].ps

LEMMA FewerLemma ==
    ASSUME NEW d, NEW dir, Fewer(d, dir)
    PROVE  /\ \A f, ps : Matching(d, f, ps) \subseteq Matching(dir, f, ps)
           /\ OneEach(dir) => OneEach(d)
<1>1. \A f, ps : Matching(d, f, ps) \subseteq Matching(dir, f, ps)
  BY DEF Matching, Leftovers, Fewer
<1> QED
  BY <1>1 DEF OneEach

LEMMA TruncatedIsFewer ==
    ASSUME NEW dir \in Directory, NEW p \in Path, dir[p] # None, NEW n \in Nat
    PROVE  Fewer(Truncated(dir, p, n), dir)
<1>1. /\ Truncated(dir, p, n)[p].ps = dir[p].ps
      /\ \A q \in Path : q # p => Truncated(dir, p, n)[q] = dir[q]
  BY TruncatedLemma
<1> QED
  BY <1>1 DEF Fewer

LEMMA DiscardedIsFewer ==
    ASSUME NEW dir \in Directory, NEW S
    PROVE  Fewer(Discarded(dir, S), dir)
  BY DiscardedLemma DEF Fewer

LEMMA ClosedIsFewer ==
    ASSUME TypeOK, NEW dir \in Closed
    PROVE  Fewer(dir, parts)
<1>1. CASE dir = parts
  BY <1>1 DEF Fewer
<1>2. CASE dir # parts
  <2>1. Writing /\ \E n \in 0..Len(parts[session.path].data) :
            dir = Truncated(parts, session.path, n)
    BY <1>2 DEF Closed
  <2>2. session.path \in Path /\ parts[session.path] # None /\ parts \in Directory
    BY <2>1 DEF Writing, Session, TypeOK, ServerTypeOK
  <2>3. Len(parts[session.path].data) \in Nat
    BY <2>2, PartLemma
  <2>4. PICK n \in Nat : dir = Truncated(parts, session.path, n)
    BY <2>1, <2>3
  <2> QED
    BY <2>2, <2>4, TruncatedIsFewer
<1> QED
  BY <1>1, <1>2

\* When nothing is locked, what a START finds holds nothing but older files, and
\* the one leftover it may continue is the candidate.
LEMMA OffersOne ==
    ASSUME TypeOK, OneLeftoverPerFile, "locked" \notin Faults,
           NEW m \in StartMsg, NEW offer \in Offers(m)
    PROVE  /\ Fewer(offer.dir, parts)
           /\ Matching(offer.dir, m.file, m.ps) \subseteq {offer.found}
           /\ offer.found = None => Matching(offer.dir, m.file, m.ps) = {}
<1>1. PICK dir \in Closed :
          offer \in IF m.resume
                    THEN {[dir |-> dir, found |-> First(Matching(dir, m.file, m.ps))]}
                    ELSE Wiped(dir, m.file)
  BY DEF Offers
<1>2. dir \in Directory /\ Fewer(dir, parts)
  BY ClosedLemma, ClosedIsFewer
<1>3. OneEach(dir)
  BY <1>2, FewerLemma DEF OneEach, OneLeftoverPerFile
<1>4. m.file \in Files /\ m.ps \in PacketSizes
  BY DEF StartMsg
<1>5. CASE m.resume
  <2> DEFINE S == Matching(dir, m.file, m.ps)
  <2>1. offer.dir = dir /\ offer.found = First(S)
    BY <1>1, <1>5
  <2>2. S \subseteq Path /\ \A p, q \in S : p = q
    BY <1>3, <1>4 DEF Matching, Leftovers, OneEach
  <2> HIDE DEF S
  <2>3. CASE S = {}
    BY <2>1, <2>3, <1>2 DEF S
  <2>4. CASE S # {}
    <3>1. First(S) \in S
      BY <2>2, <2>4, FirstLemma
    <3>2. First(S) # None
      BY <3>1, <2>2, NoneAssumption
    <3> QED
      BY <3>1, <3>2, <2>1, <2>2, <1>2 DEF S
  <2> QED
    BY <2>3, <2>4
<1>6. CASE ~m.resume
  <2>1. offer = [dir |-> Discarded(dir, Leftovers(dir, m.file)), found |-> None]
    BY <1>1, <1>6 DEF Wiped
  <2> DEFINE left == Discarded(dir, Leftovers(dir, m.file))
  <2>2. \A p \in Path : left[p] = IF p \in Leftovers(dir, m.file) THEN None ELSE dir[p]
    BY <1>2, DiscardedLemma
  <2>3. offer.dir = left /\ offer.found = None
    BY <2>1
  <2> HIDE DEF left
  <2>4. Matching(left, m.file, m.ps) = {}
    BY <2>2 DEF Matching, Leftovers
  <2>5. Fewer(left, parts)
    BY <2>2, <1>2 DEF Fewer
  <2> QED
    BY <2>3, <2>4, <2>5
<1> QED
  BY <1>5, <1>6

\* A candidate that is too short is out of the way before the new file is made.
LEMMA ClearedOne ==
    ASSUME TypeOK, OneLeftoverPerFile, "locked" \notin Faults,
           NEW m \in StartMsg, NEW offer \in Offers(m), NEW d \in Cleared(offer)
    PROVE  d \in Directory /\ Fewer(d, parts) /\ Matching(d, m.file, m.ps) = {}
<1>1. /\ Fewer(offer.dir, parts)
      /\ Matching(offer.dir, m.file, m.ps) \subseteq {offer.found}
      /\ offer.found = None => Matching(offer.dir, m.file, m.ps) = {}
  BY OffersOne
<1>2. offer.dir \in Directory
  BY OffersLemma
<1>3. CASE offer.found = None
  BY <1>1, <1>2, <1>3 DEF Cleared
<1>4. CASE offer.found # None
  <2>1. d = Discarded(offer.dir, {offer.found})
    BY <1>4 DEF Cleared, DiscardOutcomes
  <2>2. /\ d \in Directory
        /\ \A p \in Path : d[p] = IF p \in {offer.found} THEN None ELSE offer.dir[p]
    BY <2>1, <1>2, DiscardedLemma
  <2>3. Fewer(d, parts)
    BY <2>2, <1>1 DEF Fewer
  <2>4. Matching(d, m.file, m.ps) = {}
    BY <2>2, <1>1 DEF Matching, Leftovers
  <2> QED
    BY <2>2, <2>3, <2>4
<1> QED
  BY <1>3, <1>4

\* The directory gets one more entry under m's packet size, where it had none.
LEMMA NewEntry ==
    ASSUME NEW d, Fewer(d, parts), OneLeftoverPerFile,
           NEW f \in Files, NEW ps \in PacketSizes, Matching(d, f, ps) = {},
           NEW path \in Path, path[2] = f, NEW e, e[path].ps = ps,
           \A p \in Path : p # path => e[p] = d[p]
    PROVE  OneEach(e)
<1>1. OneEach(d)
  BY FewerLemma DEF OneEach, OneLeftoverPerFile
<1>2. SUFFICES ASSUME NEW g \in Files, NEW s \in PacketSizes,
                      NEW p \in Matching(e, g, s), NEW q \in Matching(e, g, s)
               PROVE  p = q
  BY DEF OneEach
<1>3. \A r \in Matching(e, g, s) : r # path => r \in Matching(d, g, s)
  BY DEF Matching, Leftovers
<1>4. CASE path \notin Matching(e, g, s)
  BY <1>1, <1>3, <1>4 DEF OneEach
<1>5. CASE path \in Matching(e, g, s)
  <2>1. g = f /\ s = ps
    BY <1>5 DEF Matching, Leftovers
  <2> QED
    BY <2>1, <1>3
<1> QED
  BY <1>4, <1>5

LEMMA StartKeepsOne ==
    ASSUME TypeOK, OneLeftoverPerFile, "locked" \notin Faults,
           HandleStartResume \/ HandleStartFresh \/ HandleStartFails
    PROVE  OneEach(parts')
<1>1. ASSUME NEW i \in Arrivals("START") PROVE toServer[i] \in StartMsg
  BY DeliverableLemma
  DEF Arrivals, TypeOK, NetTypeOK, Datagram, StartMsg, DataMsg, EndMsg
<1>2. ASSUME NEW m \in StartMsg, NEW offer \in Offers(m), ResumeAfter(m, offer) > 0,
             parts' = Trimmed(m, offer)
      PROVE  OneEach(parts')
  <2>1. offer.dir \in Directory /\ Candidate(offer, m.file) /\ Fewer(offer.dir, parts)
    BY OffersLemma, OffersOne
  <2>2. offer.found \in Path /\ offer.dir[offer.found] # None
    BY <1>2, <2>1 DEF ResumeAfter, Candidate
  <2> DEFINE r == Len(offer.dir[offer.found].data)
             kept == Aligned(r, m.file, m.ps)
  <2>3. kept \in Nat
    <3>1. r \in Nat /\ m.file \in Files /\ m.ps \in PacketSizes
      BY <2>1, <2>2, PartLemma DEF StartMsg
    <3> HIDE DEF r
    <3> QED
      BY <3>1, ResumeArithmetic
  <2>4. parts' = Truncated(offer.dir, offer.found, kept)
    BY <1>2 DEF Trimmed, ResumeBytes
  <2> HIDE DEF kept
  <2>5. Fewer(parts', offer.dir)
    BY <2>1, <2>2, <2>3, <2>4, TruncatedIsFewer
  <2> QED
    BY <2>1, <2>5, FewerLemma DEF OneEach, OneLeftoverPerFile
<1>3. CASE HandleStartResume
  <2>1. PICK i \in Arrivals("START") : \E offer \in Offers(toServer[i]) :
            /\ ResumeAfter(toServer[i], offer) > 0
            /\ parts' = Trimmed(toServer[i], offer)
    BY <1>3 DEF HandleStartResume
  <2> QED
    BY <2>1, <1>1, <1>2
<1>4. CASE HandleStartFresh
  <2>1. PICK i \in Arrivals("START"), now \in 0..MaxClock :
            \E offer \in Offers(toServer[i]) : \E dir \in Cleared(offer) :
                parts' = [dir EXCEPT ![<<now, toServer[i].file>>] =
                                [ps |-> toServer[i].ps, data |-> <<>>]]
    BY <1>4 DEF HandleStartFresh
  <2> DEFINE m == toServer[i]
             path == <<now, m.file>>
  <2>2. m \in StartMsg
    BY <1>1
  <2>3. PICK offer \in Offers(m) : \E dir \in Cleared(offer) :
            parts' = [dir EXCEPT ![path] = [ps |-> m.ps, data |-> <<>>]]
    BY <2>1
  <2>9. PICK dir \in Cleared(offer) :
            parts' = [dir EXCEPT ![path] = [ps |-> m.ps, data |-> <<>>]]
    BY <2>3
  <2>4. dir \in Directory /\ Fewer(dir, parts) /\ Matching(dir, m.file, m.ps) = {}
    BY <2>2, <2>9, ClearedOne
  <2>5. /\ path \in Path /\ path[2] = m.file /\ m.file \in Files /\ m.ps \in PacketSizes
    BY <2>2 DEF StartMsg, Path
  <2> HIDE DEF m, path
  <2>6. parts'[path].ps = m.ps /\ \A p \in Path : p # path => parts'[p] = dir[p]
    BY <2>9, <2>4, <2>5 DEF Directory
  <2>7. PICK e \in {parts'} : e = parts'
    OBVIOUS
  <2>8. OneEach(e)
    BY <2>4, <2>5, <2>6, <2>7, NewEntry
  <2> QED
    BY <2>7, <2>8
<1>5. CASE HandleStartFails
  <2>0. PICK i \in Arrivals("START") : \E offer \in Offers(toServer[i]) :
            parts' \in HalfPrepared(toServer[i], offer)
    BY <1>5 DEF HandleStartFails
  <2>1. PICK offer \in Offers(toServer[i]) : parts' \in HalfPrepared(toServer[i], offer)
    BY <2>0
  <2> DEFINE m == toServer[i]
  <2>2. m \in StartMsg /\ m.file \in Files /\ m.ps \in PacketSizes
    BY <1>1 DEF StartMsg
  <2> HIDE DEF m
  <2>3. CASE ResumeAfter(m, offer) > 0 /\ parts' = Trimmed(m, offer)
    BY <2>1, <2>2, <2>3, <1>2 DEF m
  <2>4. CASE parts' = offer.dir
    <3>1. Fewer(offer.dir, parts)
      BY <2>1, <2>2, OffersOne DEF m
    <3> QED
      BY <3>1, <2>4, FewerLemma DEF OneEach, OneLeftoverPerFile
  <2>5. CASE parts' \in Cleared(offer)
    <3>1. PICK d \in Cleared(offer) : d = parts'
      BY <2>5
    <3>2. Fewer(d, parts)
      BY <2>1, <2>2, ClearedOne DEF m
    <3>3. OneEach(d)
      BY <3>2, FewerLemma DEF OneEach, OneLeftoverPerFile
    <3> QED
      BY <3>1, <3>3
  <2>6. CASE \E dir \in Cleared(offer), p \in Path :
                p[2] = m.file /\ dir[p] # None /\ parts' = Relabelled(dir, p, m.ps)
    <3>1. PICK dir \in Cleared(offer), p \in Path :
              p[2] = m.file /\ dir[p] # None /\ parts' = Relabelled(dir, p, m.ps)
      BY <2>6
    <3>2. dir \in Directory /\ Fewer(dir, parts) /\ Matching(dir, m.file, m.ps) = {}
      BY <2>1, <2>2, ClearedOne DEF m
    <3>3. PICK e \in {parts'} : e = Relabelled(dir, p, m.ps)
      BY <3>1
    <3>4. e[p].ps = m.ps /\ \A q \in Path : q # p => e[q] = dir[q]
      BY <3>1, <3>2, <3>3, <2>2, SidecarLemma
    <3>5. OneEach(e)
      BY <3>1, <3>2, <3>4, <2>2, NewEntry
    <3> QED
      BY <3>3, <3>5
  <2> QED
    BY <2>1, <2>3, <2>4, <2>5, <2>6 DEF HalfPrepared, m
<1> QED
  BY <1>3, <1>4, <1>5

\* Every other step leaves fewer leftovers, or the same.
LEMMA NextKeepsOne ==
    ASSUME TypeOK, OneLeftoverPerFile, "locked" \notin Faults, [Next]_vars
    PROVE  OneLeftoverPerFile'
<1>0. SUFFICES OneEach(parts')
  BY DEF OneEach, OneLeftoverPerFile
<1>1. OneEach(parts) /\ parts \in Directory
  BY DEF OneEach, OneLeftoverPerFile, TypeOK, ServerTypeOK
<1>2. ASSUME NEW d, d = parts', Fewer(d, parts) PROVE OneEach(parts')
  BY <1>1, <1>2, FewerLemma
<1>3. ASSUME UNCHANGED parts PROVE OneEach(parts')
  BY <1>1, <1>3
<1>4. ASSUME ResetSession PROVE OneEach(parts')
  <2>1. PICK d \in Closed : d = parts'
    BY <1>4 DEF ResetSession
  <2> QED
    BY <2>1, <1>2, ClosedIsFewer
<1>5. CASE StopServer \/ CancelSession
  BY <1>5, <1>3, <1>4 DEF StopServer, CancelSession
<1>6. CASE DiscardLeftover
  <2>1. PICK f \in Files :
            /\ Leftovers(parts, f) # {}
            /\ parts' \in DiscardOutcomes(parts, First(Leftovers(parts, f)),
                                          "locked" \in Faults)
    BY <1>6 DEF DiscardLeftover
  <2>2. parts' = Discarded(parts, {First(Leftovers(parts, f))})
    BY <2>1 DEF DiscardOutcomes
  <2>3. PICK d \in {parts'} : d = parts' /\ d = Discarded(parts, {First(Leftovers(parts, f))})
    BY <2>2
  <2> QED
    BY <2>3, <1>1, <1>2, DiscardedIsFewer
<1>7. CASE Crash
  <2>1. CASE ~Writing
    BY <1>7, <2>1, <1>3 DEF Crash
  <2>2. CASE Writing
    <3>1. session.path \in Path /\ parts[session.path] # None
      BY <2>2 DEF Writing, Session, TypeOK, ServerTypeOK
    <3>2. Len(parts[session.path].data) \in Nat
      BY <3>1, <1>1, PartLemma
    <3>3. PICK n \in Nat : parts' = Truncated(parts, session.path, n)
      BY <1>7, <2>2, <3>2 DEF Crash
    <3>4. PICK d \in {parts'} : d = parts' /\ d = Truncated(parts, session.path, n)
      BY <3>3
    <3> QED
      BY <3>1, <3>4, <1>1, <1>2, TruncatedIsFewer
  <2> QED
    BY <2>1, <2>2
<1>8. CASE StartServer \/ StartTransfer \/ Succeed \/ Fail \/ Abort \/ RequestCancel
           \/ CancelClient \/ ClientMoves \/ NetworkMoves \/ UNCHANGED vars
  BY <1>8, <1>3 DEF StartServer, StartTransfer, Succeed, Fail, Abort, Finish,
     RequestCancel, CancelClient, ClientMoves, NetworkMoves, vars, serverVars
<1>9. CASE ServerMoves
  <2>1. CASE HandleStartResume \/ HandleStartFresh \/ HandleStartFails
    BY <2>1, StartKeepsOne
  <2>2. ASSUME session # None, NEW data \in Seq(Unit), parts' = Written(data)
        PROVE  OneEach(parts')
    <3>1. session.path \in Path
      BY <2>2 DEF TypeOK, ServerTypeOK, Session
    <3>2. CASE parts[session.path] # None
      <4>1. parts[session.path] \in Part
        BY <3>1, <3>2, <1>1 DEF Directory
      <4>2. parts' = [parts EXCEPT ![session.path] =
                [parts[session.path] EXCEPT !.data = @ \o data]]
        BY <2>2, <3>2 DEF Written
      <4>3. /\ parts'[session.path].ps = parts[session.path].ps
            /\ \A p \in Path : p # session.path => parts'[p] = parts[p]
        BY <4>1, <4>2, <3>1, <1>1 DEF Directory, Part
      <4>4. \A p \in Path : parts'[p] # None => parts[p] # None /\ parts'[p].ps = parts[p].ps
        BY <4>3, <3>2
      <4>5. PICK d \in {parts'} : d = parts'
        OBVIOUS
      <4>6. Fewer(d, parts)
        BY <4>4, <4>5 DEF Fewer
      <4> QED
        BY <4>5, <4>6, <1>2
    <3>3. CASE parts[session.path] = None
      BY <2>2, <3>3, <1>3 DEF Written
    <3> QED
      BY <3>2, <3>3
  <2>3. ASSUME NEW i \in Arrivals("DATA") PROVE toServer[i].data \in Seq(Unit)
    BY DeliverableLemma
    DEF Arrivals, TypeOK, NetTypeOK, Datagram, StartMsg, DataMsg, EndMsg
  <2>4. CASE HandleExpectedData
    BY <2>2, <2>3, <2>4 DEF HandleExpectedData
  <2>5. CASE HandleDataWriteFails
    <3>1. PICK i \in Arrivals("DATA") :
              session # None /\ \E n \in 0..(Len(toServer[i].data) - 1) :
                                    parts' = Written(Cut(toServer[i].data, n))
      BY <2>5 DEF HandleDataWriteFails
    <3>3. PICK n \in Nat : parts' = Written(Cut(toServer[i].data, n))
      BY <3>1
    <3>2. Cut(toServer[i].data, n) \in Seq(Unit)
      BY <2>3, CutLemma
    <3> QED
      BY <3>1, <3>2, <3>3, <2>2
  <2>6. CASE Finalize
    <3>1. session # None /\ parts' = [parts EXCEPT ![session.path] = None]
      BY <2>6 DEF Finalize, AllReceived
    <3>2. PICK d \in {parts'} : d = [parts EXCEPT ![session.path] = None] /\ d = parts'
      BY <3>1
    <3>3. Fewer(d, parts)
      BY <3>2, <1>1 DEF Fewer, Directory
    <3> QED
      BY <3>2, <3>3, <1>2
  <2>7. CASE HandleDuplicateStart \/ HandleDuplicateData \/ IgnoreData \/ ReAckEnd
             \/ IgnoreIncompleteEnd \/ FinalizeFails \/ UseClosedFile
    BY <2>7, <1>3 DEF HandleDuplicateStart, HandleDuplicateData, IgnoreData, ReAckEnd,
       IgnoreIncompleteEnd, FinalizeFails, UseClosedFile, serverVars
  <2> QED
    BY <2>1, <2>4, <2>5, <2>6, <2>7, <1>9 DEF ServerMoves, ServerStep
<1> QED
  BY <1>5, <1>6, <1>7, <1>8, <1>9 DEF Next

\* Whatever versions, packet sizes, losses, cancels, crashes and clock there are,
\* find_partial's first match is the only one (resume_fs.py:75-100,
\* server.py:75-137), as long as a leftover that is to go can be removed: with
\* "locked" among Faults it is false.
THEOREM OneLeftoverHolds ==
    ASSUME "locked" \notin Faults
    PROVE  Spec => []OneLeftoverPerFile
<1>1. Init => OneLeftoverPerFile
  <2> SUFFICES ASSUME Init PROVE OneLeftoverPerFile
    OBVIOUS
  <2>1. \A p \in Path : parts[p] = None
    BY DEF Init, ServerInit
  <2> QED
    BY <2>1 DEF OneLeftoverPerFile, Matching, Leftovers
<1>2. TypeOK /\ OneLeftoverPerFile /\ [Next]_vars => OneLeftoverPerFile'
  BY NextKeepsOne
<1> QED
  BY <1>1, <1>2, TypeCorrect, PTL DEF Spec
-----------------------------------------------------------------------------
\* Arithmetic of packets.

\* The expected packet continues the prefix that the packets before it make.
LEMMA PrefixAppend ==
    ASSUME NEW f \in Files, NEW v \in Versions, NEW ps \in PacketSizes,
           NEW data \in Seq(Unit), NEW n \in 1..TotalPackets(f, ps),
           PrefixOf(data, f, v), Len(data) = Covered(f, ps, n - 1)
    PROVE  /\ PrefixOf(data \o Chunk(f, v, ps, n), f, v)
           /\ Len(data \o Chunk(f, v, ps, n)) = Covered(f, ps, n)
<1> DEFINE c == Chunk(f, v, ps, n)
           b == Covered(f, ps, n - 1)
<1>1. n \in Nat \ {0}
  BY TotalLemma
<1>2. /\ c \in Seq(Unit) /\ Len(c) = Covered(f, ps, n) - b
      /\ \A i \in 1..Len(c) : c[i] = <<f, v, b + i>>
  BY <1>1, ChunkLemma
<1>3. b \in Nat /\ Covered(f, ps, n) \in Nat /\ b <= Covered(f, ps, n)
      /\ Covered(f, ps, n) <= FileSize[f]
  BY <1>1, CoveredLemma
<1> HIDE DEF c, b
<1>4. Len(data \o c) = Covered(f, ps, n)
  <2>1. Len(data) = b
    BY DEF b
  <2>2. c \in Seq(Unit) /\ Len(c) = Covered(f, ps, n) - b
    BY <1>2
  <2>3. Len(data \o c) = Len(data) + Len(c)
    BY <2>2
  <2> QED
    BY <2>1, <2>2, <2>3, <1>3
<1>5. ASSUME NEW j \in 1..Len(data \o c) PROVE (data \o c)[j] = <<f, v, j>>
  <2>1. CASE j <= Len(data)
    BY <2>1, <1>2 DEF PrefixOf
  <2>2. CASE j > Len(data)
    <3>1. Len(data) = b /\ j - b \in 1..Len(c)
      BY <2>2, <1>2, <1>3, <1>4 DEF b
    <3>2. (data \o c)[j] = c[j - b]
      BY <2>2, <3>1, <1>2
    <3>3. b + (j - b) = j
      BY <1>3
    <3> QED
      BY <3>1, <3>2, <3>3, <1>2
  <2> QED
    BY <2>1, <2>2, <1>2
<1> QED
  BY <1>3, <1>4, <1>5 DEF PrefixOf, c
-----------------------------------------------------------------------------
\* The directory.

DiskOK == Integrity /\ SessionFits

LEMMA OneChoice ==
    ASSUME NothingToMixUp
    PROVE  /\ \A v, w \in Versions : v = w
           /\ \A p, q \in PacketSizes : p = q
           /\ "torn" \notin Faults
  BY DEF NothingToMixUp

\* Nothing is written, and the session is gone or its file is gone or as it was.
LEMMA DiskShrinks ==
    ASSUME TypeOK, DiskOK,
           HoldsPrefixes(parts'), UNCHANGED finals,
           \/ session' = None
           \/ /\ session' = session
              /\ \A p \in Path : parts'[p] # None =>
                    parts[p] # None /\ parts'[p].data = parts[p].data
    PROVE  DiskOK'
<1>1. PartsArePrefixes'
  BY DEF PartsArePrefixes, HoldsPrefixes
<1>2. FinalsAreWhole'
  BY DEF DiskOK, Integrity, FinalsAreWhole
<1>3. SessionFits'
  <2>1. CASE session' = None
    BY <2>1 DEF SessionFits
  <2>2. CASE session' = session /\ session # None
                /\ \A p \in Path : parts'[p] # None =>
                    parts[p] # None /\ parts'[p].data = parts[p].data
    <3>1. session.path \in Path
      BY <2>2 DEF TypeOK, ServerTypeOK, Session
    <3>2. parts'[session.path] # None =>
            parts[session.path] # None
            /\ parts'[session.path].data = parts[session.path].data
      BY <2>2, <3>1
    <3> QED
      BY <2>2, <3>2 DEF DiskOK, SessionFits
  <2> QED
    BY <2>1, <2>2
<1> QED
  BY <1>1, <1>2, <1>3 DEF DiskOK, Integrity

LEMMA DiskStays ==
    ASSUME TypeOK, DiskOK, UNCHANGED <<parts, finals>>,
           session' = None \/ session' = session
    PROVE  DiskOK'
  BY DiskShrinks DEF DiskOK, Integrity, PartsArePrefixes

\* What a resume leaves in the directory is still a prefix, and the session it
\* opens counts the packets that are there.
LEMMA DiskAfterResume ==
    ASSUME TypeOK, DiskOK, NEW m \in StartMsg, NEW offer \in Offers(m),
           ResumeAfter(m, offer) > 0,
           parts' = Trimmed(m, offer), UNCHANGED finals,
           session' = Opened(m, offer.found, ResumeAt(m, offer))
    PROVE  DiskOK'
<1> DEFINE path == offer.found
           next == ResumeAfter(m, offer)
<1>1. /\ offer.dir \in Directory /\ Candidate(offer, m.file)
      /\ HoldsPrefixes(offer.dir)
  BY OffersLemma DEF DiskOK, Integrity, PartsArePrefixes
<1>2. /\ path \in Path /\ path[2] = m.file
      /\ next \in 0..TotalPackets(m.file, m.ps)
      /\ Len(parts'[path].data) = Covered(m.file, m.ps, next)
      /\ HoldsPrefixes(parts')
  BY <1>1, ResumeLemma
<1>3. m.file \in Files /\ m.ps \in PacketSizes
  BY DEF StartMsg
<1>4. /\ session'.path = path /\ session'.file = m.file
      /\ session'.total = TotalPackets(m.file, m.ps)
      /\ session'.expected = next + 1
  BY <1>1, ResumeLemma DEF Opened
<1> HIDE DEF path, next
<1>5. next \in Nat /\ next + 1 \in 1..(TotalPackets(m.file, m.ps) + 1)
  BY <1>2, <1>3, TotalLemma
<1>6. session'.expected - 1 = next
  BY <1>4, <1>5
<1>7. session'.expected \in 1..(session'.total + 1)
  BY <1>4, <1>5
<1>8. SessionFits'
  BY <1>2, <1>3, <1>4, <1>6, <1>7 DEF SessionFits
<1>9. PartsArePrefixes' /\ FinalsAreWhole'
  BY <1>2 DEF PartsArePrefixes, HoldsPrefixes, DiskOK, Integrity, FinalsAreWhole
<1> QED
  BY <1>8, <1>9 DEF DiskOK, Integrity

\* A packet that meets its own file and is the expected one continues the .part.
LEMMA DiskAfterData ==
    ASSUME NothingToMixUp, TypeOK, DiskOK, session # None, session.out = "open",
           NEW v \in Versions, NEW ps \in PacketSizes,
           session.expected \in 1..TotalPackets(session.file, ps),
           parts' = Written(Chunk(session.file, v, ps, session.expected)),
           session' = [session EXCEPT !.expected = @ + 1],
           UNCHANGED finals
    PROVE  DiskOK'
<1> DEFINE path == session.path
           f == session.file
           n == session.expected
           c == Chunk(f, v, ps, n)
<1>1. /\ session \in Session /\ path \in Path /\ f \in Files /\ n \in Nat \ {0}
      /\ path[2] = f
  BY DEF TypeOK, ServerTypeOK, Session, DiskOK, SessionFits
<1>2. /\ session'.path = path /\ session'.file = f /\ session'.expected = n + 1
      /\ session'.total = session.total /\ session'.out = "open"
  BY <1>1 DEF Session
<1>3. /\ session.total = TotalPackets(f, ps)
      /\ parts[path] # None => Len(parts[path].data) = Covered(f, ps, n - 1)
  BY OneChoice DEF DiskOK, SessionFits
<1>4. FinalsAreWhole'
  BY DEF DiskOK, Integrity, FinalsAreWhole
<1>5. \A p \in Path : parts[p] # None =>
            \E w \in Versions : PrefixOf(parts[p].data, p[2], w)
  BY DEF DiskOK, Integrity, PartsArePrefixes, HoldsPrefixes
<1>6. n + 1 \in 1..(session.total + 1) /\ n + 1 - 1 = n
  BY <1>1, <1>3, TotalLemma
<1>7. CASE parts[path] = None
  <2>1. parts' = parts
    BY <1>7 DEF Written
  <2> QED
    BY <2>1, <1>1, <1>2, <1>3, <1>4, <1>5, <1>6, <1>7
    DEF DiskOK, Integrity, PartsArePrefixes, HoldsPrefixes, SessionFits
<1>8. CASE parts[path] # None
  <2> DEFINE data == parts[path].data
  <2>1. parts[path] \in Part /\ data \in Seq(Unit)
    BY <1>1, <1>8, PartLemma DEF TypeOK, ServerTypeOK
  <2>2. PrefixOf(data, f, v)
    BY <1>1, <1>5, <1>8, OneChoice
  <2>3. PrefixOf(data \o c, f, v) /\ Len(data \o c) = Covered(f, ps, n)
    <3>1. n \in 1..TotalPackets(f, ps) /\ Len(data) = Covered(f, ps, n - 1)
      BY <1>3, <1>8
    <3> HIDE DEF data, n, f
    <3> QED
      BY <3>1, <2>1, <2>2, <1>1, PrefixAppend
  <2>4. \A p \in Path : parts'[p] =
            IF p = path THEN [parts[path] EXCEPT !.data = data \o c] ELSE parts[p]
    BY <1>1, <1>8 DEF Written, TypeOK, ServerTypeOK, Directory
  <2>5. parts'[path].data = data \o c
    BY <1>1, <2>1, <2>4 DEF Part
  <2> HIDE DEF path, f, n, c, data
  <2>6. PartsArePrefixes'
    <3>1. \A p \in Path : p # path => parts'[p] = parts[p]
      BY <2>4
    <3> QED
      BY <3>1, <2>3, <2>5, <1>1, <1>5 DEF PartsArePrefixes, HoldsPrefixes
  <2>7. SessionFits'
    <3>1. /\ session'.path[2] = session'.file
          /\ session'.total = TotalPackets(session'.file, ps)
          /\ session'.expected \in 1..(session'.total + 1)
          /\ Len(parts'[session'.path].data) =
                Covered(session'.file, ps, session'.expected - 1)
      <4>1. session'.expected - 1 = n
        <5>1. session'.expected = n + 1
          BY <1>2
        <5>2. n \in Nat
          BY <1>1
        <5> QED
          BY <5>1, <5>2
      <4>2. Len(parts'[session'.path].data) =
                Covered(session'.file, ps, session'.expected - 1)
        BY <4>1, <2>3, <2>5, <1>2
      <4>3. session'.expected \in 1..(session'.total + 1)
        BY <1>2, <1>6
      <4> QED
        BY <4>2, <4>3, <1>1, <1>2, <1>3
    <3> QED
      BY <3>1 DEF SessionFits
  <2> QED
    BY <2>6, <2>7, <1>4 DEF DiskOK, Integrity
<1> QED
  BY <1>7, <1>8

\* An END that finds everything publishes a whole file.
LEMMA DiskAfterEnd ==
    ASSUME TypeOK, DiskOK, AllReceived, session.out = "open",
           parts[session.path] # None,
           finals' = [finals EXCEPT ![session.path] = parts[session.path].data],
           parts' = [parts EXCEPT ![session.path] = None],
           session' = None
    PROVE  DiskOK'
<1> DEFINE path == session.path
           data == parts[path].data
<1>1. session # None /\ session \in Session /\ path \in Path
  BY DEF AllReceived, TypeOK, ServerTypeOK, Session
<1>2. PICK ps \in PacketSizes :
          /\ path[2] = session.file
          /\ session.total = TotalPackets(session.file, ps)
          /\ session.expected \in 1..(session.total + 1)
          /\ Len(data) = Covered(session.file, ps, session.expected - 1)
  BY <1>1 DEF DiskOK, SessionFits
<1>3. session.expected - 1 = session.total
  BY <1>1, <1>2 DEF AllReceived, Session
<1>4. Len(data) = FileSize[path[2]]
  BY <1>1, <1>2, <1>3, CoveredEnds DEF Session
<1>5. PICK v \in Versions : PrefixOf(data, path[2], v)
  BY <1>1 DEF DiskOK, Integrity, PartsArePrefixes, HoldsPrefixes
<1>6. PartsArePrefixes'
  BY <1>1 DEF DiskOK, Integrity, PartsArePrefixes, HoldsPrefixes, TypeOK, ServerTypeOK
<1>7. FinalsAreWhole'
  <2>1. \A p \in Path : finals'[p] = IF p = path THEN data ELSE finals[p]
    BY <1>1 DEF TypeOK, ServerTypeOK
  <2>2. \A p \in Path : finals[p] # None =>
            \E w \in Versions :
                Len(finals[p]) = FileSize[p[2]] /\ PrefixOf(finals[p], p[2], w)
    BY DEF DiskOK, Integrity, FinalsAreWhole
  <2> HIDE DEF path, data
  <2> QED
    BY <2>1, <2>2, <1>4, <1>5 DEF FinalsAreWhole
<1> QED
  BY <1>6, <1>7 DEF DiskOK, Integrity, SessionFits

\* A new, empty .part.
LEMMA DiskAfterFresh ==
    ASSUME NothingToMixUp, TypeOK, DiskOK, NEW m \in StartMsg,
           NEW offer \in Offers(m), NEW dir \in Cleared(offer), NEW now \in 0..MaxClock,
           parts' = [dir EXCEPT ![<<now, m.file>>] = [ps |-> m.ps, data |-> <<>>]],
           session' = Opened(m, <<now, m.file>>, NoResume),
           UNCHANGED finals
    PROVE  DiskOK'
<1> DEFINE path == <<now, m.file>>
           empty == [ps |-> m.ps, data |-> <<>>]
<1>1. path \in Path /\ path[2] = m.file /\ m.file \in Files /\ m.ps \in PacketSizes
  BY DEF Path, StartMsg
<1>2. dir \in Directory /\ HoldsPrefixes(dir)
  BY OffersLemma, ClearedLemma DEF DiskOK, Integrity, PartsArePrefixes
<1>3. empty \in Part /\ empty.data = <<>>
  BY <1>1 DEF Part
<1>4. FileSize[m.file] \in Nat
  BY <1>1, FileSizeAssumption
<1>5. \E v \in Versions : PrefixOf(<<>>, m.file, v)
  <2>1. Len(<<>>) = 0 /\ 1..0 = {}
    OBVIOUS
  <2> QED
    BY <2>1, <1>4 DEF NothingToMixUp, PrefixOf
<1>6. parts' = Replaced(dir, path, empty)
  BY DEF Replaced
<1>7. /\ session'.path = path /\ session'.file = m.file /\ session'.expected = 1
      /\ session'.total = TotalPackets(m.file, m.ps)
  BY NoResumeType DEF Opened
<1>8. /\ 1 \in 1..(TotalPackets(m.file, m.ps) + 1)
      /\ Len(<<>>) = Covered(m.file, m.ps, 0)
  BY <1>1, TotalLemma, CoveredEnds
<1> HIDE DEF path, empty
<1>e. \E v \in Versions : PrefixOf(empty.data, path[2], v)
  BY <1>1, <1>3, <1>5
<1>9. parts'[path].data = <<>> /\ HoldsPrefixes(parts')
  <2>1. Replaced(dir, path, empty)[path] = empty
    BY <1>1, <1>2, <1>3, ReplaceLemma
  <2>2. HoldsPrefixes(Replaced(dir, path, empty))
    BY <1>1, <1>2, <1>3, <1>e, ReplaceLemma
  <2> QED
    BY <2>1, <2>2, <1>3, <1>6
<1>10. PartsArePrefixes' /\ FinalsAreWhole'
  BY <1>9 DEF PartsArePrefixes, HoldsPrefixes, DiskOK, Integrity, FinalsAreWhole
<1>11. SessionFits'
  BY <1>1, <1>7, <1>8, <1>9 DEF SessionFits
<1> QED
  BY <1>10, <1>11 DEF DiskOK, Integrity

\* A write that fails before its first byte leaves the directory as it was.
LEMMA NothingWritten ==
    ASSUME TypeOK, session # None, NEW data \in Seq(Unit)
    PROVE  Written(Cut(data, 0)) = parts
<1> DEFINE path == session.path
           old == parts[path].data
           e == Cut(data, 0)
<1>1. e \in Seq(Unit) /\ Len(e) = 0
  BY CutLemma DEF Lesser
<1> HIDE DEF e
<1>2. CASE parts[path] = None
  BY <1>2 DEF Written
<1>3. CASE parts[path] # None
  <2>1. path \in Path /\ parts[path] \in Part /\ parts \in Directory
    BY <1>3, PartLemma DEF TypeOK, ServerTypeOK, Session
  <2>2. old \in Seq(Unit)
    BY <2>1 DEF Part
  <2> HIDE DEF old
  <2>3. old \o e = old
    <3>1. old \o e \in Seq(Unit) /\ Len(old \o e) = Len(old)
      BY <1>1, <2>2
    <3>2. \A j \in 1..Len(old) : (old \o e)[j] = old[j]
      BY <1>1, <2>2
    <3> QED
      BY <3>1, <3>2, <2>2, SeqEqual
  <2>4. [parts[path] EXCEPT !.data = old \o e] = parts[path]
    BY <2>1, <2>3 DEF Part, old
  <2>5. Written(e) = [parts EXCEPT ![path] = [parts[path] EXCEPT !.data = old \o e]]
    BY <1>3 DEF Written, old
  <2>6. [parts EXCEPT ![path] = parts[path]] = parts
    BY <2>1 DEF Directory
  <2> QED
    BY <2>4, <2>5, <2>6 DEF e
<1> QED
  BY <1>2, <1>3

\* Every step of the receiving thread.
LEMMA ServerDiskStep ==
    ASSUME NothingToMixUp, TypeOK, IntegrityInv, ServerStep
    PROVE  DiskOK'
<1> USE DEF Arrivals
<1>1. DiskOK /\ DataMeetsItsFile
  BY DEF IntegrityInv, DiskOK
<1>2. \A i \in Deliverable(toServer) : i \in 1..Len(toServer) /\ toServer[i] \in Datagram
  BY DeliverableLemma DEF TypeOK, NetTypeOK
<1>3. ASSUME NEW i \in Arrivals("START") PROVE toServer[i] \in StartMsg
  BY <1>2 DEF Datagram, StartMsg, DataMsg, EndMsg
<1>4. ASSUME NEW i \in Arrivals("DATA") PROVE toServer[i] \in DataMsg
  BY <1>2 DEF Datagram, StartMsg, DataMsg, EndMsg
<1>5. CASE UNCHANGED <<parts, finals>> /\ (session' = None \/ session' = session)
  BY <1>1, <1>5, DiskStays
<1>6. CASE HandleStartResume
  <2>1. PICK i \in Arrivals("START") : \E offer \in Offers(toServer[i]) :
            /\ ResumeAfter(toServer[i], offer) > 0
            /\ session' = Opened(toServer[i], offer.found,
                                 ResumeAt(toServer[i], offer))
            /\ parts' = Trimmed(toServer[i], offer)
            /\ UNCHANGED finals
    BY <1>6 DEF HandleStartResume
  <2> QED
    BY <2>1, <1>1, <1>3, DiskAfterResume
<1>7. CASE HandleStartFresh
  <2>1. PICK i \in Arrivals("START"), now \in 0..MaxClock :
            \E offer \in Offers(toServer[i]) : \E dir \in Cleared(offer) :
                /\ parts' = [dir EXCEPT ![<<now, toServer[i].file>>] =
                                [ps |-> toServer[i].ps, data |-> <<>>]]
                /\ session' = Opened(toServer[i], <<now, toServer[i].file>>, NoResume)
                /\ UNCHANGED finals
    BY <1>7 DEF HandleStartFresh
  <2> QED
    BY <2>1, <1>1, <1>3, DiskAfterFresh
<1>8. CASE HandleStartFails
  <2>1. PICK i \in Arrivals("START") : \E offer \in Offers(toServer[i]) :
            /\ parts' \in HalfPrepared(toServer[i], offer)
            /\ session' = None
            /\ UNCHANGED finals
    BY <1>8 DEF HandleStartFails
  <2>2. HoldsPrefixes(parts')
    BY <2>1, <1>1, <1>3, OffersLemma, HalfPreparedLemma
    DEF DiskOK, Integrity, PartsArePrefixes
  <2> QED
    BY <2>1, <2>2, <1>1, DiskShrinks
<1>9. CASE HandleExpectedData
  <2>1. PICK i \in Arrivals("DATA") :
            /\ session # None /\ toServer[i].seq = session.expected
            /\ session.out = "open"
            /\ parts' = Written(toServer[i].data)
            /\ session' = [session EXCEPT !.expected = @ + 1]
            /\ UNCHANGED finals
    BY <1>9 DEF HandleExpectedData
  <2>2. PICK f \in Files : Carries(i, f) /\ SetUpFor(f, i)
    BY <2>1, <1>1, <1>2 DEF DataMeetsItsFile
  <2>3. session.file = f
    BY <2>1, <2>2 DEF SetUpFor
  <2>4. PICK v \in Versions, ps \in PacketSizes :
            /\ toServer[i].seq \in 1..TotalPackets(f, ps)
            /\ toServer[i].data = Chunk(f, v, ps, toServer[i].seq)
    BY <2>2 DEF Carries
  <2> QED
    BY <2>1, <2>3, <2>4, <1>1, DiskAfterData
<1>10. CASE HandleDataWriteFails
  <2>1. PICK i \in Arrivals("DATA") :
            /\ session # None
            /\ \E n \in 0..(Len(toServer[i].data) - 1) :
                  /\ n > 0 => "torn" \in Faults
                  /\ parts' = Written(Cut(toServer[i].data, n))
            /\ UNCHANGED <<session, finals>>
    BY <1>10 DEF HandleDataWriteFails
  <2>2. toServer[i].data \in Seq(Unit)
    BY <2>1, <1>4 DEF DataMsg
  <2>3. PICK n \in 0..(Len(toServer[i].data) - 1) :
            (n > 0 => "torn" \in Faults) /\ parts' = Written(Cut(toServer[i].data, n))
    BY <2>1
  <2>4. n = 0
    BY <2>2, <2>3, OneChoice
  <2>5. parts' = parts
    BY <2>1, <2>2, <2>3, <2>4, NothingWritten
  <2> QED
    BY <2>1, <2>5, <1>5
<1>11. CASE Finalize
  <2>1. /\ AllReceived /\ session.out = "open" /\ parts[session.path] # None
        /\ finals' = [finals EXCEPT ![session.path] = parts[session.path].data]
        /\ parts' = [parts EXCEPT ![session.path] = None]
        /\ session' = None
    BY <1>11 DEF Finalize
  <2> QED
    BY <2>1, <1>1, DiskAfterEnd
<1>12. CASE FinalizeFails
  <2>1. /\ AllReceived /\ UNCHANGED <<parts, finals>>
        /\ session' = session \/ session' = [session EXCEPT !.out = "closed"]
    BY <1>12 DEF FinalizeFails
  <2>2. CASE session' = [session EXCEPT !.out = "closed"]
    <3>1. session \in Session /\ session # None
      BY <2>1 DEF AllReceived, TypeOK, ServerTypeOK
    <3>2. /\ session'.path = session.path /\ session'.file = session.file
          /\ session'.total = session.total /\ session'.expected = session.expected
      BY <2>2, <3>1 DEF Session
    <3>3. SessionFits'
      BY <3>1, <3>2, <2>1, <1>1 DEF DiskOK, SessionFits
    <3> QED
      BY <3>3, <2>1, <1>1 DEF DiskOK, Integrity, PartsArePrefixes, HoldsPrefixes, FinalsAreWhole
  <2> QED
    BY <2>1, <2>2, <1>5
<1>13. CASE HandleDuplicateStart \/ HandleDuplicateData \/ IgnoreData \/ ReAckEnd
            \/ IgnoreIncompleteEnd \/ UseClosedFile
  BY <1>5, <1>13 DEF HandleDuplicateStart, HandleDuplicateData, IgnoreData, ReAckEnd,
     IgnoreIncompleteEnd, UseClosedFile, serverVars
<1> QED
  BY <1>6, <1>7, <1>8, <1>9, <1>10, <1>11, <1>12, <1>13 DEF ServerStep
-----------------------------------------------------------------------------
\* The wire.

WireOK == DataMeetsItsFile /\ (Direct => TransfersInOrder /\ AnsweredIsAlone)

\* Without a second file there is nothing to set the receiver up for but one.
LEMMA SingleFile ==
    ASSUME NothingToMixUp, TypeOK, ~Direct, NEW f \in Files, NEW i \in Nat,
           i <= Len(toServer) + 1
    PROVE  SetUpFor(f, i)
<1>1. \A g \in Files : g = f
  <2>1. PICK h \in Files : Files = {h}
    BY DEF NothingToMixUp
  <2> QED
    BY <2>1
<1>2. session # None => session.file = f
  BY <1>1 DEF TypeOK, ServerTypeOK, Session
<1>3. ASSUME NEW j \in 1..(i - 1), toServer[j].type = "START" PROVE toServer[j].file = f
  <2>1. j \in 1..Len(toServer)
    BY DEF TypeOK, NetTypeOK
  <2>2. toServer[j] \in Datagram
    BY <2>1 DEF TypeOK, NetTypeOK
  <2> QED
    BY <2>2, <1>1, <1>3 DEF Datagram, StartMsg, DataMsg, EndMsg
<1> QED
  BY <1>2, <1>3 DEF SetUpFor

\* What taking the i-th datagram out does to the positions of the others.
LEMMA WithoutPositions ==
    ASSUME TypeOK, NEW i \in Deliverable(toServer), toServer' = Without(toServer, i)
    PROVE  /\ i \in 1..Len(toServer)
           /\ Direct => i = 1
           /\ Len(toServer') = Len(toServer) - 1
           /\ \A j \in 1..Len(toServer') :
                 /\ j + 1 \in 1..Len(toServer)
                 /\ toServer'[j] = IF j < i THEN toServer[j] ELSE toServer[j + 1]
<1>1. toServer \in Seq(Datagram)
  BY DEF TypeOK, NetTypeOK
<1>2. i \in 1..Len(toServer) /\ (Direct => i = 1)
  BY <1>1, DeliverableLemma DEF Deliverable, Lesser
<1>3. toServer' = [j \in 1..(Len(toServer) - 1) |->
                      IF j < i THEN toServer[j] ELSE toServer[j + 1]]
  BY DEF Without
<1>4. toServer' \in Seq(Datagram)
  BY <1>1, <1>2, WithoutLemma
<1>5. Len(toServer') = Len(toServer) - 1
  BY <1>1, <1>2, <1>3, <1>4
<1>6. \A j \in 1..Len(toServer') : j + 1 \in 1..Len(toServer)
  BY <1>1, <1>5
<1> QED
  BY <1>2, <1>3, <1>5, <1>6

\* An answer adds at most one ACK, and on the direct path only to the sender
\* whose socket is open.
LEMMA RepliedLemma ==
    ASSUME TypeOK, NEW t \in Nat, NEW n \in Nat, NEW r \in ResumePoint,
           toClient' = Replied(t, n, r)
    PROVE  /\ \A k \in 1..Len(toClient') :
                 \/ \E l \in 1..Len(toClient) : toClient'[k] = toClient[l]
                 \/ /\ toClient'[k].seq = n /\ toClient'[k].resume = r
                    /\ Direct => sock # 0 /\ t = sock
           /\ Direct /\ sock = 0 => toClient' = toClient
<1> DEFINE ack == [seq |-> n, resume |-> r]
<1>1. toClient \in Seq(Ack) /\ ack \in Ack
  BY DEF TypeOK, NetTypeOK, Ack
<1>2. ack.seq = n /\ ack.resume = r
  OBVIOUS
<1> HIDE DEF ack
<1>3. CASE toClient' = toClient
  BY <1>1, <1>3
<1>4. CASE toClient' = Queued(toClient, ack) /\ (Direct => sock # 0 /\ t = sock)
  <2>1. \A k \in 1..Len(toClient') :
            toClient'[k] = ack \/ \E l \in 1..Len(toClient) : toClient'[k] = toClient[l]
    <3>1. \A k \in 1..Len(Queued(toClient, ack)) :
              \/ Queued(toClient, ack)[k] = ack
              \/ \E l \in 1..Len(toClient) : Queued(toClient, ack)[k] = toClient[l]
      BY <1>1, QueuedLemma
    <3> QED
      BY <3>1, <1>4
  <2> QED
    BY <2>1, <1>2, <1>4
<1> QED
  BY <1>3, <1>4 DEF Replied, ack

\* What most steps do to the wire: the session stays or goes, one datagram may
\* leave the queue, no START is answered.
QuietStep ==
    /\ session' = None \/ (session # None /\ session'.file = session.file)
    /\ \/ toServer' = toServer
       \/ \E i \in Deliverable(toServer) : toServer' = Without(toServer, i)
       \/ toServer' = <<>>
    /\ Sending' = Sending
    /\ pc' = "created" => pc = "created"
    /\ pc' # "none" => pc # "none" /\ status' = status
    /\ UNCHANGED <<job, transfers, sock>>
    /\ Direct /\ ~Sending => toClient' = <<>>
    /\ Direct /\ StartAnswered' => StartAnswered

LEMMA QuietSetUp ==
    ASSUME TypeOK, QuietStep, NEW f, NEW i \in Nat, NEW k \in Nat, SetUpFor(f, i),
           i <= Len(toServer) + 1, k <= Len(toServer') + 1, k <= i,
           toServer' # toServer => k < i \/ toServer' = <<>>
                \/ \E n \in Deliverable(toServer) : toServer' = Without(toServer, n) /\ k <= n
    PROVE  SetUpFor(f, k)'
<1>1. session' # None => session'.file = f
  BY DEF QuietStep, SetUpFor
<1>2. ASSUME NEW j \in 1..(k - 1), toServer'[j].type = "START"
      PROVE  toServer'[j].file = f
  <2>1. CASE toServer' = toServer
    BY <1>2, <2>1 DEF SetUpFor
  <2>2. CASE toServer' = <<>>
    <3>1. Len(toServer') = 0
      BY <2>2
    <3> QED
      BY <3>1
  <2>3. CASE toServer' # toServer /\ toServer' # <<>>
    <3>1. PICK n \in Deliverable(toServer) :
              toServer' = Without(toServer, n) /\ (k < i \/ k <= n)
      <4>1. CASE \E n \in Deliverable(toServer) :
                    toServer' = Without(toServer, n) /\ k <= n
        BY <4>1
      <4>2. CASE k < i
        BY <4>2, <2>3 DEF QuietStep
      <4> QED
        BY <4>1, <4>2, <2>3
    <3>2. Len(toServer) \in Nat
      BY DEF TypeOK, NetTypeOK
    <3>3. Len(toServer') = Len(toServer) - 1
          /\ \A l \in 1..Len(toServer') :
                toServer'[l] = IF l < n THEN toServer[l] ELSE toServer[l + 1]
      BY <3>1, WithoutPositions
    <3>4. j \in 1..Len(toServer')
      BY <3>2, <3>3
    <3>5. n \in Nat
      BY <3>1, <3>2, WithoutPositions
    <3>6. CASE j < n
      BY <3>3, <3>4, <3>6, <1>2 DEF SetUpFor
    <3>7. CASE j >= n
      <4>1. j + 1 \in 1..(i - 1)
        BY <3>1, <3>5, <3>7
      <4>2. toServer'[j] = toServer[j + 1]
        BY <3>3, <3>4, <3>5, <3>7
      <4> QED
        BY <4>1, <4>2, <1>2 DEF SetUpFor
    <3> QED
      BY <3>5, <3>6, <3>7
  <2> QED
    BY <2>1, <2>2, <2>3
<1> QED
  BY <1>1, <1>2 DEF SetUpFor

LEMMA QuietKeepsData ==
    ASSUME NothingToMixUp, TypeOK, WireOK, QuietStep
    PROVE  DataMeetsItsFile'
<1>1. SUFFICES ASSUME NEW k \in 1..Len(toServer'), toServer'[k].type = "DATA"
               PROVE  \E f \in Files : Carries(k, f)' /\ SetUpFor(f, k)'
  BY DEF DataMeetsItsFile
<1>2. Len(toServer) \in Nat
  BY DEF TypeOK, NetTypeOK
<1>3. CASE toServer' = toServer
  <2>1. PICK f \in Files : Carries(k, f) /\ SetUpFor(f, k)
    BY <1>1, <1>3 DEF WireOK, DataMeetsItsFile
  <2>2. Carries(k, f)'
    BY <2>1, <1>3 DEF Carries
  <2>3. SetUpFor(f, k)'
    BY <2>1, <1>1, <1>2, <1>3, QuietSetUp
  <2> QED
    BY <2>2, <2>3
<1>4. CASE toServer' = <<>>
  BY <1>1, <1>4
<1>5. CASE toServer' # toServer /\ toServer' # <<>>
  <2>1. PICK n \in Deliverable(toServer) : toServer' = Without(toServer, n)
    BY <1>5 DEF QuietStep
  <2>2. /\ n \in 1..Len(toServer) /\ Len(toServer') = Len(toServer) - 1
        /\ k + 1 \in 1..Len(toServer)
        /\ toServer'[k] = IF k < n THEN toServer[k] ELSE toServer[k + 1]
    BY <2>1, <1>1, WithoutPositions
  <2>3. PICK i \in {k, k + 1} :
            /\ i \in 1..Len(toServer)
            /\ toServer'[k] = toServer[i]
            /\ i = k => k <= n
    <3>1. CASE k < n
      BY <3>1, <2>2, <1>1, <1>2
    <3>2. CASE ~(k < n)
      BY <3>2, <2>2, <1>1, <1>2
    <3> QED
      BY <3>1, <3>2
  <2>4. PICK f \in Files : Carries(i, f) /\ SetUpFor(f, i)
    <3>1. toServer[i].type = "DATA" /\ i \in 1..Len(toServer)
      BY <2>3, <1>1
    <3> QED
      BY <3>1 DEF WireOK, DataMeetsItsFile
  <2>5. Carries(k, f)'
    <3>1. PICK v \in Versions, ps \in PacketSizes :
              /\ toServer[i].seq \in 1..TotalPackets(f, ps)
              /\ toServer[i].data = Chunk(f, v, ps, toServer[i].seq)
      BY <2>4 DEF Carries
    <3>2. toServer'[k] = toServer[i]
      BY <2>3
    <3> QED
      BY <3>1, <3>2 DEF Carries
  <2>6. SetUpFor(f, k)'
    <3>1. i \in Nat /\ k \in Nat /\ i <= Len(toServer) + 1
      BY <2>2, <2>3, <1>2
    <3>2. k <= Len(toServer') + 1
      BY <2>2, <1>1, <1>2
    <3>3. i = k \/ i = k + 1
      BY <2>3
    <3>4. k <= i /\ (k < i \/ k <= n)
      BY <2>3, <3>1, <3>3
    <3> QED
      BY <3>1, <3>2, <3>4, <2>1, <2>4, QuietSetUp
  <2> QED
    BY <2>5, <2>6
<1> QED
  BY <1>3, <1>4, <1>5

\* On the direct path datagrams leave the queue at its head, so what is left is
\* in the order it was in.
LEMMA TailLemma ==
    ASSUME TypeOK, Direct,
           \/ toServer' = toServer
           \/ \E n \in Deliverable(toServer) : toServer' = Without(toServer, n)
           \/ toServer' = <<>>
    PROVE  \A k \in 1..Len(toServer') :
              \E i \in 1..Len(toServer) :
                  /\ toServer'[k] = toServer[i]
                  /\ \A j \in 1..k : \E l \in 1..i : toServer'[j] = toServer[l]
<1>1. Len(toServer) \in Nat
  BY DEF TypeOK, NetTypeOK
<1>2. CASE toServer' = toServer
  BY <1>2
<1>3. CASE toServer' = <<>>
  BY <1>3
<1>4. CASE \E n \in Deliverable(toServer) : toServer' = Without(toServer, n)
  <2>1. PICK n \in Deliverable(toServer) : toServer' = Without(toServer, n)
    BY <1>4
  <2>2. /\ n = 1
        /\ \A j \in 1..Len(toServer') : /\ j + 1 \in 1..Len(toServer)
                                        /\ ~(j < 1) => toServer'[j] = toServer[j + 1]
    BY <2>1, WithoutPositions
  <2>3. SUFFICES ASSUME NEW k \in 1..Len(toServer')
                 PROVE  /\ k + 1 \in 1..Len(toServer) /\ toServer'[k] = toServer[k + 1]
                        /\ \A j \in 1..k : j + 1 \in 1..(k + 1)
                                          /\ toServer'[j] = toServer[j + 1]
    OBVIOUS
  <2>4. Len(toServer') \in Nat
    BY <2>1, <1>1, WithoutPositions
  <2> QED
    BY <2>2, <2>4
<1> QED
  BY <1>2, <1>3, <1>4

LEMMA QuietKeepsOrder ==
    ASSUME TypeOK, TransfersInOrder, AnsweredIsAlone, Direct, QuietStep
    PROVE  TransfersInOrder' /\ AnsweredIsAlone'
<1>1. Len(toServer) \in Nat
  BY DEF TypeOK, NetTypeOK
<1>2. \A k \in 1..Len(toServer') :
          \E i \in 1..Len(toServer) :
              /\ toServer'[k] = toServer[i]
              /\ \A j \in 1..k : \E l \in 1..i : toServer'[j] = toServer[l]
  BY TailLemma DEF QuietStep
<1>3. TransfersInOrder'
  <2>1. pc' # "none" => status' = "transferring" /\ job'.id = transfers'
    BY DEF TransfersInOrder, QuietStep
  <2>2. sock' = IF Sending' THEN transfers' ELSE 0
    BY DEF TransfersInOrder, QuietStep
  <2>3. Sending' \/ toClient' = <<>>
    BY DEF QuietStep
  <2>4. ASSUME NEW k \in 1..Len(toServer')
        PROVE  /\ toServer'[k].from \in 1..transfers'
               /\ pc' = "created" => toServer'[k].from < transfers'
               /\ Sending' /\ toServer'[k].type = "START" /\ toServer'[k].from = transfers' =>
                     toServer'[k].file = job'.file
               /\ \A j \in 1..k : toServer'[j].from <= toServer'[k].from
    <3>1. PICK i \in 1..Len(toServer) :
              /\ toServer'[k] = toServer[i]
              /\ \A j \in 1..k : \E l \in 1..i : toServer'[j] = toServer[l]
      BY <1>2
    <3>2. /\ toServer[i].from \in 1..transfers
          /\ pc = "created" => toServer[i].from < transfers
          /\ Sending /\ toServer[i].type = "START" /\ toServer[i].from = transfers =>
                toServer[i].file = job.file
          /\ \A j \in 1..i : toServer[j].from <= toServer[i].from
      BY DEF TransfersInOrder
    <3>3. \A j \in 1..k : toServer'[j].from <= toServer'[k].from
      BY <3>1, <3>2
    <3>4. UNCHANGED <<transfers, job>> /\ Sending' = Sending
          /\ (pc' = "created" => pc = "created")
      BY DEF QuietStep
    <3> QED
      BY <3>1, <3>2, <3>3, <3>4
  <2> QED
    BY <2>1, <2>2, <2>3, <2>4 DEF TransfersInOrder
<1>4. AnsweredIsAlone'
  <2>1. SUFFICES ASSUME Sending', StartAnswered'
                 PROVE  SetUpFor(job.file, Len(toServer) + 1)'
    BY DEF AnsweredIsAlone
  <2>2. SetUpFor(job.file, Len(toServer) + 1) /\ job' = job
    BY <2>1 DEF AnsweredIsAlone, QuietStep
  <2>3. Len(toServer') \in Nat /\ Len(toServer') <= Len(toServer)
        /\ (toServer' # toServer /\ toServer' # <<>> => Len(toServer') < Len(toServer))
    BY <1>1, WithoutPositions DEF QuietStep
  <2>4. PICK f \in {job.file}, i \in {Len(toServer) + 1}, k \in {Len(toServer') + 1} : TRUE
    OBVIOUS
  <2>5. SetUpFor(f, k)'
    BY <2>2, <2>3, <2>4, <1>1, QuietSetUp
  <2> QED
    BY <2>2, <2>4, <2>5 DEF SetUpFor
<1> QED
  BY <1>3, <1>4

LEMMA QuietLemma ==
    ASSUME NothingToMixUp, TypeOK, WireOK, QuietStep
    PROVE  WireOK'
  BY QuietKeepsData, QuietKeepsOrder DEF WireOK

\* Handling a START turns the receiver to its file; on the direct path every
\* packet still queued behind it belongs to that file or waits for another START.
LEMMA StartKeepsWire ==
    ASSUME NothingToMixUp, TypeOK, WireOK, NEW i \in Arrivals("START"), Receive(i),
           NEW r \in ResumePoint, Acks(toServer[i], r), session'.file = toServer[i].file,
           UNCHANGED <<clientVars, transfers, status>>
    PROVE  WireOK'
<1> DEFINE m == toServer[i]
<1>1. /\ i \in 1..Len(toServer) /\ (Direct => i = 1) /\ Len(toServer) \in Nat
      /\ Len(toServer') = Len(toServer) - 1
      /\ \A j \in 1..Len(toServer') :
            /\ j + 1 \in 1..Len(toServer)
            /\ toServer'[j] = IF j < i THEN toServer[j] ELSE toServer[j + 1]
  BY WithoutPositions DEF Arrivals, Receive, TypeOK, NetTypeOK
<1>2. m \in StartMsg /\ m.type = "START"
  BY <1>1 DEF Arrivals, TypeOK, NetTypeOK, Datagram, StartMsg, DataMsg, EndMsg
<1>3. \A j \in 1..Len(toServer) : toServer[j].type = "START" => toServer[j].file \in Files
  BY DEF TypeOK, NetTypeOK, Datagram, StartMsg, DataMsg, EndMsg
<1>4. DataMeetsItsFile'
  <2>1. SUFFICES ASSUME NEW k \in 1..Len(toServer'), toServer'[k].type = "DATA"
                 PROVE  \E f \in Files : Carries(k, f)' /\ SetUpFor(f, k)'
    BY DEF DataMeetsItsFile
  <2>2. PICK l \in 1..Len(toServer) : toServer'[k] = toServer[l] /\ (Direct => l = k + 1)
    <3>1. CASE k < i
      BY <3>1, <1>1
    <3>2. CASE ~(k < i)
      BY <3>2, <1>1
    <3> QED
      BY <3>1, <3>2
  <2>3. PICK f \in Files : Carries(l, f) /\ SetUpFor(f, l)
    BY <2>1, <2>2 DEF WireOK, DataMeetsItsFile
  <2>4. Carries(k, f)'
    BY <2>2, <2>3 DEF Carries
  <2>5. SetUpFor(f, k)'
    <3>1. CASE Direct
      <4>1. \A j \in 1..k : toServer[j].type = "START" => toServer[j].file = f
        BY <3>1, <2>2, <2>3 DEF SetUpFor
      <4>2. session'.file = f
        BY <4>1, <3>1, <1>1, <1>2
      <4>3. \A j \in 1..(k - 1) : j + 1 \in 1..k /\ toServer'[j] = toServer[j + 1]
        BY <3>1, <1>1
      <4> QED
        BY <4>1, <4>2, <4>3 DEF SetUpFor
    <3>2. CASE ~Direct
      <4>1. \A g \in Files : g = f
        <5>1. PICK h \in Files : Files = {h}
          BY <3>2 DEF NothingToMixUp
        <5> QED
          BY <5>1
      <4>2. session'.file = f
        BY <4>1, <1>2 DEF StartMsg
      <4>3. \A j \in 1..(k - 1) : \E n \in 1..Len(toServer) : toServer'[j] = toServer[n]
        <5>1. SUFFICES ASSUME NEW j \in 1..(k - 1)
                       PROVE  \E n \in 1..Len(toServer) : toServer'[j] = toServer[n]
          OBVIOUS
        <5>2. j \in 1..Len(toServer') /\ j \in 1..Len(toServer)
          BY <1>1
        <5> QED
          BY <5>2, <1>1
      <4> QED
        BY <4>1, <4>2, <4>3, <1>3 DEF SetUpFor
    <3> QED
      BY <3>1, <3>2
  <2> QED
    BY <2>4, <2>5
<1>5. ASSUME Direct PROVE TransfersInOrder' /\ AnsweredIsAlone'
  <2>1. TransfersInOrder /\ AnsweredIsAlone
    BY <1>5 DEF WireOK
  <2>2. /\ UNCHANGED <<pc, job, seq, sock, transfers, status>>
        /\ Sending' = Sending
    BY DEF Receive, clientVars, Sending
  <2>3. \A j \in 1..Len(toServer') : j + 1 \in 1..Len(toServer)
            /\ toServer'[j] = toServer[j + 1]
    BY <1>5, <1>1
  <2>4. /\ \A k \in 1..Len(toClient') :
              \/ \E l \in 1..Len(toClient) : toClient'[k] = toClient[l]
              \/ sock # 0 /\ m.from = sock
        /\ sock = 0 => toClient' = toClient
    BY <1>2, <1>5, RepliedLemma DEF Acks, StartMsg, SeqStart
  <2>5. TransfersInOrder'
    <3>1. Sending' \/ toClient' = <<>>
      BY <2>1, <2>2, <2>4 DEF TransfersInOrder
    <3>2. ASSUME NEW k \in 1..Len(toServer')
          PROVE  /\ toServer'[k].from \in 1..transfers
                 /\ pc = "created" => toServer'[k].from < transfers
                 /\ Sending /\ toServer'[k].type = "START" /\ toServer'[k].from = transfers =>
                       toServer'[k].file = job.file
                 /\ \A j \in 1..k : toServer'[j].from <= toServer'[k].from
      <4>1. \A j \in 1..k : j + 1 \in 1..(k + 1) /\ toServer'[j] = toServer[j + 1]
        BY <2>3, <1>1
      <4>2. k + 1 \in 1..Len(toServer) /\ toServer'[k] = toServer[k + 1]
        BY <2>3
      <4> QED
        BY <4>1, <4>2, <2>1 DEF TransfersInOrder
    <3> QED
      BY <3>1, <3>2, <2>1, <2>2 DEF TransfersInOrder
  <2>6. AnsweredIsAlone'
    <3>1. SUFFICES ASSUME Sending, StartAnswered'
                   PROVE  SetUpFor(job.file, Len(toServer) + 1)'
      BY <2>2 DEF AnsweredIsAlone
    <3>2. m.file = job.file
          /\ \A j \in 1..Len(toServer) : toServer[j].type = "START" => toServer[j].file = job.file
      <4>1. CASE StartAnswered
        <5>1. SetUpFor(job.file, Len(toServer) + 1)
          BY <4>1, <2>1, <3>1 DEF AnsweredIsAlone
        <5>2. Len(toServer) + 1 - 1 = Len(toServer)
          BY <1>1
        <5>3. \A j \in 1..Len(toServer) : toServer[j].type = "START" => toServer[j].file = job.file
          BY <5>1, <5>2 DEF SetUpFor
        <5>4. i \in 1..Len(toServer) /\ m.type = "START"
          BY <1>1, <1>2
        <5> QED
          BY <5>3, <5>4
      <4>2. CASE ~StartAnswered
        <5>1. sock # 0 /\ m.from = sock /\ sock = transfers
          BY <4>2, <3>1, <2>1, <2>2, <2>4 DEF StartAnswered, TransfersInOrder
        <5>2. ASSUME NEW j \in 1..Len(toServer), toServer[j].type = "START"
              PROVE  toServer[j].file = job.file
          <6>1. toServer[1].from <= toServer[j].from /\ toServer[j].from \in 1..transfers
            BY <2>1, <1>1 DEF TransfersInOrder
          <6>2. toServer[j].from = transfers
            BY <6>1, <5>1, <1>1, <1>5, <1>2 DEF TypeOK, StartMsg
          <6> QED
            BY <6>2, <5>2, <3>1, <2>1 DEF TransfersInOrder
        <5> QED
          BY <5>2, <1>1, <1>2
      <4> QED
        BY <4>1, <4>2
    <3>3. \A j \in 1..Len(toServer') : toServer'[j].type = "START" => toServer'[j].file = job.file
      BY <3>2, <2>3
    <3>4. Len(toServer') + 1 - 1 = Len(toServer')
      BY <1>1
    <3> QED
      BY <3>2, <3>3, <3>4, <2>2 DEF SetUpFor
  <2> QED
    BY <2>5, <2>6
<1> QED
  BY <1>4, <1>5 DEF WireOK

LEMMA SameWire ==
    ASSUME DataMeetsItsFile, UNCHANGED <<toServer, session>>
    PROVE  DataMeetsItsFile'
  BY DEF DataMeetsItsFile, Carries, SetUpFor

\* The sender puts its packet at the end of the queue.
LEMMA TransmitKeepsWire ==
    ASSUME NothingToMixUp, TypeOK, WireOK, Transmit(bound),
           UNCHANGED <<session, transfers, status>>
    PROVE  WireOK'
<1>1. /\ Len(toServer) \in Nat /\ job \in Job /\ toServer \in Seq(Datagram)
      /\ Packet \in Datagram
  BY PacketType DEF TypeOK, NetTypeOK, ClientTypeOK
<1>2. /\ Sending /\ Sending' /\ pc' # "created"
      /\ UNCHANGED <<job, seq, toClient, sock>>
  BY DEF Transmit, Sending
<1>3. CASE toServer' = toServer
  <2>1. QuietStep
    BY <1>2, <1>3 DEF QuietStep, Sending, Transmit, StartAnswered
  <2> QED
    BY <2>1, QuietLemma
<1>4. CASE toServer' = Append(toServer, Packet)
  <2>1. /\ Len(toServer') = Len(toServer) + 1 /\ toServer'[Len(toServer) + 1] = Packet
        /\ \A j \in 1..Len(toServer) : toServer'[j] = toServer[j]
    BY <1>1, <1>4
  <2>2. /\ Packet.from = job.id
        /\ Packet.type = "START" => Packet.file = job.file
        /\ Packet.type = "DATA" => seq # SeqStart /\ InData /\ Packet.seq = seq
              /\ Packet.data = Chunk(job.file, job.ver, job.ps, seq)
    BY DEF Packet
  <2>3. DataMeetsItsFile'
    <3>1. SUFFICES ASSUME NEW k \in 1..Len(toServer'), toServer'[k].type = "DATA"
                   PROVE  \E f \in Files : Carries(k, f)' /\ SetUpFor(f, k)'
      BY DEF DataMeetsItsFile
    <3>2. CASE k <= Len(toServer)
      <4>1. k \in 1..Len(toServer) /\ toServer'[k] = toServer[k]
        BY <2>1, <3>2, <1>1
      <4>2. PICK f \in Files : Carries(k, f) /\ SetUpFor(f, k)
        BY <4>1, <3>1 DEF WireOK, DataMeetsItsFile
      <4>3. Carries(k, f)'
        BY <4>1, <4>2 DEF Carries
      <4>4. \A j \in 1..(k - 1) : toServer'[j] = toServer[j]
        BY <2>1, <4>1, <1>1
      <4>5. SetUpFor(f, k)'
        BY <4>2, <4>4 DEF SetUpFor
      <4> QED
        BY <4>3, <4>5
    <3>3. CASE k > Len(toServer)
      <4>1. k = Len(toServer) + 1 /\ toServer'[k] = Packet
        BY <2>1, <3>3, <1>1
      <4>2. Carries(k, job.file)'
        <5>1. seq \in 1..TotalPackets(job.file, job.ps)
          BY <2>2, <3>1, <4>1 DEF InData, total
        <5> QED
          BY <5>1, <2>2, <3>1, <4>1, <1>1, <1>2 DEF Carries, Job
      <4>3. SetUpFor(job.file, k)
        <5>1. CASE Direct
          BY <5>1, <2>2, <3>1, <4>1, <1>2 DEF WireOK, AnsweredIsAlone, StartAnswered
        <5>2. CASE ~Direct
          BY <5>2, <4>1, <1>1, SingleFile DEF Job
        <5> QED
          BY <5>1, <5>2
      <4>4. \A j \in 1..(k - 1) : toServer'[j] = toServer[j]
        BY <2>1, <4>1, <1>1
      <4>5. SetUpFor(job.file, k)'
        BY <4>3, <4>4, <1>2 DEF SetUpFor
      <4> QED
        BY <4>2, <4>5, <1>1, <1>2 DEF Job
    <3> QED
      BY <3>2, <3>3, <1>1, <2>1
  <2>4. ASSUME Direct PROVE TransfersInOrder' /\ AnsweredIsAlone'
    <3>1. TransfersInOrder /\ AnsweredIsAlone
      BY <2>4 DEF WireOK
    <3>2. job.id = transfers /\ transfers \in Nat \ {0}
      BY <3>1, <1>1, <1>2 DEF TransfersInOrder, Job, Sending
    <3>3. ASSUME NEW k \in 1..Len(toServer')
          PROVE  /\ toServer'[k].from \in 1..transfers
                 /\ toServer'[k].type = "START" /\ toServer'[k].from = transfers =>
                       toServer'[k].file = job.file
                 /\ \A j \in 1..k : toServer'[j].from <= toServer'[k].from
      <4>1. CASE k <= Len(toServer)
        <5>1. k \in 1..Len(toServer) /\ \A j \in 1..k : toServer'[j] = toServer[j]
          BY <4>1, <2>1, <1>1
        <5> QED
          BY <5>1, <3>1, <1>2, <1>1 DEF TransfersInOrder
      <4>2. CASE k > Len(toServer)
        <5>1. k = Len(toServer) + 1 /\ toServer'[k] = Packet
          BY <2>1, <4>2, <1>1
        <5>2. ASSUME NEW j \in 1..k PROVE toServer'[j].from <= transfers
          <6>1. CASE j = k
            BY <6>1, <5>1, <2>2, <3>2
          <6>2. CASE j # k
            <7>1. j \in 1..Len(toServer) /\ toServer'[j] = toServer[j]
              BY <6>2, <5>1, <2>1, <1>1
            <7>2. toServer[j].from \in 1..transfers
              BY <7>1, <3>1 DEF TransfersInOrder
            <7> QED
              BY <7>1, <7>2, <3>2
          <6> QED
            BY <6>1, <6>2
        <5> QED
          BY <5>1, <5>2, <2>2, <3>2
      <4> QED
        BY <4>1, <4>2, <1>1, <2>1
    <3>4. TransfersInOrder'
      <4>1. /\ pc' # "none" => status' = "transferring" /\ job'.id = transfers'
            /\ sock' = IF Sending' THEN transfers' ELSE 0
        BY <3>1, <1>2 DEF TransfersInOrder, Sending
      <4> QED
        BY <3>3, <4>1, <1>2 DEF TransfersInOrder
    <3>5. AnsweredIsAlone'
      <4>1. SUFFICES ASSUME StartAnswered
                     PROVE  SetUpFor(job.file, Len(toServer) + 1)'
        BY <1>2 DEF AnsweredIsAlone, StartAnswered
      <4>2. SetUpFor(job.file, Len(toServer) + 1)
        BY <4>1, <3>1, <1>2 DEF AnsweredIsAlone
      <4>3. Len(toServer) + 1 - 1 = Len(toServer) /\ Len(toServer') + 1 - 1 = Len(toServer) + 1
        BY <1>1, <2>1
      <4>4. \A j \in 1..(Len(toServer) + 1) :
                toServer'[j].type = "START" => toServer'[j].file = job.file
        <5>1. \A j \in 1..(Len(toServer) + 1) :
                 j \in 1..Len(toServer) \/ j = Len(toServer) + 1
          BY <1>1
        <5> QED
          BY <5>1, <4>2, <4>3, <2>1, <2>2 DEF SetUpFor
      <4> QED
        BY <4>2, <4>3, <4>4, <1>2 DEF SetUpFor
    <3> QED
      BY <3>4, <3>5
  <2> QED
    BY <2>3, <2>4 DEF WireOK
<1> QED
  BY <1>3, <1>4 DEF Transmit, Queued

LEMMA ClientKeepsWire ==
    ASSUME NothingToMixUp, TypeOK, WireOK, ClientMoves
    PROVE  WireOK'
<1>1. UNCHANGED <<session, transfers, status>>
  BY DEF ClientMoves, serverVars, managerVars
<1>2. ASSUME NEW i \in Deliverable(toClient), Arrives(i)
      PROVE  /\ UNCHANGED <<toServer, sock>>
             /\ i \in 1..Len(toClient)
             /\ \A k \in 1..Len(toClient') : \E l \in 1..Len(toClient) :
                   toClient'[k] = toClient[l]
  <2>1. toClient \in Seq(Ack) /\ toClient' = Without(toClient, i) /\ UNCHANGED <<toServer, sock>>
    BY <1>2 DEF Arrives, TypeOK, NetTypeOK
  <2>2. i \in 1..Len(toClient)
    BY <1>2, <2>1, DeliverableLemma
  <2> QED
    BY <2>1, <2>2, WithoutLemma
<1>3. CASE EnterSendFile
  <2>1. DataMeetsItsFile'
    BY <1>1, <1>3, SameWire DEF EnterSendFile, WireOK
  <2>2. ASSUME Direct PROVE TransfersInOrder' /\ AnsweredIsAlone'
    <3>1. /\ TransfersInOrder /\ pc = "created" /\ pc' = "send" /\ seq' = SeqStart
          /\ sock' = job.id /\ UNCHANGED <<job, toServer, toClient, transfers, status>>
      BY <2>2, <1>1, <1>3 DEF WireOK, EnterSendFile
    <3>2. toClient = <<>> /\ sock' = transfers /\ Sending'
      BY <3>1 DEF TransfersInOrder, Sending
    <3>3. ~StartAnswered'
      <4>1. Len(toClient') = 0
        BY <3>1, <3>2
      <4> QED
        BY <4>1, <3>1 DEF StartAnswered
    <3>4. \A i \in 1..Len(toServer) : toServer[i].from # transfers
      <4>1. \A i \in 1..Len(toServer) : toServer[i].from \in 1..transfers
                                        /\ toServer[i].from < transfers
        BY <3>1 DEF TransfersInOrder
      <4> QED
        BY <4>1, <1>1 DEF TypeOK
    <3>5. TransfersInOrder'
      BY <3>1, <3>2, <3>4 DEF TransfersInOrder
    <3> QED
      BY <3>3, <3>5 DEF AnsweredIsAlone
  <2> QED
    BY <2>1, <2>2 DEF WireOK
<1>4. CASE Transmit(bound)
  BY <1>1, <1>4, TransmitKeepsWire
<1>5. CASE PassStopCheck \/ Timeout \/ Retransmit
  <2>1. QuietStep
    BY <1>1, <1>5 DEF PassStopCheck, Timeout, Retransmit, QuietStep, Sending,
       StartAnswered, netVars
  <2> QED
    BY <2>1, QuietLemma
<1>6. CASE IgnoreAck \/ LoseMatchingAck
  <2>1. PICK i \in Deliverable(toClient) :
            Arrives(i) /\ pc = "wait" /\ pc' \in {"wait", "unacked"} /\ UNCHANGED <<job, seq>>
    BY <1>6 DEF IgnoreAck, LoseMatchingAck, clientVars
  <2>2. StartAnswered' => StartAnswered
    BY <2>1, <1>2 DEF StartAnswered
  <2>3. QuietStep
    BY <2>1, <2>2, <1>1, <1>2 DEF QuietStep, Sending
  <2> QED
    BY <2>3, QuietLemma
<1>7. CASE AcceptStartAck \/ AcceptDataAck
  <2>1. PICK i \in Deliverable(toClient) :
            /\ toClient[i].seq = seq /\ Arrives(i)
            /\ pc = "wait" /\ pc' \in {"loop", "send"} /\ UNCHANGED job
    BY <1>7 DEF AcceptStartAck, TakeStartAck, AcceptDataAck, MoveTo
  <2>2. StartAnswered
    BY <2>1, <1>2 DEF StartAnswered
  <2>3. QuietStep
    BY <2>1, <2>2, <1>1, <1>2 DEF QuietStep, Sending
  <2> QED
    BY <2>3, QuietLemma
<1> QED
  BY <1>3, <1>4, <1>5, <1>6, <1>7 DEF ClientMoves, ClientStep

\* The session stays or goes; nobody or the sender of a DATA or an END is answered.
SessionKept == session' = None \/ (session # None /\ session'.file = session.file)

QuietAnswer(i) ==
    \/ toClient' = toClient
    \/ toServer[i].type \in {"DATA", "END"} /\ Acks(toServer[i], NoResume)

LEMMA ServerKeepsWire ==
    ASSUME NothingToMixUp, TypeOK, WireOK, ServerMoves
    PROVE  WireOK'
<1>1. UNCHANGED <<pc, job, seq, transfers, status>> /\ UNCHANGED clientVars
  BY DEF ServerMoves, clientVars, managerVars
<1>2. \A i \in 1..Len(toServer) : toServer[i] \in Datagram
  BY DEF TypeOK, NetTypeOK
\* START
<1>3. ASSUME NEW i \in Arrivals("START") PROVE toServer[i] \in StartMsg
  BY <1>2, DeliverableLemma
  DEF Arrivals, TypeOK, NetTypeOK, Datagram, StartMsg, DataMsg, EndMsg
<1>4. CASE HandleDuplicateStart
  <2>1. PICK i \in Arrivals("START") :
            /\ Receive(i) /\ session # None /\ session.file = toServer[i].file
            /\ Acks(toServer[i], session.resume) /\ session' = session
    BY <1>4 DEF HandleDuplicateStart, IsDuplicateStart, serverVars
  <2>2. session.resume \in ResumePoint
    BY <2>1 DEF TypeOK, ServerTypeOK, Session
  <2> QED
    BY <2>1, <2>2, <1>1, StartKeepsWire
<1>5. CASE HandleStartResume
  <2>1. PICK i \in Arrivals("START") : \E offer \in Offers(toServer[i]) :
            /\ Receive(i) /\ ResumeAfter(toServer[i], offer) > 0
            /\ session' = Opened(toServer[i], offer.found,
                                 ResumeAt(toServer[i], offer))
            /\ Acks(toServer[i], ResumeAt(toServer[i], offer))
    BY <1>5 DEF HandleStartResume
  <2>2. PICK offer \in Offers(toServer[i]) :
            /\ Receive(i) /\ ResumeAfter(toServer[i], offer) > 0
            /\ session' = Opened(toServer[i], offer.found,
                                 ResumeAt(toServer[i], offer))
            /\ Acks(toServer[i], ResumeAt(toServer[i], offer))
    BY <2>1
  <2>3. toServer[i] \in StartMsg
    BY <1>3
  <2>4. offer.dir \in Directory /\ Candidate(offer, toServer[i].file)
    BY <2>3, OffersLemma
  <2>5. ResumeAt(toServer[i], offer) \in ResumePoint
    BY <2>2, <2>3, <2>4, ResumeLemma, TotalLemma DEF StartMsg
  <2>6. session'.file = toServer[i].file
    BY <2>2 DEF Opened
  <2> QED
    BY <2>2, <2>5, <2>6, <1>1, StartKeepsWire
<1>6. CASE HandleStartFresh
  <2>1. PICK i \in Arrivals("START"), now \in 0..MaxClock :
            /\ Receive(i)
            /\ session' = Opened(toServer[i], <<now, toServer[i].file>>, NoResume)
            /\ Acks(toServer[i], NoResume)
    BY <1>6 DEF HandleStartFresh
  <2>2. session'.file = toServer[i].file
    BY <2>1 DEF Opened
  <2> QED
    BY <2>1, <2>2, <1>1, StartKeepsWire, NoResumeType
\* Everything else
<1>7. ASSUME NEW i \in Deliverable(toServer), Receive(i),
             SessionKept, QuietAnswer(i)
      PROVE  WireOK'
  <2>1. UNCHANGED sock /\ toServer' = Without(toServer, i) /\ toServer[i] \in Datagram
    BY <1>7, <1>2, DeliverableLemma DEF Receive, TypeOK, NetTypeOK
  <2>2. CASE toClient' = toClient
    <3>1. Direct /\ ~Sending => toClient' = <<>>
      BY <2>2 DEF WireOK, TransfersInOrder
    <3>2. StartAnswered' => StartAnswered
      BY <2>2, <1>1 DEF StartAnswered
    <3>3. QuietStep
      BY <3>1, <3>2, <2>1, <1>1, <1>7 DEF QuietStep, Sending, SessionKept
    <3> QED
      BY <3>3, QuietLemma
  <2>3. CASE toServer[i].type \in {"DATA", "END"} /\ Acks(toServer[i], NoResume)
    <3>1. toServer[i].seq \in Nat \ {0} /\ toServer[i].from \in Nat
      BY <2>1, <2>3 DEF Datagram, StartMsg, DataMsg, EndMsg
    <3>2. /\ \A k \in 1..Len(toClient') :
                \/ \E l \in 1..Len(toClient) : toClient'[k] = toClient[l]
                \/ toClient'[k].seq # SeqStart
          /\ Direct /\ sock = 0 => toClient' = toClient
      BY <3>1, <2>3, RepliedLemma, NoResumeType DEF Acks, SeqStart
    <3>3. Direct /\ ~Sending => toClient' = <<>>
      BY <3>2 DEF WireOK, TransfersInOrder
    <3>4. StartAnswered' => StartAnswered
      BY <3>2, <1>1 DEF StartAnswered
    <3>5. QuietStep
      BY <3>3, <3>4, <2>1, <1>1, <1>7 DEF QuietStep, Sending, SessionKept
    <3> QED
      BY <3>5, QuietLemma
  <2> QED
    BY <1>7, <2>2, <2>3 DEF QuietAnswer
<1>8. ASSUME NEW kind \in {"DATA", "END"}, NEW i \in Arrivals(kind)
      PROVE  /\ i \in Deliverable(toServer)
             /\ toClient' = toClient \/ Acks(toServer[i], NoResume) => QuietAnswer(i)
  BY DEF Arrivals, QuietAnswer
<1>9. session' = session \/ session' = None => SessionKept
  BY DEF SessionKept
<1>10. session \in Session \cup {None}
  BY DEF TypeOK, ServerTypeOK
<1>11. CASE HandleStartFails
  <2>1. PICK i \in Arrivals("START") :
            Receive(i) /\ toClient' = toClient /\ session' = None
    BY <1>11 DEF HandleStartFails, NoReply
  <2>2. i \in Deliverable(toServer) /\ QuietAnswer(i)
    BY <2>1 DEF Arrivals, QuietAnswer
  <2> QED
    BY <2>1, <2>2, <1>7, <1>9
<1>12. CASE HandleExpectedData
  <2>1. PICK i \in Arrivals("DATA") :
            /\ Receive(i) /\ session # None /\ Acks(toServer[i], NoResume)
            /\ session' = [session EXCEPT !.expected = @ + 1]
    BY <1>12 DEF HandleExpectedData
  <2>2. SessionKept
    BY <2>1, <1>10 DEF Session, SessionKept
  <2> QED
    BY <2>1, <2>2, <1>7, <1>8
<1>13. CASE HandleDataWriteFails \/ HandleDuplicateData \/ IgnoreData
  <2>1. PICK i \in Arrivals("DATA") :
            /\ Receive(i) /\ session' = session
            /\ toClient' = toClient \/ Acks(toServer[i], NoResume)
    BY <1>13 DEF HandleDataWriteFails, HandleDuplicateData, IgnoreData, NoReply,
       serverVars
  <2> QED
    BY <2>1, <1>7, <1>8, <1>9
<1>14. CASE ReAckEnd \/ IgnoreIncompleteEnd \/ Finalize
  <2>1. PICK i \in Arrivals("END") :
            /\ Receive(i) /\ session' \in {session, None}
            /\ toClient' = toClient \/ Acks(toServer[i], NoResume)
    BY <1>14 DEF ReAckEnd, IgnoreIncompleteEnd, Finalize, NoReply, serverVars
  <2> QED
    BY <2>1, <1>7, <1>8, <1>9
<1>15. CASE FinalizeFails
  <2>1. PICK i \in Arrivals("END") :
            /\ Receive(i) /\ session # None /\ toClient' = toClient
            /\ session' = session \/ session' = [session EXCEPT !.out = "closed"]
    BY <1>15 DEF FinalizeFails, AllReceived, NoReply
  <2>2. SessionKept
    BY <2>1, <1>10 DEF Session, SessionKept
  <2> QED
    BY <2>1, <2>2, <1>7, <1>8
<1>16. CASE UseClosedFile
  <2>1. PICK i \in Arrivals("DATA") \cup Arrivals("END") :
            Receive(i) /\ session' = session /\ toClient' = toClient
    BY <1>16 DEF UseClosedFile, NoReply
  <2> QED
    BY <2>1, <1>7, <1>8, <1>9
<1> QED
  BY <1>4, <1>5, <1>6, <1>11, <1>12, <1>13, <1>14, <1>15, <1>16
  DEF ServerMoves, ServerStep

\* The end of a sending thread, whatever the reason.
LEMMA EndKeepsWire ==
    ASSUME WireOK, NEW q, ThreadEnds(q), UNCHANGED <<session, transfers>>
    PROVE  WireOK'
<1>1. DataMeetsItsFile'
  BY SameWire DEF ThreadEnds, WireOK
<1>2. ASSUME Direct PROVE TransfersInOrder' /\ AnsweredIsAlone'
  BY <1>2 DEF WireOK, ThreadEnds, TransfersInOrder, AnsweredIsAlone, Sending
<1> QED
  BY <1>1, <1>2 DEF WireOK

LEMMA StartTransferKeepsWire ==
    ASSUME TypeOK, WireOK, StartTransfer
    PROVE  WireOK'
<1>1. DataMeetsItsFile'
  BY SameWire DEF StartTransfer, netVars, WireOK
<1>2. ASSUME Direct PROVE TransfersInOrder' /\ AnsweredIsAlone'
  <2>1. TransfersInOrder /\ pc = "none" /\ transfers \in Nat
    BY <1>2 DEF WireOK, StartTransfer, TransfersInOrder, TypeOK
  <2>2. /\ pc' = "created" /\ status' = "transferring" /\ transfers' = transfers + 1
        /\ job'.id = transfers + 1
        /\ UNCHANGED <<toServer, toClient, sock>>
    BY DEF StartTransfer, netVars
  <2>3. ~Sending /\ ~Sending'
    BY <2>1, <2>2 DEF Sending
  <2>4. \A i \in 1..Len(toServer) :
            toServer[i].from \in 1..(transfers + 1) /\ toServer[i].from < transfers + 1
    BY <2>1 DEF TransfersInOrder
  <2>5. \A i \in 1..Len(toServer) : \A j \in 1..i : toServer[j].from <= toServer[i].from
    BY <2>1 DEF TransfersInOrder
  <2>6. sock = 0 /\ toClient = <<>>
    BY <2>1, <2>3 DEF TransfersInOrder
  <2> QED
    BY <2>2, <2>3, <2>4, <2>5, <2>6 DEF TransfersInOrder, AnsweredIsAlone
<1> QED
  BY <1>1, <1>2 DEF WireOK

LEMMA CrashKeepsWire ==
    ASSUME Crash
    PROVE  WireOK'
<1>1. Len(toServer') = 0 /\ toClient' = <<>> /\ sock' = 0 /\ pc' = "none"
  BY DEF Crash
<1> QED
  BY <1>1 DEF WireOK, DataMeetsItsFile, TransfersInOrder, AnsweredIsAlone, Sending

LEMMA InitIntegrity == NothingToMixUp /\ Init => IntegrityInv
<1> SUFFICES ASSUME Init PROVE IntegrityInv
  OBVIOUS
<1>1. /\ \A p \in Path : parts[p] = None /\ finals[p] = None
      /\ session = None /\ pc = "none" /\ sock = 0 /\ toClient = <<>>
      /\ Len(toServer) = 0
  BY DEF Init, ServerInit
<1> QED
  BY <1>1 DEF IntegrityInv, Integrity, PartsArePrefixes, HoldsPrefixes, FinalsAreWhole,
     SessionFits,
     DataMeetsItsFile, TransfersInOrder, AnsweredIsAlone, Sending

\* The invariant is kept by every step of the process.
LEMMA NextIntegrity ==
    ASSUME NothingToMixUp, TypeOK, IntegrityInv, [Next]_vars
    PROVE  IntegrityInv'
<1>1. DiskOK /\ WireOK
  BY DEF IntegrityInv, DiskOK, WireOK
<1>2. SUFFICES DiskOK' /\ WireOK'
  BY DEF IntegrityInv, DiskOK, WireOK
<1>a. ASSUME UNCHANGED <<parts, finals>>, session' = None \/ session' = session
      PROVE  DiskOK'
  BY <1>a, <1>1, DiskStays
<1>c. ASSUME ResetSession, UNCHANGED finals
      PROVE  DiskOK'
  <2>1. HoldsPrefixes(parts')
    BY <1>c, <1>1, ClosedLemma DEF ResetSession, DiskOK, Integrity, PartsArePrefixes
  <2> QED
    BY <2>1, <1>c, <1>1, DiskShrinks DEF ResetSession
<1>b. ASSUME session' = None \/ session' = session,
             toServer' = toServer \/ toServer' = <<>>,
             UNCHANGED <<pc, job, seq, transfers, sock, status>>,
             toClient' = toClient \/ toClient' = <<>>
      PROVE  WireOK'
  <2>1. StartAnswered' => StartAnswered
    <3>1. Len(<<>>) = 0 /\ 1..0 = {}
      OBVIOUS
    <3> QED
      BY <3>1, <1>b DEF StartAnswered
  <2>2. Direct /\ ~Sending => toClient' = <<>>
    BY <1>b, <1>1 DEF WireOK, TransfersInOrder
  <2>3. QuietStep
    BY <2>1, <2>2, <1>b DEF QuietStep, Sending
  <2> QED
    BY <2>3, <1>1, QuietLemma
<1>3. CASE StartServer
  BY <1>3, <1>a, <1>b DEF StartServer, netVars, clientVars
<1>4. CASE StopServer
  <2>1. toClient' = toClient \/ toClient' = <<>>
    BY <1>4 DEF StopServer
  <2> QED
    BY <2>1, <1>4, <1>b, <1>c DEF StopServer, ResetSession, clientVars
<1>5. CASE StartTransfer
  BY <1>5, <1>1, <1>a, StartTransferKeepsWire DEF StartTransfer
<1>6. CASE Succeed \/ Fail \/ Abort
  <2>1. PICK q \in {toClient} \cup
                   {Without(toClient, i) : i \in Deliverable(toClient)} :
            ThreadEnds(q)
    BY <1>6 DEF Succeed, Fail, Abort, AcceptEndAck, GiveUp
  <2>2. UNCHANGED <<session, parts, finals, transfers>>
    BY <1>6 DEF Succeed, Fail, Abort, Finish, serverVars
  <2> QED
    BY <2>1, <2>2, <1>1, <1>a, EndKeepsWire
<1>7. CASE RequestCancel \/ CancelClient
  BY <1>7, <1>a, <1>b DEF RequestCancel, CancelClient, netVars, clientVars, serverVars
<1>8. CASE CancelSession
  <2>1. session' = None \/ session' = session
    BY <1>8 DEF CancelSession, ResetSession
  <2>2. WireOK'
    BY <2>1, <1>8, <1>b DEF CancelSession, netVars, clientVars
  <2> QED
    BY <2>1, <2>2, <1>8, <1>a, <1>c DEF CancelSession
<1>9. CASE DiscardLeftover
  <2>1. PICK f \in Files :
            /\ Leftovers(parts, f) # {}
            /\ parts' \in DiscardOutcomes(parts, First(Leftovers(parts, f)),
                                          "locked" \in Faults)
    BY <1>9 DEF DiscardLeftover
  <2>2. Leftovers(parts, f) \subseteq {p \in Path : parts[p] # None}
    BY DEF Leftovers
  <2>3. PICK p \in {First(Leftovers(parts, f))} : p \in Path /\ parts[p] # None
    BY <2>1, <2>2, FirstLemma
  <2>4. PICK d \in {Discarded(parts, {p})} \cup Undiscarded(parts, p) : d = parts'
    BY <2>1, <2>3 DEF DiscardOutcomes
  <2>5. /\ \A q \in Path : d[q] # None => parts[q] # None /\ d[q].data = parts[q].data
        /\ HoldsPrefixes(d)
    BY <2>3, <2>4, <1>1, DiscardOutcomesLemma
    DEF TypeOK, ServerTypeOK, DiskOK, Integrity, PartsArePrefixes
  <2>6. UNCHANGED <<session, finals>> /\ WireOK'
    BY <1>9, <1>b DEF DiscardLeftover, netVars, clientVars, managerVars
  <2> QED
    BY <2>4, <2>5, <2>6, <1>1, DiskShrinks
<1>10. CASE Crash
  <2>1. session' = None /\ UNCHANGED finals
    BY <1>10 DEF Crash
  <2>2. HoldsPrefixes(parts')
    BY <1>1, <1>10, CrashLemma DEF DiskOK, Integrity, PartsArePrefixes
  <2> QED
    BY <2>1, <2>2, <1>1, <1>10, CrashKeepsWire, DiskShrinks
<1>11. CASE ClientMoves
  <2>1. UNCHANGED <<session, parts, finals>>
    BY <1>11 DEF ClientMoves, serverVars
  <2> QED
    BY <2>1, <1>1, <1>11, <1>a, ClientKeepsWire
<1>12. CASE ServerMoves
  BY <1>1, <1>12, ServerDiskStep, ServerKeepsWire DEF ServerMoves
<1>13. CASE NetworkMoves
  <2>1. UNCHANGED <<session, parts, finals, pc, job, seq, transfers, status, sock>>
    BY <1>13 DEF NetworkMoves, LoseDatagram, LoseAck, clientVars, serverVars, managerVars
  <2>2. CASE LoseDatagram
    <3>1. /\ toClient' = toClient
          /\ \E i \in Deliverable(toServer) : toServer' = Without(toServer, i)
      BY <2>2 DEF LoseDatagram
    <3>2. QuietStep
      BY <2>1, <3>1, <1>1 DEF QuietStep, Sending, StartAnswered, WireOK, TransfersInOrder
    <3> QED
      BY <3>2, <2>1, <1>1, <1>a, QuietLemma
  <2>3. CASE LoseAck
    <3>1. PICK i \in Deliverable(toClient) :
              toClient' = Without(toClient, i) /\ toServer' = toServer
      BY <2>3 DEF LoseAck
    <3>2. toClient \in Seq(Ack) /\ i \in 1..Len(toClient)
      BY DeliverableLemma DEF TypeOK, NetTypeOK
    <3>3. \A k \in 1..Len(toClient') : \E l \in 1..Len(toClient) :
              toClient'[k] = toClient[l]
      BY <3>1, <3>2, WithoutLemma
    <3>4. StartAnswered' => StartAnswered
      BY <3>3, <2>1 DEF StartAnswered
    <3>5. Direct /\ ~Sending => FALSE
      <4>1. Len(<<>>) = 0 /\ 1..0 = {}
        OBVIOUS
      <4> QED
        BY <4>1, <3>2, <1>1 DEF WireOK, TransfersInOrder
    <3>6. QuietStep
      BY <2>1, <3>1, <3>4, <3>5 DEF QuietStep, Sending
    <3> QED
      BY <3>6, <2>1, <1>1, <1>a, QuietLemma
  <2> QED
    BY <2>2, <2>3, <1>13 DEF NetworkMoves
<1>14. CASE UNCHANGED vars
  BY <1>14, <1>a, <1>b DEF vars, netVars, clientVars, serverVars, managerVars
<1> QED
  BY <1>3, <1>4, <1>5, <1>6, <1>7, <1>8, <1>9, <1>10, <1>11, <1>12, <1>13, <1>14
  DEF Next

\* Why: the receiver's count always agrees with the file it writes, a DATA packet
\* never meets the session of another file, and on the direct path nothing but
\* the sender's own file is on its way once its START is answered
\* (server.py:102-199, client.py:228-312).
THEOREM IntegrityInvHolds ==
    ASSUME NothingToMixUp
    PROVE  Spec => []IntegrityInv
<1>1. Init => IntegrityInv
  BY InitIntegrity
<1>2. TypeOK /\ IntegrityInv /\ [Next]_vars => IntegrityInv'
  BY NextIntegrity
<1> QED
  BY <1>1, <1>2, TypeCorrect, PTL DEF Spec

\* What the receiver writes is always a prefix of the file, and what it
\* publishes is the whole file (server.py:154-199), as long as a name and size
\* stand for one content, the packet size is not changed, no write fails half
\* way, and datagrams keep their order or there is but one file.
THEOREM IntegrityHolds ==
    ASSUME NothingToMixUp
    PROVE  Spec => []Integrity
<1>1. IntegrityInv => Integrity
  BY DEF IntegrityInv
<1> QED
  BY <1>1, IntegrityInvHolds, PTL
-----------------------------------------------------------------------------
\* The two ends in step: the wire.

\* A datagram is handled or lost; at most its sender is answered.
LEMMA HandledKeepsWire ==
    ASSUME Direct, TypeOK, TransfersInOrder, WireBehind,
           NEW i \in Deliverable(toServer), toServer' = Without(toServer, i),
           UNCHANGED <<sock, clientVars, transfers>>,
           toClient' = toClient \/ \E r \in ResumePoint : Acks(toServer[i], r)
    PROVE  WireBehind'
<1>1. /\ UNCHANGED <<pc, job, seq, transfers>> /\ total' = total
      /\ seq \in Nat /\ transfers \in Nat /\ Len(toServer) \in Nat
  BY DEF clientVars, total, TypeOK, ClientTypeOK, NetTypeOK
<1>2. SUFFICES ASSUME Sending
               PROVE  SeqInRange' /\ PacketsBehind' /\ AcksBehind' /\ OldPacketsGone'
  BY <1>1 DEF WireBehind, Sending
<1>3. SeqInRange /\ PacketsBehind /\ AcksBehind /\ OldPacketsGone /\ sock = transfers
  BY <1>2 DEF WireBehind, TransfersInOrder
<1>4. i = 1 /\ 1 \in 1..Len(toServer) /\ toServer[1] \in Datagram
  BY WithoutPositions DEF TypeOK, NetTypeOK
<1>5. toServer[1].seq \in Nat /\ toServer[1].from \in Nat
  BY <1>4 DEF Datagram, StartMsg, DataMsg, EndMsg, SeqStart
<1>6. \A k \in 1..Len(toClient') :
          \/ \E l \in 1..Len(toClient) : toClient'[k] = toClient[l]
          \/ toClient'[k].seq = toServer[1].seq /\ toServer[1].from = transfers
  BY <1>3, <1>4, <1>5, RepliedLemma DEF Acks
<1>7. \A k \in 1..Len(toServer') :
          \E n \in 1..Len(toServer) :
              /\ toServer'[k] = toServer[n]
              /\ \A j \in 1..k : \E l \in 1..n : toServer'[j] = toServer[l]
  BY TailLemma
<1>8. SeqInRange'
  BY <1>1, <1>3 DEF SeqInRange
<1>9. PacketsBehind'
  <2>1. SUFFICES ASSUME NEW k \in 1..Len(toServer'), toServer'[k].from = transfers
                 PROVE  /\ toServer'[k].seq <= seq
                        /\ toServer'[k].type = "DATA" => toServer'[k].seq \in 1..total
                        /\ toServer'[k].type = "END" =>
                              toServer'[k].seq = SeqEnd(job.file, job.ps)
                        /\ \A j \in 1..k : toServer'[j].from = transfers =>
                              toServer'[j].seq <= toServer'[k].seq
    BY <1>1 DEF PacketsBehind
  <2>2. PICK n \in 1..Len(toServer) :
            /\ toServer'[k] = toServer[n]
            /\ \A j \in 1..k : \E l \in 1..n : toServer'[j] = toServer[l]
    BY <1>7
  <2> QED
    BY <2>1, <2>2, <1>3 DEF PacketsBehind
<1>10. AcksBehind'
  BY <1>1, <1>3, <1>4, <1>6 DEF AcksBehind, PacketsBehind
<1>11. OldPacketsGone'
  <2>1. SUFFICES ASSUME StartAnswered', NEW k \in 1..Len(toServer')
                 PROVE  toServer'[k].from = transfers
    BY <1>1 DEF OldPacketsGone
  <2>2. PICK n \in 1..Len(toServer) : toServer'[k] = toServer[n]
    BY <1>7
  <2>3. CASE StartAnswered
    BY <2>2, <2>3, <1>3 DEF OldPacketsGone
  <2>4. CASE ~StartAnswered
    <3>1. toServer[1].from = transfers
      BY <2>1, <2>4, <1>1, <1>6 DEF StartAnswered
    <3>2. toServer[n].from \in 1..transfers /\ toServer[1].from <= toServer[n].from
      BY <1>4 DEF TransfersInOrder
    <3> QED
      BY <3>1, <3>2, <2>2, <1>1
  <2> QED
    BY <2>3, <2>4
<1> QED
  BY <1>8, <1>9, <1>10, <1>11

\* What is taken off the wire, by whomever, leaves the rest in order.
LEMMA FewerKeepsWire ==
    ASSUME Direct, TypeOK, WireBehind,
           toServer' = toServer \/ toServer' = <<>>,
           \A k \in 1..Len(toClient') : \E l \in 1..Len(toClient) : toClient'[k] = toClient[l],
           UNCHANGED <<job, seq, transfers>>, Sending' => Sending
    PROVE  WireBehind'
<1>1. SUFFICES ASSUME Sending
               PROVE  SeqInRange' /\ PacketsBehind' /\ AcksBehind' /\ OldPacketsGone'
  BY DEF WireBehind
<1>2. SeqInRange /\ PacketsBehind /\ AcksBehind /\ OldPacketsGone /\ total' = total
  BY <1>1 DEF WireBehind, total
<1>3. SeqInRange' /\ AcksBehind'
  BY <1>2 DEF SeqInRange, AcksBehind
<1>4. StartAnswered' => StartAnswered
  BY DEF StartAnswered
<1>5. CASE toServer' = toServer
  BY <1>2, <1>3, <1>4, <1>5 DEF PacketsBehind, OldPacketsGone
<1>6. CASE toServer' = <<>>
  <2>1. Len(toServer') = 0 /\ 1..0 = {}
    BY <1>6
  <2> QED
    BY <2>1, <1>3 DEF PacketsBehind, OldPacketsGone
<1> QED
  BY <1>5, <1>6-----------------------------------------------------------------------------
\* The session.

\* What the receiver publishes is the content of its file.
LEMMA FinalizeLemma ==
    ASSUME NothingToMixUp, TypeOK, IntegrityInv, Finalize
    PROVE  \E v \in Versions :
              /\ session.path \in Path /\ session.path[2] = session.file
              /\ finals' = [finals EXCEPT ![session.path] = Content(session.file, v)]
<1> DEFINE path == session.path
           data == parts[path].data
<1>1. /\ AllReceived /\ session.out = "open" /\ parts[path] # None
      /\ finals' = [finals EXCEPT ![path] = data]
      /\ session \in Session /\ path \in Path /\ path[2] \in Files
  BY DEF Finalize, AllReceived, TypeOK, ServerTypeOK, Session, Path
<1>2. PICK ps \in PacketSizes :
          /\ path[2] = session.file
          /\ session.total = TotalPackets(session.file, ps)
          /\ session.expected \in 1..(session.total + 1)
          /\ Len(data) = Covered(session.file, ps, session.expected - 1)
  BY <1>1 DEF IntegrityInv, SessionFits, AllReceived
<1>3. session.expected - 1 = session.total
  BY <1>1, <1>2 DEF AllReceived, Session
<1>4. Len(data) = FileSize[path[2]]
  BY <1>1, <1>2, <1>3, CoveredEnds DEF Session
<1>5. PICK v \in Versions : PrefixOf(data, path[2], v)
  BY <1>1 DEF IntegrityInv, Integrity, PartsArePrefixes, HoldsPrefixes
<1>6. data \in Seq(Unit)
  BY <1>1, PartLemma DEF TypeOK, ServerTypeOK
<1> DEFINE f == path[2]
           whole == Content(f, v)
<1>7. /\ whole \in Seq(Unit) /\ Len(whole) = FileSize[f]
      /\ \A j \in 1..FileSize[f] : whole[j] = <<f, v, j>>
  <2>1. FileSize[f] \in Nat
    BY <1>1, FileSizeAssumption
  <2>2. \A j \in 1..FileSize[f] : <<f, v, j>> \in Unit
    BY <1>1 DEF Unit
  <2> HIDE DEF f
  <2> QED
    BY <2>1, <2>2 DEF Content
<1> HIDE DEF whole, data, f
<1>8. data = whole
  <2>1. \A j \in 1..Len(data) : data[j] = whole[j]
    BY <1>4, <1>5, <1>7 DEF PrefixOf, f
  <2> QED
    BY <2>1, <1>4, <1>6, <1>7, SeqEqual DEF f
<1> QED
  BY <1>1, <1>2, <1>8 DEF whole, f

\* A published file stays, and the one that is being published joins it.
LEMMA FinalizePublishes ==
    ASSUME NothingToMixUp, TypeOK, IntegrityInv, Finalize, UNCHANGED job
    PROVE  /\ session.file = job.file => Published'
           /\ Published => Published'
<1>1. PICK v \in Versions :
          /\ session.path \in Path /\ session.path[2] = session.file
          /\ finals' = [finals EXCEPT ![session.path] = Content(session.file, v)]
  BY FinalizeLemma
<1>2. /\ job \in Job /\ v = job.ver /\ job' = job
      /\ finals \in [Path -> Seq(Unit) \cup {None}]
  BY OneChoice DEF TypeOK, ClientTypeOK, ServerTypeOK, Job
<1>3. /\ finals'[session.path] = Content(session.file, job.ver)
      /\ \A p \in Path : p # session.path => finals'[p] = finals[p]
  BY <1>1, <1>2
<1>4. session.file = job.file => Published'
  BY <1>1, <1>2, <1>3 DEF Published
<1>5. ASSUME Published PROVE Published'
  <2>1. PICK p \in Path : p[2] = job.file /\ finals[p] = Content(job.file, job.ver)
    BY <1>5 DEF Published
  <2>2. finals'[p] = Content(job.file, job.ver)
    BY <2>1, <1>1, <1>3
  <2> QED
    BY <2>1, <2>2, <1>2 DEF Published
<1> QED
  BY <1>4, <1>5

\* As long as no START is answered nothing is claimed about the session.
LEMMA Unanswered ==
    ASSUME TypeOK, UNCHANGED job, seq' \in Nat, ~StartAnswered'
    PROVE  HandshakeHolds' /\ DataHolds' /\ EndHolds'
<1>1. seq' = SeqStart /\ \A k \in 1..Len(toClient') : toClient'[k].seq # SeqStart
  BY DEF StartAnswered
<1>2. total' = TotalPackets(job.file, job.ps) /\ total' \in Nat \ {0}
  BY TotalLemma DEF total, TypeOK, ClientTypeOK, Job
<1>3. ~InData' /\ seq' # SeqEnd(job.file, job.ps)
  BY <1>1, <1>2 DEF InData, SeqStart, SeqEnd
<1> QED
  BY <1>1, <1>3 DEF StartAnswered, HandshakeHolds, DataHolds, EndHolds

\* The head of the queue, once the sender's START is answered.
LEMMA HeadIsMine ==
    ASSUME Direct, TypeOK, TransfersInOrder, WireBehind, Sending, StartAnswered,
           NEW i \in Deliverable(toServer)
    PROVE  /\ i \in 1..Len(toServer) /\ toServer[i].from = transfers
           /\ toServer[i].seq <= seq
           /\ toServer[i].type = "START" => toServer[i].file = job.file
           /\ toServer[i].type = "DATA" => toServer[i].seq \in 1..total
           /\ toServer[i].type = "END" => toServer[i].seq = SeqEnd(job.file, job.ps)
           /\ toServer[i].type # "START" =>
                 \A k \in 1..Len(toServer) : toServer[k].type # "START"
<1>1. /\ i = 1 /\ i \in 1..Len(toServer)
      /\ \A k \in 1..Len(toServer) : toServer[k] \in Datagram
  BY DeliverableLemma DEF Deliverable, Lesser, TypeOK, NetTypeOK
<1>2. PacketsBehind /\ \A k \in 1..Len(toServer) : toServer[k].from = transfers
  BY DEF WireBehind, OldPacketsGone
<1>3. \A k \in 1..Len(toServer) : toServer[1].seq <= toServer[k].seq
  BY <1>1, <1>2 DEF PacketsBehind
<1>4. \A k \in 1..Len(toServer) :
          /\ toServer[k].type = "START" => toServer[k].seq = 0
          /\ toServer[k].type # "START" => toServer[k].seq \in Nat \ {0}
  BY <1>1 DEF Datagram, StartMsg, DataMsg, EndMsg, SeqStart
<1> QED
  BY <1>1, <1>2, <1>3, <1>4 DEF PacketsBehind, TransfersInOrder

\* An answer of the receiver is for a datagram of the sender that is waiting.
LEMMA AnswersTheSender ==
    ASSUME Direct, TypeOK, TransfersInOrder, Sending,
           NEW i \in Deliverable(toServer), NEW r \in ResumePoint, Acks(toServer[i], r)
    PROVE  \A k \in 1..Len(toClient') :
              \/ \E l \in 1..Len(toClient) : toClient'[k] = toClient[l]
              \/ /\ toClient'[k].seq = toServer[i].seq /\ toClient'[k].resume = r
                 /\ toServer[i].from = transfers
<1>1. toServer[i] \in Datagram
  BY DeliverableLemma DEF TypeOK, NetTypeOK
<1>2. toServer[i].seq \in Nat /\ toServer[i].from \in Nat
  BY <1>1 DEF Datagram, StartMsg, DataMsg, EndMsg, SeqStart
<1>3. sock = transfers
  BY DEF TransfersInOrder
<1> QED
  BY <1>2, <1>3, RepliedLemma DEF Acks

\* What an older transfer left does not make the sender believe it was answered.
LEMMA StaysUnanswered ==
    ASSUME Direct, TypeOK, TransfersInOrder, WireBehind, Sending, ~StartAnswered,
           NEW i \in Deliverable(toServer), toServer[i].type # "START",
           toClient' = toClient \/ \E r \in ResumePoint : Acks(toServer[i], r), UNCHANGED seq
    PROVE  ~StartAnswered'
<1>1. i \in 1..Len(toServer) /\ toServer[i] \in Datagram
  BY DeliverableLemma DEF TypeOK, NetTypeOK
<1>2. toServer[i].seq \in Nat \ {0}
  BY <1>1 DEF Datagram, StartMsg, DataMsg, EndMsg
<1>3. \A k \in 1..Len(toClient') :
          \/ \E l \in 1..Len(toClient) : toClient'[k] = toClient[l]
          \/ toClient'[k].seq = toServer[i].seq
  BY AnswersTheSender
<1> QED
  BY <1>2, <1>3 DEF StartAnswered, SeqStart
\* A START of an answered transfer is a repetition; any other START leaves either
\* no answer or a fresh session behind.
LEMMA StartInStep ==
    ASSUME Direct, TypeOK, TransfersInOrder, LockstepInv, intact, Sending, ServerMoves,
           HandleDuplicateStart \/ HandleStartResume \/ HandleStartFresh
               \/ HandleStartFails
    PROVE  HandshakeHolds' /\ DataHolds' /\ EndHolds'
<1>1. /\ UNCHANGED <<pc, job, seq, transfers>> /\ seq \in Nat
      /\ total' = total /\ InData' = InData
  BY DEF ServerMoves, clientVars, managerVars, total, InData, TypeOK, ClientTypeOK
<1>2. HandshakeHolds /\ DataHolds /\ EndHolds /\ WireBehind
  BY DEF LockstepInv, InStep
<1>3. ASSUME NEW i \in Arrivals("START")
      PROVE  /\ i \in Deliverable(toServer) /\ i \in 1..Len(toServer)
             /\ toServer[i] \in StartMsg /\ toServer[i].type = "START"
             /\ toServer[i].seq = SeqStart
             /\ toServer[i].from = transfers => toServer[i].file = job.file
             /\ StartAnswered => Fresh /\ IsDuplicateStart(toServer[i])
  <2>1. /\ i \in Deliverable(toServer) /\ i \in 1..Len(toServer)
        /\ toServer[i].type = "START" /\ toServer[i] \in Datagram
    BY DeliverableLemma DEF Arrivals, TypeOK, NetTypeOK
  <2>2. toServer[i] \in StartMsg /\ toServer[i].seq = SeqStart
    BY <2>1 DEF Datagram, StartMsg, DataMsg, EndMsg
  <2>3. toServer[i].from = transfers => toServer[i].file = job.file
    BY <2>1 DEF TransfersInOrder
  <2>4. ASSUME StartAnswered PROVE Fresh /\ IsDuplicateStart(toServer[i])
    <3>1. Fresh
      BY <1>2, <2>1, <2>4 DEF HandshakeHolds
    <3>2. toServer[i].file = job.file
      BY <1>2, <2>1, <2>4, HeadIsMine
    <3> QED
      BY <3>1, <3>2 DEF Fresh, IsDuplicateStart
  <2> QED
    BY <2>1, <2>2, <2>3, <2>4
<1>4. CASE HandleDuplicateStart
  <2>1. PICK i \in Arrivals("START") :
            /\ Receive(i) /\ IsDuplicateStart(toServer[i])
            /\ Acks(toServer[i], session.resume) /\ UNCHANGED <<session, finals>>
    BY <1>4 DEF HandleDuplicateStart, serverVars
  <2>2. session # None /\ session.resume \in ResumePoint
    BY <2>1 DEF IsDuplicateStart, TypeOK, ServerTypeOK, Session
  <2>3. \A k \in 1..Len(toClient') :
            \/ \E l \in 1..Len(toClient) : toClient'[k] = toClient[l]
            \/ /\ toClient'[k].seq = SeqStart /\ toClient'[k].resume = session.resume
               /\ toServer[i].from = transfers
    BY <1>3, <2>1, <2>2, AnswersTheSender
  <2>4. StartAnswered' => Fresh
    <3>1. CASE StartAnswered
      BY <1>3, <2>1, <3>1
    <3>2. CASE ~StartAnswered
      <4>1. StartAnswered' => toServer[i].from = transfers
        BY <1>1, <2>3, <3>2 DEF StartAnswered
      <4> QED
        BY <4>1, <1>3, <2>1 DEF Fresh, IsDuplicateStart
    <3> QED
      BY <3>1, <3>2
  <2>5. Fresh' = Fresh
    BY <1>1, <2>1 DEF Fresh
  <2>6. HandshakeHolds'
    BY <1>1, <1>2, <2>1, <2>3, <2>4, <2>5 DEF HandshakeHolds
  <2>7. \A n : n # SeqStart /\ AckOnWay(n)' => AckOnWay(n)
    BY <2>3 DEF AckOnWay
  <2>8. DataHolds'
    BY <1>1, <1>2, <2>1, <2>7 DEF DataHolds, InData, SeqStart
  <2>9. EndHolds'
    <3>1. SeqEnd(job.file, job.ps) # SeqStart
      BY TotalLemma DEF TypeOK, ClientTypeOK, Job, SeqEnd, SeqStart
    <3>2. Published' = Published /\ AllReceived' = AllReceived
      BY <1>1, <2>1 DEF Published, AllReceived
    <3> QED
      BY <3>1, <3>2, <1>1, <1>2, <2>1, <2>7 DEF EndHolds
  <2> QED
    BY <2>6, <2>8, <2>9
<1>5. ASSUME NEW i \in Arrivals("START"), NEW path, NEW n \in ResumePoint,
             ~IsDuplicateStart(toServer[i]), Acks(toServer[i], n),
             session' = Opened(toServer[i], path, n), session' # None
      PROVE  HandshakeHolds' /\ DataHolds' /\ EndHolds'
  <2>1. ~StartAnswered
    BY <1>3, <1>5
  <2>2. \A k \in 1..Len(toClient') :
            \/ \E l \in 1..Len(toClient) : toClient'[k] = toClient[l]
            \/ /\ toClient'[k].seq = SeqStart /\ toClient'[k].resume = n
               /\ toServer[i].from = transfers
    BY <1>3, <1>5, AnswersTheSender
  <2>3. CASE ~StartAnswered'
    BY <2>3, <1>1, Unanswered
  <2>4. CASE StartAnswered'
    <3>1. toServer[i].from = transfers
      BY <1>1, <2>1, <2>2, <2>4 DEF StartAnswered
    <3>2. Fresh' /\ session'.resume = n
      BY <3>1, <1>1, <1>3, <1>5 DEF Fresh, Opened
    <3>3. \A k \in 1..Len(toClient') : toClient'[k].seq = SeqStart =>
              toClient'[k].resume = n
      BY <2>1, <2>2 DEF StartAnswered
    <3>4. seq = SeqStart /\ ~InData' /\ seq # SeqEnd(job.file, job.ps)
      <4>1. SeqEnd(job.file, job.ps) # SeqStart
        BY TotalLemma DEF TypeOK, ClientTypeOK, Job, SeqEnd, SeqStart
      <4> QED
        BY <4>1, <1>1, <2>1 DEF StartAnswered, InData, SeqStart
    <3> QED
      BY <3>2, <3>3, <3>4, <1>1 DEF HandshakeHolds, DataHolds, EndHolds
  <2> QED
    BY <2>3, <2>4
<1>6. CASE HandleStartResume
  <2>1. PICK i \in Arrivals("START") : \E offer \in Offers(toServer[i]) :
            /\ ~IsDuplicateStart(toServer[i]) /\ ResumeAfter(toServer[i], offer) > 0
            /\ session' = Opened(toServer[i], offer.found,
                                 ResumeAt(toServer[i], offer))
            /\ Acks(toServer[i], ResumeAt(toServer[i], offer))
    BY <1>6 DEF HandleStartResume
  <2>2. PICK offer \in Offers(toServer[i]) :
            /\ ~IsDuplicateStart(toServer[i]) /\ ResumeAfter(toServer[i], offer) > 0
            /\ session' = Opened(toServer[i], offer.found,
                                 ResumeAt(toServer[i], offer))
            /\ Acks(toServer[i], ResumeAt(toServer[i], offer))
    BY <2>1
  <2>3. offer.dir \in Directory /\ Candidate(offer, toServer[i].file)
    BY <1>3, OffersLemma
  <2>4. ResumeAt(toServer[i], offer) \in ResumePoint /\ offer.found \in Path
    BY <2>2, <2>3, <1>3, ResumeLemma, TotalLemma DEF StartMsg
  <2>5. session' # None
    BY <2>2, <2>4, <1>3, OpenedType, SessionAssumption
  <2> QED
    BY <2>2, <2>4, <2>5, <1>5
<1>7. CASE HandleStartFresh
  <2>1. PICK i \in Arrivals("START"), now \in 0..MaxClock :
            /\ ~IsDuplicateStart(toServer[i])
            /\ session' = Opened(toServer[i], <<now, toServer[i].file>>, NoResume)
            /\ Acks(toServer[i], NoResume)
    BY <1>7 DEF HandleStartFresh
  <2>2. <<now, toServer[i].file>> \in Path
    BY <1>3 DEF StartMsg, Path
  <2>3. session' # None
    BY <2>1, <2>2, <1>3, OpenedType, NoResumeType, SessionAssumption
  <2> QED
    BY <2>1, <2>3, <1>5, NoResumeType
<1>8. CASE HandleStartFails
  <2>1. PICK i \in Arrivals("START") :
            ~IsDuplicateStart(toServer[i]) /\ toClient' = toClient
    BY <1>8 DEF HandleStartFails, NoReply
  <2>2. ~StartAnswered'
    BY <1>1, <1>3, <2>1 DEF StartAnswered
  <2> QED
    BY <2>2, <1>1, Unanswered
<1> QED
  BY <1>4, <1>6, <1>7, <1>8
\* A DATA packet of the sender is the expected one or a repetition; it moves the
\* receiver one packet ahead of the sender at most, and answers for that.
LEMMA DataInStep ==
    ASSUME NothingToMixUp, Direct, TypeOK, IntegrityInv, TransfersInOrder, LockstepInv,
           intact, Sending, ServerMoves,
           NEW i \in Arrivals("DATA"), Receive(i),
           UNCHANGED finals,
           \/ /\ session # None /\ toServer[i].seq = session.expected
              /\ session' = [session EXCEPT !.expected = @ + 1]
              /\ Acks(toServer[i], NoResume)
           \/ /\ session # None /\ toServer[i].seq < session.expected
              /\ session' = session /\ Acks(toServer[i], NoResume)
           \/ session' = session /\ toClient' = toClient
    PROVE  HandshakeHolds' /\ DataHolds' /\ EndHolds'
<1>1. /\ UNCHANGED <<pc, job, seq, transfers>> /\ seq \in Nat
      /\ total' = total /\ InData' = InData
  BY DEF ServerMoves, clientVars, managerVars, total, InData, TypeOK, ClientTypeOK
<1>2. HandshakeHolds /\ DataHolds /\ EndHolds /\ WireBehind
  BY DEF LockstepInv, InStep
<1>3. i \in Deliverable(toServer) /\ toServer[i].type = "DATA"
      /\ toServer' = Without(toServer, i)
  BY DEF Arrivals, Receive
<1>4. CASE ~StartAnswered
  <2>0. toClient' = toClient \/ \E r \in ResumePoint : Acks(toServer[i], r)
    BY NoResumeType
  <2>1. ~StartAnswered'
    BY <2>0, <1>1, <1>2, <1>3, <1>4, StaysUnanswered
  <2> QED
    BY <2>1, <1>1, Unanswered
<1>5. CASE StartAnswered
  <2> DEFINE d == toServer[i].seq
  <2>1. /\ d \in 1..total /\ d <= seq
        /\ \A k \in 1..Len(toServer) : toServer[k].type # "START"
    BY <1>2, <1>3, <1>5, HeadIsMine
  <2>2. \A k \in 1..Len(toServer') : toServer'[k].type # "START"
    BY <2>1, <1>3, TailLemma
  <2>3. /\ total \in Nat \ {0} /\ SeqEnd(job.file, job.ps) = total + 1
        /\ seq \in 0..(total + 1)
    <3>1. total \in Nat \ {0} /\ SeqEnd(job.file, job.ps) = total + 1
      BY TotalLemma DEF TypeOK, ClientTypeOK, Job, SeqEnd, total
    <3> QED
      BY <3>1, <1>2 DEF WireBehind, SeqInRange
  <2>4. /\ d \in Nat \ {0} /\ seq # SeqStart
        /\ InData \/ seq = total + 1
    BY <2>1, <2>3 DEF SeqStart, InData
  <2>5. HandshakeHolds'
    BY <2>2, <2>4, <1>1 DEF HandshakeHolds
  <2>6. ASSUME toClient' = toClient \/ Acks(toServer[i], NoResume)
        PROVE  AckOnWay(seq)' => AckOnWay(seq) \/ seq = d
    <3>1. \A k \in 1..Len(toClient') :
              \/ \E l \in 1..Len(toClient) : toClient'[k] = toClient[l]
              \/ toClient'[k].seq = d
      <4>1. CASE toClient' = toClient
        BY <4>1
      <4>2. CASE Acks(toServer[i], NoResume)
        BY <4>2, <1>3, AnswersTheSender, NoResumeType
      <4> QED
        BY <2>6, <4>1, <4>2
    <3> QED
      BY <3>1, <1>1 DEF AckOnWay
  <2>7. session \in Session \cup {None}
    BY DEF TypeOK, ServerTypeOK
  <2> HIDE DEF d
  <2>8. CASE InData
    <3>1. /\ session # None /\ session.file = job.file
          /\ session.expected \in {seq, seq + 1}
          /\ AckOnWay(seq) => session.expected = seq + 1
      BY <2>8, <1>2 DEF DataHolds
    <3>2. EndHolds'
      BY <2>8, <2>3, <1>1 DEF EndHolds, InData
    <3>3. CASE /\ d = session.expected /\ session' = [session EXCEPT !.expected = @ + 1]
               /\ Acks(toServer[i], NoResume)
      <4>1. d = seq /\ session.expected = seq
        BY <3>1, <3>3, <2>1, <1>1
      <4>2. session' \in Session /\ session'.file = job.file
            /\ session'.expected = seq + 1
        BY <3>1, <3>3, <4>1, <2>7, <1>1 DEF Session
      <4>3. session' # None
        BY <4>2, SessionAssumption
      <4> QED
        BY <4>2, <4>3, <3>2, <2>5, <1>1 DEF DataHolds
    <3>4. CASE d < session.expected /\ session' = session /\ Acks(toServer[i], NoResume)
      <4>1. AckOnWay(seq)' => session.expected = seq + 1
        <5>1. CASE d = seq
          BY <5>1, <3>1, <3>4, <1>1
        <5>2. CASE d # seq
          BY <5>2, <3>1, <3>4, <2>6
        <5> QED
          BY <5>1, <5>2
      <4> QED
        BY <4>1, <3>1, <3>2, <3>4, <2>5, <1>1 DEF DataHolds
    <3>5. CASE session' = session /\ toClient' = toClient
      <4>1. DataHolds'
        BY <3>1, <3>5, <1>1 DEF DataHolds, AckOnWay
      <4> QED
        BY <4>1, <3>2, <2>5
    <3> QED
      BY <3>3, <3>4, <3>5 DEF d
  <2>9. CASE seq = total + 1
    <3>1. /\ session # None => session.file = job.file /\ AllReceived /\ ~AckOnWay(seq)
          /\ session = None => Published
      BY <2>3, <2>9, <1>2 DEF EndHolds
    <3>2. DataHolds'
      BY <2>3, <2>9, <1>1 DEF DataHolds, InData
    <3>3. session # None => session.total = total /\ session.expected # d
      <4>1. SUFFICES ASSUME session # None
                     PROVE  session.total = total /\ session.expected # d
        OBVIOUS
      <4>2. session.total = total
        BY <3>1, <4>1, OneChoice
        DEF IntegrityInv, SessionFits, total, TypeOK, ClientTypeOK, Job
      <4>3. session.expected > total /\ session.expected \in Nat
        BY <3>1, <4>1, <4>2, <2>7 DEF AllReceived, Session
      <4> QED
        BY <4>2, <4>3, <2>1, <2>3, <2>4
    <3>4. session' = session /\ (toClient' = toClient \/ Acks(toServer[i], NoResume))
      BY <3>3 DEF d
    <3>5. AckOnWay(seq)' => AckOnWay(seq)
      BY <3>4, <2>1, <2>3, <2>4, <2>6, <2>9
    <3>6. Published' = Published /\ AllReceived' = AllReceived
      BY <3>4, <1>1 DEF Published, AllReceived
    <3>7. EndHolds'
      BY <3>1, <3>4, <3>5, <3>6, <1>1 DEF EndHolds, AckOnWay
    <3> QED
      BY <3>2, <3>7, <2>5
  <2> QED
    BY <2>4, <2>8, <2>9
<1> QED
  BY <1>4, <1>5

\* An END of the sender finds everything received, or a file already published.
LEMMA EndInStep ==
    ASSUME NothingToMixUp, Direct, TypeOK, IntegrityInv, TransfersInOrder, LockstepInv,
           intact, Sending, ServerMoves,
           NEW i \in Arrivals("END"), Receive(i),
           \/ /\ UNCHANGED finals
              /\ \/ session = None /\ session' = None
                 \/ session' = session /\ toClient' = toClient
                 \/ /\ AllReceived /\ toClient' = toClient
                    /\ session' = [session EXCEPT !.out = "closed"]
           \/ Finalize,
           toClient' = toClient \/ Acks(toServer[i], NoResume)
    PROVE  HandshakeHolds' /\ DataHolds' /\ EndHolds'
<1>1. /\ UNCHANGED <<pc, job, seq, transfers>> /\ seq \in Nat
      /\ total' = total /\ InData' = InData
  BY DEF ServerMoves, clientVars, managerVars, total, InData, TypeOK, ClientTypeOK
<1>2. HandshakeHolds /\ DataHolds /\ EndHolds /\ WireBehind
  BY DEF LockstepInv, InStep
<1>3. i \in Deliverable(toServer) /\ toServer[i].type = "END"
      /\ toServer' = Without(toServer, i)
  BY DEF Arrivals, Receive
<1>4. CASE ~StartAnswered
  <2>0. toClient' = toClient \/ \E r \in ResumePoint : Acks(toServer[i], r)
    BY NoResumeType
  <2>1. ~StartAnswered'
    BY <2>0, <1>1, <1>2, <1>3, <1>4, StaysUnanswered
  <2> QED
    BY <2>1, <1>1, Unanswered
<1>5. CASE StartAnswered
  <2>1. /\ toServer[i].seq = SeqEnd(job.file, job.ps) /\ toServer[i].seq <= seq
        /\ \A k \in 1..Len(toServer) : toServer[k].type # "START"
    BY <1>2, <1>3, <1>5, HeadIsMine
  <2>2. \A k \in 1..Len(toServer') : toServer'[k].type # "START"
    BY <2>1, <1>3, TailLemma
  <2>3. /\ seq = SeqEnd(job.file, job.ps) /\ seq # SeqStart /\ ~InData
    <3>1. total \in Nat \ {0} /\ SeqEnd(job.file, job.ps) = total + 1
      BY TotalLemma DEF TypeOK, ClientTypeOK, Job, SeqEnd, total
    <3> QED
      BY <3>1, <2>1, <1>2 DEF WireBehind, SeqInRange, SeqStart, InData
  <2>4. HandshakeHolds' /\ DataHolds'
    BY <2>2, <2>3, <1>1 DEF HandshakeHolds, DataHolds
  <2>5. /\ session # None => session.file = job.file /\ AllReceived /\ ~AckOnWay(seq)
        /\ session = None => Published
    BY <2>3, <1>2 DEF EndHolds
  <2>6. CASE UNCHANGED finals /\ session = None /\ session' = None
    BY <2>3, <2>4, <2>5, <2>6, <1>1 DEF EndHolds, Published
  <2>7. CASE UNCHANGED finals /\ session' = session /\ toClient' = toClient
    <3>1. AllReceived' = AllReceived /\ Published' = Published
      BY <2>7, <1>1 DEF AllReceived, Published
    <3> QED
      BY <3>1, <2>4, <2>5, <2>7, <1>1 DEF EndHolds, AckOnWay
  <2>8. CASE /\ UNCHANGED finals /\ AllReceived /\ toClient' = toClient
             /\ session' = [session EXCEPT !.out = "closed"]
    <3>1. session # None /\ session \in Session
      BY <2>8 DEF AllReceived, TypeOK, ServerTypeOK
    <3>2. session' \in Session /\ session'.file = session.file
          /\ session'.expected = session.expected /\ session'.total = session.total
      BY <3>1, <2>8 DEF Session
    <3>3. session' # None /\ AllReceived'
      BY <3>1, <3>2, <2>8, SessionAssumption DEF AllReceived
    <3> QED
      BY <3>1, <3>2, <3>3, <2>4, <2>5, <2>8, <1>1 DEF EndHolds, AckOnWay
  <2>9. CASE Finalize
    <3>1. session' = None /\ session # None
      BY <2>9 DEF Finalize, AllReceived
    <3>2. Published'
      BY <3>1, <2>5, <2>9, <1>1, FinalizePublishes
    <3> QED
      BY <3>1, <3>2, <2>4 DEF EndHolds
  <2> QED
    BY <2>6, <2>7, <2>8, <2>9
<1> QED
  BY <1>4, <1>5
LEMMA ServerKeepsOpened ==
    ASSUME TypeOK, SessionOpened, ServerStep
    PROVE  SessionOpened'
<1>1. session \in Session \cup {None}
  BY DEF TypeOK, ServerTypeOK
<1>2. ASSUME session' = session \/ session' = None PROVE SessionOpened'
  BY <1>2 DEF SessionOpened
<1>3. ASSUME NEW m, NEW path, NEW n \in ResumePoint, session' = Opened(m, path, n)
      PROVE  SessionOpened'
  BY <1>3 DEF SessionOpened, Opened, ResumePoint
<1>4. CASE HandleStartResume
  <2>1. PICK i \in Arrivals("START") : \E offer \in Offers(toServer[i]) :
            /\ ResumeAfter(toServer[i], offer) > 0
            /\ session' = Opened(toServer[i], offer.found,
                                 ResumeAt(toServer[i], offer))
    BY <1>4 DEF HandleStartResume
  <2>2. PICK offer \in Offers(toServer[i]) :
            /\ ResumeAfter(toServer[i], offer) > 0
            /\ session' = Opened(toServer[i], offer.found,
                                 ResumeAt(toServer[i], offer))
    BY <2>1
  <2>3. toServer[i] \in StartMsg
    BY DeliverableLemma
    DEF Arrivals, TypeOK, NetTypeOK, Datagram, StartMsg, DataMsg, EndMsg
  <2>4. offer.dir \in Directory /\ Candidate(offer, toServer[i].file)
    BY <2>3, OffersLemma
  <2>5. ResumeAt(toServer[i], offer) \in ResumePoint
    BY <2>2, <2>3, <2>4, ResumeLemma, TotalLemma DEF StartMsg
  <2> QED
    BY <2>2, <2>5, <1>3
<1>5. CASE HandleStartFresh
  BY <1>5, <1>3, NoResumeType DEF HandleStartFresh
<1>6. CASE HandleExpectedData
  <2>1. session # None /\ session' = [session EXCEPT !.expected = @ + 1]
    BY <1>6 DEF HandleExpectedData
  <2> QED
    BY <2>1, <1>1 DEF Session, SessionOpened
<1>7. CASE FinalizeFails
  <2>1. /\ session # None
        /\ session' = session \/ session' = [session EXCEPT !.out = "closed"]
    BY <1>7 DEF FinalizeFails, AllReceived
  <2> QED
    BY <2>1, <1>1, <1>2 DEF Session, SessionOpened
<1>8. CASE HandleDuplicateStart \/ HandleStartFails \/ HandleDataWriteFails
           \/ HandleDuplicateData \/ IgnoreData \/ ReAckEnd \/ IgnoreIncompleteEnd
           \/ Finalize \/ UseClosedFile
  BY <1>8, <1>2 DEF HandleDuplicateStart, HandleStartFails, HandleDataWriteFails,
     HandleDuplicateData, IgnoreData, ReAckEnd, IgnoreIncompleteEnd, Finalize,
     UseClosedFile, serverVars
<1> QED
  BY <1>4, <1>5, <1>6, <1>7, <1>8 DEF ServerStep

\* Every step of the receiving thread.
LEMMA ServerKeepsStep ==
    ASSUME NothingToMixUp, Direct, TypeOK, IntegrityInv, LockstepInv, ServerMoves
    PROVE  LockstepInv'
<1>1. /\ UNCHANGED <<pc, job, seq, transfers, status>> /\ UNCHANGED clientVars
      /\ Sending' = Sending /\ TransfersInOrder
  BY DEF ServerMoves, clientVars, managerVars, Sending, IntegrityInv
<1>2. SessionOpened'
  BY ServerKeepsOpened DEF ServerMoves, LockstepInv
<1>3. PICK i \in Deliverable(toServer) : 
          /\ toServer' = Without(toServer, i) /\ UNCHANGED <<sock, intact>>
          /\ toClient' = toClient \/ \E r \in ResumePoint : Acks(toServer[i], r)
  <2>1. \A kind : Arrivals(kind) \subseteq Deliverable(toServer)
    BY DEF Arrivals
  <2>2. ASSUME NEW i \in Deliverable(toServer), Receive(i), UNCHANGED intact,
               toClient' = toClient \/ \E r \in ResumePoint : Acks(toServer[i], r)
        PROVE  \E n \in Deliverable(toServer) :
                  /\ toServer' = Without(toServer, n) /\ UNCHANGED <<sock, intact>>
                  /\ toClient' = toClient \/ \E r \in ResumePoint : Acks(toServer[n], r)
    BY <2>2 DEF Receive
  <2>3. CASE HandleDuplicateStart
    <3>1. session # None => session.resume \in ResumePoint
      BY DEF TypeOK, ServerTypeOK, Session
    <3> QED
      BY <3>1, <2>1, <2>2, <2>3 DEF HandleDuplicateStart, IsDuplicateStart, serverVars
  <2>4. CASE HandleStartResume
    <3>1. PICK i \in Arrivals("START") : \E offer \in Offers(toServer[i]) :
              /\ Receive(i) /\ ResumeAfter(toServer[i], offer) > 0
              /\ Acks(toServer[i], ResumeAt(toServer[i], offer)) /\ UNCHANGED intact
      BY <2>4 DEF HandleStartResume
    <3>2. PICK offer \in Offers(toServer[i]) :
              /\ Receive(i) /\ ResumeAfter(toServer[i], offer) > 0
              /\ Acks(toServer[i], ResumeAt(toServer[i], offer)) /\ UNCHANGED intact
      BY <3>1
    <3>3. toServer[i] \in StartMsg
      BY DeliverableLemma
      DEF Arrivals, TypeOK, NetTypeOK, Datagram, StartMsg, DataMsg, EndMsg
    <3>4. offer.dir \in Directory /\ Candidate(offer, toServer[i].file)
      BY <3>3, OffersLemma
    <3>5. ResumeAt(toServer[i], offer) \in ResumePoint
      BY <3>2, <3>3, <3>4, ResumeLemma, TotalLemma DEF StartMsg
    <3> QED
      BY <3>2, <3>5, <2>1, <2>2
  <2>5. CASE HandleStartFresh \/ HandleStartFails
    BY <2>1, <2>2, <2>5, NoResumeType DEF HandleStartFresh, HandleStartFails, NoReply
  <2>6. CASE HandleExpectedData \/ HandleDataWriteFails \/ HandleDuplicateData
             \/ IgnoreData
    BY <2>1, <2>2, <2>6, NoResumeType DEF HandleExpectedData, HandleDataWriteFails,
       HandleDuplicateData, IgnoreData, serverVars, NoReply
  <2>7. CASE ReAckEnd \/ IgnoreIncompleteEnd \/ Finalize \/ FinalizeFails
             \/ UseClosedFile
    BY <2>1, <2>2, <2>7, NoResumeType DEF ReAckEnd, IgnoreIncompleteEnd, Finalize, FinalizeFails,
       UseClosedFile, serverVars, NoReply
  <2> QED
    BY <2>3, <2>4, <2>5, <2>6, <2>7 DEF ServerMoves, ServerStep
<1>4. WireBehind'
  BY <1>1, <1>3, HandledKeepsWire DEF LockstepInv
<1>5. InStep'
  <2>1. SUFFICES ASSUME intact, Sending
                 PROVE  HandshakeHolds' /\ DataHolds' /\ EndHolds'
    BY <1>1, <1>3 DEF InStep
  <2>2. CASE HandleDuplicateStart \/ HandleStartResume \/ HandleStartFresh
             \/ HandleStartFails
    BY <2>1, <2>2, <1>1, StartInStep
  <2>3. CASE HandleExpectedData
    <3>1. PICK n \in Arrivals("DATA") :
              /\ Receive(n) /\ session # None /\ toServer[n].seq = session.expected
              /\ session' = [session EXCEPT !.expected = @ + 1]
              /\ Acks(toServer[n], NoResume) /\ UNCHANGED finals
      BY <2>3 DEF HandleExpectedData
    <3> QED
      BY <3>1, <2>1, <1>1, DataInStep
  <2>4. CASE HandleDuplicateData
    <3>1. PICK n \in Arrivals("DATA") :
              /\ Receive(n) /\ session # None /\ toServer[n].seq < session.expected
              /\ session' = session /\ Acks(toServer[n], NoResume) /\ UNCHANGED finals
      BY <2>4 DEF HandleDuplicateData, serverVars
    <3> QED
      BY <3>1, <2>1, <1>1, DataInStep
  <2>5. CASE HandleDataWriteFails \/ IgnoreData
    <3>1. PICK n \in Arrivals("DATA") :
              /\ Receive(n) /\ session' = session /\ toClient' = toClient
              /\ UNCHANGED finals
      BY <2>5 DEF HandleDataWriteFails, IgnoreData, serverVars, NoReply
    <3> QED
      BY <3>1, <2>1, <1>1, DataInStep
  <2>6. CASE ReAckEnd
    <3>1. PICK n \in Arrivals("END") :
              /\ Receive(n) /\ session = None /\ session' = None
              /\ Acks(toServer[n], NoResume) /\ UNCHANGED finals
      BY <2>6 DEF ReAckEnd, serverVars
    <3> QED
      BY <3>1, <2>1, <1>1, EndInStep
  <2>7. CASE IgnoreIncompleteEnd
    <3>1. PICK n \in Arrivals("END") :
              /\ Receive(n) /\ session' = session /\ toClient' = toClient
              /\ UNCHANGED finals
      BY <2>7 DEF IgnoreIncompleteEnd, serverVars, NoReply
    <3> QED
      BY <3>1, <2>1, <1>1, EndInStep
  <2>8. CASE Finalize
    <3>1. PICK n \in Arrivals("END") : Receive(n) /\ Acks(toServer[n], NoResume)
      BY <2>8 DEF Finalize
    <3> QED
      BY <3>1, <2>1, <2>8, <1>1, EndInStep
  <2>9. CASE FinalizeFails
    <3>1. PICK n \in Arrivals("END") :
              /\ Receive(n) /\ AllReceived /\ toClient' = toClient /\ UNCHANGED finals
              /\ session' = session \/ session' = [session EXCEPT !.out = "closed"]
      BY <2>9 DEF FinalizeFails, NoReply
    <3> QED
      BY <3>1, <2>1, <1>1, EndInStep
  <2>10. CASE UseClosedFile
    <3>1. PICK n \in Arrivals("DATA") \cup Arrivals("END") :
              /\ Receive(n) /\ session' = session /\ toClient' = toClient
              /\ UNCHANGED finals
      BY <2>10 DEF UseClosedFile, NoReply
    <3>2. CASE n \in Arrivals("DATA")
      BY <3>1, <3>2, <2>1, <1>1, DataInStep
    <3>3. CASE n \in Arrivals("END")
      BY <3>1, <3>3, <2>1, <1>1, EndInStep
    <3> QED
      BY <3>1, <3>2, <3>3
  <2> QED
    BY <2>2, <2>3, <2>4, <2>5, <2>6, <2>7, <2>8, <2>9, <2>10 DEF ServerMoves, ServerStep
<1>6. CompletedIsPublished'
  <2>1. SUFFICES ASSUME status = "completed", intact, Published PROVE Published'
    BY <1>1, <1>3 DEF LockstepInv, CompletedIsPublished, Published
  <2>2. CASE Finalize
    BY <2>1, <2>2, <1>1, FinalizePublishes
  <2>3. CASE ~Finalize
    <3>1. UNCHANGED finals
      BY <2>3 DEF ServerMoves, ServerStep, HandleDuplicateStart, HandleStartResume,
         HandleStartFresh, HandleStartFails, HandleExpectedData, HandleDataWriteFails,
         HandleDuplicateData, IgnoreData, ReAckEnd, IgnoreIncompleteEnd, FinalizeFails,
         UseClosedFile, serverVars
    <3> QED
      BY <3>1, <2>1, <1>1 DEF Published
  <2> QED
    BY <2>2, <2>3
<1> QED
  BY <1>2, <1>4, <1>5, <1>6 DEF LockstepInv-----------------------------------------------------------------------------
\* The sending thread, and everybody else.

\* Datagrams and ACKs are lost, the thread or the session goes, nothing else.
LEMMA FewerKeepsStep ==
    ASSUME Direct, TypeOK, LockstepInv,
           \/ toServer' = toServer
           \/ \E n \in Deliverable(toServer) : toServer' = Without(toServer, n)
           \/ toServer' = <<>>,
           \A k \in 1..Len(toClient') : \E l \in 1..Len(toClient) : toClient'[k] = toClient[l],
           UNCHANGED <<job, seq, finals>>, Sending' => Sending,
           intact' => intact /\ session' = session
    PROVE  InStep'
<1>1. SUFFICES ASSUME intact, Sending, session' = session
               PROVE  HandshakeHolds' /\ DataHolds' /\ EndHolds'
  BY DEF InStep
<1>2. HandshakeHolds /\ DataHolds /\ EndHolds
  BY <1>1 DEF LockstepInv, InStep
<1>3. (StartAnswered' => StartAnswered) /\ (AckOnWay(seq)' => AckOnWay(seq))
  BY DEF StartAnswered, AckOnWay
<1>4. \A k \in 1..Len(toServer') : \E n \in 1..Len(toServer) : toServer'[k] = toServer[n]
  BY TailLemma
<1>5. UNCHANGED <<Fresh, InData, Published, AllReceived>>
  BY <1>1 DEF Fresh, InData, Published, AllReceived, total
<1>6. HandshakeHolds'
  BY <1>1, <1>2, <1>3, <1>4, <1>5 DEF HandshakeHolds
<1>7. DataHolds'
  BY <1>1, <1>2, <1>3, <1>5 DEF DataHolds
<1>8. EndHolds'
  BY <1>1, <1>2, <1>3, <1>5 DEF EndHolds
<1> QED
  BY <1>6, <1>7, <1>8

\* The packet of the loop goes on the wire behind those before it.
LEMMA TransmitInStep ==
    ASSUME Direct, TypeOK, TransfersInOrder, LockstepInv, Transmit(bound),
           UNCHANGED <<session, finals, intact, transfers>>
    PROVE  WireBehind' /\ InStep'
<1>1. /\ UNCHANGED <<job, seq, toClient, total, InData>> /\ Sending /\ Sending'
      /\ seq \in Nat /\ toServer \in Seq(Datagram) /\ Packet \in Datagram
  BY PacketType DEF Transmit, Sending, total, InData, TypeOK, ClientTypeOK, NetTypeOK
<1>2. /\ SeqInRange /\ PacketsBehind /\ AcksBehind /\ OldPacketsGone
      /\ job.id = transfers
  BY <1>1 DEF LockstepInv, WireBehind, TransfersInOrder, Sending
<1>3. total \in Nat \ {0} /\ SeqEnd(job.file, job.ps) = total + 1
  BY TotalLemma DEF TypeOK, ClientTypeOK, Job, SeqEnd, total
<1>4. /\ Packet.seq = seq /\ Packet.from = transfers
      /\ Packet.type = "START" => seq = SeqStart
      /\ Packet.type = "DATA" => seq \in 1..total
      /\ Packet.type = "END" => seq = SeqEnd(job.file, job.ps)
  BY <1>2, <1>3 DEF Packet, InData, SeqInRange, SeqStart
<1>5. CASE toServer' = toServer
  <2>1. WireBehind'
    BY <1>1, <1>5, FewerKeepsWire DEF LockstepInv
  <2>2. InStep'
    BY <1>1, <1>5, FewerKeepsStep
  <2> QED
    BY <2>1, <2>2
<1>6. CASE toServer' = Append(toServer, Packet)
  <2>1. /\ Len(toServer') = Len(toServer) + 1 /\ toServer'[Len(toServer) + 1] = Packet
        /\ \A j \in 1..Len(toServer) : toServer'[j] = toServer[j]
        /\ Len(toServer) \in Nat
    BY <1>1, <1>6
  <2>2. ASSUME NEW k \in 1..Len(toServer')
        PROVE  \/ k \in 1..Len(toServer) /\ toServer'[k] = toServer[k]
               \/ k = Len(toServer) + 1 /\ toServer'[k] = Packet
    <3>1. k \in 1..Len(toServer) \/ k = Len(toServer) + 1
      BY <2>1
    <3> QED
      BY <3>1, <2>1
  <2>3. PacketsBehind'
    <3>1. SUFFICES ASSUME NEW k \in 1..Len(toServer'), toServer'[k].from = transfers
                   PROVE  /\ toServer'[k].seq <= seq
                          /\ toServer'[k].type = "DATA" => toServer'[k].seq \in 1..total
                          /\ toServer'[k].type = "END" =>
                                toServer'[k].seq = SeqEnd(job.file, job.ps)
                          /\ \A j \in 1..k : toServer'[j].from = transfers =>
                                toServer'[j].seq <= toServer'[k].seq
      BY <1>1 DEF PacketsBehind
    <3>2. CASE k \in 1..Len(toServer)
      <4>1. \A j \in 1..k : j \in 1..Len(toServer) /\ toServer'[j] = toServer[j]
        BY <3>2, <2>1
      <4> QED
        BY <3>1, <3>2, <4>1, <2>1, <1>2 DEF PacketsBehind
    <3>3. CASE k = Len(toServer) + 1 /\ toServer'[k] = Packet
      <4>1. \A j \in 1..k : toServer'[j].from = transfers => toServer'[j].seq <= seq
        BY <2>2, <1>1, <1>2, <1>4, <3>3 DEF PacketsBehind
      <4> QED
        BY <4>1, <3>3, <1>1, <1>4
    <3> QED
      BY <3>2, <3>3, <2>2
  <2>4. OldPacketsGone'
    BY <2>2, <1>1, <1>2, <1>4 DEF OldPacketsGone, StartAnswered
  <2>5. WireBehind'
    BY <2>3, <2>4, <1>1, <1>2 DEF WireBehind, SeqInRange, AcksBehind
  <2>6. InStep'
    <3>1. SUFFICES ASSUME intact PROVE HandshakeHolds' /\ DataHolds' /\ EndHolds'
      BY DEF InStep
    <3>2. HandshakeHolds /\ DataHolds /\ EndHolds
      BY <3>1, <1>1 DEF LockstepInv, InStep
    <3>3. UNCHANGED <<Fresh, Published, AllReceived, StartAnswered>>
          /\ (AckOnWay(seq)' <=> AckOnWay(seq))
      BY <1>1 DEF Fresh, Published, AllReceived, StartAnswered, AckOnWay
    <3>4. (\E i \in 1..Len(toServer') : toServer'[i].type = "START") =>
              seq = SeqStart \/ \E i \in 1..Len(toServer) : toServer[i].type = "START"
      BY <2>2, <1>4
    <3>5. HandshakeHolds'
      BY <3>2, <3>3, <3>4, <1>1 DEF HandshakeHolds
    <3>6. DataHolds' /\ EndHolds'
      BY <3>2, <3>3, <1>1 DEF DataHolds, EndHolds
    <3> QED
      BY <3>5, <3>6
  <2> QED
    BY <2>5, <2>6
<1> QED
  BY <1>5, <1>6 DEF Transmit, Queued

\* The ACK of START moves the sender to the packet the session expects; the ACK
\* of a packet says that the session expects the next one.
LEMMA AcceptInStep ==
    ASSUME NothingToMixUp, Direct, TypeOK, IntegrityInv, LockstepInv,
           AcceptStartAck \/ AcceptDataAck,
           UNCHANGED <<session, finals, intact, transfers>>
    PROVE  WireBehind' /\ InStep'
<1>1. PICK i \in Deliverable(toClient) :
          /\ toClient[i].seq = seq /\ Arrives(i) /\ pc = "wait" /\ job' = job
          /\ \/ seq = SeqStart /\ MoveTo(Lesser(toClient[i].resume.seq, total) + 1)
             \/ InData /\ MoveTo(seq + 1)
  BY DEF AcceptStartAck, TakeStartAck, AcceptDataAck
<1>2. /\ i \in 1..Len(toClient) /\ toClient \in Seq(Ack) /\ toClient[i] \in Ack
      /\ seq \in Nat
  BY DeliverableLemma DEF TypeOK, NetTypeOK, ClientTypeOK
<1>3. /\ \A k \in 1..Len(toClient') : \E l \in 1..Len(toClient) : toClient'[k] = toClient[l]
      /\ toServer' = toServer
  BY <1>1, <1>2, WithoutLemma DEF Arrives
<1>4. /\ Sending /\ Sending' /\ total' = total /\ StartAnswered /\ AckOnWay(seq)
      /\ total \in Nat \ {0} /\ SeqEnd(job.file, job.ps) = total + 1
  <2>1. Sending /\ Sending' /\ total' = total /\ StartAnswered /\ AckOnWay(seq)
    BY <1>1, <1>2 DEF Sending, MoveTo, total, StartAnswered, AckOnWay
  <2>2. total \in Nat \ {0} /\ SeqEnd(job.file, job.ps) = total + 1
    BY TotalLemma DEF TypeOK, ClientTypeOK, Job, SeqEnd, total
  <2> QED
    BY <2>1, <2>2
<1>5. PacketsBehind /\ AcksBehind /\ OldPacketsGone
  BY <1>4 DEF LockstepInv, WireBehind
<1>6. toClient[i].resume.seq \in Nat
  BY <1>2 DEF Ack, ResumePoint
<1>7. seq' \in 1..(total + 1) /\ seq' > seq
  BY <1>1, <1>2, <1>4, <1>6 DEF MoveTo, Lesser, InData, SeqStart
<1>8. WireBehind'
  <2>1. PacketsBehind'
    <3>1. \A k \in 1..Len(toServer) : toServer[k] \in Datagram
      BY DEF TypeOK, NetTypeOK
    <3>2. \A k \in 1..Len(toServer) : toServer[k].seq \in Nat
      BY <3>1 DEF Datagram, StartMsg, DataMsg, EndMsg, SeqStart
    <3>3. \A k \in 1..Len(toServer) : toServer[k].from = transfers => toServer[k].seq <= seq'
      BY <3>2, <1>2, <1>4, <1>5, <1>7 DEF PacketsBehind
    <3> QED
      BY <3>3, <1>1, <1>3, <1>4, <1>5 DEF PacketsBehind
  <2>2. AcksBehind'
    <3>1. \A k \in 1..Len(toClient) : toClient[k] \in Ack
      BY <1>2
    <3>2. \A k \in 1..Len(toClient) : toClient[k].seq <= seq /\ toClient[k].seq \in Nat
      BY <3>1, <1>5 DEF AcksBehind, Ack
    <3>3. \A k \in 1..Len(toClient) : toClient[k].seq <= seq'
      BY <3>2, <1>2, <1>4, <1>7
    <3> QED
      BY <3>3, <1>3 DEF AcksBehind
  <2>3. OldPacketsGone'
    BY <1>3, <1>4, <1>5 DEF OldPacketsGone
  <2>4. SeqInRange'
    BY <1>1, <1>4, <1>7 DEF SeqInRange
  <2> QED
    BY <2>1, <2>2, <2>3, <2>4 DEF WireBehind
<1>9. InStep'
  <2>1. SUFFICES ASSUME intact PROVE HandshakeHolds' /\ DataHolds' /\ EndHolds'
    BY DEF InStep
  <2>2. HandshakeHolds /\ DataHolds
    BY <2>1, <1>4 DEF LockstepInv, InStep
  <2>3. session \in Session \cup {None}
    BY DEF TypeOK, ServerTypeOK
  <2>4. ASSUME session # None, session.file = job.file
        PROVE  session.total = total /\ session.expected \in 1..(total + 1)
    BY <2>4, OneChoice
    DEF IntegrityInv, SessionFits, total, TypeOK, ClientTypeOK, Job
  <2>5. session # None /\ session.file = job.file /\ session.expected = seq'
    <3>1. CASE seq = SeqStart /\ MoveTo(Lesser(toClient[i].resume.seq, total) + 1)
      <4>1. Fresh /\ toClient[i].resume = session.resume
        BY <3>1, <2>2, <1>1, <1>2, <1>4 DEF HandshakeHolds
      <4>2. session.resume.seq = session.start - 1 /\ session.expected = session.start
        BY <4>1 DEF LockstepInv, SessionOpened, Fresh
      <4>3. session.expected \in 1..(total + 1) /\ session.start \in Nat
        BY <4>1, <2>3, <2>4 DEF Fresh, Session
      <4>4. Lesser(toClient[i].resume.seq, total) + 1 = session.expected
        BY <4>1, <4>2, <4>3, <1>4 DEF Lesser
      <4> QED
        BY <3>1, <4>1, <4>4 DEF Fresh, MoveTo
    <3>2. CASE InData /\ MoveTo(seq + 1)
      BY <3>2, <2>2, <1>4 DEF DataHolds, MoveTo
    <3> QED
      BY <3>1, <3>2, <1>1
  <2>6. ~AckOnWay(seq)'
    <3>1. \A k \in 1..Len(toClient) : toClient[k] \in Ack
      BY <1>2
    <3>2. \A k \in 1..Len(toClient) : toClient[k].seq <= seq /\ toClient[k].seq \in Nat
      BY <3>1, <1>5 DEF AcksBehind, Ack
    <3>3. \A n \in Nat : n <= seq => n # seq'
      BY <1>2, <1>4, <1>7
    <3>4. \A k \in 1..Len(toClient) : toClient[k].seq # seq'
      BY <3>2, <3>3
    <3> QED
      BY <3>4, <1>3 DEF AckOnWay
  <2>7. HandshakeHolds'
    <3>1. seq' # SeqStart
      BY <1>4, <1>7 DEF SeqStart
    <3>2. (\E k \in 1..Len(toServer) : toServer[k].type = "START") => Fresh
      BY <2>2, <1>4 DEF HandshakeHolds
    <3>3. Fresh' = Fresh
      BY <1>1 DEF Fresh
    <3> QED
      BY <3>1, <3>2, <3>3, <1>3 DEF HandshakeHolds
  <2>8. DataHolds'
    BY <2>5, <2>6, <1>1, <1>4 DEF DataHolds, InData
  <2>9. EndHolds'
    <3>1. SUFFICES ASSUME seq' = SeqEnd(job.file, job.ps)
                   PROVE  /\ session'.file = job.file /\ AllReceived' /\ ~AckOnWay(seq)'
                          /\ session' # None
      BY <1>1 DEF EndHolds
    <3>2. session.expected > session.total
      BY <3>1, <2>4, <2>5, <1>4
    <3> QED
      BY <3>2, <2>5, <2>6 DEF AllReceived
  <2> QED
    BY <2>7, <2>8, <2>9
<1> QED
  BY <1>8, <1>9
\* EnterSendFile finds an empty way back and nothing of its own on the way out.
LEMMA EnterInStep ==
    ASSUME Direct, TypeOK, TransfersInOrder, EnterSendFile, UNCHANGED transfers
    PROVE  WireBehind' /\ InStep'
<1>1. /\ pc = "created" /\ seq' = SeqStart /\ UNCHANGED <<job, toServer, toClient>>
      /\ Len(toClient) = 0 /\ transfers \in Nat
  BY DEF EnterSendFile, TransfersInOrder, Sending, TypeOK
<1>2. ~StartAnswered' /\ AcksBehind'
  BY <1>1 DEF StartAnswered, AcksBehind
<1>3. \A i \in 1..Len(toServer) : toServer[i].from # transfers
  <2>1. \A i \in 1..Len(toServer) : toServer[i].from \in 1..transfers
                                    /\ toServer[i].from < transfers
    BY <1>1 DEF TransfersInOrder
  <2> QED
    BY <2>1, <1>1
<1>4. SeqInRange'
  BY <1>1, TotalLemma DEF SeqInRange, SeqEnd, SeqStart, TypeOK, ClientTypeOK, Job
<1>5. WireBehind'
  BY <1>1, <1>2, <1>3, <1>4 DEF WireBehind, PacketsBehind, OldPacketsGone
<1>6. InStep'
  BY <1>1, <1>2, Unanswered DEF InStep, SeqStart
<1> QED
  BY <1>5, <1>6

LEMMA ClientKeepsStep ==
    ASSUME NothingToMixUp, Direct, TypeOK, IntegrityInv, LockstepInv, ClientMoves
    PROVE  LockstepInv'
<1>1. UNCHANGED <<session, finals, intact, transfers, status, job>>
  BY DEF ClientMoves, serverVars, managerVars, ClientStep, EnterSendFile, PassStopCheck,
     Transmit, Timeout, Retransmit, IgnoreAck, LoseMatchingAck, AcceptStartAck, TakeStartAck,
     AcceptDataAck, clientVars
<1>2. SessionOpened' /\ CompletedIsPublished' /\ TransfersInOrder
  BY <1>1 DEF LockstepInv, SessionOpened, CompletedIsPublished, IntegrityInv
<1>3. SUFFICES WireBehind' /\ InStep'
  BY <1>2 DEF LockstepInv
<1>4. CASE EnterSendFile
  BY <1>1, <1>2, <1>4, EnterInStep
<1>5. CASE Transmit(bound)
  BY <1>1, <1>2, <1>5, TransmitInStep
<1>6. CASE AcceptStartAck \/ AcceptDataAck
  BY <1>1, <1>6, AcceptInStep
<1>7. ASSUME toServer' = toServer, UNCHANGED seq, Sending' => Sending,
             \A k \in 1..Len(toClient') : \E l \in 1..Len(toClient) :
                 toClient'[k] = toClient[l]
      PROVE  WireBehind' /\ InStep'
  <2>1. WireBehind'
    BY <1>1, <1>7, FewerKeepsWire DEF LockstepInv
  <2>2. InStep'
    BY <1>1, <1>7, FewerKeepsStep
  <2> QED
    BY <2>1, <2>2
<1>8. CASE PassStopCheck \/ Timeout \/ Retransmit
  BY <1>7, <1>8 DEF PassStopCheck, Timeout, Retransmit, netVars, Sending
<1>9. CASE IgnoreAck \/ LoseMatchingAck
  <2>1. PICK i \in Deliverable(toClient) :
            Arrives(i) /\ pc = "wait" /\ UNCHANGED seq
    BY <1>9 DEF IgnoreAck, LoseMatchingAck, clientVars
  <2>2. toClient \in Seq(Ack) /\ i \in 1..Len(toClient)
    BY DeliverableLemma DEF TypeOK, NetTypeOK
  <2>3. /\ \A k \in 1..Len(toClient') : \E l \in 1..Len(toClient) :
              toClient'[k] = toClient[l]
        /\ toServer' = toServer
    BY <2>1, <2>2, WithoutLemma DEF Arrives
  <2> QED
    BY <2>1, <2>3, <1>7 DEF Sending
<1> QED
  BY <1>4, <1>5, <1>6, <1>8, <1>9 DEF ClientMoves, ClientStep

LEMMA InitLockstep == Init => LockstepInv
<1> SUFFICES ASSUME Init PROVE LockstepInv
  OBVIOUS
<1>1. session = None /\ pc = "none" /\ status = "idle"
  BY DEF Init, ServerInit
<1> QED
  BY <1>1 DEF LockstepInv, SessionOpened, WireBehind, InStep, CompletedIsPublished, Sending

\* The invariant is kept by every step of the process.
LEMMA NextLockstep ==
    ASSUME NothingToMixUp, Direct, TypeOK, IntegrityInv, LockstepInv, [Next]_vars
    PROVE  LockstepInv'
<1>1. TransfersInOrder /\ SessionOpened /\ WireBehind /\ InStep /\ CompletedIsPublished
  BY DEF IntegrityInv, LockstepInv
<1>2. ASSUME session' = session \/ session' = None PROVE SessionOpened'
  BY <1>1, <1>2 DEF SessionOpened
<1>3. ASSUME ~Sending' PROVE WireBehind' /\ InStep'
  BY <1>3 DEF WireBehind, InStep
<1>4. ASSUME \/ toServer' = toServer
             \/ toServer' = <<>>,
             toClient' = toClient \/ toClient' = <<>>,
             UNCHANGED <<pc, job, seq, transfers, finals>>,
             intact' => intact /\ session' = session
      PROVE  WireBehind' /\ InStep'
  <2>1. \A k \in 1..Len(toClient') : \E l \in 1..Len(toClient) : toClient'[k] = toClient[l]
    <3>1. Len(<<>>) = 0 /\ 1..0 = {}
      OBVIOUS
    <3> QED
      BY <3>1, <1>4
  <2>2. WireBehind'
    BY <2>1, <1>1, <1>4, FewerKeepsWire DEF Sending
  <2>3. InStep'
    BY <2>1, <1>4, FewerKeepsStep DEF Sending
  <2> QED
    BY <2>2, <2>3
<1>5. ASSUME UNCHANGED <<job, finals>>, intact' => intact, status' \in {status, "idle"}
      PROVE  CompletedIsPublished'
  BY <1>1, <1>5 DEF CompletedIsPublished
<1>6. ASSUME ResetSession
      PROVE  session' = None /\ (intact' => intact /\ session' = session)
  BY <1>6 DEF ResetSession
<1>7. CASE StartServer \/ RequestCancel \/ CancelClient \/ DiscardLeftover \/ UNCHANGED vars
  <2>1. UNCHANGED <<toServer, toClient, pc, job, seq, transfers, finals, session, intact,
                    status>>
    BY <1>7 DEF StartServer, RequestCancel, CancelClient, DiscardLeftover, vars,
       netVars, clientVars, serverVars, managerVars
  <2> QED
    BY <2>1, <1>2, <1>4, <1>5 DEF LockstepInv
<1>8. CASE StopServer
  <2>1. /\ toServer' = <<>> /\ (toClient' = toClient \/ toClient' = <<>>)
        /\ UNCHANGED <<pc, job, seq, transfers, finals, status>> /\ ResetSession
    BY <1>8 DEF StopServer, clientVars
  <2> QED
    BY <2>1, <1>2, <1>4, <1>5, <1>6 DEF LockstepInv
<1>9. CASE CancelSession
  <2>1. /\ UNCHANGED <<toServer, toClient, pc, job, seq, transfers, finals, status>>
        /\ ResetSession \/ UNCHANGED <<session, intact>>
    BY <1>9 DEF CancelSession, netVars, clientVars
  <2> QED
    BY <2>1, <1>2, <1>4, <1>5, <1>6 DEF LockstepInv
<1>10. CASE StartTransfer
  <2>1. pc' = "created" /\ status' = "transferring" /\ UNCHANGED session
    BY <1>10 DEF StartTransfer
  <2> QED
    BY <2>1, <1>2, <1>3 DEF LockstepInv, Sending, CompletedIsPublished
<1>11. CASE Succeed
  <2>1. /\ pc = "wait" /\ seq = SeqEnd(job.file, job.ps)
        /\ \E i \in Deliverable(toClient) : toClient[i].seq = seq
        /\ pc' = "none" /\ UNCHANGED <<job, session, finals, intact>>
    BY <1>11 DEF Succeed, AcceptEndAck, ThreadEnds, Finish, serverVars
  <2>2. AckOnWay(seq)
    BY <2>1, DeliverableLemma DEF AckOnWay, TypeOK, NetTypeOK
  <2>3. intact => Published
    BY <2>1, <2>2, <1>1 DEF InStep, EndHolds, Sending
  <2>4. CompletedIsPublished'
    BY <2>1, <2>3 DEF CompletedIsPublished, Published
  <2> QED
    BY <2>1, <2>4, <1>2, <1>3 DEF LockstepInv, Sending
<1>12. CASE Fail \/ Abort
  <2>1. pc' = "none" /\ status' \in {"failed", "cancelled"} /\ UNCHANGED session
    BY <1>12 DEF Fail, Abort, GiveUp, ThreadEnds, Finish, Outcome, serverVars
  <2> QED
    BY <2>1, <1>2, <1>3 DEF LockstepInv, Sending, CompletedIsPublished
<1>13. CASE Crash
  <2>1. pc' = "none" /\ status' = "idle" /\ session' = None
    BY <1>13 DEF Crash
  <2> QED
    BY <2>1, <1>2, <1>3 DEF LockstepInv, Sending, CompletedIsPublished
<1>14. CASE ClientMoves
  BY <1>14, ClientKeepsStep
<1>15. CASE ServerMoves
  BY <1>15, ServerKeepsStep
<1>16. CASE NetworkMoves
  <2>1. UNCHANGED <<session, finals, intact, pc, job, seq, transfers, status, sock>>
        /\ UNCHANGED clientVars
    BY <1>16 DEF NetworkMoves, LoseDatagram, LoseAck, clientVars, serverVars, managerVars
  <2>2. CASE LoseDatagram
    <3>1. PICK i \in Deliverable(toServer) :
              toServer' = Without(toServer, i) /\ toClient' = toClient
      BY <2>2 DEF LoseDatagram
    <3>2. WireBehind'
      BY <3>1, <2>1, <1>1, HandledKeepsWire
    <3>3. InStep'
      BY <3>1, <2>1, FewerKeepsStep DEF Sending
    <3> QED
      BY <3>2, <3>3, <2>1, <1>2, <1>5 DEF LockstepInv
  <2>3. CASE LoseAck
    <3>1. PICK i \in Deliverable(toClient) :
              toClient' = Without(toClient, i) /\ toServer' = toServer
      BY <2>3 DEF LoseAck
    <3>2. toClient \in Seq(Ack) /\ i \in 1..Len(toClient)
      BY DeliverableLemma DEF TypeOK, NetTypeOK
    <3>3. \A k \in 1..Len(toClient') : \E l \in 1..Len(toClient) :
              toClient'[k] = toClient[l]
      BY <3>1, <3>2, WithoutLemma
    <3>4. WireBehind'
      BY <3>1, <3>3, <2>1, <1>1, FewerKeepsWire DEF Sending
    <3>5. InStep'
      BY <3>1, <3>3, <2>1, FewerKeepsStep DEF Sending
    <3> QED
      BY <3>4, <3>5, <2>1, <1>2, <1>5 DEF LockstepInv
  <2> QED
    BY <2>2, <2>3, <1>16 DEF NetworkMoves
<1> QED
  BY <1>7, <1>8, <1>9, <1>10, <1>11, <1>12, <1>13, <1>14, <1>15, <1>16 DEF Next
LEMMA LockstepInvHolds ==
    ASSUME NothingToMixUp, Direct
    PROVE  Spec => [](TypeOK /\ IntegrityInv /\ LockstepInv)
<1>1. Init => LockstepInv
  BY InitLockstep
<1>2. TypeOK /\ IntegrityInv /\ LockstepInv /\ [Next]_vars => LockstepInv'
  BY NextLockstep
<1> QED
  BY <1>1, <1>2, TypeCorrect, IntegrityInvHolds, PTL DEF Spec

\* Stop-and-Wait (client.py:228-312, server.py:102-199): as long as nobody takes
\* the receiver's session away, the receiver expects the packet the sender is at
\* or the next one, whatever is lost, repeated or left over from older transfers
\* on the direct path.
THEOREM LockstepHolds ==
    ASSUME NothingToMixUp, Direct
    PROVE  Spec => []Lockstep
<1>1. TypeOK /\ LockstepInv => Lockstep
  <2>1. SUFFICES ASSUME TypeOK, LockstepInv, intact, Sending, seq # SeqStart
                 PROVE  IF InData
                        THEN /\ session # None /\ session.file = job.file
                             /\ session.expected \in {seq, seq + 1}
                        ELSE session = None \/ AllReceived
    BY DEF Lockstep, Sending
  <2>2. DataHolds /\ EndHolds /\ SeqInRange
    BY <2>1 DEF LockstepInv, InStep, WireBehind
  <2>3. total \in Nat \ {0} /\ SeqEnd(job.file, job.ps) = total + 1
    BY <2>1, TotalLemma DEF TypeOK, ClientTypeOK, Job, SeqEnd, total
  <2>4. InData \/ seq = SeqEnd(job.file, job.ps)
    BY <2>1, <2>2, <2>3 DEF SeqInRange, InData, SeqStart
  <2> QED
    BY <2>2, <2>4 DEF DataHolds, EndHolds
<1> QED
  BY <1>1, LockstepInvHolds, PTL

\* A transfer that is reported as completed, and whose session nobody took away,
\* is on disk under its name, whole, in the version that was sent
\* (manager.py:248-270, server.py:173-199).
THEOREM CompletedIsPublishedHolds ==
    ASSUME NothingToMixUp, Direct
    PROVE  Spec => []CompletedIsPublished
<1>1. LockstepInv => CompletedIsPublished
  BY DEF LockstepInv
<1> QED
  BY <1>1, LockstepInvHolds, PTL
-----------------------------------------------------------------------------
\* Refinement.

\* A step of the process is a step of the service or none.
LEMMA StepDelivers ==
    ASSUME NothingToMixUp, Direct, TypeOK, IntegrityInv, LockstepInv, [Next]_vars
    PROVE  [Service!Next]_(Service!deliveryVars)
<1> USE DEF Service!Next, Service!deliveryVars
<1>1. TransfersInOrder /\ InStep /\ intact \in BOOLEAN
      /\ finals \in [Path -> Seq(Unit) \cup {None}]
  BY DEF IntegrityInv, LockstepInv, TypeOK, ServerTypeOK
<1>2. ASSUME UNCHANGED <<finals, status, job, intact>>
      PROVE  [Service!Next]_(Service!deliveryVars)
  BY <1>2
<1>3. ASSUME ResetSession, UNCHANGED <<finals, status, job>>
      PROVE  [Service!Next]_(Service!deliveryVars)
  <2>1. CASE intact' = intact
    BY <2>1, <1>2, <1>3
  <2>2. CASE intact' # intact
    <3>1. ~intact'
      BY <2>2, <1>1, <1>3 DEF ResetSession
    <3>2. Service!Disturb
      BY <3>1, <1>3 DEF Service!Disturb
    <3> QED
      BY <3>2
  <2> QED
    BY <2>1, <2>2
<1>4. CASE StartServer \/ RequestCancel \/ CancelClient \/ DiscardLeftover \/ UNCHANGED vars
  BY <1>4, <1>2 DEF StartServer, RequestCancel, CancelClient, DiscardLeftover, vars,
     netVars, clientVars, serverVars, managerVars
<1>5. CASE StopServer
  BY <1>5, <1>3 DEF StopServer, clientVars
<1>6. CASE CancelSession
  <2>1. UNCHANGED <<finals, status, job>> /\ (ResetSession \/ UNCHANGED intact)
    BY <1>6 DEF CancelSession, clientVars
  <2> QED
    BY <2>1, <1>2, <1>3
<1>7. CASE StartTransfer
  <2>1. job' \in Job
    <3>1. transfers + 1 \in Nat \ {0}
      BY DEF TypeOK
    <3> QED
      BY <3>1, <1>7 DEF StartTransfer, Job
  <2>2. Service!Begin
    BY <2>1, <1>7 DEF StartTransfer, Service!Begin, Service!Idle, Job
  <2> QED
    BY <2>2
<1>8. CASE Succeed
  <2>1. /\ pc = "wait" /\ seq = SeqEnd(job.file, job.ps)
        /\ \E i \in Deliverable(toClient) : toClient[i].seq = seq
        /\ UNCHANGED <<job, finals, intact>>
        /\ status' \in {"completed", "cancelled"}
    BY <1>8 DEF Succeed, AcceptEndAck, ThreadEnds, Finish, Outcome, serverVars
  <2>2. AckOnWay(seq)
    BY <2>1, DeliverableLemma DEF AckOnWay, TypeOK, NetTypeOK
  <2>3. intact => Published
    BY <2>1, <2>2, <1>1 DEF InStep, EndHolds, Sending
  <2>4. status = "transferring"
    BY <2>1, <1>1 DEF TransfersInOrder
  <2>5. CASE status' = "completed"
    <3>1. ~intact \/ \E p \in Path : finals[p] = Content(job.file, job.ver)
      BY <2>3 DEF Published
    <3>2. Service!Complete
      BY <3>1, <2>1, <2>4, <2>5 DEF Service!Complete, Service!Content, Content
    <3> QED
      BY <3>2
  <2>6. CASE status' = "cancelled"
    <3>1. Service!GiveUp
      BY <2>1, <2>4, <2>6 DEF Service!GiveUp
    <3> QED
      BY <3>1
  <2> QED
    BY <2>1, <2>5, <2>6
<1>9. CASE Fail \/ Abort
  <2>1. /\ pc # "none" /\ status' \in {"failed", "cancelled"}
        /\ UNCHANGED <<job, finals, intact>>
    BY <1>9 DEF Fail, Abort, GiveUp, GivesUp, ThreadEnds, Finish, Outcome, serverVars
  <2>2. Service!GiveUp
    BY <2>1, <1>1 DEF TransfersInOrder, Service!GiveUp
  <2> QED
    BY <2>2
<1>10. CASE Crash
  <2>1. /\ status' = "idle" /\ UNCHANGED <<finals, job>>
        /\ intact' = intact \/ ~intact'
    BY <1>10, <1>1 DEF Crash
  <2>2. Service!Restart
    BY <2>1, <1>1 DEF Service!Restart, TypeOK, ServerTypeOK
  <2> QED
    BY <2>2
<1>11. CASE ClientMoves
  BY <1>11, <1>2 DEF ClientMoves, serverVars, managerVars, ClientStep, EnterSendFile,
     PassStopCheck, Transmit, Timeout, Retransmit, IgnoreAck, LoseMatchingAck,
     AcceptStartAck, TakeStartAck, AcceptDataAck, clientVars
<1>12. CASE NetworkMoves
  BY <1>12, <1>2 DEF NetworkMoves, clientVars, serverVars, managerVars
<1>13. CASE ServerMoves
  <2>1. UNCHANGED <<status, job>>
    BY <1>13 DEF ServerMoves, clientVars, managerVars
  <2>2. CASE Finalize
    <3>1. UNCHANGED intact
      BY <2>2 DEF Finalize
    <3>2. PICK v \in Versions :
              /\ session.path \in Path /\ session.path[2] = session.file
              /\ finals' = [finals EXCEPT ![session.path] = Content(session.file, v)]
      BY <2>2, FinalizeLemma
    <3>3. Content(session.file, v) \in Service!Whole(session.path)
      BY <3>2 DEF Service!Whole, Service!Content, Content
    <3>4. Service!Publish
      BY <3>1, <3>2, <3>3, <2>1 DEF Service!Publish
    <3> QED
      BY <3>4
  <2>3. CASE ~Finalize
    <3>1. UNCHANGED <<finals, intact>>
      BY <2>3, <1>13 DEF ServerMoves, ServerStep, HandleDuplicateStart, HandleStartResume,
         HandleStartFresh, HandleStartFails, HandleExpectedData, HandleDataWriteFails,
         HandleDuplicateData, IgnoreData, ReAckEnd, IgnoreIncompleteEnd, FinalizeFails,
         UseClosedFile, serverVars
    <3> QED
      BY <3>1, <2>1, <1>2
  <2> QED
    BY <2>2, <2>3
<1> QED
  BY <1>4, <1>5, <1>6, <1>7, <1>8, <1>9, <1>10, <1>11, <1>12, <1>13 DEF Next

\* Datagrams, sessions and partial files implement the service of Delivery: files
\* appear at once and whole, every transfer ends in one outcome, and "completed"
\* is reported only for a file that is there (manager.py:120-270,
\* server.py:102-199).
THEOREM DeliversHolds ==
    ASSUME NothingToMixUp, Direct
    PROVE  Spec => Delivers
<1>1. Init => Service!Init
  <2> SUFFICES ASSUME Init PROVE Service!Init
    OBVIOUS
  <2>1. job.file \in Files /\ job.ver \in Versions
    BY DEF Init
  <2> QED
    BY <2>1 DEF Init, ServerInit, Service!Init
<1>2. TypeOK /\ IntegrityInv /\ LockstepInv /\ [Next]_vars
        => [Service!Next]_(Service!deliveryVars)
  BY StepDelivers
<1> QED
  BY <1>1, <1>2, LockstepInvHolds, PTL DEF Spec, Delivers, Service!Spec
-----------------------------------------------------------------------------
(***************************************************************************)
(* The counters.  The account of a transfer is settled by where its packet *)
(* loop is: with packet n + 1 under way, n packets are acknowledged,       *)
(* resumed or sampled, and each of those sampled has been sent and has its *)
(* bytes on the wire.                                                      *)
(***************************************************************************)

\* The loop runs while its transfer does, and stays between START and END.
LoopOK ==
    /\ pc # "none" => status = "transferring"
    /\ ~Sending => seq = SeqStart
    /\ SeqInRange

\* The packet the sender is at has been on the wire.
Attempts == pc \in {"wait", "unacked"} \/ attempt > 0

\* The packets acknowledged, those resumed among them.
Behind == IF status = "completed" THEN total ELSE IF seq = SeqStart THEN 0 ELSE seq - 1

\* The payload this session moved, with the headers of its sampled packets.
SessionWire == count.confirmed_bytes - count.resumed_bytes + Header * count.rtt_samples

\* The account of a transfer with n packets acknowledged, in packets and in bytes.
Frames(n) ==
    /\ count.packets_acked = n /\ count.current_sequence = n
    /\ count.resumed_from_seq <= n
    /\ count.rtt_samples = n - count.resumed_from_seq

Bytes(n) ==
    /\ count.confirmed_bytes = Covered(job.file, job.ps, n)
    /\ count.resumed_bytes = Covered(job.file, job.ps, count.resumed_from_seq)

\* The packets that were sent and are not sampled: START and the one under way.
Sends ==
    (IF seq = SeqStart THEN 0 ELSE 1) + (IF Attempts THEN 1 ELSE 0)

\* The packet counters tell where the loop is, whatever a packet's size.
FramesOK ==
    /\ pc = "created" => count = NoCount
    /\ Sending \/ status = "completed" => Frames(Behind)
    /\ Sending => count.rtt_samples + Sends <= count.packets_sent
    /\ status = "completed" => count.rtt_samples < count.packets_sent
    /\ count.current_sequence - count.packets_acked \in {0, 1}

\* So do the byte counters while a packet means the same bytes to all.
BytesOK ==
    /\ pc # "none" => job.ps = config
    /\ Sending \/ status = "completed" =>
          Bytes(Behind) /\ SessionWire <= count.wire_bytes
    /\ Sending /\ InData /\ Attempts => SessionWire + PacketLength <= count.wire_bytes

ProgressInv ==
    /\ config \in PacketSizes /\ count \in Counters
    /\ LoopOK
    /\ FramesOK
    /\ steady => BytesOK
-----------------------------------------------------------------------------
\* Numbers.

LEMMA OneMore ==
    ASSUME NEW h \in Nat, NEW s \in Nat
    PROVE  h * s \in Nat /\ h * (s + 1) = h * s + h
OBVIOUS

\* The bar is full when everything is acknowledged, and not before.
LEMMA FullBar ==
    ASSUME NEW t \in Nat \ {0}, NEW n \in 0..t
    PROVE  Lesser(100, (100 * n) \div t) = 100 <=> n = t
<1> DEFINE q == (100 * n) \div t
<1>1. q \in Int /\ q * t <= 100 * n /\ 100 * n < (q + 1) * t
  OBVIOUS
<1>2. CASE n = t
  <2>1. 100 * n = 100 * t
    BY <1>2
  <2>2. q = 100
    BY <2>1
  <2> QED
    BY <2>2, <1>2 DEF Lesser
<1>3. CASE n < t
  <2>1. 100 * n < 100 * t
    BY <1>3
  <2>2. q < 100
    <3>1. SUFFICES ASSUME q >= 100 PROVE FALSE
      BY <1>1
    <3>2. q * t >= 100 * t
      BY <3>1, <1>1
    <3> QED
      BY <3>2, <2>1, <1>1
  <2> HIDE DEF q
  <2>3. Lesser(100, q) # 100
    BY <2>2, <1>1 DEF Lesser
  <2> QED
    BY <2>3, <1>3 DEF q
<1> QED
  BY <1>2, <1>3

LEMMA CoveredGrows ==
    ASSUME NEW f \in Files, NEW ps \in PacketSizes, NEW n \in Nat, NEW m \in 0..n
    PROVE  /\ Covered(f, ps, n) \in Nat /\ Covered(f, ps, m) \in Nat
           /\ Covered(f, ps, m) <= Covered(f, ps, n)
           /\ Covered(f, ps, n) <= FileSize[f]
<1>1. FileSize[f] \in Nat /\ ps \in Nat
  BY TotalLemma
<1>2. m * ps \in Nat /\ n * ps \in Nat /\ m * ps <= n * ps
  BY <1>1
<1> QED
  BY <1>1, <1>2 DEF Covered, Lesser

\* The transfer and its packets.
LEMMA JobLemma ==
    ASSUME TypeOK
    PROVE  /\ job \in Job /\ job.file \in Files /\ job.ver \in Versions
           /\ job.ps \in PacketSizes /\ seq \in Nat /\ attempt \in Nat
           /\ total \in Nat \ {0} /\ SeqEnd(job.file, job.ps) = total + 1
<1>1. job \in Job /\ seq \in Nat /\ attempt \in Nat
  BY MaxRetriesAssumption DEF TypeOK, ClientTypeOK
<1>2. job.file \in Files /\ job.ver \in Versions /\ job.ps \in PacketSizes
  BY <1>1 DEF Job
<1> QED
  BY <1>1, <1>2, TotalLemma DEF total, SeqEnd

LEMMA LengthLemma ==
    ASSUME TypeOK
    PROVE  /\ PacketLength \in Nat
           /\ InData =>
                /\ PacketLength - Header \in Nat
                /\ PacketLength - Header =
                      Covered(job.file, job.ps, seq) - Covered(job.file, job.ps, seq - 1)
<1>1. Header \in Nat
  BY HeaderAssumption
<1>2. CASE InData
  <2>1. seq \in Nat \ {0}
    BY <1>2, JobLemma DEF InData
  <2>2. Len(Chunk(job.file, job.ver, job.ps, seq)) =
            Covered(job.file, job.ps, seq) - Covered(job.file, job.ps, seq - 1)
    BY <2>1, JobLemma, ChunkLemma
  <2>3. /\ Covered(job.file, job.ps, seq) \in Nat
        /\ Covered(job.file, job.ps, seq - 1) \in Nat
        /\ Covered(job.file, job.ps, seq - 1) <= Covered(job.file, job.ps, seq)
    BY <2>1, JobLemma, CoveredLemma
  <2>4. PacketLength = Header + (Covered(job.file, job.ps, seq)
                                 - Covered(job.file, job.ps, seq - 1))
    BY <2>2, <1>2 DEF PacketLength
  <2> HIDE DEF PacketLength
  <2> QED
    BY <2>3, <2>4, <1>1
<1>3. CASE ~InData
  BY <1>1, <1>3 DEF PacketLength
<1> QED
  BY <1>2, <1>3
-----------------------------------------------------------------------------
\* A step of the counted transfer is a step of the transfer.
LEMMA CountedStep ==
    ASSUME [ProgressNext]_<<vars, progressVars>>
    PROVE  [Next]_vars
<1>1. CASE SetConfig
  BY <1>1 DEF SetConfig
<1>2. CASE BeginCounting \/ CrashUncounted \/ CountRefused \/ CountFailed
  BY <1>2 DEF BeginCounting, CrashUncounted, CountRefused, CountFailed, Next
<1>3. CASE CountTransmit \/ CountResume \/ CountAck
  <2>1. CountTransmit \/ AcceptStartAck \/ CountAck
    BY <1>3 DEF CountResume, AcceptStartAck
  <2> QED
    BY <2>1, <1>3 DEF CountTransmit, CountResume, CountAck, ClientStep, ClientMoves, Next
<1>4. CASE Uncounted
  BY <1>4 DEF Uncounted, QuietClient, ClientStep, ClientMoves, Next
<1>5. CASE UNCHANGED <<vars, progressVars>>
  BY <1>5
<1> QED
  BY <1>1, <1>2, <1>3, <1>4, <1>5 DEF ProgressNext

LEMMA ImplementsTransfer == ProgressSpec => Spec
<1>1. ProgressInit => Init
  BY DEF ProgressInit
<1>2. [ProgressNext]_<<vars, progressVars>> => [Next]_vars
  BY CountedStep
<1> QED
  BY <1>1, <1>2, PTL DEF ProgressSpec, Spec
-----------------------------------------------------------------------------
\* One lemma for every way a step touches the counters.

CountTypeOK == config \in PacketSizes /\ count \in Counters

LEMMA CounterLemma ==
    ASSUME count \in Counters
    PROVE  /\ count.packets_sent \in Nat /\ count.wire_bytes \in Nat
           /\ count.packets_acked \in Nat /\ count.confirmed_bytes \in Nat
           /\ count.resumed_from_seq \in Nat /\ count.resumed_bytes \in Nat
           /\ count.current_sequence \in Nat /\ count.rtt_samples \in Nat
           /\ Header * count.rtt_samples \in Nat
           /\ SessionWire \in Int
<1>1. count.rtt_samples \in Nat
  BY DEF Counters
<1>2. Header * count.rtt_samples \in Nat
  BY <1>1, HeaderAssumption
<1> HIDE DEF SessionWire
<1>3. SessionWire = count.confirmed_bytes - count.resumed_bytes + Header * count.rtt_samples
  BY DEF SessionWire
<1> QED
  BY <1>2, <1>3 DEF Counters

LEMMA InitProgress == ProgressInit => ProgressInv
<1> SUFFICES ASSUME ProgressInit PROVE ProgressInv
  OBVIOUS
<1>1. /\ pc = "none" /\ status = "idle" /\ seq = SeqStart /\ count = NoCount
      /\ config \in PacketSizes
  BY DEF ProgressInit, Init
<1>2. count \in Counters /\ count.current_sequence - count.packets_acked = 0
  BY <1>1 DEF NoCount, Counters
<1>3. job.file \in Files /\ job.ps \in PacketSizes
  BY DEF ProgressInit, Init
<1>4. LoopOK
  BY <1>1, <1>3, TotalLemma DEF LoopOK, SeqInRange, SeqEnd, SeqStart
<1> QED
  BY <1>1, <1>2, <1>4 DEF ProgressInv, FramesOK, BytesOK, Sending

\* No step takes the packet loop outside START, the packets and END.
LEMMA LoopStays ==
    ASSUME TypeOK, LoopOK, [Next]_vars
    PROVE  LoopOK'
<1>0. SeqEnd(job.file, job.ps) = total + 1 /\ total \in Nat \ {0} /\ seq \in Nat
  BY JobLemma
<1>r. ASSUME seq' = SeqStart, job' = job PROVE SeqInRange'
  BY <1>0, <1>r DEF SeqInRange, SeqStart
<1>1. ASSUME UNCHANGED <<pc, status, seq, job>> PROVE LoopOK'
  BY <1>1 DEF LoopOK, SeqInRange, Sending
<1>2. CASE StartServer \/ StopServer \/ RequestCancel \/ CancelClient \/ CancelSession
           \/ DiscardLeftover \/ ServerMoves \/ NetworkMoves \/ UNCHANGED vars
  BY <1>1, <1>2 DEF StartServer, StopServer, RequestCancel, CancelClient, CancelSession,
     DiscardLeftover, ServerMoves, NetworkMoves, vars, clientVars, managerVars
<1>3. CASE StartTransfer
  <2>1. pc' = "created" /\ status' = "transferring" /\ seq' = seq /\ job' \in Job
    <3>1. transfers + 1 \in Nat \ {0}
      BY <1>3, MaxTransfersAssumption DEF TypeOK, StartTransfer
    <3> QED
      BY <1>3, <3>1 DEF StartTransfer, Job
  <2>2. seq = SeqStart
    BY <1>3 DEF StartTransfer, LoopOK, Sending
  <2>3. TotalPackets(job.file, job.ps)' \in Nat \ {0}
    BY <2>1, TotalLemma DEF Job
  <2> QED
    BY <2>1, <2>2, <2>3 DEF LoopOK, SeqInRange, SeqEnd, SeqStart, Sending
<1>4. CASE Succeed \/ Fail \/ Abort \/ Crash
  <2>1. pc' = "none" /\ seq' = SeqStart /\ job' = job
    BY <1>4 DEF Succeed, Fail, Abort, Crash, AcceptEndAck, GiveUp, ThreadEnds
  <2> QED
    BY <2>1, <1>r DEF LoopOK, Sending
<1>5. CASE ClientMoves
  <2>1. UNCHANGED <<status, job>>
    BY <1>5 DEF ClientMoves, managerVars, ClientStep, EnterSendFile, PassStopCheck,
       Transmit, Timeout, Retransmit, IgnoreAck, LoseMatchingAck, AcceptStartAck, TakeStartAck,
       AcceptDataAck, clientVars
  <2>2. CASE EnterSendFile
    BY <2>1, <2>2, <1>r DEF EnterSendFile, LoopOK, Sending
  <2>3. CASE PassStopCheck \/ Transmit(bound) \/ Timeout \/ Retransmit \/ IgnoreAck
             \/ LoseMatchingAck
    <3>1. pc # "none" /\ pc # "created" /\ pc' # "none" /\ pc' # "created" /\ seq' = seq
      BY <2>3 DEF PassStopCheck, Transmit, Timeout, Retransmit, IgnoreAck,
         LoseMatchingAck, clientVars
    <3> QED
      BY <2>1, <3>1 DEF LoopOK, SeqInRange, Sending
  <2>4. CASE AcceptStartAck
    <3>1. PICK i \in Deliverable(toClient) : MoveTo(Lesser(toClient[i].resume.seq, total) + 1)
      BY <2>4 DEF AcceptStartAck, TakeStartAck
    <3>2. toClient[i] \in Ack
      BY DeliverableLemma DEF TypeOK, NetTypeOK
    <3>3. Lesser(toClient[i].resume.seq, total) \in 0..total
      BY <3>2, <1>0 DEF Ack, ResumePoint, Lesser
    <3>4. seq' \in 1..(total + 1) /\ pc' # "none" /\ pc' # "created"
      BY <3>1, <3>3, <1>0 DEF MoveTo
    <3> QED
      BY <2>1, <2>4, <3>4, <1>0 DEF AcceptStartAck, TakeStartAck, LoopOK, SeqInRange, Sending
  <2>5. CASE AcceptDataAck
    <3>1. seq' \in 1..(total + 1) /\ pc' # "none" /\ pc' # "created"
      BY <2>5, <1>0 DEF AcceptDataAck, MoveTo, InData
    <3> QED
      BY <2>1, <2>5, <3>1, <1>0 DEF AcceptDataAck, LoopOK, SeqInRange, Sending
  <2> QED
    BY <1>5, <2>2, <2>3, <2>4, <2>5 DEF ClientMoves, ClientStep
<1> QED
  BY <1>2, <1>3, <1>4, <1>5 DEF Next

\* Nothing happened to the account.
LEMMA QuietKeepsCount ==
    ASSUME TypeOK, FramesOK, UNCHANGED <<config, count, job, seq, status>>,
           pc' # "none" => pc # "none", pc' = "created" => pc = "created",
           Sending' => Sending /\ Attempts' = Attempts
    PROVE  FramesOK' /\ (BytesOK => BytesOK')
<1>1. /\ Behind' = Behind /\ InData' = InData /\ PacketLength' = PacketLength
      /\ SessionWire' = SessionWire
      /\ Frames(Behind)' = Frames(Behind) /\ Bytes(Behind)' = Bytes(Behind)
  BY DEF Behind, InData, total, PacketLength, SessionWire, Frames, Bytes
<1>2. Sending' => Sends' = Sends
  BY DEF Sends
<1>3. FramesOK'
  BY <1>1, <1>2 DEF FramesOK
<1>4. BytesOK => BytesOK'
  BY <1>1, <1>2 DEF BytesOK
<1> QED
  BY <1>3, <1>4

\* The transfer is over without an acknowledged END: the account is closed.
LEMMA EndKeepsCount ==
    ASSUME FramesOK, pc' = "none", status' # "completed",
           count'.current_sequence - count'.packets_acked \in {0, 1}
    PROVE  FramesOK' /\ BytesOK'
BY DEF FramesOK, BytesOK, Sending

\* send_file begins with nothing counted.
LEMMA EnterKeepsCount ==
    ASSUME TypeOK, FramesOK, EnterSendFile, UNCHANGED <<config, count, job, status>>,
           status # "completed"
    PROVE  FramesOK' /\ (BytesOK => BytesOK')
<1>1. pc = "created" /\ pc' = "send" /\ seq' = SeqStart /\ attempt' = 0
      /\ count' = NoCount
  BY DEF EnterSendFile, FramesOK
<1>2. Behind' = 0 /\ ~Attempts' /\ Sends' = 0 /\ ~InData'
  BY <1>1 DEF Behind, Attempts, Sends, InData, SeqStart
<1>3. Covered(job.file, job.ps, 0) = 0
  BY JobLemma, CoveredEnds
<1>4. Frames(Behind)' /\ Bytes(Behind)'
  BY <1>1, <1>2, <1>3 DEF Frames, Bytes, NoCount
<1>5. SessionWire' = 0
  <2>1. Header * 0 = 0
    BY HeaderAssumption
  <2> QED
    BY <1>1, <2>1 DEF SessionWire, NoCount
<1>6. FramesOK'
  BY <1>1, <1>2, <1>4 DEF FramesOK, NoCount
<1>7. BytesOK => BytesOK'
  BY <1>1, <1>2, <1>4, <1>5 DEF BytesOK, NoCount
<1> QED
  BY <1>6, <1>7

\* The counters as a function of their names.
CounterNames ==
    {"packets_sent", "retransmissions", "packets_lost", "wire_bytes", "packets_acked",
     "confirmed_bytes", "resumed_from_seq", "resumed_bytes", "current_sequence",
     "rtt_samples"}

LEMMA CountersLemma == Counters = [CounterNames -> Nat]
BY DEF Counters, CounterNames

\* What an attempt adds to the counters.
LEMMA AttemptedLemma ==
    ASSUME TypeOK, count \in Counters
    PROVE  /\ Attempted(count) \in Counters
           /\ Attempted(count).packets_sent \in {count.packets_sent, count.packets_sent + 1}
           /\ attempt = 0 => Attempted(count).packets_sent = count.packets_sent + 1
           /\ Attempted(count).wire_bytes >= count.wire_bytes + PacketLength
           /\ Attempted(count).packets_acked = count.packets_acked
           /\ Attempted(count).confirmed_bytes = count.confirmed_bytes
           /\ Attempted(count).resumed_from_seq = count.resumed_from_seq
           /\ Attempted(count).resumed_bytes = count.resumed_bytes
           /\ Attempted(count).current_sequence = count.current_sequence
           /\ Attempted(count).rtt_samples = count.rtt_samples
<1> DEFINE w == count.wire_bytes + PacketLength
           s == count.packets_sent + 1
           l == count.packets_lost + 1
           r == count.retransmissions + 1
<1>1. w \in Nat /\ s \in Nat /\ l \in Nat /\ r \in Nat
  <2>1. \A g \in CounterNames : count[g] \in Nat
    BY CountersLemma
  <2>2. PacketLength \in Nat
    BY LengthLemma
  <2> QED
    BY <2>1, <2>2 DEF CounterNames
<1>2. count \in [CounterNames -> Nat]
  BY CountersLemma
<1>3. CASE attempt = 0
  <2> DEFINE d == [count EXCEPT !.packets_sent = s, !.wire_bytes = w]
  <2>1. Attempted(count) = d
    BY <1>3 DEF Attempted, Sent
  <2> HIDE DEF s, w
  <2>2. (\A g \in CounterNames : d[g] \in Nat) /\ d = [g \in CounterNames |-> d[g]]
    BY <1>1, <1>2
  <2>3. /\ d.packets_sent = s /\ d.wire_bytes = w
        /\ d.packets_acked = count.packets_acked
        /\ d.confirmed_bytes = count.confirmed_bytes
        /\ d.resumed_from_seq = count.resumed_from_seq
        /\ d.resumed_bytes = count.resumed_bytes
        /\ d.current_sequence = count.current_sequence
        /\ d.rtt_samples = count.rtt_samples
    BY <1>2 DEF CounterNames
  <2> HIDE DEF d
  <2>4. d \in Counters
    BY <2>2, CountersLemma
  <2>5. d.wire_bytes >= w
    BY <2>3, <1>1
  <2> QED
    BY <2>1, <2>3, <2>4, <2>5, <1>3 DEF s, w
<1>4. CASE attempt # 0 /\ InData
  <2> DEFINE d == [count EXCEPT !.packets_lost = l, !.retransmissions = r,
                                !.wire_bytes = w]
  <2>1. Attempted(count) = d
    BY <1>4 DEF Attempted, Resent
  <2> HIDE DEF l, r, w
  <2>2. (\A g \in CounterNames : d[g] \in Nat) /\ d = [g \in CounterNames |-> d[g]]
    BY <1>1, <1>2
  <2>3. /\ d.packets_sent = count.packets_sent /\ d.wire_bytes = w
        /\ d.packets_acked = count.packets_acked
        /\ d.confirmed_bytes = count.confirmed_bytes
        /\ d.resumed_from_seq = count.resumed_from_seq
        /\ d.resumed_bytes = count.resumed_bytes
        /\ d.current_sequence = count.current_sequence
        /\ d.rtt_samples = count.rtt_samples
    BY <1>2 DEF CounterNames
  <2> HIDE DEF d
  <2>4. d \in Counters
    BY <2>2, CountersLemma
  <2>5. d.wire_bytes >= w
    BY <2>3, <1>1
  <2> QED
    BY <2>1, <2>3, <2>4, <2>5, <1>4 DEF w
<1>5. CASE attempt # 0 /\ ~InData
  <2> DEFINE v == w + PacketLength
             d == [count EXCEPT !.packets_lost = l, !.retransmissions = r,
                                !.wire_bytes = w]
             e == [d EXCEPT !.packets_sent = @ + 1, !.wire_bytes = @ + PacketLength]
  <2>1. Attempted(count) = e
    BY <1>5 DEF Attempted, Resent, Sent
  <2>2. v \in Nat /\ v >= w
    BY <1>1, LengthLemma
  <2>3. d.packets_sent + 1 = s /\ d.wire_bytes + PacketLength = v
    BY <1>2 DEF CounterNames
  <2> HIDE DEF s, l, r, w, v
  <2>4. e = [d EXCEPT !.packets_sent = s, !.wire_bytes = v]
    BY <2>3
  <2>5. d \in [CounterNames -> Nat]
    <3>1. (\A g \in CounterNames : d[g] \in Nat) /\ d = [g \in CounterNames |-> d[g]]
      BY <1>1, <1>2
    <3> QED
      BY <3>1
  <2>6. /\ d.packets_acked = count.packets_acked
        /\ d.confirmed_bytes = count.confirmed_bytes
        /\ d.resumed_from_seq = count.resumed_from_seq
        /\ d.resumed_bytes = count.resumed_bytes
        /\ d.current_sequence = count.current_sequence
        /\ d.rtt_samples = count.rtt_samples
    BY <1>2 DEF CounterNames
  <2> HIDE DEF d
  <2>7. (\A g \in CounterNames : e[g] \in Nat) /\ e = [g \in CounterNames |-> e[g]]
    BY <1>1, <2>2, <2>4, <2>5
  <2>8. /\ e.packets_sent = s /\ e.wire_bytes = v
        /\ e.packets_acked = d.packets_acked
        /\ e.confirmed_bytes = d.confirmed_bytes
        /\ e.resumed_from_seq = d.resumed_from_seq
        /\ e.resumed_bytes = d.resumed_bytes
        /\ e.current_sequence = d.current_sequence
        /\ e.rtt_samples = d.rtt_samples
    BY <2>4, <2>5 DEF CounterNames
  <2> HIDE DEF e
  <2>9. e \in Counters
    BY <2>7, CountersLemma
  <2>10. Attempted(count).wire_bytes >= w
    BY <2>1, <2>2, <2>8
  <2> QED
    BY <2>1, <2>6, <2>8, <2>9, <2>10, <1>5 DEF s, w
<1> QED
  BY <1>3, <1>4, <1>5

LEMMA TransmitKeepsCount ==
    ASSUME TypeOK, count \in Counters, FramesOK, pc = "send",
           pc' \in {"wait", "unacked"},
           UNCHANGED <<config, job, seq, attempt, status>>, status # "completed",
           count' = Attempted(count)
    PROVE  FramesOK' /\ (BytesOK => BytesOK')
<1>1. /\ Behind' = Behind /\ InData' = InData /\ PacketLength' = PacketLength
      /\ Sending /\ Sending' /\ Attempts'
  BY DEF Behind, InData, total, PacketLength, Sending, Attempts
<1>2. /\ count'.packets_sent \in {count.packets_sent, count.packets_sent + 1}
      /\ attempt = 0 => count'.packets_sent = count.packets_sent + 1
      /\ count'.wire_bytes >= count.wire_bytes + PacketLength
      /\ count'.packets_acked = count.packets_acked
      /\ count'.confirmed_bytes = count.confirmed_bytes
      /\ count'.resumed_from_seq = count.resumed_from_seq
      /\ count'.resumed_bytes = count.resumed_bytes
      /\ count'.current_sequence = count.current_sequence
      /\ count'.rtt_samples = count.rtt_samples
  BY AttemptedLemma
<1>3. /\ SessionWire' = SessionWire /\ SessionWire \in Int
      /\ Frames(Behind)' = Frames(Behind) /\ Bytes(Behind)' = Bytes(Behind)
  <2>1. /\ SessionWire' = SessionWire
        /\ Frames(Behind)' = Frames(Behind) /\ Bytes(Behind)' = Bytes(Behind)
    BY <1>1, <1>2 DEF SessionWire, Frames, Bytes
  <2> QED
    BY <2>1, CounterLemma
<1>4. PacketLength \in Nat /\ count.wire_bytes \in Nat /\ count.rtt_samples \in Nat
      /\ count.packets_sent \in Nat
  BY LengthLemma, CounterLemma
<1>5. BytesOK => SessionWire <= count.wire_bytes
  BY <1>1 DEF BytesOK
<1>6. BytesOK =>
        /\ SessionWire' <= count'.wire_bytes
        /\ SessionWire' + PacketLength' <= count'.wire_bytes
  <2>1. count'.wire_bytes \in Nat
    BY AttemptedLemma DEF Counters
  <2> QED
    BY <2>1, <1>1, <1>2, <1>3, <1>4, <1>5
<1>7. count'.rtt_samples + Sends' <= count'.packets_sent
  <2>1. count.rtt_samples + Sends <= count.packets_sent
    BY <1>1 DEF FramesOK
  <2>2. CASE attempt = 0
    <3>1. Sends' = Sends + 1 /\ Sends \in {0, 1}
      BY <1>1, <2>2 DEF Sends, Attempts
    <3> QED
      BY <2>1, <2>2, <3>1, <1>2, <1>4
  <2>3. CASE attempt # 0
    <3>1. attempt > 0
      BY <2>3, JobLemma
    <3>2. Sends' = Sends /\ Sends \in {1, 2}
      BY <1>1, <3>1 DEF Sends, Attempts
    <3> QED
      BY <2>1, <3>2, <1>2, <1>4
  <2> QED
    BY <2>2, <2>3
<1>8. FramesOK'
  BY <1>1, <1>2, <1>3, <1>7 DEF FramesOK
<1>9. BytesOK => BytesOK'
  BY <1>1, <1>3, <1>6 DEF BytesOK
<1> QED
  BY <1>8, <1>9

\* The bytes of a resume point in the packets of this transfer are those of the
\* packets the sender skips.
LEMMA SamePacketsLemma ==
    ASSUME TypeOK, NEW r \in ResumePoint, SamePackets(r)
    PROVE  Lesser(r.bytes, FileSize[job.file])
               = Covered(job.file, job.ps, Lesser(r.seq, total))
<1>1. /\ job.file \in Files /\ job.ps \in PacketSizes /\ total \in Nat \ {0}
      /\ FileSize[job.file] \in Nat
  BY JobLemma, TotalLemma
<1>2. PICK m \in Nat : m = r.seq
  BY DEF ResumePoint
<1>3. /\ r.bytes = Covered(job.file, job.ps, m)
      /\ Covered(job.file, job.ps, m) \in Nat
      /\ Covered(job.file, job.ps, m) <= FileSize[job.file]
  <2>1. r.bytes = Covered(job.file, job.ps, m)
    BY <1>2 DEF SamePackets
  <2>2. m \in 0..m /\ m \in Nat
    BY <1>2
  <2>3. /\ Covered(job.file, job.ps, m) \in Nat
        /\ Covered(job.file, job.ps, m) <= FileSize[job.file]
    BY <2>2, <1>1, CoveredGrows
  <2> QED
    BY <2>1, <2>3
<1>4. Lesser(r.bytes, FileSize[job.file]) = Covered(job.file, job.ps, m)
  BY <1>1, <1>3 DEF Lesser
<1>5. CASE m <= total
  <2>1. Lesser(m, total) = m
    BY <1>1, <1>5 DEF Lesser
  <2> QED
    BY <2>1, <1>2, <1>4
<1>6. CASE m > total
  <2>1. Lesser(m, total) = total
    BY <1>1, <1>6 DEF Lesser
  <2>2. total \in 0..m /\ m \in Nat
    BY <1>1, <1>6
  <2>3. Covered(job.file, job.ps, total) <= Covered(job.file, job.ps, m)
    BY <2>2, <1>1, CoveredGrows
  <2>4. Covered(job.file, job.ps, total) = FileSize[job.file]
    BY <1>1, CoveredEnds DEF total
  <2> QED
    BY <2>1, <2>3, <2>4, <1>1, <1>2, <1>3, <1>4
<1> QED
  BY <1>1, <1>5, <1>6

\* The ACK of START: what it resumes is behind the sender.
LEMMA ResumedLemma ==
    ASSUME TypeOK, count \in Counters, config \in PacketSizes, NEW n \in 0..total,
           NEW b \in Nat
    PROVE  /\ Resumed(count, n, b) \in Counters
           /\ n = 0 => Resumed(count, n, b) = count
           /\ n > 0 =>
                /\ Resumed(count, n, b).packets_acked = count.packets_acked + n
                /\ Resumed(count, n, b).current_sequence = Greater(count.current_sequence, n)
                /\ Resumed(count, n, b).resumed_from_seq = n
                /\ Resumed(count, n, b).resumed_bytes = Lesser(b, FileSize[job.file])
                /\ Resumed(count, n, b).confirmed_bytes = count.confirmed_bytes +
                      (IF n > ReplayLimit THEN Lesser(b, FileSize[job.file])
                       ELSE Covered(job.file, config, n))
                /\ Resumed(count, n, b).packets_sent = count.packets_sent
                /\ Resumed(count, n, b).wire_bytes = count.wire_bytes
                /\ Resumed(count, n, b).rtt_samples = count.rtt_samples
<1>1. n \in Nat
  BY JobLemma
<1>2. Lesser(b, FileSize[job.file]) \in Nat /\ Covered(job.file, config, n) \in Nat
  <2>1. job.file \in Files /\ FileSize[job.file] \in Nat
    BY JobLemma, TotalLemma
  <2> QED
    BY <2>1, <1>1, CoveredGrows DEF Lesser
<1>3. Greater(count.current_sequence, n) \in Nat
  BY <1>1, CounterLemma DEF Greater
<1>4. CASE n = 0
  BY <1>4 DEF Resumed
<1>5. CASE n > 0
  <2> DEFINE y == Lesser(b, FileSize[job.file])
             x == IF n > ReplayLimit THEN y ELSE Covered(job.file, config, n)
             g == Greater(count.current_sequence, n)
             a == count.packets_acked + n
             c == count.confirmed_bytes + x
             d == [count EXCEPT !.packets_acked = a, !.current_sequence = g,
                                !.resumed_from_seq = n, !.resumed_bytes = y,
                                !.confirmed_bytes = c]
  <2>1. x \in Nat /\ y \in Nat /\ g \in Nat
    BY <1>2, <1>3
  <2>2. a \in Nat /\ c \in Nat
    <3> HIDE DEF x
    <3> QED
      BY <2>1, <1>1, CounterLemma
  <2>3. Resumed(count, n, b) = d
    BY <1>5, <1>1 DEF Resumed
  <2>4. count \in [CounterNames -> Nat]
    BY CountersLemma
  <2> HIDE DEF x, y, g, a, c
  <2>5. (\A k \in CounterNames : d[k] \in Nat) /\ d = [k \in CounterNames |-> d[k]]
    BY <2>1, <2>2, <2>4, <1>1
  <2>6. /\ d.packets_acked = a /\ d.current_sequence = g /\ d.resumed_from_seq = n
        /\ d.resumed_bytes = y /\ d.confirmed_bytes = c
        /\ d.packets_sent = count.packets_sent /\ d.wire_bytes = count.wire_bytes
        /\ d.rtt_samples = count.rtt_samples
    BY <2>4 DEF CounterNames
  <2> HIDE DEF d
  <2>7. d \in Counters
    BY <2>5, CountersLemma
  <2> QED
    BY <2>3, <2>6, <2>7, <1>5 DEF x, y, g, a, c
<1> QED
  BY <1>1, <1>4, <1>5

LEMMA ResumeKeepsCount ==
    ASSUME TypeOK, CountTypeOK, FramesOK, status # "completed", pc = "wait",
           seq = SeqStart, NEW r \in ResumePoint, NEW n \in 0..total,
           n = Lesser(r.seq, total), MoveTo(n + 1),
           UNCHANGED <<config, job, status>>, count' = Resumed(count, n, r.bytes)
    PROVE  FramesOK' /\ (BytesOK /\ SamePackets(r) => BytesOK')
<1>0. /\ count \in Counters /\ config \in PacketSizes /\ n \in Nat /\ Sending
      /\ r.bytes \in Nat
  BY JobLemma DEF CountTypeOK, Sending, ResumePoint
<1>1. Behind = 0 /\ Attempts /\ Frames(0) /\ count.rtt_samples + 1 <= count.packets_sent
  <2>1. Behind = 0 /\ Attempts /\ Sends = 1
    BY DEF Behind, Attempts, Sends
  <2> QED
    BY <2>1, <1>0 DEF FramesOK
<1>2. /\ count.packets_acked = 0 /\ count.current_sequence = 0
      /\ count.resumed_from_seq = 0 /\ count.rtt_samples = 0
  <2>1. count.resumed_from_seq = 0
    BY <1>0, <1>1, CounterLemma DEF Frames
  <2> QED
    BY <2>1, <1>1 DEF Frames
<1>3. /\ count'.packets_acked = n /\ count'.current_sequence = n
      /\ count'.resumed_from_seq = n /\ count'.rtt_samples = 0
      /\ count'.packets_sent = count.packets_sent
      /\ count'.wire_bytes = count.wire_bytes
  <2>1. CASE n = 0
    BY <2>1, <1>0, <1>2, ResumedLemma
  <2>2. CASE n > 0
    <3>1. Greater(0, n) = n
      BY <2>2, <1>0 DEF Greater
    <3>2. /\ count'.packets_acked = 0 + n /\ count'.current_sequence = Greater(0, n)
          /\ count'.resumed_from_seq = n
          /\ count'.packets_sent = count.packets_sent
          /\ count'.wire_bytes = count.wire_bytes
          /\ count'.rtt_samples = 0
      BY <2>2, <1>0, <1>2, ResumedLemma
    <3> QED
      BY <3>1, <3>2, <1>0
  <2> QED
    BY <2>1, <2>2, <1>0
<1>4. seq' = n + 1 /\ seq' # SeqStart /\ pc' \in {"loop", "send"} /\ ~Attempts'
  BY <1>0 DEF MoveTo, SeqStart, Attempts
<1>5. Behind' = n /\ Sends' = 1
  BY <1>0, <1>4 DEF Behind, Sends
<1>6. FramesOK'
  <2>1. count'.current_sequence - count'.packets_acked = 0
    BY <1>3, <1>0
  <2>2. Frames(Behind)'
    BY <1>0, <1>3, <1>5 DEF Frames
  <2>3. count'.rtt_samples + Sends' <= count'.packets_sent
    BY <1>1, <1>2, <1>3, <1>5
  <2> QED
    BY <2>1, <2>2, <2>3, <1>4 DEF FramesOK
<1>7. ASSUME BytesOK, SamePackets(r) PROVE BytesOK'
  <2>1. job.ps = config /\ Bytes(0) /\ SessionWire <= count.wire_bytes
    BY <1>7, <1>0, <1>1 DEF BytesOK
  <2>2. Covered(job.file, job.ps, 0) = 0 /\ Covered(job.file, job.ps, n) \in Nat
    BY <1>0, JobLemma, CoveredEnds, CoveredGrows
  <2>3. count.confirmed_bytes = 0 /\ count.resumed_bytes = 0
    BY <2>1, <2>2, <1>2 DEF Bytes
  <2>4. Lesser(r.bytes, FileSize[job.file]) = Covered(job.file, job.ps, n)
    BY <1>7, SamePacketsLemma
  <2>5. /\ count'.confirmed_bytes = Covered(job.file, job.ps, n)
        /\ count'.resumed_bytes = Covered(job.file, job.ps, n)
    <3>1. CASE n = 0
      BY <3>1, <2>2, <2>3, <1>0, ResumedLemma
    <3>2. CASE n > 0
      <4>1. /\ count'.resumed_bytes = Covered(job.file, job.ps, n)
            /\ count'.confirmed_bytes = 0 + Covered(job.file, job.ps, n)
        BY <3>2, <2>1, <2>3, <2>4, <1>0, ResumedLemma
      <4> QED
        BY <4>1, <2>2
    <3> QED
      BY <3>1, <3>2, <1>0
  <2>6. Bytes(Behind)'
    BY <2>5, <1>3, <1>5 DEF Bytes
  <2>7. SessionWire' = 0 /\ SessionWire = 0
    <3>1. Header * 0 = 0
      BY HeaderAssumption
    <3>2. Covered(job.file, job.ps, n) - Covered(job.file, job.ps, n) = 0
      BY <2>2
    <3> QED
      BY <2>3, <2>5, <1>2, <1>3, <3>1, <3>2 DEF SessionWire
  <2> QED
    BY <2>1, <2>6, <2>7, <1>3, <1>4 DEF BytesOK
<1> QED
  BY <1>6, <1>7

\* The ACK of a packet: its payload is confirmed, its round trip sampled.
LEMMA AckedLemma ==
    ASSUME TypeOK, count \in Counters, InData
    PROVE  /\ Acked(count) \in Counters
           /\ Acked(count).packets_acked = count.packets_acked + 1
           /\ Acked(count).current_sequence = Greater(count.current_sequence, seq)
           /\ Acked(count).confirmed_bytes = count.confirmed_bytes + (PacketLength - Header)
           /\ Acked(count).rtt_samples = count.rtt_samples + 1
           /\ Acked(count).resumed_from_seq = count.resumed_from_seq
           /\ Acked(count).resumed_bytes = count.resumed_bytes
           /\ Acked(count).packets_sent = count.packets_sent
           /\ Acked(count).wire_bytes = count.wire_bytes
<1> DEFINE a == count.packets_acked + 1
           g == Greater(count.current_sequence, seq)
           b == count.confirmed_bytes + (PacketLength - Header)
           r == count.rtt_samples + 1
           d == [count EXCEPT !.packets_acked = a, !.confirmed_bytes = b,
                              !.current_sequence = g, !.rtt_samples = r]
<1>1. a \in Nat /\ g \in Nat /\ b \in Nat /\ r \in Nat
  <2>1. PacketLength - Header \in Nat
    BY LengthLemma
  <2> QED
    BY <2>1, JobLemma, CounterLemma DEF Greater
<1>2. Acked(count) = d
  BY DEF Acked
<1>3. count \in [CounterNames -> Nat]
  BY CountersLemma
<1> HIDE DEF a, g, b, r
<1>4. (\A k \in CounterNames : d[k] \in Nat) /\ d = [k \in CounterNames |-> d[k]]
  BY <1>1, <1>3
<1>5. /\ d.packets_acked = a /\ d.current_sequence = g /\ d.confirmed_bytes = b
      /\ d.rtt_samples = r /\ d.resumed_from_seq = count.resumed_from_seq
      /\ d.resumed_bytes = count.resumed_bytes
      /\ d.packets_sent = count.packets_sent /\ d.wire_bytes = count.wire_bytes
  BY <1>3 DEF CounterNames
<1> HIDE DEF d
<1>6. d \in Counters
  BY <1>4, CountersLemma
<1> QED
  BY <1>2, <1>5, <1>6 DEF a, g, b, r

LEMMA AckKeepsCount ==
    ASSUME TypeOK, CountTypeOK, FramesOK, status # "completed", pc = "wait", InData,
           MoveTo(seq + 1), UNCHANGED <<config, job, status>>, count' = Acked(count)
    PROVE  FramesOK' /\ (BytesOK => BytesOK')
<1>0. count \in Counters /\ Sending /\ Header \in Nat
  BY HeaderAssumption DEF CountTypeOK, Sending
<1>1. seq \in Nat /\ seq >= 1 /\ seq # SeqStart
  BY JobLemma DEF InData, SeqStart
<1>2. /\ Behind = seq - 1 /\ Attempts /\ Sends = 2
  BY <1>1 DEF Behind, Attempts, Sends
<1>3. Frames(seq - 1) /\ count.rtt_samples + 2 <= count.packets_sent
  BY <1>0, <1>2 DEF FramesOK
<1>4. /\ seq' = seq + 1 /\ seq' # SeqStart /\ ~Attempts'
      /\ pc' \in {"loop", "send"} /\ Behind' = seq /\ Sends' = 1
  <2>1. seq' = seq + 1 /\ seq' # SeqStart /\ ~Attempts' /\ pc' \in {"loop", "send"}
    BY <1>1 DEF MoveTo, SeqStart, Attempts
  <2> QED
    BY <2>1, <1>1 DEF Behind, Sends
<1>5. /\ count'.packets_acked = count.packets_acked + 1
      /\ count'.current_sequence = Greater(count.current_sequence, seq)
      /\ count'.confirmed_bytes = count.confirmed_bytes + (PacketLength - Header)
      /\ count'.rtt_samples = count.rtt_samples + 1
      /\ count'.resumed_from_seq = count.resumed_from_seq
      /\ count'.resumed_bytes = count.resumed_bytes
      /\ count'.packets_sent = count.packets_sent
      /\ count'.wire_bytes = count.wire_bytes
  BY <1>0, AckedLemma
<1>6. PICK r \in Nat : r = count.resumed_from_seq /\ r <= seq - 1
  BY <1>0, <1>3, CounterLemma DEF Frames
<1>7. count'.packets_acked = seq /\ count'.current_sequence = seq
      /\ count'.rtt_samples = seq - r /\ r <= seq
  <2>1. /\ count.packets_acked = seq - 1 /\ count.current_sequence = seq - 1
        /\ count.rtt_samples = (seq - 1) - r
    BY <1>3, <1>6 DEF Frames
  <2>2. Greater(seq - 1, seq) = seq
    BY <1>1 DEF Greater
  <2> QED
    BY <2>1, <2>2, <1>1, <1>5, <1>6
<1>8. FramesOK'
  <2>1. Frames(Behind)'
    BY <1>4, <1>5, <1>6, <1>7 DEF Frames
  <2>2. count'.rtt_samples + Sends' <= count'.packets_sent
    <3>1. count.rtt_samples \in Nat /\ count.packets_sent \in Nat
      BY <1>0, CounterLemma
    <3> QED
      BY <3>1, <1>3, <1>4, <1>5
  <2>3. count'.current_sequence - count'.packets_acked = 0
    BY <1>1, <1>7
  <2> QED
    BY <2>1, <2>2, <2>3, <1>4 DEF FramesOK
<1>9. ASSUME BytesOK PROVE BytesOK'
  <2>1. Bytes(seq - 1) /\ SessionWire + PacketLength <= count.wire_bytes /\ job.ps = config
    BY <1>9, <1>0, <1>2 DEF BytesOK
  <2>2. count'.confirmed_bytes = Covered(job.file, job.ps, seq)
    <3>1. count.confirmed_bytes = Covered(job.file, job.ps, seq - 1)
      BY <2>1 DEF Bytes
    <3>2. PacketLength - Header =
              Covered(job.file, job.ps, seq) - Covered(job.file, job.ps, seq - 1)
      BY LengthLemma
    <3>3. Covered(job.file, job.ps, seq) \in Nat /\ Covered(job.file, job.ps, seq - 1) \in Nat
      BY <1>1, JobLemma, CoveredLemma
    <3> QED
      BY <3>1, <3>2, <3>3, <1>5
  <2>3. Bytes(Behind)'
    <3>1. count'.resumed_bytes = Covered(job.file, job.ps, r)
      BY <2>1, <1>5, <1>6 DEF Bytes
    <3> QED
      BY <3>1, <2>2, <1>4, <1>5, <1>6 DEF Bytes
  <2>4. SessionWire' = SessionWire + PacketLength
    <3>1. Header * count'.rtt_samples = Header * count.rtt_samples + Header
          /\ Header * count.rtt_samples \in Nat
      BY <1>0, <1>5, CounterLemma, OneMore
    <3>2. PacketLength \in Nat /\ count.confirmed_bytes \in Nat /\ count.resumed_bytes \in Nat
      BY <1>0, LengthLemma, CounterLemma
    <3>3. SessionWire = count.confirmed_bytes - count.resumed_bytes
                        + Header * count.rtt_samples
      BY DEF SessionWire
    <3>4. SessionWire' = count'.confirmed_bytes - count'.resumed_bytes
                         + Header * count'.rtt_samples
      BY HeaderAssumption DEF SessionWire
    <3> QED
      BY <3>1, <3>2, <3>3, <3>4, <1>0, <1>5
  <2>5. SessionWire' <= count'.wire_bytes
    BY <2>1, <2>4, <1>5
  <2> QED
    BY <2>1, <2>3, <2>5, <1>4 DEF BytesOK
<1> QED
  BY <1>8, <1>9

\* A packet that was never acknowledged is at most one past the last one that was.
LEMMA FailedKeepsCount ==
    ASSUME TypeOK, CountTypeOK, FramesOK, SeqInRange, status # "completed", Sending,
           pc' = "none", status' # "completed", count' = Failed(count)
    PROVE  FramesOK' /\ BytesOK'
<1>0. count \in Counters /\ seq \in Nat
  BY JobLemma DEF CountTypeOK
<1>1. count.packets_acked = Behind /\ count.current_sequence = Behind
  BY DEF FramesOK, Frames
<1>2. Greater(Behind, seq) - Behind \in {0, 1} /\ Greater(Behind, seq) \in Nat
  BY <1>0 DEF Behind, Greater, SeqStart
<1>3. count' = [count EXCEPT !.current_sequence = Greater(Behind, seq)]
  BY <1>1 DEF Failed
<1>4. PICK g \in Nat : g = Greater(Behind, seq)
  BY <1>2
<1>5. count' = [count EXCEPT !.current_sequence = g]
  BY <1>3, <1>4
<1>6. count'.current_sequence = g /\ count'.packets_acked = count.packets_acked
  BY <1>0, <1>5 DEF Counters
<1>7. count'.current_sequence - count'.packets_acked \in {0, 1}
  BY <1>1, <1>2, <1>4, <1>6
<1> QED
  BY <1>7, EndKeepsCount

\* The ACK of END: everything is acknowledged.
LEMMA SucceedKeepsCount ==
    ASSUME TypeOK, CountTypeOK, FramesOK, pc = "wait", seq = SeqEnd(job.file, job.ps),
           status # "completed", pc' = "none", UNCHANGED <<job, count>>
    PROVE  FramesOK' /\ (BytesOK => BytesOK')
<1>0. count \in Counters /\ total \in Nat \ {0} /\ seq = total + 1 /\ Sending
  BY JobLemma DEF CountTypeOK, Sending
<1>1. seq # SeqStart /\ Behind = total /\ Sends = 2
  BY <1>0 DEF Behind, Sends, SeqStart, Attempts
<1>2. Frames(total) /\ count.rtt_samples + 2 <= count.packets_sent
  BY <1>0, <1>1 DEF FramesOK
<1>3. count.rtt_samples < count.packets_sent
  BY <1>0, <1>2, CounterLemma
<1>4. status' = "completed" => Behind' = total
  BY DEF Behind, total
<1>5. FramesOK'
  <2>1. status' = "completed" => Frames(Behind)'
    BY <1>2, <1>4 DEF Frames
  <2>2. count'.current_sequence - count'.packets_acked \in {0, 1}
    BY DEF FramesOK
  <2> QED
    BY <2>1, <2>2, <1>3 DEF FramesOK, Sending
<1>6. ASSUME BytesOK PROVE BytesOK'
  <2>1. Bytes(total) /\ SessionWire <= count.wire_bytes
    BY <1>6, <1>0, <1>1 DEF BytesOK
  <2>2. status' = "completed" => Bytes(Behind)'
    BY <2>1, <1>4 DEF Bytes
  <2> QED
    BY <2>1, <2>2 DEF BytesOK, Sending, SessionWire
<1> QED
  BY <1>5, <1>6
-----------------------------------------------------------------------------
\* The invariant is kept by every step of the counted transfer.
LEMMA NextProgress ==
    ASSUME TypeOK, ProgressInv, [ProgressNext]_<<vars, progressVars>>
    PROVE  ProgressInv'
<1>0. LoopOK /\ CountTypeOK /\ FramesOK /\ (steady => BytesOK)
  BY DEF ProgressInv, CountTypeOK
<1>1. LoopOK'
  BY <1>0, CountedStep, LoopStays
<1>2. SUFFICES CountTypeOK' /\ FramesOK' /\ (steady' => BytesOK')
  BY <1>1 DEF ProgressInv, CountTypeOK
<1>3. Sending => status # "completed"
  BY <1>0 DEF LoopOK, Sending
<1>4. CASE SetConfig
  <2>1. /\ UNCHANGED <<count, pc, job, seq, attempt, status>>
        /\ config' \in PacketSizes /\ ~steady'
    BY <1>4 DEF SetConfig, vars, clientVars, managerVars
  <2>2. FramesOK'
    BY <2>1, <1>0
    DEF FramesOK, Frames, Behind, total, Sending, Sends, Attempts
  <2> QED
    BY <2>1, <2>2, <1>0 DEF CountTypeOK
<1>5. CASE BeginCounting
  <2>1. pc' = "created" /\ status' = "transferring" /\ job'.ps = config' /\ count' = NoCount
        /\ config' = config
    BY <1>5 DEF BeginCounting, StartTransfer
  <2>2. count' \in Counters
    BY <2>1 DEF NoCount, Counters
  <2>3. count'.current_sequence - count'.packets_acked = 0
    BY <2>1 DEF NoCount
  <2> QED
    BY <2>1, <2>2, <2>3, <1>0 DEF CountTypeOK, FramesOK, BytesOK, Sending
<1>6. CASE CrashUncounted
  <2>1. pc' = "none" /\ status' = "idle" /\ count' = NoCount /\ config' \in PacketSizes
    BY <1>6 DEF CrashUncounted, Crash
  <2>2. count' \in Counters
    BY <2>1 DEF NoCount, Counters
  <2>3. count'.current_sequence - count'.packets_acked = 0
    BY <2>1 DEF NoCount
  <2> QED
    BY <2>1, <2>2, <2>3 DEF CountTypeOK, FramesOK, BytesOK, Sending
<1>7. CASE CountTransmit
  <2>1. /\ pc = "send" /\ pc' \in {"wait", "unacked"} /\ count' = Attempted(count)
        /\ UNCHANGED <<config, steady, job, seq, attempt, status>>
    BY <1>7 DEF CountTransmit, Transmit, managerVars
  <2>2. count' \in Counters
    BY <2>1, <1>0, AttemptedLemma DEF CountTypeOK
  <2>3. FramesOK' /\ (steady => BytesOK')
    BY <2>1, <1>0, <1>3, TransmitKeepsCount DEF Sending, CountTypeOK
  <2> QED
    BY <2>1, <2>2, <2>3, <1>0 DEF CountTypeOK
<1>8. CASE CountRefused
  <2>1. /\ pc = "send" /\ pc' = "none" /\ status' \in {"failed", "cancelled"}
        /\ count' = Attempted(count) /\ UNCHANGED <<config, steady, job>>
    BY <1>8 DEF CountRefused, Fail, GiveUp, ThreadEnds, Finish, Outcome
  <2>2. /\ count' \in Counters /\ count'.packets_acked = count.packets_acked
        /\ count'.current_sequence = count.current_sequence
    BY <2>1, <1>0, AttemptedLemma DEF CountTypeOK
  <2>3. count'.current_sequence - count'.packets_acked \in {0, 1}
    BY <2>2, <1>0 DEF FramesOK
  <2>4. FramesOK' /\ BytesOK'
    BY <2>1, <2>3, <1>0, EndKeepsCount
  <2> QED
    BY <2>1, <2>2, <2>4, <1>0 DEF CountTypeOK
<1>9. CASE CountResume
  <2>1. PICK i \in Deliverable(toClient) :
            /\ TakeStartAck(i)
            /\ count' = Resumed(count, seq' - 1, toClient[i].resume.bytes)
            /\ steady' = (steady /\ SamePackets(toClient[i].resume))
    BY <1>9 DEF CountResume
  <2>2. PICK r \in ResumePoint : r = toClient[i].resume
    <3>1. toClient[i] \in Ack
      BY DeliverableLemma DEF TypeOK, NetTypeOK
    <3> QED
      BY <3>1 DEF Ack
  <2>3. PICK n \in 0..total : n = Lesser(r.seq, total)
    BY <2>2, JobLemma DEF ResumePoint, Lesser
  <2>4. MoveTo(n + 1) /\ seq' - 1 = n
    <3>1. MoveTo(n + 1)
      BY <2>1, <2>2, <2>3 DEF TakeStartAck
    <3>2. seq' = n + 1
      BY <3>1 DEF MoveTo
    <3> QED
      BY <3>1, <3>2, JobLemma
  <2>5. /\ pc = "wait" /\ seq = SeqStart /\ count' = Resumed(count, n, r.bytes)
        /\ steady' = (steady /\ SamePackets(r))
        /\ UNCHANGED <<config, job, status>>
    BY <1>9, <2>1, <2>2, <2>4 DEF CountResume, TakeStartAck, managerVars
  <2>6. count' \in Counters
    <3>1. r.bytes \in Nat
      BY DEF ResumePoint
    <3> QED
      BY <3>1, <2>5, <1>0, ResumedLemma DEF CountTypeOK
  <2>7. FramesOK' /\ (BytesOK /\ SamePackets(r) => BytesOK')
    BY <2>3, <2>4, <2>5, <1>0, <1>3, ResumeKeepsCount DEF Sending
  <2> QED
    BY <2>5, <2>6, <2>7, <1>0 DEF CountTypeOK
<1>10. CASE CountAck
  <2>1. /\ pc = "wait" /\ InData /\ MoveTo(seq + 1) /\ count' = Acked(count)
        /\ UNCHANGED <<config, steady, job, status>>
    BY <1>10 DEF CountAck, AcceptDataAck, managerVars
  <2>2. count' \in Counters
    BY <2>1, <1>0, AckedLemma DEF CountTypeOK
  <2>3. FramesOK' /\ (steady => BytesOK')
    BY <2>1, <1>0, <1>3, AckKeepsCount DEF Sending
  <2> QED
    BY <2>1, <2>2, <2>3, <1>0 DEF CountTypeOK
<1>11. CASE CountFailed
  <2>1. /\ pc = "unacked" /\ pc' = "none" /\ status' \in {"failed", "cancelled"}
        /\ count' = Failed(count) /\ UNCHANGED <<config, steady>>
    BY <1>11 DEF CountFailed, Fail, GiveUp, ThreadEnds, Finish, Outcome
  <2>2. count' \in Counters
    <3>1. Greater(count.current_sequence, seq) \in Nat
      BY <1>0, CounterLemma, JobLemma DEF Greater, CountTypeOK
    <3>2. PICK g \in Nat : g = Greater(count.current_sequence, seq)
      BY <3>1
    <3>3. count' = [count EXCEPT !.current_sequence = g]
      BY <2>1, <3>2 DEF Failed
    <3> QED
      BY <3>3, <1>0 DEF CountTypeOK, Counters
  <2>3. FramesOK' /\ (steady => BytesOK')
    BY <2>1, <1>0, <1>3, FailedKeepsCount DEF Sending, LoopOK
  <2> QED
    BY <2>1, <2>2, <2>3, <1>0 DEF CountTypeOK
<1>12. ASSUME UNCHANGED progressVars, FramesOK', steady => BytesOK'
       PROVE  CountTypeOK' /\ FramesOK' /\ (steady' => BytesOK')
  BY <1>0, <1>12 DEF progressVars, CountTypeOK
<1>13. ASSUME UNCHANGED progressVars, UNCHANGED <<pc, job, seq, attempt, status>>
       PROVE  CountTypeOK' /\ FramesOK' /\ (steady' => BytesOK')
  <2>1. FramesOK' /\ (steady => BytesOK')
    BY <1>0, <1>13, QuietKeepsCount DEF progressVars, Sending, Attempts
  <2> QED
    BY <2>1, <1>12, <1>13
<1>14. CASE Uncounted
  <2>0. UNCHANGED progressVars
    BY <1>14 DEF Uncounted
  <2>1. CASE StartServer \/ StopServer \/ RequestCancel \/ CancelClient \/ CancelSession
             \/ DiscardLeftover \/ ServerMoves \/ NetworkMoves
    <3>1. UNCHANGED <<pc, job, seq, attempt, status>>
      BY <2>1 DEF StartServer, StopServer, RequestCancel, CancelClient, CancelSession,
         DiscardLeftover, ServerMoves, NetworkMoves, clientVars, managerVars
    <3> QED
      BY <3>1, <2>0, <1>13
  <2>2. CASE Succeed
    <3>1. /\ pc = "wait" /\ seq = SeqEnd(job.file, job.ps) /\ pc' = "none"
          /\ UNCHANGED job
      BY <2>2 DEF Succeed, AcceptEndAck, ThreadEnds
    <3>2. FramesOK' /\ (steady => BytesOK')
      BY <3>1, <2>0, <1>0, <1>3, SucceedKeepsCount DEF progressVars, Sending
    <3> QED
      BY <3>2, <2>0, <1>12
  <2>3. CASE (pc = "loop" /\ Fail) \/ Abort
    <3>1. pc' = "none" /\ status' \in {"failed", "cancelled"}
      BY <2>3 DEF Fail, Abort, GiveUp, ThreadEnds, Finish, Outcome
    <3>2. count'.current_sequence - count'.packets_acked \in {0, 1}
      BY <2>0, <1>0 DEF progressVars, FramesOK
    <3>3. FramesOK' /\ BytesOK'
      BY <3>1, <3>2, <1>0, EndKeepsCount
    <3> QED
      BY <3>3, <2>0, <1>12
  <2>4. CASE QuietClient
    <3>1. UNCHANGED <<status, job>>
      BY <2>4 DEF QuietClient, managerVars, EnterSendFile, PassStopCheck, Timeout,
         Retransmit, IgnoreAck, LoseMatchingAck, clientVars
    <3>2. CASE EnterSendFile
      <4>1. status # "completed"
        BY <3>2, <1>0 DEF EnterSendFile, LoopOK
      <4>2. FramesOK' /\ (steady => BytesOK')
        BY <4>1, <3>1, <3>2, <2>0, <1>0, EnterKeepsCount DEF progressVars
      <4> QED
        BY <4>2, <2>0, <1>12
    <3>3. CASE PassStopCheck \/ Timeout \/ Retransmit \/ IgnoreAck \/ LoseMatchingAck
      <4>1. /\ pc # "none" /\ pc' # "created" /\ UNCHANGED seq /\ Sending
            /\ pc' # "none"
        BY <3>3 DEF PassStopCheck, Timeout, Retransmit, IgnoreAck, LoseMatchingAck,
           clientVars, Sending
      <4>2. Attempts' = Attempts
        <5>1. CASE PassStopCheck
          BY <5>1 DEF PassStopCheck, Attempts
        <5>2. CASE Timeout \/ LoseMatchingAck
          BY <5>2 DEF Timeout, LoseMatchingAck, Attempts
        <5>3. CASE Retransmit
          <6>1. attempt' > 0 /\ pc = "unacked"
            BY <5>3, JobLemma DEF Retransmit
          <6> QED
            BY <6>1 DEF Attempts
        <5>4. CASE IgnoreAck
          BY <5>4 DEF IgnoreAck, clientVars, Attempts
        <5> QED
          BY <3>3, <5>1, <5>2, <5>3, <5>4
      <4>3. FramesOK' /\ (steady => BytesOK')
        BY <4>1, <4>2, <3>1, <2>0, <1>0, QuietKeepsCount DEF progressVars
      <4> QED
        BY <4>3, <2>0, <1>12
    <3> QED
      BY <2>4, <3>2, <3>3 DEF QuietClient
  <2> QED
    BY <1>14, <2>1, <2>2, <2>3, <2>4 DEF Uncounted
<1>15. CASE UNCHANGED <<vars, progressVars>>
  BY <1>13, <1>15 DEF vars, clientVars, managerVars
<1> QED
  BY <1>4, <1>5, <1>6, <1>7, <1>8, <1>9, <1>10, <1>11, <1>14, <1>15 DEF ProgressNext

LEMMA ProgressInvHolds == ProgressSpec => [](TypeOK /\ ProgressInv)
<1>1. ProgressInit => ProgressInv
  BY InitProgress
<1>2. TypeOK /\ ProgressInv /\ [ProgressNext]_<<vars, progressVars>> => ProgressInv'
  BY NextProgress
<1>3. ProgressSpec => []TypeOK
  BY ImplementsTransfer, TypeCorrect, PTL
<1> QED
  BY <1>1, <1>2, <1>3, PTL DEF ProgressSpec
-----------------------------------------------------------------------------
\* Where the panels are read, the account is that of the packets behind the sender.
LEMMA PanelsAgree ==
    ASSUME TypeOK, ProgressInv, InData \/ InEnd \/ status = "completed"
    PROVE  LET n == IF status = "completed" THEN total ELSE Lesser(seq - 1, total)
           IN  n = Behind /\ Behind \in 0..total /\ Frames(Behind)
               /\ count.rtt_samples < count.packets_sent
               /\ (steady => Bytes(Behind) /\ SessionWire <= count.wire_bytes)
<1>0. /\ FramesOK /\ (steady => BytesOK) /\ LoopOK /\ count \in Counters
      /\ seq \in Nat /\ total \in Nat \ {0} /\ SeqEnd(job.file, job.ps) = total + 1
  BY JobLemma DEF ProgressInv
<1>1. CASE status = "completed"
  BY <1>0, <1>1 DEF FramesOK, BytesOK, Behind
<1>2. CASE status # "completed"
  <2>1. seq \in 1..(total + 1) /\ seq # SeqStart
    BY <1>0, <1>2 DEF InData, InEnd, SeqStart
  <2>2. Sending
    BY <2>1, <1>0 DEF LoopOK
  <2>3. Behind = seq - 1 /\ Lesser(seq - 1, total) = seq - 1
    BY <2>1, <1>0, <1>2 DEF Behind, Lesser
  <2>4. count.rtt_samples < count.packets_sent
    <3>1. count.rtt_samples + Sends <= count.packets_sent /\ Sends \in {1, 2}
      BY <2>1, <2>2, <1>0 DEF FramesOK, Sends
    <3> QED
      BY <3>1, <1>0, CounterLemma
  <2>5. Frames(Behind) /\ (steady => Bytes(Behind) /\ SessionWire <= count.wire_bytes)
    BY <2>2, <1>0 DEF FramesOK, BytesOK
  <2> QED
    BY <1>0, <1>2, <2>1, <2>3, <2>4, <2>5
<1> QED
  BY <1>1, <1>2

\* In packets, the panels show where the loop is.
LEMMA FramesShown ==
    ASSUME TypeOK, ProgressInv, NEW n \in 0..total, Frames(n),
           count.rtt_samples < count.packets_sent
    PROVE  FramesArePackets(n)
<1>1. total \in Nat \ {0}
  BY JobLemma
<1>2. /\ count.packets_acked = n /\ count.current_sequence = n
      /\ count.resumed_from_seq \in Nat /\ n \in Nat
      /\ count.rtt_samples = n - count.resumed_from_seq
      /\ count.resumed_from_seq <= n
  BY <1>1, CounterLemma DEF Frames, ProgressInv
<1>3. ProgressPanel(count).percent = Lesser(100, (100 * n) \div total)
  BY <1>1, <1>2 DEF ProgressPanel, Percent
<1>4. ProgressPanel(count).percent = 100 <=> n = total
  BY <1>1, <1>3, FullBar
<1>5. ProgressPanel(count).frames = n /\ Telemetry(count).sequence = n
      /\ Telemetry(count).sent = count.packets_sent
      /\ Rates(count).samples = count.rtt_samples
  BY <1>2 DEF ProgressPanel, Telemetry, Rates
<1>6. n - count.resumed_from_seq = count.rtt_samples
  BY <1>2
<1> QED
  BY <1>4, <1>5, <1>6 DEF FramesArePackets

\* In bytes, they show the prefix those packets are.
LEMMA BytesShown ==
    ASSUME TypeOK, ProgressInv, NEW n \in 0..total, Frames(n), Bytes(n),
           SessionWire <= count.wire_bytes
    PROVE  BytesAreCovered(n)
<1>1. /\ job.file \in Files /\ job.ps \in PacketSizes /\ total \in Nat \ {0}
      /\ n \in Nat /\ count \in Counters
  BY JobLemma DEF ProgressInv
<1>2. PICK r \in 0..n : r = count.resumed_from_seq
  BY <1>1, CounterLemma DEF Frames
<1>3. /\ Covered(job.file, job.ps, n) \in Nat /\ Covered(job.file, job.ps, r) \in Nat
      /\ Covered(job.file, job.ps, r) <= Covered(job.file, job.ps, n)
      /\ Covered(job.file, job.ps, n) <= FileSize[job.file]
      /\ Covered(job.file, job.ps, 0) = 0 /\ FileSize[job.file] \in Nat
  BY <1>1, <1>2, CoveredGrows, CoveredEnds, TotalLemma
<1>4. /\ count.confirmed_bytes = Covered(job.file, job.ps, n)
      /\ count.resumed_bytes = Covered(job.file, job.ps, r)
      /\ count.rtt_samples = n - r
  BY <1>2 DEF Frames, Bytes
<1>5. ProgressPanel(count).bytes = Covered(job.file, job.ps, n)
  BY <1>4 DEF ProgressPanel
<1>6. ProgressPanel(count).reused = Covered(job.file, job.ps, r)
  <2>1. CASE r = 0
    BY <2>1, <1>2, <1>3 DEF ProgressPanel
  <2>2. CASE r # 0
    <3>1. r > 0
      BY <2>2, <1>1, <1>2
    <3> QED
      BY <3>1, <1>2, <1>4 DEF ProgressPanel
  <2> QED
    BY <2>1, <2>2
<1>7. Rates(count).samples = count.rtt_samples /\ Rates(count).wire = count.wire_bytes
  BY DEF Rates
<1>8. Rates(count).goodput = Covered(job.file, job.ps, n) - Covered(job.file, job.ps, r)
  <2>1. Rates(count).goodput =
            Greater(0, Covered(job.file, job.ps, n) - Covered(job.file, job.ps, r))
    BY <1>4 DEF Rates, Derived
  <2> QED
    BY <2>1, <1>3 DEF Greater
<1>9. Rates(count).left = FileSize[job.file] - Covered(job.file, job.ps, n)
  <2>1. Rates(count).left =
            Greater(0, FileSize[job.file] - Covered(job.file, job.ps, n))
    BY <1>4 DEF Rates, Derived
  <2> QED
    BY <2>1, <1>3 DEF Greater
<1>10. Rates(count).goodput + Header * Rates(count).samples <= Rates(count).wire
  BY <1>4, <1>7, <1>8 DEF SessionWire
<1>11. Rates(count).goodput + ProgressPanel(count).reused + Rates(count).left
           = FileSize[job.file]
  BY <1>3, <1>6, <1>8, <1>9
<1> QED
  BY <1>2, <1>3, <1>5, <1>6, <1>10, <1>11 DEF BytesAreCovered

\* The dashboard's progress is the acknowledged prefix of the file, resumed part
\* included, and its panels agree (manager.py:139-151, 376-413; stats.py:47-81),
\* whatever is lost, repeated, cancelled, resumed or crashes: in packets always, in
\* bytes as long as neither the configured packet size changes under the transfer
\* nor the sender resumes on a session of another packet size (server.py:211-221).
THEOREM ProgressIsThePrefixHolds == ProgressSpec => []ProgressIsThePrefix
<1>1. TypeOK /\ ProgressInv => ProgressIsThePrefix
  <2>1. SUFFICES ASSUME TypeOK, ProgressInv PROVE ProgressIsThePrefix
    OBVIOUS
  <2>2. Telemetry(count).sequence - Telemetry(count).acked \in {0, 1}
    BY <2>1 DEF ProgressInv, FramesOK, Telemetry
  <2>3. ASSUME InData \/ InEnd \/ status = "completed",
               NEW n, n = IF status = "completed" THEN total ELSE Lesser(seq - 1, total)
        PROVE  FramesArePackets(n) /\ (steady => BytesAreCovered(n))
    <3>1. /\ n \in 0..total /\ Frames(n) /\ count.rtt_samples < count.packets_sent
          /\ (steady => Bytes(n) /\ SessionWire <= count.wire_bytes)
      BY <2>1, <2>3, PanelsAgree
    <3> QED
      BY <2>1, <3>1, FramesShown, BytesShown
  <2> QED
    BY <2>2, <2>3 DEF ProgressIsThePrefix
<1> QED
  BY <1>1, ProgressInvHolds, PTL

\* What the dashboard calls confirmed is in the receiver's file (manager.py:142)
\* on the direct path, as long as nobody took the session or its file away.
THEOREM ConfirmedIsHeldHolds ==
    ASSUME NothingToMixUp, Direct
    PROVE  ProgressSpec => []ConfirmedIsHeld
<1>1. TypeOK /\ IntegrityInv /\ LockstepInv /\ ProgressInv => ConfirmedIsHeld
  <2>1. SUFFICES ASSUME TypeOK, IntegrityInv, LockstepInv, ProgressInv,
                        steady, intact, Sending, session # None,
                        parts[session.path] # None
                 PROVE  ProgressPanel(count).bytes <= Len(parts[session.path].data)
    BY DEF ConfirmedIsHeld, Sending
  <2>2. /\ job.file \in Files /\ job.ps \in PacketSizes /\ seq \in Nat
        /\ total \in Nat \ {0} /\ SeqEnd(job.file, job.ps) = total + 1
    BY <2>1, JobLemma
  <2>3. PICK ps \in PacketSizes :
            /\ session.total = TotalPackets(session.file, ps)
            /\ session.expected \in 1..(session.total + 1)
            /\ Len(parts[session.path].data) =
                   Covered(session.file, ps, session.expected - 1)
    BY <2>1 DEF IntegrityInv, SessionFits
  <2>4. ps = job.ps
    BY <2>2 DEF NothingToMixUp
  <2>5. session.expected \in Nat \ {0}
    <3>1. session.file \in Files
      BY <2>1 DEF TypeOK, ServerTypeOK, Session
    <3>2. session.total \in Nat
      BY <2>3, <3>1, TotalLemma
    <3> QED
      BY <2>3, <3>2
  <2>6. ProgressPanel(count).bytes = Covered(job.file, job.ps, Behind)
    BY <2>1 DEF ProgressInv, BytesOK, Bytes, ProgressPanel
  <2>7. status # "completed" /\ SeqInRange
    BY <2>1 DEF ProgressInv, LoopOK, Sending
  <2>8. CASE seq = SeqStart
    <3>1. Behind = 0
      BY <2>7, <2>8 DEF Behind
    <3>2. Covered(job.file, job.ps, 0) = 0
      BY <2>2, CoveredEnds
    <3>3. Covered(session.file, ps, session.expected - 1) \in Nat
      <4>1. session.file \in Files
        BY <2>1 DEF TypeOK, ServerTypeOK, Session
      <4> QED
        BY <4>1, <2>5, CoveredLemma
    <3> QED
      BY <2>3, <2>6, <3>1, <3>2, <3>3
  <2>9. CASE seq # SeqStart
    <3>1. Behind = seq - 1 /\ seq \in 1..(total + 1)
      BY <2>2, <2>7, <2>9 DEF Behind, SeqInRange, SeqStart
    <3>2. session.file = job.file /\ seq <= session.expected
      <4>1. CASE InData
        BY <4>1, <2>1, <2>2 DEF LockstepInv, InStep, DataHolds
      <4>2. CASE ~InData
        <5>1. seq = SeqEnd(job.file, job.ps)
          BY <4>2, <2>2, <3>1 DEF InData
        <5>2. session.file = job.file /\ AllReceived
          BY <5>1, <2>1 DEF LockstepInv, InStep, EndHolds
        <5>3. session.total = total
          BY <5>2, <2>3, <2>4 DEF total
        <5> QED
          BY <5>1, <5>2, <5>3, <2>2, <2>5 DEF AllReceived
      <4> QED
        BY <4>1, <4>2
    <3>3. session.expected - 1 \in Nat /\ seq - 1 \in 0..(session.expected - 1)
      BY <3>1, <3>2, <2>2, <2>5
    <3>4. Covered(job.file, job.ps, seq - 1)
              <= Covered(job.file, job.ps, session.expected - 1)
      BY <3>3, <2>2, CoveredGrows
    <3> QED
      BY <2>3, <2>4, <2>6, <3>1, <3>2, <3>4
  <2> QED
    BY <2>8, <2>9
<1>2. ProgressSpec => [](TypeOK /\ IntegrityInv /\ LockstepInv)
  BY ImplementsTransfer, LockstepInvHolds, PTL
<1> QED
  BY <1>1, <1>2, ProgressInvHolds, PTL
=============================================================================
