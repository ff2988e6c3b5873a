----------------------------- MODULE ResumeStore -----------------------------
(***************************************************************************)
(* The receiver's directory: interrupted transfers and what a new START    *)
(* may continue (backend/udp/resume_fs.py).                                *)
(*                                                                         *)
(* A path is <<stamp, file>>: the receiver names a file by the second the  *)
(* transfer started and the file's name, so two transfers of one file that *)
(* start in the same second get the same path.  The size is not in a path: *)
(* here two Files have two names, and what two sizes under one name do in  *)
(* the same second is outside the model.  parts maps a path to its .part   *)
(* file with the .meta sidecar, or to None.                                *)
(***************************************************************************)
EXTENDS UDPProtocol

CONSTANTS MaxClock, None
ASSUME MaxClockAssumption == MaxClock \in Nat

Path == (0..MaxClock) \X Files

\* A .part with the packet size its sidecar records; the sidecar's name and
\* size are those of the path.  A .part may have lost its sidecar.
NoSidecar == 0
Part == [ps : PacketSizes \cup {NoSidecar}, data : Seq(Unit)]
ASSUME NoneAssumption == None \notin Part \cup Path

Directory == [Path -> Part \cup {None}]

\* What a partial file should be: the beginning of one version of its file.
PrefixOf(data, f, v) ==
    /\ Len(data) <= FileSize[f]
    /\ \A j \in 1..Len(data) : data[j] = <<f, v, j>>

HoldsPrefixes(dir) ==
    \A p \in Path : dir[p] # None =>
        \E v \in Versions : PrefixOf(dir[p].data, p[2], v)

\* The partial files of f, of any packet size (find_partial with None).  One
\* without a sidecar is not found.
Leftovers(dir, f) ==
    {p \in Path : p[2] = f /\ dir[p] # None /\ dir[p].ps # NoSidecar}

\* The partial files of f written with packet size ps.
Matching(dir, f, ps) == {p \in Leftovers(dir, f) : dir[p].ps = ps}

\* The first one in the sorted directory listing, None when there is none.
First(S) == IF S = {} THEN None ELSE CHOOSE p \in S : \A q \in S : p[1] <= q[1]

\* The packet a resume continues after, given the units on disk.
ResumeSeq(received, f, ps) ==
    IF received >= FileSize[f] THEN TotalPackets(f, ps) ELSE received \div ps

\* Mutant of Aligned: the torn tail is not cut off.
KeepsTornTail(received, f, ps) == received

\* The units that stay; a torn tail behind them is cut off.
Aligned(received, f, ps) ==
    IF received >= FileSize[f] THEN FileSize[f] ELSE (received \div ps) * ps

Cut(s, n) == [i \in 1..Lesser(n, Len(s)) |-> s[i]]

\* The directory with the file at p cut after n units.
Truncated(dir, p, n) == [dir EXCEPT ![p].data = Cut(@, n)]

\* discard_partial succeeds: the .part and its sidecar are gone.
Discarded(dir, S) == [p \in Path |-> IF p \in S THEN None ELSE dir[p]]

\* The directory with another packet size, or none, in the sidecar at p.
Relabelled(dir, p, ps) == [dir EXCEPT ![p].ps = ps]

\* discard_partial fails on a locked .part: it tries the sidecar all the same.
Undiscarded(dir, p) == {dir, Relabelled(dir, p, NoSidecar)}

\* What discard_partial may leave of the directory.
DiscardOutcomes(dir, p, mayBeLocked) ==
    {Discarded(dir, {p})} \cup (IF mayBeLocked THEN Undiscarded(dir, p) ELSE {})
=============================================================================
