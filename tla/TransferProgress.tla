-------------------------- MODULE TransferProgress --------------------------
(***************************************************************************)
(* The numbers of the dashboard: the counters that                         *)
(* backend/transfer/manager.py derives from the sender's packet events     *)
(* (emit_packet, _on_resume) while a transfer of FileTransfer runs.        *)
(*                                                                         *)
(* Sizes are in units; a datagram is Header units longer than its payload. *)
(***************************************************************************)
EXTENDS FileTransfer

CONSTANTS
    Header,       \* protocol.HEADER_SIZE
    ReplayLimit   \* _RESUME_REPLAY_LIMIT

ASSUME HeaderAssumption == Header \in Nat
ASSUME ReplayLimitAssumption == ReplayLimit \in Nat

VARIABLES
    config,   \* the configured packet size, which the API changes at any time
    steady,   \* history: a packet has meant the same bytes to all since the
              \* current transfer began
    count,    \* the counters of the current transfer
    onWire    \* history: what the sender handed to its socket

progressVars == <<config, steady, count, onWire>>

Counters ==
    [packets_sent : Nat, retransmissions : Nat, packets_lost : Nat,
     wire_bytes : Nat, packets_acked : Nat, confirmed_bytes : Nat,
     resumed_from_seq : Nat, resumed_bytes : Nat,
     current_sequence : Nat, rtt_samples : Nat]

NoCount ==
    [packets_sent |-> 0, retransmissions |-> 0, packets_lost |-> 0,
     wire_bytes |-> 0, packets_acked |-> 0, confirmed_bytes |-> 0,
     resumed_from_seq |-> 0, resumed_bytes |-> 0,
     current_sequence |-> 0, rtt_samples |-> 0]

ProgressTypeOK ==
    /\ TypeOK
    /\ config \in PacketSizes
    /\ steady \in BOOLEAN
    /\ count \in Counters
    /\ onWire \in Nat

ProgressInit ==
    /\ Init
    /\ config \in PacketSizes
    /\ steady = TRUE
    /\ count = NoCount
    /\ onWire = 0

Greater(m, n) == IF m > n THEN m ELSE n

PacketLength ==
    Header + IF InData THEN Len(Chunk(job.file, job.ver, job.ps, seq)) ELSE 0
-----------------------------------------------------------------------------
\* SENT
Sent(c) ==
    [c EXCEPT !.packets_sent = @ + 1, !.wire_bytes = @ + PacketLength]

\* TIMEOUT of the attempt before, then RETRANSMITTED
Resent(c) ==
    [c EXCEPT !.packets_lost = @ + 1, !.retransmissions = @ + 1,
              !.wire_bytes = @ + PacketLength]

\* START and END are marked as SENT at every attempt, DATA at the first only.
Attempted(c) ==
    IF attempt = 0 THEN Sent(c)
    ELSE IF InData THEN Resent(c) ELSE Sent(Resent(c))

\* Mutant of Acked: the length of the whole datagram is confirmed.
AckedWithHeader(c) ==
    [c EXCEPT !.packets_acked = @ + 1, !.confirmed_bytes = @ + PacketLength]

\* ACKED of a DATA packet: its payload is confirmed and its round trip sampled.
Acked(c) ==
    [c EXCEPT !.packets_acked = @ + 1,
              !.confirmed_bytes = @ + (PacketLength - Header),
              !.current_sequence = Greater(@, seq),
              !.rtt_samples = @ + 1]

\* FAILED of any packet: the sequence of the page stops at it.
Failed(c) == [c EXCEPT !.current_sequence = Greater(@, seq)]

\* Mutant of Resumed: only the bytes of this session are counted.
ResumedFromZero(c, n, bytes) ==
    [c EXCEPT !.resumed_bytes = Lesser(bytes, FileSize[job.file])]

\* _on_resume: the sender skips n packets, and the receiver says that it holds
\* that many bytes.  A few packets are replayed as ACKs of packets of the
\* configured size, many are summed up by what the receiver said.
Resumed(c, n, bytes) ==
    IF n = 0 THEN c
    ELSE LET reused == Lesser(bytes, FileSize[job.file])
         IN [c EXCEPT
               !.packets_acked = @ + n,
               !.current_sequence = Greater(@, n),
               !.resumed_from_seq = n,
               !.resumed_bytes = reused,
               !.confirmed_bytes = @ +
                   IF n > ReplayLimit THEN reused ELSE Covered(job.file, config, n)]

\* The receiver's packets are those of this transfer.  They are not when its
\* session is an earlier attempt's with another packet size: the duplicate-START
\* guard compares name and size only.
SamePackets(resume) == resume.bytes = Covered(job.file, job.ps, resume.seq)
-----------------------------------------------------------------------------
\* server_config: nothing refuses a change in the middle of a transfer.
SetConfig ==
    /\ config' \in PacketSizes \ {config}
    /\ steady' = FALSE
    /\ UNCHANGED <<vars, count, onWire>>

\* start_transfer resets the counters and hands the packet size to the client.
BeginCounting ==
    /\ StartTransfer
    /\ job'.ps = config
    /\ steady' = TRUE /\ count' = NoCount /\ onWire' = 0
    /\ UNCHANGED config

CountTransmit ==
    /\ Transmit(bound)
    /\ count' = Attempted(count)
    /\ onWire' = onWire + PacketLength
    /\ UNCHANGED <<serverVars, managerVars, config, steady>>

\* The attempt is marked before the socket refuses it.
CountRefused ==
    /\ pc = "send" /\ Fail
    /\ count' = Attempted(count)
    /\ onWire' = onWire + PacketLength
    /\ UNCHANGED <<config, steady>>

CountResume ==
    /\ \E i \in Deliverable(toClient) :
          LET resume == toClient[i].resume
          IN /\ TakeStartAck(i)
             /\ count' = Resumed(count, seq' - 1, resume.bytes)
             /\ steady' = (steady /\ SamePackets(resume))
    /\ UNCHANGED <<serverVars, managerVars, config, onWire>>

CountAck ==
    /\ AcceptDataAck
    /\ count' = Acked(count)
    /\ UNCHANGED <<serverVars, managerVars, config, steady, onWire>>

\* The last attempt went unanswered: the packet is marked before the end of the
\* transfer is reported.
CountFailed ==
    /\ pc = "unacked" /\ Fail
    /\ count' = Failed(count)
    /\ UNCHANGED <<config, steady, onWire>>

\* Steps that emit nothing the counters depend on.
QuietClient ==
    /\ EnterSendFile \/ PassStopCheck \/ Timeout \/ Retransmit
       \/ IgnoreAck \/ LoseMatchingAck
    /\ UNCHANGED <<serverVars, managerVars>>

Uncounted ==
    /\ \/ StartServer \/ StopServer \/ Succeed \/ (pc = "loop" /\ Fail) \/ Abort
       \/ RequestCancel \/ CancelClient \/ CancelSession
       \/ DiscardLeftover
       \/ QuietClient \/ ServerMoves \/ NetworkMoves
    /\ UNCHANGED progressVars

\* A new process has new counters and the default configuration.
CrashUncounted ==
    /\ Crash
    /\ config' \in PacketSizes
    /\ steady' = TRUE /\ count' = NoCount /\ onWire' = 0

ProgressNext ==
    \/ SetConfig \/ BeginCounting \/ CrashUncounted
    \/ CountTransmit \/ CountRefused \/ CountResume \/ CountAck \/ CountFailed
    \/ Uncounted

ProgressSpec == ProgressInit /\ [][ProgressNext]_<<vars, progressVars>>
-----------------------------------------------------------------------------
\* What the page makes of the counters: the bar, in per cent and never beyond its end,
\* and beside it the frames, the bytes and what was resumed, when anything was.
Percent(c) == Lesser(100, (100 * c.packets_acked) \div (IF total = 0 THEN 1 ELSE total))

ProgressPanel(c) ==
    [percent |-> Percent(c), frames |-> c.packets_acked, bytes |-> c.confirmed_bytes,
     reused |-> IF c.resumed_from_seq > 0 THEN c.resumed_bytes ELSE 0]

\* What derive_metrics makes of the counters; the rates are these over the time
\* elapsed.  A resumed part is nothing that this session moved.
Derived(c) ==
    [session |-> Greater(0, c.confirmed_bytes - c.resumed_bytes),
     left    |-> Greater(0, FileSize[job.file] - c.confirmed_bytes)]

\* The numbers of the telemetry panel.
Telemetry(c) ==
    [sent |-> c.packets_sent, acked |-> c.packets_acked, sequence |-> c.current_sequence]

\* The rates below them: the bytes of goodput, wire throughput and ETA.
Rates(c) ==
    [samples |-> c.rtt_samples, goodput |-> Derived(c).session,
     wire |-> c.wire_bytes, left |-> Derived(c).left]

InEnd == seq = SeqEnd(job.file, job.ps)

\* The packets of a resume are the sender's own, whatever the configuration and
\* whatever packet size the receiver's session has.
FramesArePackets(n) ==
    /\ ProgressPanel(count).frames = n
    /\ ProgressPanel(count).percent = 100 <=> n = total
    /\ Telemetry(count).sequence = n
    /\ n - count.resumed_from_seq = Rates(count).samples
    /\ Rates(count).samples < Telemetry(count).sent

BytesAreCovered(n) ==
    LET panel == ProgressPanel(count)
        rates == Rates(count)
    IN /\ panel.bytes = Covered(job.file, job.ps, n)
       /\ panel.reused = Covered(job.file, job.ps, count.resumed_from_seq)
       /\ panel.reused <= panel.bytes
       /\ rates.goodput + Header * rates.samples <= rates.wire
       /\ rates.goodput + panel.reused + rates.left = FileSize[job.file]

\* The progress shown is the prefix the sender has acknowledged, resumed part
\* included: lost ACKs, retransmissions and resumes neither add to it nor are
\* missing from it, and the bar is full when all of the file is acknowledged and
\* not before.  The sequence is that of the last packet acknowledged, or of the
\* one behind it when that one failed, and every packet not resumed was sent and
\* sampled.  In packets this always holds.  In bytes it holds, and what was
\* resumed is a part of them and the goodput, that part left out, never above the
\* wire throughput, as long as a packet means the same bytes to all: not when the
\* configured size is changed under the transfer, nor when the sender resumes on a
\* session that was set up under another one
\* (manager.py:139-151, 376-413; server.py:211-221; stats.py:47-81;
\* StatsTab.tsx:27-98; NetworkingStats.tsx:20-180).
ProgressIsThePrefix ==
    /\ Telemetry(count).sequence - Telemetry(count).acked \in {0, 1}
    /\ InData \/ InEnd \/ status = "completed" =>
         LET n == IF status = "completed" THEN total ELSE Lesser(seq - 1, total)
         IN /\ FramesArePackets(n)
            /\ steady => BytesAreCovered(n)

\* What the dashboard calls confirmed is in the receiver's file, as long as
\* nobody took the session or its file away (manager.py:142) and the session
\* was set up under the packet size of this transfer.
ConfirmedIsHeld ==
    (/\ steady /\ intact /\ pc \notin {"none", "created"}
     /\ session # None /\ parts[session.path] # None
     /\ parts[session.path].ps = job.ps) =>
        ProgressPanel(count).bytes <= Len(parts[session.path].data)
-----------------------------------------------------------------------------
\* manager.py:117-118, the statistics are derived from the packet events "so
\* nothing is double-counted": the bytes counted are the bytes sent.  Refuted by
\* a repeated START or END, which is counted as RETRANSMITTED and as SENT.
NothingDoubleCounted == count.wire_bytes = onWire

\* manager.py:378-380, on a resume the "confirmed bytes and ETA all jump to the right
\* place", and client.py:184-186, the "resumed_bytes ... already at the receiver" are
\* those in front of the packets it sends.  Refuted by a session resumed under another
\* packet size: the receiver's bytes are not those the sender skips.
ReusedIsSkipped ==
    count.resumed_bytes = Covered(job.file, job.ps, count.resumed_from_seq)
=============================================================================
