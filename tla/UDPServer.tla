------------------------------ MODULE UDPServer ------------------------------
(***************************************************************************)
(* The receiving thread of backend/udp/server.py: one action per datagram  *)
(* it handles.  The thread holds the session lock for the whole of a       *)
(* handler, so a handler is one step.                                      *)
(*                                                                         *)
(* Data written through the open file is in parts at once; what a crash    *)
(* may lose of it is the business of FileTransfer!Crash.  Faults says which*)
(* disk errors the environment may inject:                                 *)
(*   "write"    a write or flush raises and leaves no trace in the file    *)
(*   "torn"     a write of a packet larger than the file buffer raises     *)
(*              after part of it reached the file                          *)
(*   "start"    preparing the directory or the file for a START raises     *)
(*   "locked"   a leftover cannot be removed                               *)
(*   "replace"  renaming the finished .part raises                         *)
(*   "sender"   opening the socket or the file, or reading it, raises      *)
(*   "crash"    the process dies                                           *)
(***************************************************************************)
EXTENDS Datagrams, ResumeStore

CONSTANT Faults
FaultKinds == {"write", "torn", "start", "locked", "replace", "sender", "crash"}
ASSUME FaultsAssumption == Faults \subseteq FaultKinds

VARIABLES
    listening,  \* the receiving thread is alive
    session,    \* the transfer being received, or None
    parts,      \* .part files
    finals,     \* finished files
    intact      \* history: nothing but START and END took a session away since
                \* the current transfer began

serverVars == <<listening, session, parts, finals, intact>>

Session ==
    [file : Files, path : Path, total : Nat, start : Nat \ {0},
     expected : Nat \ {0}, resume : ResumePoint, out : {"open", "closed"}]
ASSUME SessionAssumption == None \notin Session

ServerTypeOK ==
    /\ listening \in BOOLEAN
    /\ session \in Session \cup {None}
    /\ parts \in Directory
    /\ finals \in [Path -> Seq(Unit) \cup {None}]
    /\ intact \in BOOLEAN

ServerInit ==
    /\ listening = FALSE
    /\ session = None
    /\ parts = [p \in Path |-> None]
    /\ finals = [p \in Path |-> None]
    /\ intact = TRUE

\* The positions of the datagrams of one kind that may be handled next.
Arrivals(kind) == {i \in Deliverable(toServer) : toServer[i].type = kind}

\* The i-th datagram leaves the queue and is handled.
Receive(i) ==
    /\ listening
    /\ toServer' = Without(toServer, i)
    /\ UNCHANGED sock

\* A file is open and its name is still in the directory.
Writing == session # None /\ session.out = "open" /\ parts[session.path] # None

\* The directory after the open file was closed: the .part and its sidecar stay.
\* A flush that fails is swallowed and the tail of the file is lost.
Closed ==
    {parts} \cup
    (IF Writing /\ "write" \in Faults
     THEN {Truncated(parts, session.path, n) : n \in 0..Len(parts[session.path].data)}
     ELSE {})

\* reset_session
ResetSession ==
    /\ session' = None
    /\ parts' \in Closed
    /\ intact' = (intact /\ session = None)

Acks(m, resume) == toClient' = Replied(m.from, m.seq, resume)
NoReply == UNCHANGED toClient

-----------------------------------------------------------------------------
\* START

\* Mutant of IsDuplicateStart: also in the middle of the DATA.
SameFileAtAnyTime(m) == session # None /\ session.file = m.file

\* The session already serves this name and size and no DATA arrived yet.
IsDuplicateStart(m) ==
    /\ session # None
    /\ session.file = m.file
    /\ session.expected = session.start

\* "Start over" removes the leftovers of a file in their order and stops at the
\* first one it cannot remove, which becomes the candidate.
Wiped(dir, f) ==
    {[dir |-> Discarded(dir, Leftovers(dir, f)), found |-> None]} \cup
    (IF "locked" \in Faults
     THEN UNION {LET older == {p \in Leftovers(dir, f) : p[1] < stuck[1]}
                 IN {[dir |-> d, found |-> stuck] :
                        d \in Undiscarded(Discarded(dir, older), stuck)} :
                    stuck \in Leftovers(dir, f)}
     ELSE {})

\* The old session is closed and the directory searched: what is left and the
\* candidate for a resume, or None.
Offers(m) ==
    UNION {IF m.resume
           THEN {[dir |-> dir, found |-> First(Matching(dir, m.file, m.ps))]}
           ELSE Wiped(dir, m.file) :
              dir \in Closed}

\* The packet after which the transfer can continue, 0 when there is none.
ResumeAfter(m, offer) ==
    IF offer.found = None THEN 0
    ELSE ResumeSeq(Len(offer.dir[offer.found].data), m.file, m.ps)

\* Mutant of Cleared: a candidate that cannot be used stays beside the new file.
KeepsUselessCandidate(offer) == {offer.dir}

\* The directory without a candidate that holds less than one packet.
Cleared(offer) ==
    IF offer.found = None THEN {offer.dir}
    ELSE DiscardOutcomes(offer.dir, offer.found, "locked" \in Faults)

\* The bytes of those packets.
ResumeBytes(m, offer) == Aligned(Len(offer.dir[offer.found].data), m.file, m.ps)

ResumeAt(m, offer) ==
    [seq |-> ResumeAfter(m, offer), bytes |-> ResumeBytes(m, offer)]

\* The directory with the torn tail of the candidate cut off.
Trimmed(m, offer) == Truncated(offer.dir, offer.found, ResumeBytes(m, offer))

\* The session that starts behind the resume point.
Opened(m, path, resume) ==
    [file |-> m.file, path |-> path, total |-> TotalPackets(m.file, m.ps),
     start |-> resume.seq + 1, expected |-> resume.seq + 1, resume |-> resume,
     out |-> "open"]

\* The handshake ACK was lost: the same answer again, the session stays.
HandleDuplicateStart ==
    \E i \in Arrivals("START") :
        LET m == toServer[i]
        IN /\ Receive(i)
           /\ IsDuplicateStart(m)
           /\ Acks(m, session.resume)
           /\ UNCHANGED serverVars

\* A usable partial file exists: the transfer continues behind it.
HandleStartResume ==
    \E i \in Arrivals("START") : \E offer \in Offers(toServer[i]) :
        LET m      == toServer[i]
            resume == ResumeAt(m, offer)
        IN /\ Receive(i)
           /\ ~IsDuplicateStart(m)
           /\ ResumeAfter(m, offer) > 0
           /\ session' = Opened(m, offer.found, resume)
           /\ parts' = Trimmed(m, offer)
           /\ Acks(m, resume)
           /\ UNCHANGED <<listening, finals, intact>>

\* Nothing to continue: an empty .part is created, named by the wall clock,
\* which may show any second, an earlier one or the same one again included.
HandleStartFresh ==
    \E i \in Arrivals("START"), now \in 0..MaxClock :
        \E offer \in Offers(toServer[i]) : \E dir \in Cleared(offer) :
            LET m    == toServer[i]
                path == <<now, m.file>>
            IN /\ Receive(i)
               /\ ~IsDuplicateStart(m)
               /\ ResumeAfter(m, offer) = 0
               /\ parts' = [dir EXCEPT ![path] = [ps |-> m.ps, data |-> <<>>]]
               /\ session' = Opened(m, path, NoResume)
               /\ Acks(m, NoResume)
               /\ UNCHANGED <<listening, finals, intact>>

\* What is in the directory when cutting, creating or opening a file raised.  A
\* sidecar that was written stays, also beside an older .part of that name.
HalfPrepared(m, offer) ==
    IF ResumeAfter(m, offer) > 0 THEN {offer.dir, Trimmed(m, offer)}
    ELSE Cleared(offer) \cup
         UNION {{Relabelled(dir, p, m.ps) :
                    p \in {q \in Path : q[2] = m.file /\ dir[q] # None}} :
                dir \in Cleared(offer)}

\* The old session is closed, what was wiped or cut is gone, nobody is answered.
HandleStartFails ==
    /\ "start" \in Faults
    /\ \E i \in Arrivals("START") : \E offer \in Offers(toServer[i]) :
          /\ Receive(i)
          /\ ~IsDuplicateStart(toServer[i])
          /\ parts' \in HalfPrepared(toServer[i], offer)
          /\ session' = None
          /\ NoReply
          /\ UNCHANGED <<listening, finals, intact>>
-----------------------------------------------------------------------------
\* DATA

\* Writes reach the file as long as its name is still in the directory; after
\* a discard they go to an unlinked file nobody will see.
Written(data) ==
    IF parts[session.path] = None THEN parts
    ELSE [parts EXCEPT ![session.path].data = @ \o data]

\* The expected packet is written and ACKed.
HandleExpectedData ==
    \E i \in Arrivals("DATA") :
        LET m == toServer[i]
        IN /\ Receive(i)
           /\ session # None /\ m.seq = session.expected /\ session.out = "open"
           /\ parts' = Written(m.data)
           /\ session' = [session EXCEPT !.expected = @ + 1]
           /\ Acks(m, NoResume)
           /\ UNCHANGED <<listening, finals, intact>>

\* Mutant of HandleDataWriteFails: the packet counts as received and is ACKed.
FailedWriteCounts ==
    /\ Faults \cap {"write", "torn"} # {}
    /\ \E i \in Arrivals("DATA") :
          LET m == toServer[i]
          IN /\ Receive(i)
             /\ session # None /\ m.seq = session.expected /\ session.out = "open"
             /\ session' = [session EXCEPT !.expected = @ + 1]
             /\ Acks(m, NoResume)
             /\ UNCHANGED <<listening, parts, finals, intact>>

\* The write raises: no ACK, the packet stays expected.
HandleDataWriteFails ==
    /\ Faults \cap {"write", "torn"} # {}
    /\ \E i \in Arrivals("DATA") :
          LET m == toServer[i]
          IN /\ Receive(i)
             /\ session # None /\ m.seq = session.expected /\ session.out = "open"
             /\ \E n \in 0..(Len(m.data) - 1) :
                   /\ n > 0 => "torn" \in Faults
                   /\ parts' = Written(Cut(m.data, n))
             /\ NoReply
             /\ UNCHANGED <<listening, session, finals, intact>>

\* Mutant of HandleDuplicateData: a repeated packet is written again.
WritesDuplicateAgain ==
    \E i \in Arrivals("DATA") :
        LET m == toServer[i]
        IN /\ Receive(i)
           /\ session # None /\ m.seq < session.expected
           /\ parts' = Written(m.data)
           /\ Acks(m, NoResume)
           /\ UNCHANGED <<listening, session, finals, intact>>

\* Already written: ACK again, write nothing.
HandleDuplicateData ==
    \E i \in Arrivals("DATA") :
        LET m == toServer[i]
        IN /\ Receive(i)
           /\ session # None /\ m.seq < session.expected
           /\ Acks(m, NoResume)
           /\ UNCHANGED serverVars

\* No transfer, or a packet from the future: ignored.
IgnoreData ==
    \E i \in Arrivals("DATA") :
        /\ Receive(i)
        /\ session # None => toServer[i].seq > session.expected
        /\ NoReply
        /\ UNCHANGED serverVars
-----------------------------------------------------------------------------
\* END

AllReceived == session # None /\ session.expected > session.total

\* No session: taken for the repetition of an END that was already served.
ReAckEnd ==
    \E i \in Arrivals("END") :
        /\ Receive(i)
        /\ session = None
        /\ Acks(toServer[i], NoResume)
        /\ UNCHANGED serverVars

IgnoreIncompleteEnd ==
    \E i \in Arrivals("END") :
        /\ Receive(i)
        /\ session # None /\ ~AllReceived
        /\ NoReply
        /\ UNCHANGED serverVars

\* Flush, close, rename, remove the sidecar, ACK, close the session.
Finalize ==
    \E i \in Arrivals("END") :
        /\ Receive(i)
        /\ AllReceived /\ session.out = "open" /\ parts[session.path] # None
        /\ finals' = [finals EXCEPT ![session.path] = parts[session.path].data]
        /\ parts' = [parts EXCEPT ![session.path] = None]
        /\ session' = None
        /\ Acks(toServer[i], NoResume)
        /\ UNCHANGED <<listening, intact>>

\* The flush raises: the file stays open and the next END tries again.  The
\* rename raises, because of a disk error or because the .part was discarded:
\* the session stays with its file closed.
FinalizeFails ==
    \E i \in Arrivals("END") :
        /\ Receive(i)
        /\ AllReceived /\ session.out = "open"
        /\ \/ "write" \in Faults /\ UNCHANGED session
           \/ /\ parts[session.path] = None \/ "replace" \in Faults
              /\ session' = [session EXCEPT !.out = "closed"]
        /\ NoReply
        /\ UNCHANGED <<listening, parts, finals, intact>>

\* Using the closed file raises ValueError, which the loop does not catch: the
\* thread ends, its socket stays bound and its session as it was.
UseClosedFile ==
    \E i \in Arrivals("DATA") \cup Arrivals("END") :
        /\ Receive(i)
        /\ session # None /\ session.out = "closed"
        /\ IF toServer[i].type = "DATA"
           THEN toServer[i].seq = session.expected
           ELSE AllReceived
        /\ listening' = FALSE
        /\ NoReply
        /\ UNCHANGED <<session, parts, finals, intact>>

ServerStep ==
    \/ HandleDuplicateStart
    \/ HandleStartResume
    \/ HandleStartFresh
    \/ HandleStartFails
    \/ HandleExpectedData
    \/ HandleDataWriteFails
    \/ HandleDuplicateData
    \/ IgnoreData
    \/ ReAckEnd
    \/ IgnoreIncompleteEnd
    \/ Finalize
    \/ FinalizeFails
    \/ UseClosedFile
=============================================================================
