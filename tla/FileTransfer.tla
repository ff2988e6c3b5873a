---------------------------- MODULE FileTransfer ----------------------------
(***************************************************************************)
(* The backend process around one receiver: the sending thread (UDPClient),*)
(* the receiving thread (UDPServer), the datagrams between them, and the   *)
(* part of backend/transfer/manager.py that starts, cancels and finishes   *)
(* transfers and starts and stops the receiver from API threads.           *)
(***************************************************************************)
EXTENDS UDPClient, UDPServer

CONSTANT MaxTransfers   \* transfers a user starts in one behaviour
ASSUME MaxTransfersAssumption == MaxTransfers \in Nat

VARIABLES
    bound,            \* server_status is "running": the receiver has its port
    status,           \* transfer_status
    cancelRequested,  \* _cancel_requested
    canceller,        \* a cancel_transfer call that has left the manager lock
    transfers         \* transfers started so far

managerVars == <<bound, status, cancelRequested, canceller, transfers>>
vars == <<netVars, clientVars, serverVars, managerVars>>

\* cancel_transfer looks client and server up under the lock and calls them
\* after releasing it.  "at" is the call it is about to make; "holds" tells
\* which of the two objects it looked up is still the current one.
Canceller == [at : {"none", "client", "server"}, holds : SUBSET {"client", "server"}]
NoCancel == [at |-> "none", holds |-> {}]

TypeOK ==
    /\ NetTypeOK
    /\ ClientTypeOK
    /\ ServerTypeOK
    /\ bound \in BOOLEAN
    /\ status \in {"idle", "transferring", "completed", "failed", "cancelled"}
    /\ cancelRequested \in BOOLEAN
    /\ canceller \in Canceller
    /\ transfers \in 0..MaxTransfers

Init ==
    /\ toServer = <<>> /\ toClient = <<>> /\ sock = 0
    /\ pc = "none" /\ seq = SeqStart /\ attempt = 0 /\ stop = FALSE
    /\ job \in [id : {1}, file : Files, ver : Versions, ps : PacketSizes,
                resume : BOOLEAN]
    /\ ServerInit
    /\ bound = FALSE
    /\ status = "idle"
    /\ cancelRequested = FALSE
    /\ canceller = NoCancel
    /\ transfers = 0
-----------------------------------------------------------------------------
\* start_server / stop_server

StartServer ==
    /\ ~bound
    /\ bound' = TRUE /\ listening' = TRUE
    /\ UNCHANGED <<netVars, clientVars, session, parts, finals, intact,
                   status, cancelRequested, canceller, transfers>>

\* The receiver closes its session and its port, the forwarders stop.  What
\* a cancel still holds is the receiver that is gone.
StopServer ==
    /\ bound
    /\ bound' = FALSE /\ listening' = FALSE
    /\ ResetSession
    /\ toServer' = <<>>
    /\ toClient' = IF Direct THEN toClient ELSE <<>>
    /\ canceller' = [canceller EXCEPT !.holds = @ \ {"server"}]
    /\ UNCHANGED <<sock, clientVars, finals, status, cancelRequested, transfers>>
-----------------------------------------------------------------------------
\* start_transfer and the end of the sending thread

StartTransfer ==
    /\ transfers < MaxTransfers
    /\ status # "transferring" /\ bound
    /\ job' \in [id : {transfers + 1}, file : Files, ver : Versions,
                 ps : PacketSizes, resume : BOOLEAN]
    /\ transfers' = transfers + 1
    /\ pc' = "created"
    /\ status' = "transferring"
    /\ cancelRequested' = FALSE
    /\ intact' = TRUE
    /\ canceller' = [canceller EXCEPT !.holds = @ \ {"client"}]
    /\ UNCHANGED <<netVars, seq, attempt, stop, listening, session,
                   parts, finals, bound>>

\* Mutant of Outcome: a finished transfer wins over the cancel.
SuccessFirst(success) ==
    IF success THEN "completed"
    ELSE IF cancelRequested THEN "cancelled" ELSE "failed"

\* _on_transfer_finished: a cancel that was asked for wins over the result.
Outcome(success) ==
    IF cancelRequested THEN "cancelled"
    ELSE IF success THEN "completed" ELSE "failed"

Finish(success) ==
    /\ status' = Outcome(success)
    /\ UNCHANGED <<serverVars, bound, cancelRequested, canceller, transfers>>

Succeed == AcceptEndAck /\ Finish(TRUE)

Fail == GiveUp(~bound) /\ Finish(FALSE)

\* send_file raises: the address does not resolve or the upload is gone, before
\* START; the file cannot be opened when START is answered, or read when its next
\* packet is due.  The thread's wrapper reports a failure, whatever was asked for.
Abort ==
    /\ "sender" \in Faults
    /\ \/ /\ pc = "created" \/ (pc = "send" /\ InData /\ attempt = 0)
          /\ ThreadEnds(toClient)
       \/ /\ pc = "wait" /\ seq = SeqStart
          /\ \E i \in Deliverable(toClient) :
                /\ toClient[i].seq = seq
                /\ ThreadEnds(Without(toClient, i))
    /\ status' = "failed"
    /\ UNCHANGED <<serverVars, bound, cancelRequested, canceller, transfers>>
-----------------------------------------------------------------------------
\* cancel_transfer: under the lock, then client.cancel(), then
\* server.reset_session().

RequestCancel ==
    /\ status = "transferring" /\ canceller.at = "none"
    /\ cancelRequested' = TRUE
    /\ canceller' = [at |-> "client",
                     holds |-> {"client"} \cup (IF bound THEN {"server"} ELSE {})]
    /\ UNCHANGED <<netVars, clientVars, serverVars, bound, status, transfers>>

CancelClient ==
    /\ canceller.at = "client"
    /\ stop' = IF "client" \in canceller.holds /\ pc # "none" THEN TRUE ELSE stop
    /\ canceller' = [canceller EXCEPT !.at = "server"]
    /\ UNCHANGED <<netVars, pc, job, seq, attempt, serverVars, bound, status,
                   cancelRequested, transfers>>

CancelSession ==
    /\ canceller.at = "server"
    /\ IF "server" \in canceller.holds THEN ResetSession
       ELSE UNCHANGED <<session, parts, intact>>
    /\ canceller' = NoCancel
    /\ UNCHANGED <<netVars, clientVars, listening, finals, bound, status,
                   cancelRequested, transfers>>
-----------------------------------------------------------------------------
\* resume_discard: the first leftover of a file goes, whatever its packet size
\* and whether or not it is being written.
DiscardLeftover ==
    /\ \E f \in Files :
          /\ Leftovers(parts, f) # {}
          /\ parts' \in DiscardOutcomes(parts, First(Leftovers(parts, f)),
                                         "locked" \in Faults)
    /\ UNCHANGED <<netVars, clientVars, listening, session, finals, intact,
                   managerVars>>

\* The process dies and starts anew: only the directory is left, and of the
\* open .part what had reached the disk.
Crash ==
    /\ "crash" \in Faults
    /\ IF Writing
       THEN \E n \in 0..Len(parts[session.path].data) :
                parts' = Truncated(parts, session.path, n)
       ELSE UNCHANGED parts
    /\ toServer' = <<>> /\ toClient' = <<>> /\ sock' = 0
    /\ pc' = "none" /\ seq' = SeqStart /\ attempt' = 0 /\ stop' = FALSE
    /\ listening' = FALSE
    /\ session' = None /\ intact' = (intact /\ session = None)
    /\ bound' = FALSE
    /\ status' = "idle"
    /\ cancelRequested' = FALSE
    /\ canceller' = NoCancel
    /\ UNCHANGED <<job, finals, transfers>>
-----------------------------------------------------------------------------
ClientMoves ==
    /\ ClientStep(bound)
    /\ UNCHANGED <<serverVars, managerVars>>

ServerMoves ==
    /\ ServerStep
    /\ UNCHANGED <<clientVars, managerVars>>

NetworkMoves ==
    /\ LoseDatagram \/ LoseAck
    /\ UNCHANGED <<clientVars, serverVars, managerVars>>

Next ==
    \/ StartServer \/ StopServer
    \/ StartTransfer \/ Succeed \/ Fail \/ Abort
    \/ RequestCancel \/ CancelClient \/ CancelSession
    \/ DiscardLeftover \/ Crash
    \/ ClientMoves \/ ServerMoves \/ NetworkMoves

Spec == Init /\ [][Next]_vars
-----------------------------------------------------------------------------
\* Integrity.  Every .part is a prefix of one version of its file and every
\* finished file is one version of it, whole: the receiver never writes a
\* packet twice, never skips one, never publishes a truncated file
\* (server.py:154-199).
PartsArePrefixes == HoldsPrefixes(parts)

FinalsAreWhole ==
    \A p \in Path : finals[p] # None =>
        \E v \in Versions :
            Len(finals[p]) = FileSize[p[2]] /\ PrefixOf(finals[p], p[2], v)

Integrity == PartsArePrefixes /\ FinalsAreWhole

\* Stop-and-Wait: as long as no cancel, stop or crash takes the receiver's
\* session away, the receiver expects the packet the sender is at or the one
\* after it, and at END it has everything or has already published it.
Lockstep ==
    intact /\ pc \notin {"none", "created"} /\ seq # SeqStart =>
        IF InData
        THEN /\ session # None /\ session.file = job.file
             /\ session.expected \in {seq, seq + 1}
        ELSE session = None \/ AllReceived

\* A transfer reported as completed whose session was not taken away is on
\* disk under its name, whole, in the version that was sent.
CompletedIsPublished ==
    status = "completed" /\ intact =>
        \E p \in Path : p[2] = job.file /\ finals[p] = Content(job.file, job.ver)

\* However transfers are cancelled, resumed, started over, crash or collide on
\* a second, a file has at most one leftover per packet size: find_partial's
\* first match is the only one.
OneLeftoverPerFile ==
    \A f \in Files, ps \in PacketSizes :
        \A p, q \in Matching(parts, f, ps) : p = q
-----------------------------------------------------------------------------
\* Datagrams, sessions and partial files implement Delivery: files are published
\* at once and whole, and "completed" is reported only for a published file.
Service == INSTANCE Delivery WITH
    Names <- Path, published <- finals, outcome <- status,
    task <- <<job.file, job.ver>>, disturbed <- ~intact

Delivers == Service!Spec
-----------------------------------------------------------------------------
\* Threads keep running: the sender's waits are bounded by its timer, the
\* receiver polls its socket, an API call that has begun goes on.
Fairness ==
    /\ WF_vars(ClientMoves \/ Succeed \/ Fail)
    /\ WF_vars(ServerMoves)
    /\ WF_vars(CancelClient)
    /\ WF_vars(CancelSession)

FairSpec == Spec /\ Fairness

\* No transfer hangs: whatever is lost, cancelled, stopped or discarded, the
\* sending thread ends and an outcome is reported (client.py:228-312).
TransferEnds == (status = "transferring") ~> (status # "transferring")

\* A cancelled transfer is never reported as anything else, and it does end.
CancelIsReported ==
    (cancelRequested /\ status = "transferring") ~> (status = "cancelled")
=============================================================================
