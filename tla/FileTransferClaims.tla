------------------------- MODULE FileTransferClaims -------------------------
(***************************************************************************)
(* What the repository's own texts say of a transfer and the code does not *)
(* keep.  Each claim is checked by a run that is expected to refute it.    *)
(***************************************************************************)
EXTENDS FileTransferInvariant

\* README.md:139, "FILE -> packets -> identical FILE": a published file is one
\* version of the file that was sent, whole.  Refuted when a START is retried
\* under another packet size: the duplicate-START guard does not compare it.
IdenticalFile == FinalsAreWhole

\* api/endpoints/transfer.py:20-21, "false wipes it and starts at packet 1":
\* a transfer that may not resume sends packet 1 first.  Refuted when the
\* session of an earlier attempt has not received DATA yet.
StartOverStartsAtOne ==
    [][AcceptStartAck /\ ~job.resume => seq' = 1]_vars

\* server.py:183, "Duplicate END (finalize ACK was lost, sender retried)": an
\* END without a session was served before, so a transfer reported as completed
\* is on disk.  Refuted by a receiver that was stopped and started before END.
CompletedIsOnDisk ==
    status = "completed" =>
        \E p \in Path : p[2] = job.file /\ finals[p] = Content(job.file, job.ver)

\* server.py:136-137, a disk error "must NOT kill the listener and leave a
\* zombie running receiver".  Refuted by discarding the partial file that is
\* being written: the rename fails, and the next END uses a closed file.
NoZombieReceiver == bound => listening
=============================================================================
