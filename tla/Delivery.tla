------------------------------ MODULE Delivery ------------------------------
(***************************************************************************)
(* What the transfer service promises, without packets: a directory where  *)
(* files appear at once and whole, and one transfer at a time that ends in *)
(* a reported outcome.  "completed" may be reported only when the file is  *)
(* there, unless somebody took the receiver away in the meantime.          *)
(***************************************************************************)
EXTENDS UDPProtocol

CONSTANTS Names, None   \* the paths a file can be published under

VARIABLES published, outcome, task, disturbed

deliveryVars == <<published, outcome, task, disturbed>>

Whole(p) == {Content(p[2], v) : v \in Versions}

Idle == outcome # "transferring"

Init ==
    /\ published = [p \in Names |-> None]
    /\ outcome = "idle"
    /\ task \in Files \X Versions
    /\ disturbed = FALSE

Begin ==
    /\ Idle
    /\ outcome' = "transferring"
    /\ task' \in Files \X Versions
    /\ disturbed' = FALSE
    /\ UNCHANGED published

\* A file appears, also after its transfer was reported as failed: the last
\* ACK may be lost on the way back.
Publish ==
    /\ \E p \in Names : \E c \in Whole(p) : published' = [published EXCEPT ![p] = c]
    /\ UNCHANGED <<outcome, task, disturbed>>

Complete ==
    /\ outcome = "transferring"
    /\ disturbed \/ \E p \in Names : published[p] = Content(task[1], task[2])
    /\ outcome' = "completed"
    /\ UNCHANGED <<published, task, disturbed>>

GiveUp ==
    /\ outcome = "transferring"
    /\ outcome' \in {"failed", "cancelled"}
    /\ UNCHANGED <<published, task, disturbed>>

Disturb ==
    /\ disturbed' = TRUE
    /\ UNCHANGED <<published, outcome, task>>

\* The process starts anew: nobody remembers an outcome.
Restart ==
    /\ outcome' = "idle"
    /\ disturbed' \in {disturbed, TRUE}
    /\ UNCHANGED <<published, task>>

Next == Begin \/ Publish \/ Complete \/ GiveUp \/ Disturb \/ Restart

Spec == Init /\ [][Next]_deliveryVars
=============================================================================
