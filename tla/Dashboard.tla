----------------------------- MODULE Dashboard -----------------------------
(***************************************************************************)
(* The actions of the page: file selection, resume offer, the buttons of   *)
(* the dock and of the lab, and the calls they make (app/page.tsx,         *)
(* components/TransferDock.tsx, hooks/useTransferActions.ts, useResume.ts, *)
(* useFileSelection.ts and lib/api.ts of frontend/), against a controller  *)
(* that handles requests in any order, some of which fail on the way.      *)
(*                                                                         *)
(* The controller's part of a call is one step, and a resume check may find *)
(* a partial or not (FileTransfer and ResumeStore model both in full).  The *)
(* resume point of every partial is the same.                              *)
(***************************************************************************)
EXTENDS Integers, Sequences, FiniteSets

CONSTANTS
    Files,
    MaxClicks,   \* presses of buttons that make calls
    MaxCalls     \* calls under way at once

ASSUME DashboardAssumption == MaxClicks \in Nat

NoFile == "no file"
Ended == {"completed", "failed", "cancelled"}
Statuses == {"idle", "transferring"} \cup Ended
Ops == {"start server", "stop server", "apply", "start", "cancel"}

VARIABLES
    receiver,   \* the UDP receiver runs
    status,     \* transfer_status
    startedBy,  \* the click that started the last transfer
    cancelling, \* it has been asked to stop
    faults,     \* the testing configurations taken so far, by click
    file,       \* the file selected
    shown,      \* receiver and transfer status the page shows
    busy,
    calls,      \* calls of runOnce under way
    clicks,     \* buttons pressed so far
    tested,     \* Run Test was one of them
    offer,      \* resumeInfo: the file it was asked for
    dismissed,  \* dismissedSeq is the resume point
    checks      \* resume checks under way: the file each is about

serverVars == <<receiver, status, startedBy, cancelling, faults>>
resumeVars == <<offer, checks>>
callVars == <<busy, calls, clicks, tested>>
vars == <<serverVars, file, shown, callVars, resumeVars, dismissed>>

\* A call: the press it comes from, whether that is Run Test, and how far it is.
Call == [op : Ops, click : 1..MaxClicks, test : BOOLEAN,
         at : {"asked", "ok", "error", "refresh ok", "refresh error"}]

TypeOK ==
    /\ receiver \in BOOLEAN /\ status \in Statuses
    /\ startedBy \in 0..MaxClicks /\ cancelling \in BOOLEAN /\ faults \subseteq 1..MaxClicks
    /\ file \in Files \cup {NoFile}
    /\ shown \in [receiver : BOOLEAN, status : Statuses]
    /\ busy \in BOOLEAN /\ calls \subseteq Call /\ clicks \in 0..MaxClicks /\ tested \in BOOLEAN
    /\ offer \in Files \cup {NoFile} /\ dismissed \in BOOLEAN /\ checks \subseteq Files

Init ==
    /\ receiver \in BOOLEAN /\ status = "idle"
    /\ startedBy = 0 /\ cancelling = FALSE /\ faults = {}
    /\ file = NoFile /\ shown = [receiver |-> receiver, status |-> "idle"]
    /\ busy = FALSE /\ calls = {} /\ clicks = 0 /\ tested = FALSE
    /\ offer = NoFile /\ dismissed = FALSE /\ checks = {}
-----------------------------------------------------------------------------
\* Resume offers

Chosen(f) == file' = f

Asked(f) == checks \cup {f}

SelectFile ==
    /\ shown.status # "transferring"
    /\ \E f \in (Files \cup {NoFile}) \ {file} :
          /\ Chosen(f)
          /\ IF f = NoFile THEN offer' = NoFile /\ UNCHANGED checks
             ELSE checks' = Asked(f) /\ UNCHANGED offer
    /\ UNCHANGED <<serverVars, shown, callVars, dismissed>>

\* A file dropped on the canvas is selected at any time.
DropFile ==
    /\ \E f \in Files \ {file} :
          /\ Chosen(f) /\ checks' = Asked(f)
          /\ offer' = IF shown.status = "transferring" THEN NoFile ELSE offer
    /\ UNCHANGED <<serverVars, shown, callVars, dismissed>>

\* The answer is taken whatever file is selected when it comes; a failed check hides.
ShowCheck ==
    /\ \E f \in checks :
          /\ offer' \in {f, NoFile}
          /\ checks' \in {checks, checks \ {f}}
    /\ UNCHANGED <<serverVars, file, shown, callVars, dismissed>>

\* A status is shown: a run takes the offer away, one that ends unfinished asks.
Show ==
    /\ shown' = [receiver |-> receiver, status |-> status]
    /\ offer' = IF status = "transferring" THEN NoFile
                ELSE IF status \in {"failed", "cancelled"} /\ shown.status # status /\ file = NoFile
                THEN NoFile ELSE offer
    /\ checks' = IF status \in {"failed", "cancelled"} /\ shown.status # status /\ file # NoFile
                 THEN Asked(file) ELSE checks
-----------------------------------------------------------------------------
\* The dock

Resumable ==
    /\ offer # NoFile /\ file # NoFile
    /\ shown.status \notin {"transferring", "completed"}
ResumeVisible == Resumable /\ ~dismissed

\* Mutant of CanStartServer: the chip gives way to the primary action.
CanStartServerInPlace ==
    ~busy /\ ~shown.receiver /\ ~ResumeVisible /\ shown.status # "transferring"

\* The chip; the primary action shows the same button in fewer cases.
CanStartServer == ~busy /\ ~shown.receiver

CanStopServer == ~busy /\ shown.receiver
CanStart == ~busy /\ shown.receiver /\ shown.status # "transferring" /\ (ResumeVisible \/ file # NoFile)
CanStartOver == ~busy /\ shown.receiver /\ ResumeVisible

\* Mutant of CanCancel: pressed again while it is under way.
CanCancelAgain == shown.status = "transferring"

CanCancel == ~busy /\ shown.status = "transferring"
CanApply == ~busy
CanRunTest == ~busy /\ file # NoFile /\ shown.receiver /\ shown.status # "transferring"
-----------------------------------------------------------------------------
\* runOnce

Request(op, test) == [op |-> op, click |-> clicks + 1, test |-> test, at |-> "asked"]

Press(can, op, test) ==
    /\ can /\ clicks < MaxClicks /\ Cardinality(calls) < MaxCalls
    /\ calls' = calls \cup {Request(op, test)}
    /\ busy' = TRUE /\ clicks' = clicks + 1 /\ tested' = (tested \/ test)
    /\ UNCHANGED <<serverVars, file, shown, resumeVars, dismissed>>

PressStartServer == Press(CanStartServer, "start server", FALSE)
PressStopServer == Press(CanStopServer, "stop server", FALSE)
PressStart == Press(CanStart, "start", FALSE)
PressStartOver == Press(CanStartOver, "start", FALSE)
PressCancel == Press(CanCancel, "cancel", FALSE)
PressApply == Press(CanApply, "apply", FALSE)
PressRunTest == Press(CanRunTest, "apply", TRUE)

Dismiss ==
    /\ ResumeVisible
    /\ dismissed' = TRUE
    /\ UNCHANGED <<serverVars, file, shown, callVars, resumeVars>>

\* What the controller does of a call.
HandleStartServer(c) ==
    /\ c.op = "start server"
    /\ receiver' = TRUE
    /\ UNCHANGED <<status, startedBy, cancelling, faults>>

HandleStopServer(c) ==
    /\ c.op = "stop server"
    /\ receiver' = FALSE
    /\ UNCHANGED <<status, startedBy, cancelling, faults>>

HandleApply(c) ==
    /\ c.op = "apply"
    /\ faults' = faults \cup {c.click}
    /\ UNCHANGED <<receiver, status, startedBy, cancelling>>

Accepts(c) == receiver /\ status # "transferring"

HandleStart(c) ==
    /\ c.op = "start" /\ Accepts(c)
    /\ status' = "transferring"
    /\ startedBy' = c.click /\ cancelling' = FALSE
    /\ UNCHANGED <<receiver, faults>>

HandleCancel(c) ==
    /\ c.op = "cancel" /\ status = "transferring"
    /\ cancelling' = TRUE
    /\ UNCHANGED <<receiver, status, startedBy, faults>>

Refuses(c) ==
    /\ \/ c.op = "start" /\ ~Accepts(c)
       \/ c.op = "cancel" /\ status # "transferring"
    /\ UNCHANGED serverVars

Handle(c) ==
    \/ HandleStartServer(c) \/ HandleStopServer(c) \/ HandleApply(c)
    \/ HandleStart(c) \/ HandleCancel(c)

Moves(c, to) == calls' = (calls \ {c}) \cup {[c EXCEPT !.at = to]}

\* The request is handled; its answer may be lost.
Answer ==
    /\ \E c \in calls :
          /\ c.at = "asked"
          /\ \/ Handle(c) /\ (Moves(c, "ok") \/ Moves(c, "error"))
             \/ Refuses(c) /\ Moves(c, "error")
    /\ UNCHANGED <<file, shown, busy, clicks, tested, resumeVars, dismissed>>

\* The request does not reach the controller.
RequestLost ==
    /\ \E c \in calls : c.at = "asked" /\ Moves(c, "error")
    /\ UNCHANGED <<serverVars, file, shown, busy, clicks, tested, resumeVars, dismissed>>

\* Mutant of Settle: the lock is lifted after a success only.
SettleGood ==
    /\ \E c \in calls :
          \/ c.at = "ok" /\ Moves(c, "refresh ok") /\ busy' = FALSE
          \/ c.at = "error" /\ Moves(c, "refresh error") /\ UNCHANGED busy
    /\ UNCHANGED <<serverVars, file, shown, clicks, tested, resumeVars, dismissed>>

\* The call is over, whatever came of it; the lock is lifted and a refresh asked for.
Settle ==
    /\ \E c \in calls :
          \/ c.at = "ok" /\ Moves(c, "refresh ok")
          \/ c.at = "error" /\ Moves(c, "refresh error")
    /\ busy' = FALSE
    /\ UNCHANGED <<serverVars, file, shown, clicks, tested, resumeVars, dismissed>>

\* Mutant of Follows: a test starts whatever came of its first half.
FollowsAnyway(c) == c.test /\ c.op = "apply"

\* Run Test goes on to the start when its faults were taken.
Follows(c) == c.test /\ c.op = "apply" /\ c.at = "refresh ok"

Refresh ==
    /\ \E c \in calls :
          /\ c.at \in {"refresh ok", "refresh error"}
          /\ IF Follows(c)
             THEN /\ calls' = (calls \ {c}) \cup
                        {[c EXCEPT !.op = "start", !.at = "asked"]}
                  /\ busy' = TRUE
             ELSE calls' = calls \ {c} /\ UNCHANGED busy
    /\ Show
    /\ UNCHANGED <<serverVars, file, clicks, tested, dismissed>>

Poll ==
    /\ Show
    /\ UNCHANGED <<serverVars, file, callVars, dismissed>>

\* The transfer completes, fails or, when it was asked to, stops.
TransferEnds ==
    /\ status = "transferring"
    /\ status' \in {"failed", IF cancelling THEN "cancelled" ELSE "completed"}
    /\ UNCHANGED <<receiver, startedBy, cancelling, faults>>
    /\ UNCHANGED <<file, shown, callVars, resumeVars, dismissed>>
-----------------------------------------------------------------------------
Presses ==
    \/ PressStartServer \/ PressStopServer \/ PressStart \/ PressStartOver
    \/ PressCancel \/ PressApply \/ PressRunTest

Next ==
    \/ SelectFile \/ DropFile \/ ShowCheck \/ Dismiss
    \/ Presses
    \/ Answer \/ RequestLost \/ Settle \/ Refresh \/ Poll
    \/ TransferEnds

Spec == Init /\ [][Next]_vars

\* Every request ends, with an answer or with an error, and its call goes on.
FairSpec == Spec /\ WF_vars(Answer \/ RequestLost) /\ WF_vars(Settle) /\ WF_vars(Refresh)
-----------------------------------------------------------------------------
\* The lock that a press puts on the buttons is lifted, whatever becomes of the
\* request (useTransferActions.ts:26-40).
LockIsLifted == busy ~> ~busy

\* The page has a way on: when nothing is under way and it shows the truth, the dock
\* offers a file's owner something the controller will do (TransferDock.tsx:41-57,
\* 84-88, 209-270), with a resume offer, dismissed or not, true or stale.
AtRest ==
    /\ calls = {} /\ checks = {}
    /\ shown = [receiver |-> receiver, status |-> status]
WayOn ==
    AtRest /\ file # NoFile =>
        \/ ~receiver /\ CanStartServer
        \/ receiver /\ status # "transferring" /\ CanStart
        \/ status = "transferring" /\ CanCancel

\* A cancel never stops a transfer whose start was pressed after it, however late it
\* is handled (useTransferActions.ts:28-37, TransferDock.tsx:241-245); Run Test, which
\* lifts the lock between its two calls, is left out.
CancelStopsNothingLater ==
    [][\A c \in calls \ calls' :
          c.at = "asked" /\ HandleCancel(c) /\ ~tested => startedBy <= c.click]_vars

\* A test's transfer begins only once the controller has taken the faults of that test,
\* whatever became of either request (page.tsx:213-222, TestingPanel.tsx:190-204).
TestHasItsFaults ==
    [][\A c \in calls \ calls' : c.test /\ HandleStart(c) => c.click \in faults]_vars
-----------------------------------------------------------------------------
\* useResume.ts:8, "Resume banner state for the selected file".  Refuted by two
\* checks that are answered out of order.
OfferIsForTheFile == ResumeVisible /\ checks = {} => offer = file
=============================================================================
