--------------------------- MODULE DashboardProofs ---------------------------
(***************************************************************************)
(* The buttons of the page and the calls behind them, for every number of  *)
(* files, presses and calls: the page has a way on, a cancel stops nothing *)
(* that was started after it, and a test has its faults.                   *)
(*                                                                         *)
(* The lock of the buttons is what orders the calls: while it is on, a     *)
(* call is waiting for its answer, and but for Run Test that call comes    *)
(* from the last press.                                                    *)
(***************************************************************************)
EXTENDS Dashboard, TLAPS

\* Calls that have not been answered and settled.
Open(c) == c.at \in {"asked", "ok", "error"}

\* The lock is on for an open call.
LockHasACall == busy => \E c \in calls : Open(c)

\* Presses are numbered, and each has one call at a time.
ClicksAreNumbered ==
    /\ \A c \in calls : c.click <= clicks
    /\ \A c, d \in calls : c.click = d.click => c = d
    /\ startedBy <= clicks

\* Without a test, an open call is the one of the last press and holds the lock.
OpenIsLast == ~tested => \A c \in calls : Open(c) => busy /\ c.click = clicks

\* A test has been told to apply its faults before it starts.
TestsAreApplied ==
    \A c \in calls :
        c.test /\ (c.op = "start" \/ (c.op = "apply" /\ c.at \in {"ok", "refresh ok"}))
            => c.click \in faults

\* A call of a test is under way only after Run Test was pressed.
TestsAreMarked == \A c \in calls : c.test => tested

DashboardInv ==
    /\ TypeOK /\ LockHasACall /\ ClicksAreNumbered /\ OpenIsLast
    /\ TestsAreApplied /\ TestsAreMarked
-----------------------------------------------------------------------------
LEMMA InitDashboard == Init => DashboardInv
<1> SUFFICES ASSUME Init PROVE DashboardInv
  OBVIOUS
<1>1. 0 \in 0..MaxClicks
  BY DashboardAssumption
<1>2. TypeOK
  <2>1. shown \in [receiver : BOOLEAN, status : Statuses]
    BY DEF Init, Statuses
  <2>2. calls \subseteq Call /\ checks \subseteq Files /\ faults \subseteq 1..MaxClicks
    BY DEF Init
  <2> QED
    BY <1>1, <2>1, <2>2 DEF Init, TypeOK, Statuses
<1> QED
  BY <1>2 DEF Init, DashboardInv, LockHasACall, ClicksAreNumbered, OpenIsLast,
     TestsAreApplied, TestsAreMarked

\* What the page shows is the state of the controller at some time, and a check is
\* about a file.
LEMMA ShowLemma ==
    ASSUME TypeOK, Show
    PROVE  /\ shown' \in [receiver : BOOLEAN, status : Statuses]
           /\ offer' \in Files \cup {NoFile} /\ checks' \subseteq Files
<1>1. shown' \in [receiver : BOOLEAN, status : Statuses]
  BY DEF TypeOK, Show
<1>2. offer' \in Files \cup {NoFile} /\ checks' \subseteq Files
  BY DEF TypeOK, Show, Asked
<1> QED
  BY <1>1, <1>2

\* Steps that leave controller, calls and lock alone.
LEMMA QuietKeeps ==
    ASSUME DashboardInv, UNCHANGED <<serverVars, callVars>>,
           file' \in Files \cup {NoFile}, shown' \in [receiver : BOOLEAN, status : Statuses],
           offer' \in Files \cup {NoFile}, dismissed' \in BOOLEAN, checks' \subseteq Files
    PROVE  DashboardInv'
<1>1. TypeOK'
  BY DEF DashboardInv, TypeOK, serverVars, callVars
<1> QED
  BY <1>1 DEF DashboardInv, serverVars, callVars, LockHasACall, ClicksAreNumbered,
     OpenIsLast, TestsAreApplied, TestsAreMarked

\* A press takes the lock, which was off: every earlier call is settled.
LEMMA PressKeeps ==
    ASSUME DashboardInv, NEW can, can => ~busy, NEW op \in Ops, NEW test \in BOOLEAN,
           Press(can, op, test), test => op = "apply"
    PROVE  DashboardInv'
<1> DEFINE c == Request(op, test)
<1>1. /\ calls' = calls \cup {c} /\ ~busy /\ busy' = TRUE /\ clicks < MaxClicks
      /\ clicks' = clicks + 1 /\ tested' = (tested \/ test)
      /\ UNCHANGED <<serverVars, file, shown, resumeVars, dismissed>>
  BY DEF Press
<1>2. clicks \in Nat /\ clicks + 1 \in 1..MaxClicks /\ MaxClicks \in Nat
  BY <1>1, DashboardAssumption DEF DashboardInv, TypeOK
<1>3. /\ c \in Call /\ c.click = clicks + 1 /\ c.at = "asked" /\ c.op = op
      /\ c.test = test
  BY <1>2 DEF Request, Call
<1> HIDE DEF c
<1>4. TypeOK'
  <2>1. calls' \subseteq Call
    BY <1>1, <1>3 DEF DashboardInv, TypeOK
  <2>2. clicks' \in 0..MaxClicks /\ busy' \in BOOLEAN /\ tested' \in BOOLEAN
    BY <1>1, <1>2 DEF DashboardInv, TypeOK
  <2> QED
    BY <2>1, <2>2, <1>1 DEF DashboardInv, TypeOK, serverVars, resumeVars
<1>5. LockHasACall'
  BY <1>1, <1>3 DEF LockHasACall, Open
<1>6. \A d \in calls : d.click \in Nat /\ d.click <= clicks
  <2>1. ASSUME NEW d \in calls PROVE d.click \in 1..MaxClicks
    <3>1. d \in Call
      BY DEF DashboardInv, TypeOK
    <3> QED
      BY <3>1 DEF Call
  <2> QED
    BY <2>1, <1>2 DEF DashboardInv, ClicksAreNumbered
<1>7. ClicksAreNumbered'
  <2>1. startedBy \in Nat /\ startedBy <= clicks /\ startedBy' = startedBy
    BY <1>1 DEF DashboardInv, ClicksAreNumbered, TypeOK, serverVars
  <2>2. \A d \in calls' : d.click <= clicks'
    BY <1>1, <1>2, <1>3, <1>6
  <2>3. ASSUME NEW d \in calls', NEW e \in calls', d.click = e.click PROVE d = e
    <3>1. CASE d \in calls /\ e \in calls
      BY <3>1, <2>3 DEF DashboardInv, ClicksAreNumbered
    <3>2. CASE d = c /\ e = c
      BY <3>2
    <3>3. \A g \in calls : g.click # c.click
      BY <1>2, <1>3, <1>6
    <3> QED
      BY <3>1, <3>2, <3>3, <2>3, <1>1
  <2>4. startedBy' <= clicks'
    BY <2>1, <1>1, <1>2
  <2> QED
    BY <2>2, <2>3, <2>4 DEF ClicksAreNumbered
<1>8. OpenIsLast'
  <2>1. ~tested => \A d \in calls : ~Open(d)
    BY <1>1 DEF DashboardInv, OpenIsLast
  <2>2. tested \in BOOLEAN
    BY DEF DashboardInv, TypeOK
  <2>3. ~tested' => ~tested
    BY <1>1, <2>2
  <2> QED
    BY <2>1, <2>3, <1>1, <1>3 DEF OpenIsLast
<1>9. TestsAreApplied'
  <2>1. faults' = faults
    BY <1>1 DEF serverVars
  <2> QED
    BY <2>1, <1>1, <1>3 DEF DashboardInv, TestsAreApplied
<1>10. TestsAreMarked'
  BY <1>1, <1>3 DEF DashboardInv, TestsAreMarked
<1> QED
  BY <1>4, <1>5, <1>7, <1>8, <1>9, <1>10 DEF DashboardInv

\* A call that moves on keeps its press.
LEMMA MovesLemma ==
    ASSUME DashboardInv, NEW c \in calls, NEW d \in Call, d.click = c.click,
           calls' = (calls \ {c}) \cup {d}, UNCHANGED clicks, startedBy' <= clicks
    PROVE  calls' \subseteq Call /\ ClicksAreNumbered'
<1>1. calls' \subseteq Call
  BY DEF DashboardInv, TypeOK
<1>2. \A e \in calls' : e.click <= clicks'
  BY DEF DashboardInv, ClicksAreNumbered
<1>3. ASSUME NEW e \in calls', NEW g \in calls', e.click = g.click PROVE e = g
  <2>1. \A h \in calls \ {c} : h.click # c.click
    BY DEF DashboardInv, ClicksAreNumbered
  <2>2. CASE e # d /\ g # d
    BY <2>2, <1>3 DEF DashboardInv, ClicksAreNumbered
  <2> QED
    BY <2>1, <2>2, <1>3
<1> QED
  BY <1>1, <1>2, <1>3 DEF ClicksAreNumbered

LEMMA MovedLemma ==
    ASSUME DashboardInv, NEW c \in calls,
           NEW to \in {"asked", "ok", "error", "refresh ok", "refresh error"}
    PROVE  LET d == [c EXCEPT !.at = to]
           IN  d \in Call /\ d.click = c.click /\ d.op = c.op /\ d.test = c.test /\ d.at = to
<1>1. c \in Call
  BY DEF DashboardInv, TypeOK
<1> QED
  BY <1>1 DEF Call

\* What the controller does of a call.
LEMMA HandleLemma ==
    ASSUME DashboardInv, NEW c \in calls, Handle(c) \/ Refuses(c)
    PROVE  /\ receiver' \in BOOLEAN /\ status' \in Statuses /\ cancelling' \in BOOLEAN
           /\ startedBy' \in {startedBy, c.click} /\ startedBy' \in 0..MaxClicks
           /\ startedBy' <= clicks
           /\ faults' \subseteq 1..MaxClicks /\ faults \subseteq faults'
           /\ Handle(c) /\ c.op = "apply" => c.click \in faults'
<1>1. c \in Call /\ c.click \in 1..MaxClicks /\ c.click <= clicks /\ startedBy <= clicks
  BY DEF DashboardInv, TypeOK, Call, ClicksAreNumbered
<1>2. c.click \in 0..MaxClicks /\ startedBy \in 0..MaxClicks
  BY <1>1, DashboardAssumption DEF DashboardInv, TypeOK
<1> USE DEF DashboardInv, TypeOK
<1>3. CASE HandleStartServer(c) \/ HandleStopServer(c)
  BY <1>1, <1>2, <1>3 DEF HandleStartServer, HandleStopServer
<1>4. CASE HandleApply(c)
  BY <1>1, <1>2, <1>4 DEF HandleApply
<1>5. CASE HandleStart(c)
  BY <1>1, <1>2, <1>5 DEF HandleStart, Statuses
<1>6. CASE HandleCancel(c)
  BY <1>1, <1>2, <1>6 DEF HandleCancel
<1>7. CASE Refuses(c)
  <2>1. UNCHANGED serverVars /\ (c.op = "start" \/ c.op = "cancel")
    BY <1>7 DEF Refuses
  <2>2. ~Handle(c) \/ c.op # "apply"
    BY <2>1
  <2> QED
    BY <2>1, <1>1, <1>2 DEF serverVars
<1> QED
  BY <1>3, <1>4, <1>5, <1>6, <1>7 DEF Handle

\* A request that goes on to its answer, or to its loss, still holds the lock.
LEMMA AnswerKeeps == ASSUME DashboardInv, Answer PROVE DashboardInv'
<1>1. PICK c \in calls, to \in {"ok", "error"} :
          /\ c.at = "asked" /\ Moves(c, to) /\ (Handle(c) \/ Refuses(c))
          /\ to = "ok" => Handle(c)
  BY DEF Answer
<1>2. UNCHANGED <<file, shown, busy, clicks, tested, resumeVars, dismissed>>
  BY DEF Answer
<1> DEFINE d == [c EXCEPT !.at = to]
<1>3. d \in Call /\ d.click = c.click /\ d.op = c.op /\ d.test = c.test /\ d.at = to
  <2>1. to \in {"asked", "ok", "error", "refresh ok", "refresh error"}
    OBVIOUS
  <2> QED
    BY <2>1, MovedLemma
<1>4. calls' = (calls \ {c}) \cup {d}
  BY <1>1 DEF Moves
<1> HIDE DEF d
<1>5. /\ receiver' \in BOOLEAN /\ status' \in Statuses /\ cancelling' \in BOOLEAN
      /\ startedBy' \in 0..MaxClicks /\ startedBy' <= clicks
      /\ faults' \subseteq 1..MaxClicks /\ faults \subseteq faults'
      /\ Handle(c) /\ c.op = "apply" => c.click \in faults'
  BY <1>1, HandleLemma
<1>6. calls' \subseteq Call /\ ClicksAreNumbered'
  BY <1>2, <1>3, <1>4, <1>5, MovesLemma
<1>7. TypeOK'
  BY <1>2, <1>5, <1>6 DEF DashboardInv, TypeOK, resumeVars
<1>8. LockHasACall'
  BY <1>1, <1>2, <1>3, <1>4 DEF DashboardInv, LockHasACall, Open
<1>9. OpenIsLast'
  BY <1>1, <1>2, <1>3, <1>4 DEF DashboardInv, OpenIsLast, Open
<1>10. TestsAreApplied'
  BY <1>1, <1>3, <1>4, <1>5 DEF DashboardInv, TestsAreApplied
<1>11. TestsAreMarked'
  BY <1>2, <1>3, <1>4 DEF DashboardInv, TestsAreMarked
<1> QED
  BY <1>6, <1>7, <1>8, <1>9, <1>10, <1>11 DEF DashboardInv

LEMMA RequestLostKeeps == ASSUME DashboardInv, RequestLost PROVE DashboardInv'
<1>1. PICK c \in calls : c.at = "asked" /\ Moves(c, "error")
  BY DEF RequestLost
<1>2. UNCHANGED <<serverVars, file, shown, busy, clicks, tested, resumeVars, dismissed>>
  BY DEF RequestLost
<1> DEFINE d == [c EXCEPT !.at = "error"]
<1>3. /\ d \in Call /\ d.click = c.click /\ d.op = c.op /\ d.test = c.test
      /\ d.at = "error"
  BY MovedLemma
<1>4. calls' = (calls \ {c}) \cup {d}
  BY <1>1 DEF Moves
<1> HIDE DEF d
<1>5. startedBy' <= clicks
  BY <1>2 DEF DashboardInv, ClicksAreNumbered, serverVars
<1>6. calls' \subseteq Call /\ ClicksAreNumbered'
  BY <1>2, <1>3, <1>4, <1>5, MovesLemma
<1>7. TypeOK'
  BY <1>2, <1>6 DEF DashboardInv, TypeOK, resumeVars, serverVars
<1>8. LockHasACall'
  BY <1>1, <1>2, <1>3, <1>4 DEF DashboardInv, LockHasACall, Open
<1>9. OpenIsLast'
  BY <1>1, <1>2, <1>3, <1>4 DEF DashboardInv, OpenIsLast, Open
<1>10. TestsAreApplied'
  BY <1>1, <1>2, <1>3, <1>4 DEF DashboardInv, TestsAreApplied, serverVars
<1>11. TestsAreMarked'
  BY <1>2, <1>3, <1>4 DEF DashboardInv, TestsAreMarked
<1> QED
  BY <1>6, <1>7, <1>8, <1>9, <1>10, <1>11 DEF DashboardInv

\* The lock is lifted with the call that held it.  Without a test that was the only
\* open one.
LEMMA SettleKeeps == ASSUME DashboardInv, Settle PROVE DashboardInv'
<1>1. PICK c \in calls, to \in {"refresh ok", "refresh error"} :
          /\ c.at \in {"ok", "error"} /\ Moves(c, to)
          /\ to = "refresh ok" => c.at = "ok"
  BY DEF Settle
<1>2. /\ UNCHANGED <<serverVars, file, shown, clicks, tested, resumeVars, dismissed>>
      /\ busy' = FALSE
  BY DEF Settle
<1> DEFINE d == [c EXCEPT !.at = to]
<1>3. d \in Call /\ d.click = c.click /\ d.op = c.op /\ d.test = c.test /\ d.at = to
  <2>1. to \in {"asked", "ok", "error", "refresh ok", "refresh error"}
    OBVIOUS
  <2> QED
    BY <2>1, MovedLemma
<1>4. calls' = (calls \ {c}) \cup {d}
  BY <1>1 DEF Moves
<1> HIDE DEF d
<1>5. startedBy' <= clicks
  BY <1>2 DEF DashboardInv, ClicksAreNumbered, serverVars
<1>6. calls' \subseteq Call /\ ClicksAreNumbered'
  BY <1>2, <1>3, <1>4, <1>5, MovesLemma
<1>7. TypeOK'
  BY <1>2, <1>6 DEF DashboardInv, TypeOK, resumeVars, serverVars
<1>8. LockHasACall'
  BY <1>2 DEF LockHasACall
<1>9. OpenIsLast'
  <2>1. SUFFICES ASSUME ~tested, NEW e \in calls', Open(e) PROVE FALSE
    BY <1>2 DEF OpenIsLast
  <2>2. e # d
    BY <1>3, <2>1 DEF Open
  <2>3. e \in calls /\ e # c
    BY <2>2, <1>4
  <2>4. e.click = clicks /\ c.click = clicks
    BY <2>1, <2>3, <1>1 DEF DashboardInv, OpenIsLast, Open
  <2> QED
    BY <2>3, <2>4 DEF DashboardInv, ClicksAreNumbered
<1>10. TestsAreApplied'
  BY <1>1, <1>2, <1>3, <1>4 DEF DashboardInv, TestsAreApplied, serverVars
<1>11. TestsAreMarked'
  BY <1>2, <1>3, <1>4 DEF DashboardInv, TestsAreMarked
<1> QED
  BY <1>6, <1>7, <1>8, <1>9, <1>10, <1>11 DEF DashboardInv

\* A call is over, or it is a test's that goes on to its start.
LEMMA RefreshKeeps == ASSUME DashboardInv, Refresh PROVE DashboardInv'
<1>1. PICK c \in calls :
          /\ c.at \in {"refresh ok", "refresh error"}
          /\ IF Follows(c)
             THEN /\ calls' = (calls \ {c}) \cup {[c EXCEPT !.op = "start", !.at = "asked"]}
                  /\ busy' = TRUE
             ELSE calls' = calls \ {c} /\ UNCHANGED busy
  BY DEF Refresh
<1>2. UNCHANGED <<serverVars, file, clicks, tested, dismissed>>
  BY DEF Refresh
<1>3. /\ shown' \in [receiver : BOOLEAN, status : Statuses]
      /\ offer' \in Files \cup {NoFile} /\ checks' \subseteq Files
  BY ShowLemma DEF DashboardInv, Refresh
<1>4. CASE Follows(c)
  <2> DEFINE d == [c EXCEPT !.op = "start", !.at = "asked"]
  <2>1. calls' = (calls \ {c}) \cup {d} /\ busy' = TRUE
    BY <1>1, <1>4
  <2>2. c \in Call
    BY DEF DashboardInv, TypeOK
  <2>3. /\ d \in Call /\ d.click = c.click /\ d.test = c.test /\ d.op = "start"
        /\ d.at = "asked"
    BY <2>2 DEF Call, Ops
  <2> HIDE DEF d
  <2>4. startedBy' <= clicks
    BY <1>2 DEF DashboardInv, ClicksAreNumbered, serverVars
  <2>5. calls' \subseteq Call /\ ClicksAreNumbered'
    BY <1>2, <2>1, <2>3, <2>4, MovesLemma
  <2>6. TypeOK'
    BY <1>2, <1>3, <2>1, <2>5 DEF DashboardInv, TypeOK, serverVars
  <2>7. LockHasACall'
    BY <2>1, <2>3 DEF LockHasACall, Open
  <2>8. tested /\ tested'
    BY <1>2, <1>4 DEF Follows, DashboardInv, TestsAreMarked
  <2>9. OpenIsLast' /\ TestsAreMarked'
    BY <2>8 DEF OpenIsLast, TestsAreMarked
  <2>10. TestsAreApplied'
    BY <1>2, <1>4, <2>1, <2>3 DEF DashboardInv, TestsAreApplied, Follows, serverVars
  <2> QED
    BY <2>5, <2>6, <2>7, <2>9, <2>10 DEF DashboardInv
<1>5. CASE ~Follows(c)
  <2>1. calls' = calls \ {c} /\ busy' = busy
    BY <1>1, <1>5
  <2>2. TypeOK'
    BY <1>2, <1>3, <2>1 DEF DashboardInv, TypeOK, serverVars
  <2>3. LockHasACall'
    BY <1>1, <2>1 DEF DashboardInv, LockHasACall, Open
  <2>4. ClicksAreNumbered' /\ TestsAreApplied' /\ TestsAreMarked'
    BY <1>2, <2>1 DEF DashboardInv, ClicksAreNumbered, TestsAreApplied, TestsAreMarked,
       serverVars
  <2>5. OpenIsLast'
    BY <1>2, <2>1 DEF DashboardInv, OpenIsLast
  <2> QED
    BY <2>2, <2>3, <2>4, <2>5 DEF DashboardInv
<1> QED
  BY <1>4, <1>5

LEMMA TransferEndsKeeps == ASSUME DashboardInv, TransferEnds PROVE DashboardInv'
<1>1. /\ status' \in Statuses
      /\ UNCHANGED <<receiver, startedBy, cancelling, faults>>
      /\ UNCHANGED <<file, shown, callVars, resumeVars, dismissed>>
  BY DEF TransferEnds, Statuses, Ended
<1>2. TypeOK'
  BY <1>1 DEF DashboardInv, TypeOK, callVars, resumeVars
<1> QED
  BY <1>1, <1>2 DEF DashboardInv, callVars, LockHasACall, ClicksAreNumbered, OpenIsLast,
     TestsAreApplied, TestsAreMarked
-----------------------------------------------------------------------------
LEMMA NextDashboard == ASSUME DashboardInv, [Next]_vars PROVE DashboardInv'
<1>1. CASE SelectFile
  BY <1>1, QuietKeeps DEF SelectFile, Chosen, Asked, DashboardInv, TypeOK
<1>2. CASE DropFile
  BY <1>2, QuietKeeps DEF DropFile, Chosen, Asked, DashboardInv, TypeOK
<1>3. CASE ShowCheck
  BY <1>3, QuietKeeps DEF ShowCheck, DashboardInv, TypeOK
<1>4. CASE Dismiss
  BY <1>4, QuietKeeps DEF Dismiss, resumeVars, DashboardInv, TypeOK
<1>5. CASE Presses
  <2>1. CASE PressStartServer
    BY <2>1, PressKeeps DEF PressStartServer, CanStartServer, Ops
  <2>2. CASE PressStopServer
    BY <2>2, PressKeeps DEF PressStopServer, CanStopServer, Ops
  <2>3. CASE PressStart
    BY <2>3, PressKeeps DEF PressStart, CanStart, Ops
  <2>4. CASE PressStartOver
    BY <2>4, PressKeeps DEF PressStartOver, CanStartOver, Ops
  <2>5. CASE PressCancel
    BY <2>5, PressKeeps DEF PressCancel, CanCancel, Ops
  <2>6. CASE PressApply
    BY <2>6, PressKeeps DEF PressApply, CanApply, Ops
  <2>7. CASE PressRunTest
    BY <2>7, PressKeeps DEF PressRunTest, CanRunTest, Ops
  <2> QED
    BY <1>5, <2>1, <2>2, <2>3, <2>4, <2>5, <2>6, <2>7 DEF Presses
<1>6. CASE Answer
  BY <1>6, AnswerKeeps
<1>7. CASE RequestLost
  BY <1>7, RequestLostKeeps
<1>8. CASE Settle
  BY <1>8, SettleKeeps
<1>9. CASE Refresh
  BY <1>9, RefreshKeeps
<1>10. CASE Poll
  <2>1. /\ shown' \in [receiver : BOOLEAN, status : Statuses]
        /\ offer' \in Files \cup {NoFile} /\ checks' \subseteq Files
    BY <1>10, ShowLemma DEF DashboardInv, Poll
  <2> QED
    BY <1>10, <2>1, QuietKeeps DEF Poll, DashboardInv, TypeOK
<1>11. CASE TransferEnds
  BY <1>11, TransferEndsKeeps
<1>12. CASE UNCHANGED vars
  BY <1>12, QuietKeeps DEF vars, resumeVars, DashboardInv, TypeOK
<1> QED
  BY <1>1, <1>2, <1>3, <1>4, <1>5, <1>6, <1>7, <1>8, <1>9, <1>10, <1>11, <1>12 DEF Next

LEMMA DashboardInvHolds == Spec => []DashboardInv
<1>1. Init => DashboardInv
  BY InitDashboard
<1>2. DashboardInv /\ [Next]_vars => DashboardInv'
  BY NextDashboard
<1> QED
  BY <1>1, <1>2, PTL DEF Spec
-----------------------------------------------------------------------------
\* The controller, the page and the calls between them stay in the states they have
\* (page.tsx, useTransferActions.ts).
THEOREM TypeCorrect == Spec => []TypeOK
<1>1. DashboardInv => TypeOK
  BY DEF DashboardInv
<1> QED
  BY <1>1, DashboardInvHolds, PTL

\* When nothing is under way and the page shows the truth, no lock is left behind, and
\* the dock offers the owner of a file something the controller will do, with or
\* without a resume offer (TransferDock.tsx:41-57, 209-270).
THEOREM WayOnHolds == Spec => []WayOn
<1>1. DashboardInv => WayOn
  <2>1. SUFFICES ASSUME DashboardInv, AtRest, file # NoFile
                 PROVE  \/ ~receiver /\ CanStartServer
                        \/ receiver /\ status # "transferring" /\ CanStart
                        \/ status = "transferring" /\ CanCancel
    BY DEF WayOn
  <2>2. ~busy /\ shown.receiver = receiver /\ shown.status = status
    BY <2>1 DEF DashboardInv, LockHasACall, AtRest, TypeOK
  <2> QED
    BY <2>1, <2>2 DEF CanStartServer, CanStart, CanCancel, DashboardInv, TypeOK
<1> QED
  BY <1>1, DashboardInvHolds, PTL

\* Without a test, a cancel that waits to be handled comes from the last press, so no
\* start was pressed after it (useTransferActions.ts:28-37).
THEOREM CancelStopsNothingLaterHolds == Spec => CancelStopsNothingLater
<1> DEFINE A == \A c \in calls \ calls' :
                   c.at = "asked" /\ HandleCancel(c) /\ ~tested => startedBy <= c.click
<1>1. DashboardInv => A
  BY DEF DashboardInv, OpenIsLast, ClicksAreNumbered, Open
<1>2. DashboardInv /\ [Next]_vars => [A]_vars
  BY <1>1
<1> HIDE DEF A
<1>3. Spec => [][A]_vars
  BY <1>2, DashboardInvHolds, PTL DEF Spec
<1> QED
  BY <1>3 DEF A, CancelStopsNothingLater

\* A test's start is pressed for it only when its faults were taken, so no answer that
\* is lost, and none that is late, lets it run without them (page.tsx:213-222).
THEOREM TestHasItsFaultsHolds == Spec => TestHasItsFaults
<1> DEFINE A == \A c \in calls \ calls' : c.test /\ HandleStart(c) => c.click \in faults
<1>1. DashboardInv => A
  BY DEF DashboardInv, TestsAreApplied, HandleStart
<1>2. DashboardInv /\ [Next]_vars => [A]_vars
  BY <1>1
<1> HIDE DEF A
<1>3. Spec => [][A]_vars
  BY <1>2, DashboardInvHolds, PTL DEF Spec
<1> QED
  BY <1>3 DEF A, TestHasItsFaults
=============================================================================
