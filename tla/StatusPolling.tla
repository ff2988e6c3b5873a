--------------------------- MODULE StatusPolling ---------------------------
(***************************************************************************)
(* The web client's view of a transfer (frontend/hooks/useStatusPolling.ts)*)
(* against the controller it polls: a tick asks for the status, then for   *)
(* events and rows, and shows the answers together; a refresh after a      *)
(* user's action asks for the status alone and is answered when it is.     *)
(* The controller's endpoint reads events and rows one after the other     *)
(* (api/endpoints/transfer.py:50-67).                                      *)
(***************************************************************************)
EXTENDS EventLog

CONSTANTS
    RowLimit,       \* rows the client asks for
    MaxTransfers,   \* transfers in one behaviour
    MaxEvents       \* events in one behaviour

ASSUME RowLimitAssumption == RowLimit \in Nat \ {0}

VARIABLES
    status,   \* the controller's transfer_status
    begun,    \* transfers so far
    tick,     \* the poll in flight and what it has been told so far
    refresh,  \* the status a refresh was told and has not shown yet
    shown,    \* the status the client shows
    rows,     \* the rows it shows
    cursor    \* the id it has drained the events up to

controllerVars == <<status, begun, logVars>>
clientVars == <<tick, refresh, shown, rows, cursor>>
vars == <<controllerVars, clientVars>>

Statuses == {"idle", "transferring", "ended"}
Nothing == "nothing"
Resting == [at |-> "rest"]

TypeOK ==
    /\ LogTypeOK
    /\ status \in Statuses
    /\ begun \in 0..MaxTransfers
    /\ tick.at \in {"rest", "status", "events", "rows"}
    /\ refresh \in Statuses \cup {Nothing}
    /\ shown \in Statuses \cup {Nothing}
    /\ rows \in Seq(Nat \ {0}) /\ Len(rows) <= MaxRows
    /\ cursor \in {-1} \cup Nat

Init ==
    /\ LogInit
    /\ status = "idle" /\ begun = 0
    /\ tick = Resting /\ refresh = Nothing
    /\ shown = Nothing /\ rows = <<>> /\ cursor = -1
-----------------------------------------------------------------------------
\* The controller

Begin ==
    /\ status # "transferring" /\ begun < MaxTransfers
    /\ status' = "transferring" /\ begun' = begun + 1
    /\ Reset
    /\ UNCHANGED clientVars

Emit ==
    /\ status = "transferring" /\ nextId <= MaxEvents
    /\ \E seq \in Packets : Record(seq)
    /\ UNCHANGED <<status, begun, clientVars>>

\* completed, failed or cancelled
End ==
    /\ status = "transferring"
    /\ status' = "ended"
    /\ UNCHANGED <<begun, logVars, clientVars>>
-----------------------------------------------------------------------------
\* A tick: at most one in flight.

TickStatus ==
    /\ tick.at = "rest"
    /\ tick' = [at |-> "status", status |-> status]
    /\ UNCHANGED <<controllerVars, refresh, shown, rows, cursor>>

TickEvents ==
    /\ tick.at = "status"
    /\ tick' = [at |-> "events", status |-> tick.status, told |-> PacketEvents(cursor)]
    /\ UNCHANGED <<controllerVars, refresh, shown, rows, cursor>>

TickRows ==
    /\ tick.at = "events"
    /\ tick' = [at |-> "rows", status |-> tick.status, told |-> tick.told,
                rows |-> PacketLog(RowLimit)]
    /\ UNCHANGED <<controllerVars, refresh, shown, rows, cursor>>

TickShows ==
    /\ tick.at = "rows"
    /\ cursor' = tick.told.cursor
    /\ shown' = tick.status /\ rows' = tick.rows
    /\ tick' = Resting
    /\ UNCHANGED <<controllerVars, refresh>>

\* Mutant of TickFails: the poll is not marked as over.
StaysInFlight ==
    /\ tick.at \in {"status", "events", "rows"}
    /\ tick' = [at |-> "lost"]
    /\ UNCHANGED <<controllerVars, refresh, shown, rows, cursor>>

\* A request fails: nothing is shown, the next interval tries again.
TickFails ==
    /\ tick.at # "rest"
    /\ tick' = Resting
    /\ UNCHANGED <<controllerVars, refresh, shown, rows, cursor>>
-----------------------------------------------------------------------------
\* A refresh: its answer may come after that of a later tick.

RefreshStatus ==
    /\ refresh = Nothing
    /\ refresh' = status
    /\ UNCHANGED <<controllerVars, tick, shown, rows, cursor>>

RefreshShows ==
    /\ refresh # Nothing
    /\ shown' = refresh /\ refresh' = Nothing
    /\ UNCHANGED <<controllerVars, tick, rows, cursor>>
-----------------------------------------------------------------------------
TickMoves == TickStatus \/ TickEvents \/ TickRows \/ TickShows

Next ==
    \/ Begin \/ Emit \/ End
    \/ TickMoves \/ TickFails
    \/ RefreshStatus \/ RefreshShows

Spec == Init /\ [][Next]_vars

\* A transfer ends (FileTransfer!TransferEnds), the interval timer of the page
\* goes on and not every poll fails, a refresh is answered.
FairSpec ==
    /\ Spec
    /\ WF_vars(End)
    /\ WF_vars(TickStatus)
    /\ SF_vars(TickEvents) /\ SF_vars(TickRows) /\ SF_vars(TickShows)
    /\ WF_vars(RefreshShows)
-----------------------------------------------------------------------------
\* Events come in the order they happened and none comes twice, across
\* transfers, trimmed rings and failed polls: what an answer holds is newer
\* than the cursor it was asked with (event_log.py:22-26, 87-105).
ComesOnce ==
    [][TickShows =>
        LET es == tick.told.events
        IN /\ cursor' >= cursor
           /\ \A i \in 1..Len(es) : es[i].id > cursor /\ es[i].id <= cursor'
           /\ \A i, j \in 1..Len(es) : i < j => es[i].id < es[j].id]_vars

\* The page does not stay behind: when the transfers are over it shows their
\* outcome and the last rows for good, whatever order the answers came in.
ShowsOutcome == <>[](shown = status /\ rows = PacketLog(RowLimit))
-----------------------------------------------------------------------------
\* useStatusPolling.ts:14-16, the client gets "a monotonic, gap-free stream": an
\* answer holds every event between two cursors or says that there is a gap
\* (event_log.py:99-101).  Refuted by more events than one answer may hold.
NoSilentGap ==
    [][TickShows /\ cursor >= 0 =>
        tick.told.gap \/ Len(tick.told.events) = cursor' - cursor]_vars
=============================================================================
