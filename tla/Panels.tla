------------------------------- MODULE Panels -------------------------------
(***************************************************************************)
(* The forms of the web client over settings that the controller keeps:    *)
(* the transfer settings (TransferConfigCard.tsx), the scheduler's window  *)
(* (tabs/ConfigTab.tsx), the fault simulation (TestingPanel.tsx) and the   *)
(* node inspector (NodeInspector.tsx), which is rendered twice for the     *)
(* node selected: as the NODE tab and as a card on the canvas.             *)
(*                                                                         *)
(* A form is mounted while its tab is (app/page.tsx) and holds a draft.    *)
(* Polls bring the settings in force, saves go through runOnce             *)
(* (useTransferActions.ts).  A form's fields are one value, of a node's    *)
(* settings the latency; the topology is on.                               *)
(***************************************************************************)
EXTENDS Integers, FiniteSets

CONSTANTS
    Nodes,
    Values,     \* the settings a form accepts
    MaxEdits,
    MaxPresses  \* presses of buttons that make calls

Bad == 0                    \* an input no form accepts
Global == -1                \* a node without settings of its own

NoNode == "no node"
Cards == {"card", "window", "lab"}

ASSUME PanelsAssumption ==
    /\ Values # {} /\ Values \subseteq Nat \ {Bad}
    /\ Nodes \cap Cards = {}
    /\ MaxEdits \in Nat /\ MaxPresses \in Nat

Inspectors == {"node", "float"}
Forms == Cards \cup Inspectors
Settings == Cards \cup Nodes
Closed == [draft |-> Bad, dirty |-> FALSE]

VARIABLES
    server,     \* the settings in force
    shown,      \* the settings the page has been told
    open,       \* the controls sidebar is visible
    leftState,  \* its tab
    selected,   \* selectedNode
    form,       \* the forms: what each holds, and whether it was edited since it followed
    busy,
    calls,      \* calls of runOnce under way
    edits, presses

panelVars == <<open, leftState, selected>>
callVars == <<busy, calls, presses>>
vars == <<server, shown, panelVars, form, callVars, edits>>

Call == [form : Forms \cup {"unmounted"}, on : Settings, value : Values \cup {Global},
         press : 1..MaxPresses, at : {"asked", "ok", "error", "refresh ok", "refresh error"}]

TypeOK ==
    /\ server \in [Settings -> Values \cup {Global}]
    /\ \A c \in Cards : server[c] \in Values
    /\ shown \in [Settings -> Values]
    /\ open \in BOOLEAN /\ leftState \in {"config", "lab", "node"} /\ selected \in Nodes \cup {NoNode}
    /\ form \in [Forms -> [draft : Values \cup {Bad}, dirty : BOOLEAN]]
    /\ busy \in BOOLEAN /\ calls \subseteq Call
    /\ edits \in 0..MaxEdits /\ presses \in 0..MaxPresses

\* A node without settings of its own has the global ones.
Effective(s) == IF server[s] = Global THEN server["card"] ELSE server[s]
InForce == [s \in Settings |-> Effective(s)]
-----------------------------------------------------------------------------
\* Which forms are mounted.  The NODE tab exists while a node is selected.

LeftTab(st, sel) == IF st = "node" /\ sel = NoNode THEN "config" ELSE st

Mounted(op, st, sel) ==
    (IF ~op THEN {}
     ELSE CASE LeftTab(st, sel) = "config" -> {"card", "window"}
            [] LeftTab(st, sel) = "lab" -> {"lab"}
            [] OTHER -> {"node"})
    \cup (IF sel = NoNode THEN {} ELSE {"float"})

Here == Mounted(open, leftState, selected)
Target(k, sel) == IF k \in Inspectors THEN sel ELSE k

Follow(value) == [draft |-> value, dirty |-> FALSE]

\* Mutant of FollowIfClean: whoever has polled overwrites what is being typed.
FollowAlways(f, value) == Follow(value)

\* The effect of the settings card and of the inspector.
FollowIfClean(f, value) == IF f.dirty THEN f ELSE Follow(value)

\* Mutant of FollowIfChanged: the panel keeps what it was mounted with.
FollowNever(f, before, value) == f

\* The effect of the fault simulation and of the window.
FollowIfChanged(f, before, value) == IF value # before THEN Follow(value) ELSE f

\* The forms once a tab, a selection or what is shown has changed: those that are
\* mounted anew hold what is shown, the others follow it.
Rendered(op, st, sel, told) ==
    LET now == Mounted(op, st, sel)
    IN [k \in Forms |->
           IF k \notin now THEN Closed
           ELSE IF k \notin Here THEN Follow(told[Target(k, sel)])
           ELSE IF k \in Inspectors \cup {"card"} THEN FollowIfClean(form[k], told[Target(k, sel)])
           ELSE FollowIfChanged(form[k], shown[k], told[k])]

\* A call whose form has gone finds nobody to tell.
Unmount(now) == {IF c.form \in now THEN c ELSE [c EXCEPT !.form = "unmounted"] : c \in calls}

Init ==
    /\ server = [s \in Settings |-> IF s \in Nodes THEN Global ELSE CHOOSE v \in Values : TRUE]
    /\ shown = InForce
    /\ open = TRUE /\ leftState = "config" /\ selected = NoNode
    /\ form = [k \in Forms |-> IF k \in {"card", "window"} THEN Follow(shown[k]) ELSE Closed]
    /\ busy = FALSE /\ calls = {} /\ edits = 0 /\ presses = 0
-----------------------------------------------------------------------------
\* The sidebar and the selection

Arrange(op, st, sel) ==
    /\ open' = op /\ leftState' = st /\ selected' = sel
    /\ form' = Rendered(op, st, sel, shown)
    /\ calls' = Unmount(Mounted(op, st, sel))
    /\ UNCHANGED <<server, shown, busy, presses, edits>>

Deselect == selected # NoNode /\ Arrange(open, leftState, NoNode)

\* A node selected opens its tab, and a click on it again deselects it.
ClickNode == Deselect \/ \E n \in Nodes \ {selected} : Arrange(TRUE, "node", n)

\* A press on the background, unless it pans the canvas.
ReleaseBackground == Deselect

PressEscape == Deselect
OpenConfig == (open => leftState # "config") /\ Arrange(TRUE, "config", selected)

SetTab ==
    /\ open
    /\ \E t \in {"config", "lab"} \cup (IF selected = NoNode THEN {} ELSE {"node"}) :
          t # leftState /\ Arrange(open, t, selected)

\* In a narrow window the backdrop and the other sidebar close this one too.
ToggleLeft == Arrange(~open, leftState, selected)
-----------------------------------------------------------------------------
\* Edits.  The inspector and the window are locked while a call is under way, the
\* settings card and the fault simulation are not.

CanEdit(k) == k \in Here /\ (k \in Inspectors \cup {"window"} => ~busy)

Inputs(k) == IF k = "lab" THEN Values ELSE Values \cup {Bad}

\* Mutant of Edited: an input that forgets to touch().
EditedUntouched(f, v) == [f EXCEPT !.draft = v]

Edited(f, v) == [draft |-> v, dirty |-> TRUE]

Edit ==
    /\ edits < MaxEdits
    /\ \E k \in Forms : CanEdit(k) /\ \E v \in Inputs(k) \ {form[k].draft} :
          form' = [form EXCEPT ![k] = Edited(@, v)]
    /\ edits' = edits + 1
    /\ UNCHANGED <<server, shown, panelVars, callVars>>
-----------------------------------------------------------------------------
\* Calls

Press(k, value) ==
    /\ ~busy /\ presses < MaxPresses
    /\ busy' = TRUE /\ presses' = presses + 1
    /\ calls' = calls \cup {[form |-> k, on |-> Target(k, selected), value |-> value,
                             press |-> presses + 1, at |-> "asked"]}
    /\ UNCHANGED <<server, shown, panelVars, edits>>

\* Mutant of Valid: the form is sent as it is.
ValidAny(k) == TRUE

Valid(k) == form[k].draft # Bad

\* The settings card and the inspector send what was edited, if it is valid.
Save ==
    \E k \in Inspectors \cup {"card"} :
        /\ k \in Here /\ form[k].dirty /\ Valid(k)
        /\ Press(k, form[k].draft)
        /\ UNCHANGED form

Apply == "lab" \in Here /\ Press("lab", form["lab"].draft) /\ UNCHANGED form

\* The window is sent when its field is left, and put back when it is not valid.
CommitWindow ==
    /\ "window" \in Here
    /\ IF form["window"].draft \in Values \ {shown["window"]}
       THEN Press("window", form["window"].draft) /\ UNCHANGED form
       ELSE /\ form' = [form EXCEPT !["window"] = Follow(shown["window"])]
            /\ UNCHANGED <<server, shown, panelVars, callVars, edits>>

\* RESET: the node follows the global settings again.
Reset == \E k \in Inspectors \cap Here : Press(k, Global) /\ UNCHANGED form

Moves(c, to) == calls' = (calls \ {c}) \cup {[c EXCEPT !.at = to]}

\* The controller takes the settings; the answer may be lost.
Answer ==
    /\ \E c \in calls :
          /\ c.at = "asked"
          /\ server' = [server EXCEPT ![c.on] = c.value]
          /\ Moves(c, "ok") \/ Moves(c, "error")
    /\ UNCHANGED <<shown, panelVars, form, busy, presses, edits>>

RequestLost ==
    /\ \E c \in calls : c.at = "asked" /\ Moves(c, "error")
    /\ UNCHANGED <<server, shown, panelVars, form, busy, presses, edits>>

\* runOnce lifts the lock before it refreshes.
Settle ==
    /\ \E c \in calls : \/ c.at = "ok" /\ Moves(c, "refresh ok")
                        \/ c.at = "error" /\ Moves(c, "refresh error")
    /\ busy' = FALSE
    /\ UNCHANGED <<server, shown, panelVars, form, presses, edits>>

\* A save that succeeded leaves its form clean.
Forgives(c) == c.form \in Inspectors \cup {"card"} /\ c.at = "refresh ok"

\* The refresh shows what is in force, or fails; then the call returns to its form.
Return ==
    /\ \E c \in calls, told \in {shown, InForce} :
          /\ c.at \in {"refresh ok", "refresh error"}
          /\ shown' = told
          /\ form' = IF Forgives(c)
                     THEN [Rendered(open, leftState, selected, told) EXCEPT
                              ![c.form] = Follow(told[Target(c.form, selected)])]
                     ELSE Rendered(open, leftState, selected, told)
          /\ calls' = calls \ {c}
    /\ UNCHANGED <<server, panelVars, busy, presses, edits>>

Poll ==
    /\ shown' = InForce
    /\ form' = Rendered(open, leftState, selected, InForce)
    /\ UNCHANGED <<server, panelVars, callVars, edits>>
-----------------------------------------------------------------------------
Next ==
    \/ ClickNode \/ ReleaseBackground \/ PressEscape
    \/ OpenConfig \/ SetTab \/ ToggleLeft
    \/ Edit \/ Save \/ Apply \/ CommitWindow \/ Reset
    \/ Answer \/ RequestLost \/ Settle \/ Return \/ Poll

Spec == Init /\ [][Next]_vars

\* Polls are made, whatever becomes of the calls.
FairSpec == Spec /\ WF_vars(Poll)
-----------------------------------------------------------------------------
\* A form that shows anything but the settings the page was told was edited since
\* it last followed them: whatever was selected, polled, saved or mounted meanwhile
\* (NodeInspector.tsx:122-129, TransferConfigCard.tsx:24-32, TestingPanel.tsx:31-41).
UnsavedIsMarked ==
    \A k \in Here : ~form[k].dirty => form[k].draft = shown[Target(k, selected)]

\* No poll, no refresh and no other form's call takes away what is being typed into
\* the settings card or an inspector: only its own call, when it has succeeded
\* (TransferConfigCard.tsx:24-26, 86-90, NodeInspector.tsx:122-124, 153-164).
DraftKept ==
    [][\A k \in Inspectors \cup {"card"} :
          k \in Here \cap Here' /\ form[k].dirty /\ edits' = edits /\ form'[k] # form[k] =>
              \E c \in calls \ calls' : c.form = k /\ c.at = "refresh ok"]_vars

\* In the end every form that was not edited shows what is in force, the two inspectors
\* of a node included when one of them saved (useTransferActions.ts:28-40).
FormsConverge ==
    <>[](\A k \in Here : ~form[k].dirty => form[k].draft = Effective(Target(k, selected)))
-----------------------------------------------------------------------------
\* NodeInspector.tsx:50-52, "Per-node configuration": an inspector that comes to a node
\* shows the settings of that node.  Refuted by a draft that outlives the selection of
\* the node it was meant for, and is then saved to the other one.
ShowsTheNode ==
    [][\A k \in Inspectors \cap Here' :
          selected' # selected => form'[k].draft = shown'[selected']]_vars
=============================================================================
