---------------------------- MODULE PanelsProofs ----------------------------
(***************************************************************************)
(* The forms of the page, for every number of nodes, settings, edits and   *)
(* calls: a form that was not edited shows the settings the page was told, *)
(* and nothing but its own successful call takes an edit away.             *)
(***************************************************************************)
EXTENDS Panels, TLAPS

\* A call belongs to a form that is mounted, or to none.
CallsHaveTheirForm == \A c \in calls : c.form \in Here \cup {"unmounted"}

\* Only a node is told to follow the global settings.
OnlyNodesFollow == \A c \in calls : c.on \in Cards => c.value \in Values

\* What the fault simulation sends is valid.
LabIsValid == "lab" \in Here => form["lab"].draft \in Values

PanelsInv ==
    TypeOK /\ CallsHaveTheirForm /\ OnlyNodesFollow /\ LabIsValid /\ UnsavedIsMarked
-----------------------------------------------------------------------------
LEMMA ConstantsLemma ==
    /\ Global \notin Values /\ Bad \notin Values /\ Global # Bad
    /\ MaxEdits \in Nat /\ MaxPresses \in Nat /\ Values # {}
    /\ \A n \in Nodes : n \notin Cards
BY PanelsAssumption DEF Global, Bad

\* An inspector is mounted only while a node is selected.
LEMMA MountedLemma ==
    ASSUME NEW op \in BOOLEAN, NEW st \in {"config", "lab", "node"},
           NEW sel \in Nodes \cup {NoNode}
    PROVE  /\ Mounted(op, st, sel) \subseteq Forms
           /\ \A k \in Mounted(op, st, sel) :
                 /\ Target(k, sel) \in Settings
                 /\ k \in Cards => Target(k, sel) = k
                 /\ k \in Inspectors => Target(k, sel) \in Nodes
<1>1. LeftTab(st, sel) \in {"config", "lab", "node"} /\ (LeftTab(st, sel) = "node" => sel # NoNode)
  BY DEF LeftTab
<1>2. Mounted(op, st, sel) \subseteq Forms
  BY <1>1 DEF Mounted, Forms, Cards, Inspectors
<1>3. \A k \in Mounted(op, st, sel) : k \in Inspectors => sel \in Nodes
  BY <1>1 DEF Mounted, Inspectors
<1>4. \A k \in Cards : k \notin Inspectors
  BY DEF Cards, Inspectors
<1> QED
  BY <1>2, <1>3, <1>4 DEF Target, Settings, Forms

LEMMA HereLemma ==
    ASSUME TypeOK
    PROVE  /\ Here \subseteq Forms
           /\ \A k \in Here : /\ Target(k, selected) \in Settings
                              /\ k \in Cards => Target(k, selected) = k
                              /\ k \in Inspectors => Target(k, selected) \in Nodes
BY MountedLemma DEF Here, TypeOK

\* What is in force is valid everywhere.
LEMMA InForceLemma == ASSUME TypeOK PROVE InForce \in [Settings -> Values]
<1>1. \A s \in Settings : Effective(s) \in Values
  BY DEF TypeOK, Effective, Settings, Cards
<1> QED
  BY <1>1 DEF InForce

\* The forms after a change of the page: each shows what the page was told or is marked
\* as edited, and an edit of the card or an inspector stays.
LEMMA RenderedLemma ==
    ASSUME PanelsInv, NEW op \in BOOLEAN, NEW st \in {"config", "lab", "node"},
           NEW sel \in Nodes \cup {NoNode}, NEW told \in [Settings -> Values]
    PROVE  LET drawn == Rendered(op, st, sel, told)
               now   == Mounted(op, st, sel)
           IN  /\ drawn \in [Forms -> [draft : Values \cup {Bad}, dirty : BOOLEAN]]
               /\ "lab" \in now => drawn["lab"].draft \in Values
               /\ \A k \in now : ~drawn[k].dirty => drawn[k].draft = told[Target(k, sel)]
               /\ \A k \in (Inspectors \cup {"card"}) \cap Here \cap now :
                     form[k].dirty => drawn[k] = form[k]
<1> DEFINE drawn == Rendered(op, st, sel, told)
           now == Mounted(op, st, sel)
           Row(k) == IF k \notin now THEN Closed
                     ELSE IF k \notin Here THEN Follow(told[Target(k, sel)])
                     ELSE IF k \in Inspectors \cup {"card"}
                     THEN FollowIfClean(form[k], told[Target(k, sel)])
                     ELSE FollowIfChanged(form[k], shown[k], told[k])
           Draft == [draft : Values \cup {Bad}, dirty : BOOLEAN]
<1>1. drawn = [k \in Forms |-> Row(k)]
  BY DEF Rendered
<1>2. /\ now \subseteq Forms
      /\ \A k \in now : /\ Target(k, sel) \in Settings
                        /\ k \in Cards => Target(k, sel) = k
  BY MountedLemma
<1>3. \A k \in Here \cap Cards : ~form[k].dirty => form[k].draft = shown[k]
  BY HereLemma DEF PanelsInv, UnsavedIsMarked
<1>4. \A k \in Forms : form[k] \in Draft
  BY DEF PanelsInv, TypeOK
<1>5. \A k \in Forms : k \in Cards \ {"card"} \/ k \in Inspectors \cup {"card"}
  BY DEF Forms
<1>6. Closed \in Draft /\ \A v \in Values : Follow(v) \in Draft
  BY DEF Closed, Follow
<1>7. \A v : Follow(v).draft = v /\ ~Follow(v).dirty
  BY DEF Follow
<1> HIDE DEF now, Draft
<1>8. ASSUME NEW k \in Forms
      PROVE  /\ Row(k) \in Draft
             /\ k \in now /\ ~Row(k).dirty => Row(k).draft = told[Target(k, sel)]
             /\ k \in (Inspectors \cup {"card"}) \cap Here \cap now /\ form[k].dirty
                   => Row(k) = form[k]
             /\ k = "lab" /\ k \in now => Row(k).draft \in Values
  <2>1. CASE k \notin now
    BY <2>1, <1>6
  <2>2. CASE k \in now /\ k \notin Here
    BY <2>2, <1>2, <1>6, <1>7
  <2>3. CASE k \in now /\ k \in Here /\ k \in Inspectors \cup {"card"}
    <3>1. Row(k) = FollowIfClean(form[k], told[Target(k, sel)])
      BY <2>3
    <3>2. k # "lab" /\ told[Target(k, sel)] \in Values
      BY <2>3, <1>2 DEF Inspectors
    <3>3. CASE form[k].dirty
      BY <3>1, <3>2, <3>3, <1>4 DEF FollowIfClean
    <3>4. CASE ~form[k].dirty
      BY <3>1, <3>2, <3>4, <1>6, <1>7 DEF FollowIfClean
    <3> QED
      BY <3>3, <3>4
  <2>4. CASE k \in now /\ k \in Here /\ k \notin Inspectors \cup {"card"}
    <3>1. Row(k) = FollowIfChanged(form[k], shown[k], told[k])
      BY <2>4
    <3>2. k \in Cards /\ Target(k, sel) = k /\ told[k] \in Values
      BY <2>4, <1>2, <1>5 DEF Settings
    <3>3. CASE told[k] # shown[k]
      BY <3>1, <3>2, <3>3, <2>4, <1>6, <1>7 DEF FollowIfChanged
    <3>4. CASE told[k] = shown[k]
      <4>1. Row(k) = form[k]
        BY <3>1, <3>4 DEF FollowIfChanged
      <4>2. k = "lab" => form[k].draft \in Values
        BY <2>4 DEF PanelsInv, LabIsValid
      <4> QED
        BY <4>1, <4>2, <3>2, <3>4, <2>4, <1>3, <1>4
    <3> QED
      BY <3>3, <3>4
  <2> QED
    BY <2>1, <2>2, <2>3, <2>4
<1> HIDE DEF Row
<1>9. \A k \in Forms : drawn[k] = Row(k)
  BY <1>1
<1>10. drawn \in [Forms -> Draft]
  BY <1>1, <1>8
<1> HIDE DEF drawn
<1>11. "lab" \in Forms /\ Inspectors \cup {"card"} \subseteq Forms
  BY DEF Forms, Cards
<1> QED
  BY <1>2, <1>8, <1>9, <1>10, <1>11 DEF now, drawn, Draft
-----------------------------------------------------------------------------
LEMMA InitPanels == Init => PanelsInv
<1> SUFFICES ASSUME Init PROVE PanelsInv
  OBVIOUS
<1> DEFINE v == CHOOSE v \in Values : TRUE
<1>1. v \in Values
  BY ConstantsLemma
<1> HIDE DEF v
<1>2. server = [s \in Settings |-> IF s \in Nodes THEN Global ELSE v]
  BY DEF Init, v
<1>3. /\ server \in [Settings -> Values \cup {Global}]
      /\ \A c \in Cards : server[c] \in Values
  BY <1>1, <1>2, ConstantsLemma DEF Settings
<1>4. \A s \in Settings : Effective(s) \in Values
  BY <1>3 DEF Effective, Settings, Cards
<1>5. shown \in [Settings -> Values] /\ calls = {} /\ busy = FALSE
  BY <1>4 DEF Init, InForce
<1>6. Here = {"card", "window"}
  BY DEF Init, Here, Mounted, LeftTab
<1>7. form = [k \in Forms |-> IF k \in {"card", "window"} THEN Follow(shown[k]) ELSE Closed]
  BY DEF Init
<1>8. \A k \in {"card", "window"} :
          /\ k \in Forms /\ k \in Settings /\ shown[k] \in Values /\ Target(k, selected) = k
  BY <1>5 DEF Forms, Settings, Cards, Target, Inspectors
<1>9. form \in [Forms -> [draft : Values \cup {Bad}, dirty : BOOLEAN]]
  BY <1>7, <1>8 DEF Follow, Closed
<1>10. TypeOK
  <2>1. 0 \in 0..MaxEdits /\ 0 \in 0..MaxPresses
    BY ConstantsLemma
  <2>2. edits = 0 /\ presses = 0 /\ open = TRUE /\ leftState = "config" /\ selected = NoNode
    BY DEF Init
  <2> QED
    BY <1>3, <1>5, <1>9, <2>1, <2>2 DEF TypeOK
<1>11. UnsavedIsMarked
  BY <1>6, <1>7, <1>8 DEF UnsavedIsMarked, Follow
<1> QED
  BY <1>5, <1>6, <1>10, <1>11 DEF PanelsInv, CallsHaveTheirForm, OnlyNodesFollow, LabIsValid

\* A tab is chosen, a node selected or deselected.
LEMMA ArrangeKeeps ==
    ASSUME PanelsInv, NEW op \in BOOLEAN, NEW st \in {"config", "lab", "node"},
           NEW sel \in Nodes \cup {NoNode}, Arrange(op, st, sel)
    PROVE  PanelsInv'
<1> DEFINE now == Mounted(op, st, sel)
           Left(c) == IF c.form \in now THEN c ELSE [c EXCEPT !.form = "unmounted"]
<1>1. /\ open' = op /\ leftState' = st /\ selected' = sel
      /\ form' = Rendered(op, st, sel, shown)
      /\ calls' = {Left(c) : c \in calls}
      /\ UNCHANGED <<server, shown, busy, presses, edits>>
  BY DEF Arrange, Unmount
<1>2. Here' = now
  BY <1>1 DEF Here
<1>3. shown \in [Settings -> Values]
  BY DEF PanelsInv, TypeOK
<1>4. /\ form' \in [Forms -> [draft : Values \cup {Bad}, dirty : BOOLEAN]]
      /\ "lab" \in now => form'["lab"].draft \in Values
      /\ \A k \in now : ~form'[k].dirty => form'[k].draft = shown[Target(k, sel)]
  BY <1>1, <1>3, RenderedLemma
<1> HIDE DEF now
<1>5. ASSUME NEW c \in calls
      PROVE  /\ Left(c) \in Call /\ Left(c).on = c.on /\ Left(c).value = c.value
             /\ Left(c).form \in now \cup {"unmounted"}
  <2>1. c \in Call
    BY DEF PanelsInv, TypeOK
  <2> QED
    BY <2>1 DEF Call
<1> HIDE DEF Left
<1>6. calls' \subseteq Call /\ CallsHaveTheirForm'
  BY <1>1, <1>2, <1>5 DEF CallsHaveTheirForm
<1>7. OnlyNodesFollow'
  BY <1>1, <1>5 DEF PanelsInv, OnlyNodesFollow
<1>8. TypeOK'
  BY <1>1, <1>4, <1>6 DEF PanelsInv, TypeOK
<1>9. LabIsValid' /\ UnsavedIsMarked'
  BY <1>1, <1>2, <1>4 DEF LabIsValid, UnsavedIsMarked, Target
<1> QED
  BY <1>6, <1>7, <1>8, <1>9 DEF PanelsInv

\* A form that is edited, or put back, and nothing else.
LEMMA FormKeeps ==
    ASSUME PanelsInv, NEW k \in Here, NEW f \in [draft : Values \cup {Bad}, dirty : BOOLEAN],
           form' = [form EXCEPT ![k] = f], edits' \in 0..MaxEdits,
           k = "lab" => f.draft \in Values,
           ~f.dirty => f.draft = shown[Target(k, selected)],
           UNCHANGED <<server, shown, panelVars, callVars>>
    PROVE  PanelsInv'
<1>1. k \in Forms /\ form \in [Forms -> [draft : Values \cup {Bad}, dirty : BOOLEAN]]
  BY HereLemma DEF PanelsInv, TypeOK
<1>2. /\ form' \in [Forms -> [draft : Values \cup {Bad}, dirty : BOOLEAN]]
      /\ form'[k] = f /\ \A j \in Forms \ {k} : form'[j] = form[j]
  BY <1>1
<1>3. Here' = Here /\ Here \subseteq Forms
  BY HereLemma DEF Here, panelVars, PanelsInv
<1>4. TypeOK'
  BY <1>2 DEF PanelsInv, TypeOK, panelVars, callVars
<1>5. LabIsValid' /\ UnsavedIsMarked'
  BY <1>2, <1>3 DEF PanelsInv, LabIsValid, UnsavedIsMarked, Target, panelVars
<1>6. CallsHaveTheirForm' /\ OnlyNodesFollow'
  BY <1>3 DEF PanelsInv, CallsHaveTheirForm, OnlyNodesFollow, callVars
<1> QED
  BY <1>4, <1>5, <1>6 DEF PanelsInv

\* A button is pressed.
LEMMA PressKeeps ==
    ASSUME PanelsInv, NEW k \in Here, NEW value \in Values \cup {Global},
           k \in Cards => value \in Values, Press(k, value), UNCHANGED form
    PROVE  PanelsInv'
<1> DEFINE c == [form |-> k, on |-> Target(k, selected), value |-> value,
                 press |-> presses + 1, at |-> "asked"]
<1>1. /\ calls' = calls \cup {c} /\ presses < MaxPresses
      /\ busy' = TRUE /\ presses' = presses + 1
      /\ UNCHANGED <<server, shown, panelVars, edits>>
  BY DEF Press
<1>2. presses + 1 \in 1..MaxPresses /\ presses + 1 \in 0..MaxPresses
  BY <1>1, ConstantsLemma DEF PanelsInv, TypeOK
<1>3. /\ k \in Forms /\ Target(k, selected) \in Settings
      /\ k \in Cards => Target(k, selected) = k
      /\ k \in Inspectors => Target(k, selected) \in Nodes
  BY HereLemma DEF PanelsInv
<1>4. c \in Call /\ c.form = k /\ c.value = value /\ c.on = Target(k, selected)
  BY <1>2, <1>3 DEF Call
<1> HIDE DEF c
<1>5. c.on \in Cards => c.value \in Values
  BY <1>3, <1>4, ConstantsLemma DEF Forms
<1>6. Here' = Here
  BY <1>1 DEF Here, panelVars
<1>7. TypeOK'
  BY <1>1, <1>2, <1>4 DEF PanelsInv, TypeOK, panelVars
<1>8. CallsHaveTheirForm' /\ OnlyNodesFollow'
  BY <1>1, <1>4, <1>5, <1>6 DEF PanelsInv, CallsHaveTheirForm, OnlyNodesFollow
<1>9. LabIsValid' /\ UnsavedIsMarked'
  BY <1>1, <1>6 DEF PanelsInv, LabIsValid, UnsavedIsMarked, Target, panelVars
<1> QED
  BY <1>7, <1>8, <1>9 DEF PanelsInv

\* A call moves on.
LEMMA MovesKeeps ==
    ASSUME PanelsInv, NEW c \in calls, NEW to \in {"ok", "error", "refresh ok", "refresh error"},
           Moves(c, to), busy' \in BOOLEAN,
           server' \in [Settings -> Values \cup {Global}], \A s \in Cards : server'[s] \in Values,
           UNCHANGED <<shown, panelVars, form, presses, edits>>
    PROVE  PanelsInv'
<1> DEFINE d == [c EXCEPT !.at = to]
<1>1. c \in Call
  BY DEF PanelsInv, TypeOK
<1>2. d \in Call /\ d.form = c.form /\ d.on = c.on /\ d.value = c.value
  BY <1>1 DEF Call
<1>3. calls' = (calls \ {c}) \cup {d}
  BY DEF Moves
<1> HIDE DEF d
<1>4. Here' = Here
  BY DEF Here, panelVars
<1>5. TypeOK'
  BY <1>2, <1>3 DEF PanelsInv, TypeOK, panelVars
<1>6. CallsHaveTheirForm' /\ OnlyNodesFollow'
  BY <1>2, <1>3, <1>4 DEF PanelsInv, CallsHaveTheirForm, OnlyNodesFollow
<1>7. LabIsValid' /\ UnsavedIsMarked'
  BY <1>4 DEF PanelsInv, LabIsValid, UnsavedIsMarked, Target, panelVars
<1> QED
  BY <1>5, <1>6, <1>7 DEF PanelsInv

\* The page is told something, by a poll or by the refresh that ends a call, and a form
\* may be put back with it.
LEMMA ToldKeeps ==
    ASSUME PanelsInv, NEW told \in [Settings -> Values], shown' = told,
           NEW drawn, drawn = Rendered(open, leftState, selected, told),
           NEW D \in SUBSET Here,
           form' = [k \in Forms |-> IF k \in D THEN Follow(told[Target(k, selected)])
                                    ELSE drawn[k]],
           calls' \subseteq calls, UNCHANGED <<server, panelVars, busy, presses, edits>>
    PROVE  PanelsInv'
<1>1. /\ Here' = Here /\ Here \subseteq Forms
      /\ \A k \in Here : Target(k, selected) \in Settings
  BY HereLemma DEF Here, panelVars, PanelsInv
<1>2. /\ drawn \in [Forms -> [draft : Values \cup {Bad}, dirty : BOOLEAN]]
      /\ "lab" \in Here => drawn["lab"].draft \in Values
      /\ \A k \in Here : ~drawn[k].dirty => drawn[k].draft = told[Target(k, selected)]
  BY RenderedLemma DEF PanelsInv, TypeOK, Here
<1>3. \A k \in D : told[Target(k, selected)] \in Values
  BY <1>1
<1>4. \A v \in Values : /\ Follow(v) \in [draft : Values \cup {Bad}, dirty : BOOLEAN]
                        /\ Follow(v).draft = v
  BY DEF Follow
<1>5. form' \in [Forms -> [draft : Values \cup {Bad}, dirty : BOOLEAN]]
  BY <1>2, <1>3, <1>4
<1>6. TypeOK'
  BY <1>5 DEF PanelsInv, TypeOK, panelVars
<1>7. CallsHaveTheirForm' /\ OnlyNodesFollow'
  BY <1>1 DEF PanelsInv, CallsHaveTheirForm, OnlyNodesFollow
<1>8. LabIsValid'
  BY <1>1, <1>2, <1>3, <1>4 DEF LabIsValid
<1>9. UnsavedIsMarked'
  BY <1>1, <1>2, <1>3, <1>4 DEF UnsavedIsMarked, Target, panelVars
<1> QED
  BY <1>6, <1>7, <1>8, <1>9 DEF PanelsInv
-----------------------------------------------------------------------------
\* A press, whichever it is.
LEMMA PressesKeep ==
    ASSUME PanelsInv, Save \/ Apply \/ CommitWindow \/ Reset
    PROVE  PanelsInv'
<1>1. /\ Here \subseteq Forms
      /\ \A k \in Forms : form[k].draft \in Values \cup {Bad}
      /\ Inspectors \cap Cards = {}
  BY HereLemma DEF PanelsInv, TypeOK, Inspectors, Cards
<1>2. CASE Save
  <2>1. PICK k \in Inspectors \cup {"card"} :
            k \in Here /\ Valid(k) /\ Press(k, form[k].draft) /\ UNCHANGED form
    BY <1>2 DEF Save
  <2>2. form[k].draft \in Values
    BY <1>1, <2>1 DEF Valid
  <2> QED
    BY <2>1, <2>2, PressKeeps
<1>3. CASE Apply
  <2>1. "lab" \in Here /\ Press("lab", form["lab"].draft) /\ UNCHANGED form
    BY <1>3 DEF Apply
  <2>2. form["lab"].draft \in Values
    BY <2>1 DEF PanelsInv, LabIsValid
  <2> QED
    BY <2>1, <2>2, PressKeeps
<1>4. CASE CommitWindow
  <2>1. "window" \in Here /\ "window" \in Cards /\ "window" \in Forms
    BY <1>4 DEF CommitWindow, Cards, Forms
  <2>2. CASE form["window"].draft \in Values \ {shown["window"]}
    <3>1. Press("window", form["window"].draft) /\ UNCHANGED form
      BY <1>4, <2>2 DEF CommitWindow
    <3> QED
      BY <2>1, <2>2, <3>1, PressKeeps
  <2>3. CASE form["window"].draft \notin Values \ {shown["window"]}
    <3> DEFINE f == Follow(shown["window"])
    <3>1. /\ form' = [form EXCEPT !["window"] = f]
          /\ UNCHANGED <<server, shown, panelVars, callVars, edits>>
      BY <1>4, <2>3 DEF CommitWindow
    <3>2. Target("window", selected) = "window" /\ shown["window"] \in Values
      BY <2>1, HereLemma DEF PanelsInv, TypeOK
    <3>3. /\ f \in [draft : Values \cup {Bad}, dirty : BOOLEAN]
          /\ f.draft = shown[Target("window", selected)]
      BY <3>2 DEF Follow
    <3>4. edits' \in 0..MaxEdits
      BY <3>1 DEF PanelsInv, TypeOK
    <3> HIDE DEF f
    <3> QED
      BY <2>1, <3>1, <3>3, <3>4, FormKeeps
  <2> QED
    BY <2>2, <2>3
<1>5. CASE Reset
  <2>1. PICK k \in Inspectors \cap Here : Press(k, Global) /\ UNCHANGED form
    BY <1>5 DEF Reset
  <2> QED
    BY <1>1, <2>1, PressKeeps
<1> QED
  BY <1>2, <1>3, <1>4, <1>5

LEMMA EditKeeps == ASSUME PanelsInv, Edit PROVE PanelsInv'
<1>1. PICK k \in Forms : /\ CanEdit(k)
                         /\ \E v \in Inputs(k) : form' = [form EXCEPT ![k] = Edited(@, v)]
  BY DEF Edit
<1>0. PICK v \in Inputs(k) : form' = [form EXCEPT ![k] = Edited(@, v)]
  BY <1>1
<1> DEFINE f == Edited(form[k], v)
<1>2. k \in Here /\ form' = [form EXCEPT ![k] = f]
  BY <1>0, <1>1 DEF CanEdit
<1>3. /\ f \in [draft : Values \cup {Bad}, dirty : BOOLEAN] /\ f.dirty
      /\ k = "lab" => f.draft \in Values
  BY DEF Edited, Inputs
<1>4. /\ edits' \in 0..MaxEdits
      /\ UNCHANGED <<server, shown, panelVars, callVars>>
  BY ConstantsLemma DEF Edit, PanelsInv, TypeOK
<1> HIDE DEF f
<1> QED
  BY <1>2, <1>3, <1>4, FormKeeps

\* The answer, its loss and the end of a call.
LEMMA CallsKeep == ASSUME PanelsInv, Answer \/ RequestLost \/ Settle PROVE PanelsInv'
<1>1. /\ busy \in BOOLEAN /\ server \in [Settings -> Values \cup {Global}]
      /\ \A s \in Cards : server[s] \in Values
      /\ \A c \in calls : c \in Call
  BY DEF PanelsInv, TypeOK
<1>2. CASE Answer
  <2>1. PICK c \in calls : /\ server' = [server EXCEPT ![c.on] = c.value]
                           /\ Moves(c, "ok") \/ Moves(c, "error")
    BY <1>2 DEF Answer
  <2>2. UNCHANGED <<shown, panelVars, form, busy, presses, edits>>
    BY <1>2 DEF Answer
  <2>3. c.on \in Settings /\ c.value \in Values \cup {Global}
    BY <1>1 DEF Call
  <2>4. server' \in [Settings -> Values \cup {Global}]
    BY <1>1, <2>1, <2>3
  <2>5. \A s \in Cards : server'[s] \in Values
    BY <1>1, <2>1, <2>3 DEF PanelsInv, OnlyNodesFollow, Settings
  <2> QED
    BY <1>1, <2>1, <2>2, <2>4, <2>5, MovesKeeps
<1>3. CASE RequestLost
  BY <1>1, <1>3, MovesKeeps DEF RequestLost
<1>4. CASE Settle
  BY <1>1, <1>4, MovesKeeps DEF Settle
<1> QED
  BY <1>2, <1>3, <1>4

LEMMA ReturnKeeps == ASSUME PanelsInv, Return PROVE PanelsInv'
<1>1. PICK c \in calls, told \in {shown, InForce} :
          /\ shown' = told
          /\ form' = IF Forgives(c)
                     THEN [Rendered(open, leftState, selected, told) EXCEPT
                              ![c.form] = Follow(told[Target(c.form, selected)])]
                     ELSE Rendered(open, leftState, selected, told)
          /\ calls' = calls \ {c}
  BY DEF Return
<1>2. told \in [Settings -> Values]
  BY InForceLemma DEF PanelsInv, TypeOK
<1>3. Forgives(c) => c.form \in Here
  BY DEF PanelsInv, CallsHaveTheirForm, Forgives, Inspectors
<1>4. PICK D : D = IF Forgives(c) THEN {c.form} ELSE {}
  OBVIOUS
<1>5. PICK drawn : drawn = Rendered(open, leftState, selected, told)
  OBVIOUS
<1>6. drawn = [k \in Forms |-> drawn[k]]
  BY <1>5 DEF Rendered
<1>7. form' = [k \in Forms |-> IF k \in D THEN Follow(told[Target(k, selected)])
                               ELSE drawn[k]]
  <2>1. CASE Forgives(c)
    BY <2>1, <1>1, <1>4, <1>5, <1>6
  <2>2. CASE ~Forgives(c)
    BY <2>2, <1>1, <1>4, <1>5, <1>6
  <2> QED
    BY <2>1, <2>2
<1>8. D \in SUBSET Here /\ calls' \subseteq calls
  BY <1>1, <1>3, <1>4
<1>9. UNCHANGED <<server, panelVars, busy, presses, edits>>
  BY DEF Return
<1> QED
  BY <1>1, <1>2, <1>5, <1>7, <1>8, <1>9, ToldKeeps

LEMMA PollKeeps == ASSUME PanelsInv, Poll PROVE PanelsInv'
<1>1. PICK told : told = InForce
  OBVIOUS
<1>2. PICK drawn : drawn = Rendered(open, leftState, selected, told)
  OBVIOUS
<1>3. PICK D : D = {}
  OBVIOUS
<1>4. /\ shown' = told /\ form' = drawn
      /\ UNCHANGED <<server, panelVars, callVars, edits>>
  BY <1>1, <1>2 DEF Poll
<1>5. told \in [Settings -> Values]
  BY <1>1, InForceLemma DEF PanelsInv
<1>6. drawn = [k \in Forms |-> drawn[k]]
  BY <1>2 DEF Rendered
<1>7. form' = [k \in Forms |-> IF k \in D THEN Follow(told[Target(k, selected)])
                               ELSE drawn[k]]
  BY <1>3, <1>4, <1>6
<1>8. D \in SUBSET Here /\ calls' \subseteq calls
  BY <1>3, <1>4 DEF callVars
<1>9. UNCHANGED <<server, panelVars, busy, presses, edits>>
  BY <1>4 DEF callVars
<1> QED
  BY <1>2, <1>4, <1>5, <1>7, <1>8, <1>9, ToldKeeps
-----------------------------------------------------------------------------
\* A choice of tab or node arranges the forms anew.
LEMMA ArrangesLemma ==
    ASSUME TypeOK, ClickNode \/ ReleaseBackground \/ PressEscape \/ OpenConfig \/ SetTab
                   \/ ToggleLeft
    PROVE  \E op \in BOOLEAN, st \in {"config", "lab", "node"}, sel \in Nodes \cup {NoNode} :
              Arrange(op, st, sel)
<1>1. CASE ClickNode \/ ReleaseBackground \/ PressEscape
  BY <1>1 DEF TypeOK, ClickNode, ReleaseBackground, PressEscape, Deselect
<1>2. CASE OpenConfig
  BY <1>2 DEF TypeOK, OpenConfig
<1>3. CASE SetTab
  BY <1>3 DEF TypeOK, SetTab
<1>4. CASE ToggleLeft
  BY <1>4 DEF TypeOK, ToggleLeft
<1> QED
  BY <1>1, <1>2, <1>3, <1>4

LEMMA NextPanels == ASSUME PanelsInv, [Next]_vars PROVE PanelsInv'
<1>1. CASE ClickNode \/ ReleaseBackground \/ PressEscape \/ OpenConfig \/ SetTab \/ ToggleLeft
  BY <1>1, ArrangesLemma, ArrangeKeeps DEF PanelsInv
<1>2. CASE Edit
  BY <1>2, EditKeeps
<1>3. CASE Save \/ Apply \/ CommitWindow \/ Reset
  BY <1>3, PressesKeep
<1>4. CASE Answer \/ RequestLost \/ Settle
  BY <1>4, CallsKeep
<1>5. CASE Return
  BY <1>5, ReturnKeeps
<1>6. CASE Poll
  BY <1>6, PollKeeps
<1>7. CASE UNCHANGED vars
  BY <1>7 DEF vars, panelVars, callVars, PanelsInv, TypeOK, CallsHaveTheirForm,
     OnlyNodesFollow, LabIsValid, UnsavedIsMarked, Here, Target
<1> QED
  BY <1>1, <1>2, <1>3, <1>4, <1>5, <1>6, <1>7 DEF Next

LEMMA PanelsInvHolds == Spec => []PanelsInv
<1>1. Init => PanelsInv
  BY InitPanels
<1>2. PanelsInv /\ [Next]_vars => PanelsInv'
  BY NextPanels
<1> QED
  BY <1>1, <1>2, PTL DEF Spec
-----------------------------------------------------------------------------
\* The settings, the forms and the calls between them stay in the states they have; in
\* particular what is sent for a node or a card is a setting it accepts.
THEOREM TypeCorrect == Spec => []TypeOK
<1>1. PanelsInv => TypeOK
  BY DEF PanelsInv
<1> QED
  BY <1>1, PanelsInvHolds, PTL

\* A mounted form that differs from what the page was told is marked as edited,
\* whatever was selected, polled, saved or mounted meanwhile (NodeInspector.tsx:122-129,
\* TransferConfigCard.tsx:24-32, TestingPanel.tsx:31-41).
THEOREM UnsavedIsMarkedHolds == Spec => []UnsavedIsMarked
<1>1. PanelsInv => UnsavedIsMarked
  BY DEF PanelsInv
<1> QED
  BY <1>1, PanelsInvHolds, PTL

\* What is typed into the settings card or an inspector is taken away by its own
\* successful call only (TransferConfigCard.tsx:86-90, NodeInspector.tsx:153-164).
THEOREM DraftKeptHolds == Spec => DraftKept
<1> DEFINE A == \A k \in Inspectors \cup {"card"} :
                   k \in Here \cap Here' /\ form[k].dirty /\ edits' = edits
                       /\ form'[k] # form[k] =>
                     \E c \in calls \ calls' : c.form = k /\ c.at = "refresh ok"
<1>1. ASSUME PanelsInv, [Next]_vars PROVE [A]_vars
  <2> SUFFICES ASSUME NEW k \in Inspectors \cup {"card"}, k \in Here, k \in Here',
                      form[k].dirty, edits' = edits, form'[k] # form[k]
               PROVE  \E c \in calls \ calls' : c.form = k /\ c.at = "refresh ok"
    OBVIOUS
  <2>1. CASE ClickNode \/ ReleaseBackground \/ PressEscape \/ OpenConfig \/ SetTab \/ ToggleLeft
    <3>1. PICK op \in BOOLEAN, st \in {"config", "lab", "node"},
               sel \in Nodes \cup {NoNode} : Arrange(op, st, sel)
      BY <1>1, <2>1, ArrangesLemma DEF PanelsInv
    <3>2. k \in Mounted(op, st, sel) /\ form' = Rendered(op, st, sel, shown)
      BY <3>1 DEF Arrange, Here
    <3>3. shown \in [Settings -> Values]
      BY <1>1 DEF PanelsInv, TypeOK
    <3>4. form'[k] = form[k]
      BY <1>1, <3>2, <3>3, RenderedLemma
    <3> QED
      BY <3>4
  <2>2. CASE Edit
    <3>1. edits \in Nat /\ edits' = edits + 1
      BY <1>1, <2>2, ConstantsLemma DEF Edit, PanelsInv, TypeOK
    <3>2. edits' # edits
      BY <3>1
    <3> QED
      BY <3>2
  <2>3. CASE CommitWindow
    <3>1. k # "window"
      BY DEF Inspectors
    <3>2. \A f : [form EXCEPT !["window"] = f][k] = form[k]
      BY <3>1
    <3> QED
      BY <2>3, <3>2 DEF CommitWindow
  <2>4. CASE Save \/ Apply \/ Reset \/ Answer \/ RequestLost \/ Settle \/ UNCHANGED vars
    BY <2>4 DEF Save, Apply, Reset, Answer, RequestLost, Settle, vars
  <2>5. CASE Return
    <3>1. PICK c \in calls, told \in {shown, InForce} :
              /\ form' = IF Forgives(c)
                         THEN [Rendered(open, leftState, selected, told) EXCEPT
                                  ![c.form] = Follow(told[Target(c.form, selected)])]
                         ELSE Rendered(open, leftState, selected, told)
              /\ calls' = calls \ {c}
      BY <2>5 DEF Return
    <3>2. told \in [Settings -> Values]
      BY <1>1, InForceLemma DEF PanelsInv, TypeOK
    <3>3. Rendered(open, leftState, selected, told)[k] = form[k]
      BY <1>1, <3>2, RenderedLemma DEF PanelsInv, TypeOK, Here
    <3>4. Forgives(c) /\ c.form = k
      BY <3>1, <3>3
    <3>5. c \in calls \ calls' /\ c.at = "refresh ok"
      BY <3>1, <3>4 DEF Forgives
    <3> QED
      BY <3>4, <3>5
  <2>6. CASE Poll
    <3>1. form' = Rendered(open, leftState, selected, InForce)
      BY <2>6 DEF Poll
    <3>2. form'[k] = form[k]
      BY <1>1, <3>1, InForceLemma, RenderedLemma DEF PanelsInv, TypeOK, Here
    <3> QED
      BY <3>2
  <2> QED
    BY <1>1, <2>1, <2>2, <2>3, <2>4, <2>5, <2>6 DEF Next
<1> HIDE DEF A
<1>2. Spec => [][A]_vars
  BY <1>1, PanelsInvHolds, PTL DEF Spec
<1> QED
  BY <1>2 DEF A, DraftKept
=============================================================================
