--------------------------- MODULE PathScheduler ---------------------------
(***************************************************************************)
(* The multipath scheduler of the sender (backend/udp/scheduler.py): which *)
(* lane an attempt takes, and what its outcome says of the lane.           *)
(*                                                                         *)
(* An attempt of the sending thread (udp/client.py:271-300) is one step:   *)
(* pick() and record() take the scheduler's lock apart, but only state()   *)
(* can come between them, which changes nothing.  An attempt whose send    *)
(* raises is not recorded.  Ratios are per cent.                           *)
(*                                                                         *)
(* A loss is computed as 1.0 - delivered / attempts.  When it is equal to  *)
(* a threshold, rounding decides, for each threshold in its own way: 20    *)
(* per cent does not reach 0.2 (1.0 - 0.8 < 0.2).                          *)
(***************************************************************************)
EXTENDS Integers, Sequences, FiniteSets, FiniteSetsExt

CONSTANTS
    LaneCount, Window, MinSamples, ExplorePerLane,
    FlagLoss, RecoverLoss, ProbeShare,    \* per cent
    FlagsAt,       \* a loss of FlagLoss reaches it
    RecoversAt     \* a loss of RecoverLoss is below it

ASSUME SchedulerAssumption ==
    /\ LaneCount \in Nat \ {0, 1} /\ Window \in Nat \ {0, 1} /\ MinSamples \in Nat \ {0, 1}
    /\ ExplorePerLane \in Nat
    /\ FlagLoss \in 0..100 /\ RecoverLoss \in 0..100 /\ ProbeShare \in 0..50
    /\ FlagsAt \in BOOLEAN /\ RecoversAt \in BOOLEAN
    /\ FlagLoss = RecoverLoss => RecoversAt = ~FlagsAt

Lanes == 1..LaneCount
LostOne == 0
Delivered == 1

VARIABLES
    history,  \* the last outcomes of each lane
    flagged,  \* lanes that are flagged
    picks,    \* attempts so far; beyond exploration their number does not matter
    rr,       \* the next lane of the round robin
    bad       \* lanes that may lose what they carry now

schedulerVars == <<history, flagged, picks, rr>>
vars == <<schedulerVars, bad>>

Exploration == ExplorePerLane * LaneCount

TypeOK ==
    /\ history \in [Lanes -> Seq({LostOne, Delivered})]
    /\ flagged \subseteq Lanes
    /\ picks \in 0..(Exploration + 1)
    /\ rr \in Lanes
    /\ bad \subseteq Lanes

Init ==
    /\ history = [l \in Lanes |-> <<>>]
    /\ flagged = {}
    /\ picks = 0 /\ rr = 1
    /\ bad \in SUBSET Lanes
-----------------------------------------------------------------------------
\* Losses and flags

Lost(h) == Cardinality({i \in 1..Len(h) : h[i] = LostOne})

Judged(h) == Len(h) >= MinSamples

Reaches(h) ==
    \/ 100 * Lost(h) > FlagLoss * Len(h)
    \/ 100 * Lost(h) = FlagLoss * Len(h) /\ FlagsAt

Recovers(h) ==
    \/ 100 * Lost(h) < RecoverLoss * Len(h)
    \/ 100 * Lost(h) = RecoverLoss * Len(h) /\ RecoversAt

\* Mutant of Reevaluated: whether a lane has recovered is asked too early.
ReevaluatedEarly(hs) ==
    {l \in Lanes : IF l \in flagged THEN ~Recovers(history[l])
                   ELSE Judged(hs[l]) /\ Reaches(hs[l])}

\* Mutant of Reevaluated: one threshold for both.
ReevaluatedAtFlag(hs) ==
    {l \in Lanes : IF ~Judged(hs[l]) THEN l \in flagged ELSE Reaches(hs[l])}

\* The lanes that are flagged once the histories are hs.
Reevaluated(hs) ==
    {l \in Lanes : IF ~Judged(hs[l]) THEN l \in flagged
                   ELSE IF l \in flagged THEN ~Recovers(hs[l]) ELSE Reaches(hs[l])}

Remembered(h, outcome) == Append(IF Len(h) < Window THEN h ELSE Tail(h), outcome)
-----------------------------------------------------------------------------
\* Weights, as numerators over one denominator.  A lane's base is the per cent it
\* delivered, 1 at least; a lane without history counts as whole.

Base(l) ==
    LET n  == Len(history[l])
        ok == IF n = 0 THEN 100 ELSE (100 * (n - Lost(history[l]))) \div n
    IN IF ok = 0 THEN 1 ELSE ok

Healthy == Lanes \ flagged
Mixed == flagged # {} /\ Healthy # {}
TotalBase == MapThenSumSet(Base, Healthy)

Weight(l) ==
    IF ~Mixed THEN 1
    ELSE IF l \in flagged THEN ProbeShare * TotalBase
    ELSE (100 - ProbeShare) * Base(l) * Cardinality(flagged)

WholeWeight == IF ~Mixed THEN LaneCount ELSE 100 * TotalBase * Cardinality(flagged)
-----------------------------------------------------------------------------
\* Steps

\* Mutant of Picks: a flagged lane is left out.
PicksOfHealthy ==
    IF picks < Exploration THEN {(picks % LaneCount) + 1}
    ELSE IF flagged = {} THEN {rr}
    ELSE IF Healthy = {} THEN Lanes ELSE Healthy

\* Round robin while exploring and while no lane is flagged, else by weight.
Picks ==
    IF picks < Exploration THEN {(picks % LaneCount) + 1}
    ELSE IF flagged = {} THEN {rr}
    ELSE {l \in Lanes : Weight(l) > 0}

\* pick()
Picked(l) ==
    /\ l \in Picks
    /\ picks' = IF picks <= Exploration THEN picks + 1 ELSE picks
    /\ rr' = IF picks >= Exploration /\ flagged = {} THEN (rr % LaneCount) + 1 ELSE rr
    /\ UNCHANGED bad

\* record(): what a lane carries now may be lost when it is bad.
Recorded(l) ==
    \E outcome \in {Delivered} \cup (IF l \in bad THEN {LostOne} ELSE {}) :
        LET hs == [history EXCEPT ![l] = Remembered(@, outcome)]
        IN history' = hs /\ flagged' = Reevaluated(hs)

Attempt(l) == Picked(l) /\ Recorded(l)

\* The send raised: nothing is recorded.
SendFails(l) == Picked(l) /\ UNCHANGED <<history, flagged>>

\* The loss on the nodes of some lanes changes.
PathsChange ==
    /\ bad' \in SUBSET Lanes
    /\ UNCHANGED schedulerVars

Next == (\E l \in Lanes : Attempt(l) \/ SendFails(l)) \/ PathsChange

Spec == Init /\ [][Next]_vars

\* The transfer goes on, random.choices takes every lane of positive weight again
\* and again, and not every send on a lane raises.
FairSpec == Spec /\ \A l \in Lanes : SF_vars(Attempt(l))
-----------------------------------------------------------------------------
\* A flag stays between its two thresholds: a flagged lane has been judged and has
\* not recovered, another has not reached the flag (scheduler.py:121-142).
Hysteresis ==
    \A l \in Lanes :
        IF l \in flagged THEN Judged(history[l]) /\ ~Recovers(history[l])
        ELSE Judged(history[l]) => ~Reaches(history[l])

\* A flag is changed by an outcome of its own lane only, and not while its loss is
\* between the thresholds; a loss never lifts it, and once the lane has been judged
\* a delivery never sets it (scheduler.py:15-16).
NoFlapping ==
    [][\A l \in Lanes : ~(l \in flagged <=> l \in flagged') =>
            LET after == history'[l]
            IN /\ after # history[l] /\ (Reaches(after) \/ Recovers(after))
               /\ after[Len(after)] = LostOne => l \in flagged'
               /\ after[Len(after)] = Delivered /\ Judged(history[l]) => l \notin flagged']_vars

\* Paths that stop losing come back into rotation, all of them and for good
\* (scheduler.py:12-16).
FlagsClear == <>[](bad = {}) => <>[](flagged = {})
=============================================================================
