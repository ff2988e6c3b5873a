-------------------------- MODULE SchedulerProofs --------------------------
(***************************************************************************)
(* The path scheduler keeps its type, its flags stay between their two     *)
(* thresholds and change by an outcome on the right side only, for every   *)
(* number of lanes, window and pair of thresholds with recover_loss no     *)
(* higher than flag_loss.  On node-disjoint lanes the page draws each of   *)
(* them in one colour, and traffic follows the colours.                    *)
(***************************************************************************)
EXTENDS LaneHealth, FiniteSetTheorems, WellFoundedInduction, TLAPS
-----------------------------------------------------------------------------
\* Counting losses.

Outcomes == {LostOne, Delivered}

LEMMA LostType ==
    ASSUME NEW h \in Seq(Outcomes)
    PROVE  /\ IsFiniteSet({i \in 1..Len(h) : h[i] = LostOne})
           /\ Lost(h) \in Nat
           /\ Lost(h) <= Len(h)
<1> DEFINE L == {i \in 1..Len(h) : h[i] = LostOne}
<1>1. Len(h) \in Nat
  OBVIOUS
<1>2. IsFiniteSet(1..Len(h)) /\ Cardinality(1..Len(h)) = Len(h)
  BY <1>1, FS_Interval
<1>3. L \in SUBSET (1..Len(h))
  OBVIOUS
<1>4. IsFiniteSet(L) /\ Cardinality(L) <= Len(h)
  BY <1>2, <1>3, FS_Subset
<1>5. Cardinality(L) \in Nat
  BY <1>4, FS_CardinalityType
<1> QED
  BY <1>4, <1>5 DEF Lost

\* One more outcome counts when it is a loss.
LEMMA LostAppend ==
    ASSUME NEW h \in Seq(Outcomes), NEW o \in Outcomes
    PROVE  Lost(Append(h, o)) = IF o = LostOne THEN Lost(h) + 1 ELSE Lost(h)
<1> DEFINE n == Len(h)
           a == Append(h, o)
           L == {i \in 1..n : h[i] = LostOne}
           K == {i \in 1..Len(a) : a[i] = LostOne}
<1>1. n \in Nat /\ Len(a) = n + 1 /\ a[n + 1] = o /\ \A i \in 1..n : a[i] = h[i]
  OBVIOUS
<1>2. IsFiniteSet(L)
  BY LostType
<1>3. n + 1 \notin L
  BY <1>1
<1>4. CASE o = LostOne
  <2>1. K = L \cup {n + 1}
    BY <1>1, <1>4
  <2>2. Cardinality(L \cup {n + 1}) = Cardinality(L) + 1
    BY <1>2, <1>3, FS_AddElement
  <2> QED
    BY <2>1, <2>2, <1>4 DEF Lost
<1>5. CASE o # LostOne
  <2>1. K = L
    BY <1>1, <1>5
  <2> QED
    BY <2>1, <1>5 DEF Lost
<1> QED
  BY <1>4, <1>5

\* Forgetting the oldest outcome takes one loss at most away.
LEMMA LostTail ==
    ASSUME NEW h \in Seq(Outcomes), Len(h) > 0
    PROVE  Lost(Tail(h)) = IF h[1] = LostOne THEN Lost(h) - 1 ELSE Lost(h)
<1> DEFINE n == Len(h)
           t == Tail(h)
           L == {i \in 1..n : h[i] = LostOne}
           K == {i \in 1..Len(t) : t[i] = LostOne}
           f == [i \in K |-> i + 1]
<1>1. n \in Nat \ {0} /\ Len(t) = n - 1 /\ \A i \in 1..Len(t) : t[i] = h[i + 1]
  OBVIOUS
<1>2. t \in Seq(Outcomes)
  BY <1>1
<1>3. IsFiniteSet(L) /\ IsFiniteSet(K)
  BY <1>2, LostType
<1>4. f \in Bijection(K, L \ {1})
  <2>1. f \in [K -> L \ {1}]
    BY <1>1
  <2>2. \A i, j \in K : f[i] = f[j] => i = j
    BY <1>1
  <2>3. \A k \in L \ {1} : \E i \in K : f[i] = k
    <3>1. SUFFICES ASSUME NEW k \in L \ {1} PROVE k - 1 \in K /\ f[k - 1] = k
      OBVIOUS
    <3>2. k - 1 \in 1..Len(t) /\ t[k - 1] = h[k]
      BY <1>1
    <3>3. k - 1 \in K
      BY <3>2
    <3> QED
      BY <3>3, <1>1
  <2> QED
    BY <2>1, <2>2, <2>3 DEF Bijection, Injection, Surjection, IsInjective
<1>5. Cardinality(L \ {1}) = Cardinality(K)
  BY <1>3, <1>4, FS_Bijection DEF ExistsBijection
<1>6. Cardinality(L \ {1}) = IF 1 \in L THEN Cardinality(L) - 1 ELSE Cardinality(L)
  BY <1>3, FS_RemoveElement
<1>7. 1 \in L <=> h[1] = LostOne
  BY <1>1
<1> QED
  BY <1>5, <1>6, <1>7 DEF Lost

\* A remembered outcome never makes the history shorter; a loss never makes fewer losses
\* of it, a delivery never more, and the window drops an outcome only when it is full.
LEMMA RememberedLemma ==
    ASSUME NEW h \in Seq(Outcomes), NEW o \in Outcomes
    PROVE  LET r == Remembered(h, o)
           IN  /\ r \in Seq(Outcomes)
               /\ r # h => Len(r) = Len(h) \/ Len(r) = Len(h) + 1
               /\ Len(r) >= Len(h)
               /\ Len(r) \in Nat \ {0}
               /\ r[Len(r)] = o
               /\ o = LostOne => \/ Len(r) = Len(h) + 1 /\ Lost(r) = Lost(h) + 1
                                 \/ Len(r) = Len(h) /\ Lost(r) >= Lost(h)
               /\ o # LostOne => \/ Len(r) = Len(h) + 1 /\ Lost(r) = Lost(h)
                                 \/ Len(r) = Len(h) /\ Lost(r) <= Lost(h)
<1> DEFINE r == Remembered(h, o)
<1>1. CASE Len(h) < Window
  <2>1. r = Append(h, o)
    BY <1>1 DEF Remembered
  <2>2. Lost(r) = IF o = LostOne THEN Lost(h) + 1 ELSE Lost(h)
    BY <2>1, LostAppend
  <2> QED
    BY <2>1, <2>2
<1>2. CASE ~(Len(h) < Window)
  <2>1. Window \in Nat \ {0, 1} /\ Len(h) > 0
    BY <1>2, SchedulerAssumption
  <2>2. r = Append(Tail(h), o) /\ Tail(h) \in Seq(Outcomes) /\ Len(Tail(h)) = Len(h) - 1
    BY <1>2, <2>1 DEF Remembered
  <2>3. Lost(r) = IF o = LostOne THEN Lost(Tail(h)) + 1 ELSE Lost(Tail(h))
    BY <2>2, LostAppend
  <2>4. Lost(Tail(h)) = IF h[1] = LostOne THEN Lost(h) - 1 ELSE Lost(h)
    BY <2>1, LostTail
  <2>5. Lost(h) \in Nat /\ Lost(Tail(h)) \in Nat
    BY <2>2, LostType
  <2>6. Len(r) = Len(h) /\ r[Len(r)] = o /\ r \in Seq(Outcomes)
    BY <2>1, <2>2
  <2>7. o = LostOne => Lost(r) >= Lost(h)
    BY <2>3, <2>4, <2>5
  <2>8. o # LostOne => Lost(r) <= Lost(h)
    BY <2>3, <2>4, <2>5
  <2> QED
    BY <2>1, <2>6, <2>7, <2>8
<1> QED
  BY <1>1, <1>2
-----------------------------------------------------------------------------
\* What an outcome can do to the standing of a lane.

LEMMA Thresholds ==
    /\ FlagLoss \in 0..100 /\ RecoverLoss \in 0..100
    /\ FlagLoss = RecoverLoss => (RecoversAt <=> ~FlagsAt)
<1>1. FlagLoss \in 0..100 /\ RecoverLoss \in 0..100
  BY SchedulerAssumption, Zenon
<1>2. FlagLoss = RecoverLoss => (RecoversAt <=> ~FlagsAt)
  BY SchedulerAssumption, Zenon
<1> QED
  BY <1>1, <1>2

LEMMA PerCents ==
    ASSUME NEW R \in 0..100, NEW n \in Nat
    PROVE  R * n \in Nat /\ R * (n + 1) = R * n + R
<1>1. R \in Nat
  OBVIOUS
<1>2. R * (n + 1) = R * n + R
  BY <1>1
<1> QED
  BY <1>1, <1>2

\* A lane that has not recovered has not after a loss either.
LEMMA LossNeverRecovers ==
    ASSUME NEW h \in Seq(Outcomes), ~Recovers(h)
    PROVE  ~Recovers(Remembered(h, LostOne))
<1> DEFINE r == Remembered(h, LostOne)
           n == Len(h)
           a == Lost(h)
           b == Lost(r)
<1>1. r \in Seq(Outcomes) /\ \/ Len(r) = n + 1 /\ b = a + 1
                             \/ Len(r) = n /\ b >= a
  BY RememberedLemma DEF Outcomes
<1>2. a \in Nat /\ b \in Nat /\ n \in Nat /\ RecoverLoss \in 0..100
  <2>1. a \in Nat /\ b \in Nat
    BY <1>1, LostType
  <2>2. n \in Nat
    OBVIOUS
  <2> QED
    BY <2>1, <2>2, Thresholds
<1>3. 100 * a >= RecoverLoss * n /\ (100 * a = RecoverLoss * n => ~RecoversAt)
  BY <1>2, PerCents DEF Recovers
<1>4. CASE Len(r) = n + 1 /\ b = a + 1
  <2> DEFINE m == RecoverLoss * n
  <2>1. RecoverLoss * Len(r) = m + RecoverLoss /\ m \in Nat
    BY <1>2, <1>4, PerCents
  <2>2. 100 * b = 100 * a + 100 /\ 100 * a >= m /\ (100 * a = m => ~RecoversAt)
    BY <1>2, <1>3, <1>4
  <2> HIDE DEF m, r, a, b, n
  <2>3. ~(100 * b < m + RecoverLoss) /\ (100 * b = m + RecoverLoss => ~RecoversAt)
    BY <2>1, <2>2, <1>2
  <2> QED
    BY <2>1, <2>3 DEF Recovers, b, r
<1>5. CASE Len(r) = n /\ b >= a
  <2> DEFINE m == RecoverLoss * n
  <2>1. RecoverLoss * Len(r) = m /\ m \in Nat
    BY <1>2, <1>5, PerCents
  <2>2. 100 * a >= m /\ (100 * a = m => ~RecoversAt)
    BY <1>3
  <2> HIDE DEF m, r, a, b, n
  <2>3. ~(100 * b < m) /\ (100 * b = m => ~RecoversAt)
    BY <2>1, <2>2, <1>2, <1>5
  <2> QED
    BY <2>1, <2>3 DEF Recovers, b, r
<1> QED
  BY <1>1, <1>4, <1>5

\* A lane that has not reached the flag has not after a delivery either.
LEMMA DeliveryNeverReaches ==
    ASSUME NEW h \in Seq(Outcomes), ~Reaches(h)
    PROVE  ~Reaches(Remembered(h, Delivered))
<1> DEFINE r == Remembered(h, Delivered)
           n == Len(h)
           a == Lost(h)
           b == Lost(r)
<1>1. Delivered \in Outcomes /\ Delivered # LostOne
  BY DEF Outcomes, Delivered, LostOne
<1>2. r \in Seq(Outcomes) /\ \/ Len(r) = n + 1 /\ b = a
                             \/ Len(r) = n /\ b <= a
  BY <1>1, RememberedLemma
<1>3. a \in Nat /\ b \in Nat /\ n \in Nat /\ FlagLoss \in 0..100
  <2>1. a \in Nat /\ b \in Nat
    BY <1>2, LostType
  <2>2. n \in Nat
    OBVIOUS
  <2> QED
    BY <2>1, <2>2, Thresholds
<1> DEFINE m == FlagLoss * n
<1>4. m \in Nat /\ 100 * a <= m /\ (100 * a = m => ~FlagsAt)
  BY <1>3, PerCents DEF Reaches
<1>5. FlagLoss * Len(r) = m \/ (FlagLoss * Len(r) = m + FlagLoss /\ b = a)
  BY <1>2, <1>3, PerCents
<1>6. b <= a
  BY <1>2, <1>3
<1> DEFINE k == FlagLoss * Len(r)
<1>7. k = m \/ (k = m + FlagLoss /\ b = a)
  BY <1>5
<1> HIDE DEF m, r, a, b, n, k
<1>8. ~(100 * b > k) /\ (100 * b = k => ~FlagsAt)
  BY <1>3, <1>4, <1>6, <1>7
<1> QED
  BY <1>8 DEF Reaches, b, r, k

\* With the threshold to recover no higher than the one to flag, no lane that has a
\* history does both.
LEMMA NotBoth ==
    ASSUME RecoverLoss <= FlagLoss, NEW h \in Seq(Outcomes), Len(h) > 0, Reaches(h)
    PROVE  ~Recovers(h)
<1> DEFINE n == Len(h)
           a == Lost(h)
           f == FlagLoss * n
           c == RecoverLoss * n
<1>1. a \in Nat /\ n \in Nat \ {0} /\ FlagLoss \in 0..100 /\ RecoverLoss \in 0..100
  <2>1. a \in Nat
    BY LostType
  <2>2. n \in Nat \ {0}
    OBVIOUS
  <2> QED
    BY <2>1, <2>2, Thresholds
<1>2. f \in Nat /\ c \in Nat
  BY <1>1, PerCents
<1>3. c <= f
  BY <1>1
<1>4. CASE RecoverLoss = FlagLoss
  BY <1>1, <1>2, <1>4, Thresholds DEF Reaches, Recovers
<1>5. CASE RecoverLoss < FlagLoss
  <2>1. c < f
    BY <1>1, <1>5
  <2> QED
    BY <1>1, <1>2, <2>1 DEF Reaches, Recovers
<1> QED
  BY <1>1, <1>4, <1>5
-----------------------------------------------------------------------------
\* Type correctness.

LEMMA PicksAreLanes ==
    ASSUME TypeOK
    PROVE  Picks \subseteq Lanes
<1>1. LaneCount \in Nat \ {0, 1} /\ picks \in Nat
  BY SchedulerAssumption DEF TypeOK
<1>2. (picks % LaneCount) + 1 \in Lanes
  BY <1>1 DEF Lanes
<1>3. rr \in Lanes
  BY DEF TypeOK
<1> QED
  BY <1>2, <1>3 DEF Picks

LEMMA PickedType ==
    ASSUME TypeOK, NEW l \in Lanes, Picked(l)
    PROVE  picks' \in 0..(Exploration + 1) /\ rr' \in Lanes /\ bad' \subseteq Lanes
<1>1. LaneCount \in Nat \ {0, 1} /\ Exploration \in Nat
  BY SchedulerAssumption DEF Exploration
<1>2. picks \in 0..(Exploration + 1) /\ rr \in 1..LaneCount /\ bad \subseteq Lanes
  BY DEF TypeOK, Lanes
<1>3. (rr % LaneCount) + 1 \in 1..LaneCount
  BY <1>1, <1>2
<1> QED
  BY <1>1, <1>2, <1>3 DEF Picked, Lanes

\* What record() leaves: the history of its lane has one outcome more, the others and
\* the rule of the flags are the same.
LEMMA RecordedLemma ==
    ASSUME TypeOK, NEW l \in Lanes, Recorded(l)
    PROVE  /\ history' \in [Lanes -> Seq(Outcomes)]
           /\ \E o \in Outcomes : history'[l] = Remembered(history[l], o)
           /\ \A k \in Lanes : k # l => history'[k] = history[k]
           /\ flagged' = Reevaluated(history')
<1>1. history \in [Lanes -> Seq(Outcomes)]
  BY DEF TypeOK, Outcomes
<1>2. PICK o \in Outcomes :
          /\ history' = [history EXCEPT ![l] = Remembered(@, o)]
          /\ flagged' = Reevaluated([history EXCEPT ![l] = Remembered(@, o)])
  BY DEF Recorded, Outcomes
<1>3. Remembered(history[l], o) \in Seq(Outcomes)
  BY <1>1, RememberedLemma
<1>4. history' \in [Lanes -> Seq(Outcomes)] /\ history'[l] = Remembered(history[l], o)
  BY <1>1, <1>2, <1>3
<1>5. \A k \in Lanes : k # l => history'[k] = history[k]
  BY <1>1, <1>2
<1>6. flagged' = Reevaluated(history')
  BY <1>2
<1> QED
  BY <1>4, <1>5, <1>6

LEMMA TypeStep ==
    ASSUME TypeOK, [Next]_vars
    PROVE  TypeOK'
<1>1. ASSUME NEW l \in Lanes, Attempt(l) PROVE TypeOK'
  <2>1. Picked(l) /\ Recorded(l)
    BY <1>1 DEF Attempt
  <2>2. history' \in [Lanes -> Seq({LostOne, Delivered})]
    BY <2>1, RecordedLemma DEF Outcomes
  <2>3. flagged' \subseteq Lanes
    BY <2>1, RecordedLemma DEF Reevaluated
  <2> QED
    BY <2>1, <2>2, <2>3, PickedType DEF TypeOK, Exploration, Lanes
<1>2. ASSUME NEW l \in Lanes, SendFails(l) PROVE TypeOK'
  <2>1. Picked(l) /\ UNCHANGED <<history, flagged>>
    BY <1>2 DEF SendFails
  <2> QED
    BY <2>1, PickedType DEF TypeOK, Exploration, Lanes
<1>3. CASE PathsChange
  BY <1>3 DEF PathsChange, schedulerVars, TypeOK, Lanes, Exploration
<1>4. CASE UNCHANGED vars
  BY <1>4 DEF vars, schedulerVars, TypeOK, Lanes, Exploration
<1> QED
  BY <1>1, <1>2, <1>3, <1>4 DEF Next

\* The scheduler keeps its type: a lane it picks is one of the sender's, a history holds
\* outcomes only, and the rotation stays on the lanes (scheduler.py:62-92).
THEOREM TypeCorrect == Spec => []TypeOK
<1>1. Init => TypeOK
  <2>1. LaneCount \in Nat \ {0, 1} /\ Exploration \in Nat
    BY SchedulerAssumption DEF Exploration
  <2> QED
    BY <2>1 DEF Init, TypeOK, Lanes
<1>2. TypeOK /\ [Next]_vars => TypeOK'
  BY TypeStep
<1> QED
  BY <1>1, <1>2, PTL DEF Spec
-----------------------------------------------------------------------------
\* The flags.

\* A lane's standing after the flags were set anew over histories that are not shorter.
LEMMA ReevaluatedLemma ==
    ASSUME RecoverLoss <= FlagLoss, TypeOK, Hysteresis, NEW l \in Lanes, NEW hs,
           hs[l] \in Seq(Outcomes), Len(hs[l]) >= Len(history[l])
    PROVE  IF l \in Reevaluated(hs) THEN Judged(hs[l]) /\ ~Recovers(hs[l])
           ELSE Judged(hs[l]) => ~Reaches(hs[l])
<1>1. MinSamples \in Nat \ {0, 1}
  BY SchedulerAssumption
<1>2. history[l] \in Seq(Outcomes)
  BY DEF TypeOK, Outcomes
<1>3. Len(history[l]) \in Nat /\ Len(hs[l]) \in Nat
  BY <1>2
<1>4. Judged(history[l]) => Judged(hs[l])
  BY <1>1, <1>3 DEF Judged
<1>5. Judged(hs[l]) /\ Reaches(hs[l]) => ~Recovers(hs[l])
  <2>1. Judged(hs[l]) => Len(hs[l]) > 0
    BY <1>1, <1>3 DEF Judged
  <2> QED
    BY <2>1, NotBoth
<1>6. l \in Reevaluated(hs) <=>
          (IF ~Judged(hs[l]) THEN l \in flagged
           ELSE IF l \in flagged THEN ~Recovers(hs[l]) ELSE Reaches(hs[l]))
  BY DEF Reevaluated
<1>7. l \in flagged => Judged(history[l])
  BY DEF Hysteresis
<1>8. CASE l \in flagged
  BY <1>4, <1>5, <1>6, <1>7, <1>8
<1>9. CASE l \notin flagged
  BY <1>4, <1>5, <1>6, <1>9
<1> QED
  BY <1>8, <1>9

LEMMA HysteresisStep ==
    ASSUME RecoverLoss <= FlagLoss, TypeOK, Hysteresis, [Next]_vars
    PROVE  Hysteresis'
<1>1. ASSUME NEW l \in Lanes, Attempt(l) PROVE Hysteresis'
  <2>1. Recorded(l)
    BY <1>1 DEF Attempt
  <2>2. ASSUME NEW k \in Lanes
        PROVE  history'[k] \in Seq(Outcomes) /\ Len(history'[k]) >= Len(history[k])
    <3>1. history[k] \in Seq(Outcomes) /\ history'[k] \in Seq(Outcomes)
      BY <2>1, RecordedLemma DEF TypeOK, Outcomes
    <3>2. CASE k = l
      <4>1. PICK o \in Outcomes : history'[l] = Remembered(history[l], o)
        BY <2>1, RecordedLemma
      <4>2. Len(Remembered(history[l], o)) >= Len(history[l])
        BY <3>1, <3>2, RememberedLemma
      <4> QED
        BY <3>1, <3>2, <4>1, <4>2
    <3>3. CASE k # l
      <4>1. history'[k] = history[k]
        BY <2>1, <3>3, RecordedLemma
      <4> QED
        BY <3>1, <4>1
    <3> QED
      BY <3>2, <3>3
  <2>3. flagged' = Reevaluated(history')
    BY <2>1, RecordedLemma
  <2>4. \A k \in Lanes :
            IF k \in Reevaluated(history') THEN Judged(history'[k]) /\ ~Recovers(history'[k])
            ELSE Judged(history'[k]) => ~Reaches(history'[k])
    BY <2>2, ReevaluatedLemma
  <2> QED
    BY <2>3, <2>4 DEF Hysteresis, Judged, Recovers, Reaches, Lost
<1>2. CASE UNCHANGED <<history, flagged>>
  BY <1>2 DEF Hysteresis, Judged, Recovers, Reaches, Lost
<1>3. ASSUME NEW l \in Lanes, SendFails(l) PROVE Hysteresis'
  BY <1>2, <1>3 DEF SendFails
<1>4. CASE PathsChange
  BY <1>2, <1>4 DEF PathsChange, schedulerVars
<1>5. CASE UNCHANGED vars
  BY <1>2, <1>5 DEF vars, schedulerVars
<1> QED
  BY <1>1, <1>3, <1>4, <1>5 DEF Next

\* The histories are empty at first: nothing is judged.
LEMMA HysteresisInit ==
    ASSUME Init
    PROVE  Hysteresis
<1>1. \A l \in Lanes : history[l] = <<>> /\ l \notin flagged
  BY DEF Init
<1>2. MinSamples \in Nat \ {0, 1}
  BY SchedulerAssumption
<1>3. ~Judged(<<>>)
  BY <1>2 DEF Judged
<1> QED
  BY <1>1, <1>3 DEF Hysteresis

\* A flag stays between its two thresholds, with recover_loss no higher than flag_loss
\* (scheduler.py:111-130).
THEOREM HysteresisHolds ==
    ASSUME RecoverLoss <= FlagLoss
    PROVE  Spec => []Hysteresis
<1>1. Init => Hysteresis
  BY HysteresisInit
<1>2. TypeOK /\ Hysteresis /\ [Next]_vars => Hysteresis'
  BY HysteresisStep
<1> QED
  BY <1>1, <1>2, TypeCorrect, PTL DEF Spec
-----------------------------------------------------------------------------
\* When a flag changes.

NoFlappingStep ==
    \A l \in Lanes : ~(l \in flagged <=> l \in flagged') =>
        LET after == history'[l]
        IN /\ after # history[l] /\ (Reaches(after) \/ Recovers(after))
           /\ after[Len(after)] = LostOne => l \in flagged'
           /\ after[Len(after)] = Delivered /\ Judged(history[l]) => l \notin flagged'

LEMMA FlagStep ==
    ASSUME TypeOK, Hysteresis, NEW l \in Lanes, Attempt(l), NEW k \in Lanes,
           ~(k \in flagged <=> k \in flagged')
    PROVE  LET after == history'[k]
           IN /\ after # history[k] /\ (Reaches(after) \/ Recovers(after))
              /\ after[Len(after)] = LostOne => k \in flagged'
              /\ after[Len(after)] = Delivered /\ Judged(history[k]) => k \notin flagged'
<1> DEFINE after == history'[k]
           before == history[k]
<1>1. Recorded(l)
  BY DEF Attempt
<1>2. before \in Seq(Outcomes) /\ after \in Seq(Outcomes)
  BY <1>1, RecordedLemma DEF TypeOK, Outcomes
<1>3. k \in flagged' <=> (IF ~Judged(after) THEN k \in flagged
                          ELSE IF k \in flagged THEN ~Recovers(after) ELSE Reaches(after))
  BY <1>1, RecordedLemma DEF Reevaluated
<1>4. IF k \in flagged THEN Judged(before) /\ ~Recovers(before)
      ELSE Judged(before) => ~Reaches(before)
  BY DEF Hysteresis
<1>5. Judged(after)
  BY <1>3
<1>6. IF k \in flagged THEN Recovers(after) /\ k \notin flagged'
      ELSE Reaches(after) /\ k \in flagged'
  BY <1>3, <1>5
<1>7. after # before
  BY <1>4, <1>5, <1>6
<1>8. k = l
  BY <1>1, <1>7, RecordedLemma
<1>9. PICK o \in Outcomes : after = Remembered(before, o)
  BY <1>1, <1>8, RecordedLemma
<1>10. after[Len(after)] = o
  BY <1>2, <1>9, RememberedLemma
<1>11. after[Len(after)] = LostOne => k \in flagged'
  BY <1>2, <1>4, <1>6, <1>9, <1>10, LossNeverRecovers
<1>12. after[Len(after)] = Delivered /\ Judged(before) => k \notin flagged'
  BY <1>2, <1>4, <1>6, <1>9, <1>10, DeliveryNeverReaches
<1>13. Reaches(after) \/ Recovers(after)
  BY <1>6
<1> QED
  BY <1>7, <1>11, <1>12, <1>13

LEMMA FlagsStep ==
    ASSUME TypeOK, Hysteresis, [Next]_vars
    PROVE  [NoFlappingStep]_vars
<1>1. ASSUME NEW l \in Lanes, Attempt(l) PROVE NoFlappingStep
  <2>1. \A k \in Lanes : ~(k \in flagged <=> k \in flagged') =>
            LET after == history'[k]
            IN /\ after # history[k] /\ (Reaches(after) \/ Recovers(after))
               /\ after[Len(after)] = LostOne => k \in flagged'
               /\ after[Len(after)] = Delivered /\ Judged(history[k]) => k \notin flagged'
    BY <1>1, FlagStep
  <2> QED
    BY <2>1 DEF NoFlappingStep
<1>2. CASE UNCHANGED <<history, flagged>>
  BY <1>2 DEF NoFlappingStep
<1>3. ASSUME NEW l \in Lanes, SendFails(l) PROVE NoFlappingStep
  BY <1>3 DEF SendFails, NoFlappingStep
<1>4. CASE PathsChange
  BY <1>2, <1>4 DEF PathsChange, schedulerVars
<1>5. CASE UNCHANGED vars
  BY <1>5
<1> QED
  BY <1>1, <1>3, <1>4, <1>5 DEF Next

\* A flag changes by an outcome of its own lane only and outside the thresholds; a loss
\* never lifts it and a delivery never sets it on a lane that has been judged
\* (scheduler.py:15-16).
THEOREM NoFlappingHolds ==
    ASSUME RecoverLoss <= FlagLoss
    PROVE  Spec => NoFlapping
<1>1. TypeOK /\ Hysteresis /\ [Next]_vars => [NoFlappingStep]_vars
  BY FlagsStep
<1>2. Spec => []Hysteresis
  BY HysteresisHolds
<1>3. Spec => [][NoFlappingStep]_vars
  BY <1>1, <1>2, TypeCorrect, PTL DEF Spec
<1> QED
  BY <1>3 DEF NoFlapping, NoFlappingStep
-----------------------------------------------------------------------------
\* Sums over a finite set of lanes.

\* A set of numbers that is not empty has a least element.
LEMMA LeastOfNat ==
    ASSUME NEW S, S \subseteq Nat, S # {}
    PROVE  \E n \in S : \A k \in S : n <= k
<1> DEFINE R == OpToRel(<, Nat)
<1>1. IsWellFoundedOn(R, Nat)
  BY NatLessThanWellFounded
<1>2. \E n \in S : \A k \in S : <<k, n>> \notin R
  BY <1>1, WFMin
<1>3. \A k, n \in Nat : <<k, n>> \in R <=> k < n
  BY DEF OpToRel
<1> HIDE DEF R
<1>4. PICK n \in S : \A k \in S : <<k, n>> \notin R
  BY <1>2
<1>5. \A k \in S : ~(k < n)
  BY <1>3, <1>4
<1>6. \A k \in S : n <= k
  BY <1>5
<1> QED
  BY <1>6

\* The sum of b over a set, an element at a time.
Summed(b, S, f) ==
    f = [s \in S |-> IF s = {} THEN 0
                     ELSE LET x == CHOOSE x \in s : TRUE IN b[x] + f[s \ {x}]]

\* There is such a function over the subsets of a finite set.
LEMMA SumExists ==
    ASSUME NEW H, IsFiniteSet(H), NEW b
    PROVE  \E f : Summed(b, SUBSET H, f)
<1> DEFINE Stage(k) == {s \in SUBSET H : Cardinality(s) <= k}
           None == {k \in Nat : ~ \E f : Summed(b, Stage(k), f)}
           x(s) == CHOOSE x \in s : TRUE
<1>1. \A s \in SUBSET H : IsFiniteSet(s) /\ Cardinality(s) \in Nat
                          /\ Cardinality(s) <= Cardinality(H)
  BY FS_Subset, FS_CardinalityType
<1>2. \A s \in SUBSET H : s # {} => /\ x(s) \in s /\ s \ {x(s)} \in SUBSET H
                                    /\ Cardinality(s \ {x(s)}) = Cardinality(s) - 1
  BY <1>1, FS_RemoveElement
<1> HIDE DEF x
<1>3. \A f, k : Summed(b, Stage(k), f) <=>
          f = [s \in Stage(k) |-> IF s = {} THEN 0 ELSE b[x(s)] + f[s \ {x(s)}]]
  BY DEF Summed, x
<1>4. \E f : Summed(b, Stage(0), f)
  <2> DEFINE g == [s \in Stage(0) |-> 0]
  <2>1. \A s \in Stage(0) : s = {}
    BY <1>1, FS_EmptySet
  <2>2. g = [s \in Stage(0) |-> IF s = {} THEN 0 ELSE b[x(s)] + g[s \ {x(s)}]]
    BY <2>1
  <2> HIDE DEF g
  <2> QED
    BY <2>2, <1>3
<1>5. ASSUME NEW k \in Nat, NEW f, Summed(b, Stage(k), f)
      PROVE  \E g : Summed(b, Stage(k + 1), g)
  <2> DEFINE g == [s \in Stage(k + 1) |-> IF s = {} THEN 0 ELSE b[x(s)] + f[s \ {x(s)}]]
  <2>1. f = [s \in Stage(k) |-> IF s = {} THEN 0 ELSE b[x(s)] + f[s \ {x(s)}]]
    BY <1>3, <1>5
  <2>2. \A s \in Stage(k) : s \in Stage(k + 1)
    BY <1>1
  <2>3. \A s \in Stage(k) : g[s] = f[s]
    <3>1. ASSUME NEW s \in Stage(k) PROVE g[s] = f[s]
      <4>1. f[s] = IF s = {} THEN 0 ELSE b[x(s)] + f[s \ {x(s)}]
        BY <2>1
      <4>2. g[s] = IF s = {} THEN 0 ELSE b[x(s)] + f[s \ {x(s)}]
        BY <2>2
      <4> QED
        BY <4>1, <4>2
    <3> QED
      BY <3>1
  <2>4. \A s \in Stage(k + 1) : s # {} => s \ {x(s)} \in Stage(k)
    BY <1>1, <1>2
  <2>5. g = [s \in Stage(k + 1) |-> IF s = {} THEN 0 ELSE b[x(s)] + g[s \ {x(s)}]]
    BY <2>3, <2>4
  <2> HIDE DEF g
  <2> QED
    BY <2>5, <1>3
<1>6. None = {}
  <2>1. SUFFICES ASSUME None # {} PROVE FALSE
    OBVIOUS
  <2>2. PICK n \in None : \A k \in None : n <= k
    BY <2>1, LeastOfNat
  <2>3. n \in Nat \ {0}
    BY <1>4, <2>2
  <2> HIDE DEF None
  <2>7. n - 1 \in Nat /\ n = (n - 1) + 1 /\ ~(n <= n - 1)
    BY <2>3
  <2>4. n - 1 \in Nat /\ n - 1 \notin None /\ n = (n - 1) + 1
    BY <2>2, <2>7
  <2> USE DEF None
  <2>5. \E f : Summed(b, Stage(n - 1), f)
    BY <2>4
  <2>6. \E f : Summed(b, Stage((n - 1) + 1), f)
    BY <1>5, <2>4, <2>5
  <2> QED
    BY <2>2, <2>4, <2>6
<1>7. Cardinality(H) \in Nat /\ Stage(Cardinality(H)) = SUBSET H
  BY <1>1
<1>8. \E f : Summed(b, Stage(Cardinality(H)), f)
  BY <1>6, <1>7
<1> QED
  BY <1>7, <1>8

\* A sum of numbers is a number, no smaller than any of them and no larger than their
\* count times a bound of them.
LEMMA SumLemma ==
    ASSUME NEW H, IsFiniteSet(H), NEW b, \A y \in H : b[y] \in Nat,
           NEW f, Summed(b, SUBSET H, f), NEW m \in Nat, \A y \in H : b[y] <= m
    PROVE  f[H] \in Nat /\ (\A y \in H : b[y] <= f[H]) /\ f[H] <= m * Cardinality(H)
<1> DEFINE Good(s) == /\ f[s] \in Nat /\ \A y \in s : b[y] <= f[s]
                      /\ f[s] <= m * Cardinality(s)
           Bad == {s \in SUBSET H : ~Good(s)}
           x(s) == CHOOSE x \in s : TRUE
<1>1. \A s \in SUBSET H : IsFiniteSet(s) /\ Cardinality(s) \in Nat
  BY FS_Subset, FS_CardinalityType
<1>2. \A s \in SUBSET H : s # {} => /\ x(s) \in s /\ s \ {x(s)} \in SUBSET H
                                    /\ Cardinality(s \ {x(s)}) = Cardinality(s) - 1
  BY <1>1, FS_RemoveElement
<1>3. \A s \in SUBSET H : f[s] = IF s = {} THEN 0 ELSE b[x(s)] + f[s \ {x(s)}]
  BY DEF Summed
<1> HIDE DEF x
<1>4. Good({})
  <2>1. f[{}] = 0 /\ Cardinality({}) = 0
    BY <1>3, FS_EmptySet
  <2> QED
    BY <2>1
<1>5. ASSUME NEW s \in SUBSET H, s # {}, Good(s \ {x(s)}) PROVE Good(s)
  <2> DEFINE t == s \ {x(s)}
  <2>1. /\ f[s] = b[x(s)] + f[t] /\ x(s) \in s /\ t \in SUBSET H
        /\ Cardinality(t) = Cardinality(s) - 1
        /\ Cardinality(s) \in Nat /\ Cardinality(t) \in Nat
    BY <1>1, <1>2, <1>3, <1>5
  <2>2. /\ b[x(s)] \in Nat /\ b[x(s)] <= m /\ f[t] \in Nat
        /\ f[t] <= m * Cardinality(t) /\ \A y \in t : b[y] \in Nat /\ b[y] <= f[t]
    BY <2>1, <1>5
  <2>3. f[s] \in Nat /\ b[x(s)] <= f[s] /\ f[t] <= f[s]
    BY <2>1, <2>2
  <2>4. \A y \in s : b[y] <= f[s]
    <3>1. \A y \in s : y = x(s) \/ y \in t
      OBVIOUS
    <3> HIDE DEF t
    <3> QED
      BY <3>1, <2>2, <2>3
  <2>5. f[s] <= m * Cardinality(s)
    <3>1. m * Cardinality(s) = m * Cardinality(t) + m
      BY <2>1
    <3>2. m * Cardinality(t) \in Nat
      BY <2>1
    <3> HIDE DEF t
    <3> QED
      BY <3>1, <3>2, <2>1, <2>2
  <2> QED
    BY <2>3, <2>4, <2>5
<1>6. Bad = {}
  <2>1. SUFFICES ASSUME Bad # {} PROVE FALSE
    OBVIOUS
  <2> DEFINE Sizes == {Cardinality(s) : s \in Bad}
  <2>2. Sizes \subseteq Nat /\ Sizes # {}
    BY <1>1, <2>1
  <2>3. PICK n \in Sizes : \A k \in Sizes : n <= k
    BY <2>2, LeastOfNat
  <2>4. PICK s \in Bad : Cardinality(s) = n
    BY <2>3
  <2>5. s \in SUBSET H /\ s # {} /\ ~Good(s) /\ n \in Nat
    BY <1>4, <2>2, <2>4
  <2>6. s \ {x(s)} \in SUBSET H /\ Cardinality(s \ {x(s)}) = n - 1
    BY <1>2, <2>4, <2>5
  <2>7. s \ {x(s)} \in Bad
    BY <1>5, <2>5, <2>6
  <2>8. n - 1 \in Sizes
    BY <2>6, <2>7
  <2>9. n <= n - 1
    BY <2>3, <2>8
  <2> QED
    BY <2>5, <2>9
<1>7. H \in SUBSET H
  OBVIOUS
<1> QED
  BY <1>6, <1>7
-----------------------------------------------------------------------------
\* What the page draws of the lanes (LaneHealth).

\* The graph drawn, whichever node is down.
LEMMA GraphLemma ==
    ASSUME NEW down \in DOMAIN Graphs
    PROVE  /\ Graphs[down].mode = "tri" /\ Graphs[down].paths = Paths
           /\ Graphs[down].up = PathNodes \ {down} /\ Graphs[down].links = PathLinks
           /\ Graphs[down].lane = [k \in PathLinks |-> C!LaneOf(Paths, k)]
           /\ Graphs[down].source = Source /\ Graphs[down].dest = Dest
<1> DEFINE t == Topology({down})
<1>1. Graphs[down] = C!BuildCanvasGraph(t, Status)
  BY DEF Graphs
<1>2. t # <<>>
  <2>1. DOMAIN t # {}
    BY DEF Topology
  <2> HIDE DEF t
  <2>2. \A q : q = <<>> => DOMAIN q = {}
    OBVIOUS
  <2> QED
    BY <2>1, <2>2
<1>3. Paths # <<>>
  BY PathsAssumption, SchedulerAssumption
<1>4. C!ShownPaths(t) = Paths
  BY <1>3 DEF Topology, C!ShownPaths
<1>5. Graphs[down] = C!PresetGraph(t)
  BY <1>1, <1>2 DEF Status, C!BuildCanvasGraph
<1>6. /\ t.preset = "tri" /\ t.up = PathNodes \ {down} /\ t.links = PathLinks
      /\ t.source = Source /\ t.dest = Dest
  BY DEF Topology
<1> HIDE DEF t
<1>7. /\ Graphs[down].mode = t.preset /\ Graphs[down].paths = C!ShownPaths(t)
      /\ Graphs[down].up = t.up /\ Graphs[down].links = t.links
      /\ Graphs[down].lane = [k \in t.links |-> C!LaneOf(C!ShownPaths(t), k)]
      /\ Graphs[down].source = t.source /\ Graphs[down].dest = t.dest
  BY <1>5 DEF C!PresetGraph
<1> QED
  BY <1>4, <1>6, <1>7

LEMMA StateLemma ==
    ASSUME TypeOK
    PROVE  /\ Len(State) = LaneCount /\ Len(State) >= 2
           /\ \A l \in Lanes : /\ State[l].flagged = (l \in flagged)
                               /\ State[l].weight = Weight(l)
<1>1. LaneCount \in Nat /\ LaneCount >= 2
  BY SchedulerAssumption
<1>2. Len(State) = LaneCount
  BY <1>1 DEF State, Lanes
<1> QED
  BY <1>1, <1>2 DEF State

\* The scheduler gives the colours, and a flagged lane is the restricted one.
LEMMA ColourLemma ==
    ASSUME TypeOK, NEW down \in DOMAIN Graphs
    PROVE  /\ C!LaneStates(State, Graphs[down]) = C!SchedulerLaneStates(State)
           /\ \A l \in Lanes :
                 /\ C!SchedulerLaneStates(State)[l] \in {"restricted", "optimal", "candidate"}
                 /\ C!SchedulerLaneStates(State)[l] = "restricted" <=> l \in flagged
<1>1. Len(State) = LaneCount /\ Len(State) >= 2 /\ Len(Paths) = LaneCount
  BY StateLemma, PathsAssumption
<1>2. C!LaneStates(State, Graphs[down]) = C!SchedulerLaneStates(State)
  BY <1>1, GraphLemma DEF C!LaneStates
<1>3. ASSUME NEW l \in Lanes
      PROVE  /\ C!SchedulerLaneStates(State)[l] \in {"restricted", "optimal", "candidate"}
             /\ C!SchedulerLaneStates(State)[l] = "restricted" <=> l \in flagged
  <2>1. l \in 1..Len(State) /\ State[l].flagged = (l \in flagged)
    BY <1>1, StateLemma DEF Lanes
  <2> QED
    BY <2>1 DEF C!SchedulerLaneStates
<1> QED
  BY <1>2, <1>3

\* On node-disjoint lanes a link has one lane, and so has a router.
LEMMA LinkLemma ==
    ASSUME NodeDisjoint(Paths), NEW l \in Lanes, NEW k \in C!LinksOf(Paths[l])
    PROVE  k \in PathLinks /\ C!LaneOf(Paths, k) = l /\ LanesOver[k] = {l}
<1>1. Len(Paths) = LaneCount /\ Lanes = 1..Len(Paths)
  BY PathsAssumption DEF Lanes
<1>2. \A m \in Lanes : k \in C!LinksOf(Paths[m]) => m = l
  BY <1>1 DEF NodeDisjoint
<1>3. {i \in 1..Len(Paths) : k \in C!LinksOf(Paths[i])} = {l}
  BY <1>1, <1>2
<1>4. l # 0 /\ l \in Int
  BY DEF Lanes
<1>5. C!Least({l}) = l
  BY <1>4 DEF C!Least, C!Min
<1>6. k \in PathLinks
  BY DEF PathLinks
<1>7. LanesOver[k] = {l}
  BY <1>1, <1>3, <1>6 DEF LanesOver
<1> QED
  BY <1>3, <1>5, <1>6, <1>7 DEF C!LaneOf

LEMMA RouterLemma ==
    ASSUME NodeDisjoint(Paths), NEW l \in Lanes, NEW i \in 2..(Len(Paths[l]) - 1)
    PROVE  LET node == Paths[l][i]
           IN  /\ node \in PathNodes /\ node \notin {Source, Dest}
               /\ {m \in 1..Len(Paths) : \E j \in 1..Len(Paths[m]) : Paths[m][j] = node} = {l}
<1> DEFINE node == Paths[l][i]
<1>1. Len(Paths) = LaneCount /\ Lanes = 1..Len(Paths) /\ 1 \in Lanes
  BY PathsAssumption, SchedulerAssumption DEF Lanes
<1>2. \A m \in Lanes : Len(Paths[m]) \in Nat /\ Len(Paths[m]) >= 2
  BY PathsAssumption
<1>3. i \in 1..Len(Paths[l])
  BY <1>2
<1>4. \A m \in Lanes : \A j \in 1..Len(Paths[m]) :
          node = Paths[m][j] => l = m /\ j \notin {1, Len(Paths[m])}
  BY <1>1 DEF NodeDisjoint
<1>5. 1 \in 1..Len(Paths[1]) /\ Len(Paths[1]) \in 1..Len(Paths[1])
  BY <1>1, <1>2
<1>6. node \in PathNodes
  BY <1>3 DEF PathNodes
<1>7. node # Source /\ node # Dest
  BY <1>1, <1>4, <1>5 DEF Source, Dest
<1> HIDE DEF node
<1>8. node = Paths[l][i]
  BY DEF node
<1>9. {m \in 1..Len(Paths) : \E j \in 1..Len(Paths[m]) : Paths[m][j] = node} = {l}
  BY <1>1, <1>3, <1>4, <1>8
<1> QED
  BY <1>6, <1>7, <1>9 DEF node
-----------------------------------------------------------------------------
\* What the page makes of a loss and of a share, in whole per cents.
LEMMA RoundingLemma ==
    ASSUME NEW n \in Nat \ {0}, NEW a \in Nat, a <= 100 * n,
           NEW q \in Int, q = (100 * n - a) \div n,
           NEW r \in Int, r = (2 * a + n) \div (2 * n)
    PROVE  q \in 0..100 /\ r \in 0..100 /\ q + r \in {99, 100}
<1>1. n * q <= 100 * n - a /\ 100 * n - a < n * q + n
  OBVIOUS
<1>2. 2 * (n * r) <= 2 * a + n /\ 2 * a + n < 2 * (n * r) + 2 * n
  OBVIOUS
<1>3. ASSUME NEW z \in Int, n * z < 101 * n PROVE z <= 100
  BY <1>3
<1>4. ASSUME NEW z \in Int, n * z > 98 * n PROVE z >= 99
  BY <1>4
<1>5. ASSUME NEW z \in Int, n * z > (0 - 1) * n PROVE z >= 0
  BY <1>5
<1>6. n * (q + r) = n * q + n * r /\ n * q \in Int /\ n * r \in Int
  OBVIOUS
<1>7. q + r <= 100 /\ q + r >= 99
  BY <1>1, <1>2, <1>3, <1>4, <1>6
<1>8. q >= 0 /\ r >= 0
  BY <1>1, <1>2, <1>5, <1>6
<1> QED
  BY <1>7, <1>8

LEMMA ShareLemma ==
    ASSUME NEW w \in Nat, NEW W \in Nat \ {0}, w <= W
    PROVE  (200 * w + W) \div (2 * W) <= 100
OBVIOUS

LEMMA WidthLemma ==
    ASSUME NEW v \in Nat, NEW w \in Nat, v <= w, NEW d \in Nat \ {0}
    PROVE  v \div d <= w \div d /\ v \div d \in Nat /\ w \div d \in Nat
OBVIOUS
-----------------------------------------------------------------------------
\* A base is what the loss shown leaves of a hundred, give or take one.
LEMMA BaseLemma ==
    ASSUME TypeOK, NEW l \in Lanes
    PROVE  /\ Base(l) \in 1..100 /\ State[l].loss \in 0..100
           /\ Base(l) + State[l].loss >= 99
           /\ Base(l) = 1 \/ Base(l) + State[l].loss <= 100
<1> DEFINE h == history[l]
           n == Len(h)
           a == 100 * Lost(h)
           q == (100 * n - a) \div n
           r == (2 * a + n) \div (2 * n)
<1>1. h \in Seq(Outcomes)
  BY DEF TypeOK, Outcomes
<1>2. n \in Nat /\ Lost(h) \in Nat /\ Lost(h) <= n
  <2> HIDE DEF h
  <2>1. Len(h) \in Nat
    BY <1>1
  <2>2. Lost(h) \in Nat /\ Lost(h) <= Len(h)
    BY <1>1, LostType
  <2> QED
    BY <2>1, <2>2
<1>3. CASE n = 0
  <2>1. Base(l) = 100
    BY <1>3 DEF Base
  <2>2. h = <<>>
    BY <1>1, <1>3
  <2>3. State[l].loss = 0
    BY <2>2 DEF State
  <2> QED
    BY <2>1, <2>3
<1>4. CASE n # 0
  <2>1. n \in Nat \ {0} /\ a \in Nat /\ a <= 100 * n
    BY <1>2, <1>4
  <2>2. q \in Int /\ r \in Int
    BY <2>1
  <2>3. 100 * (n - Lost(h)) = 100 * n - a /\ 200 * Lost(h) + n = 2 * a + n
    BY <1>2
  <2>4. Base(l) = IF q = 0 THEN 1 ELSE q
    BY <1>4, <2>3 DEF Base
  <2>5. State[l].loss = r
    <3>1. h # <<>>
      BY <1>4
    <3> QED
      BY <3>1, <2>3 DEF State
  <2>6. q \in 0..100 /\ r \in 0..100 /\ q + r \in {99, 100}
    <3> HIDE DEF n, a
    <3>1. q = (100 * n - a) \div n /\ r = (2 * a + n) \div (2 * n)
      OBVIOUS
    <3> HIDE DEF q, r
    <3> QED
      BY <2>1, <2>2, <3>1, RoundingLemma
  <2> HIDE DEF q, r
  <2> QED
    BY <2>4, <2>5, <2>6
<1> QED
  BY <1>3, <1>4

\* While lanes are mixed, the flagged and the others are all of them.
LEMMA CountsLemma ==
    ASSUME TypeOK
    PROVE  /\ IsFiniteSet(Healthy) /\ IsFiniteSet(flagged)
           /\ Cardinality(flagged) \in Nat /\ Cardinality(Healthy) \in Nat
           /\ Cardinality(flagged) + Cardinality(Healthy) = LaneCount
           /\ Mixed => Cardinality(flagged) >= 1 /\ Cardinality(Healthy) >= 1
<1>1. IsFiniteSet(Lanes) /\ Cardinality(Lanes) = LaneCount
  BY FS_Interval, SchedulerAssumption DEF Lanes
<1>2. Healthy \in SUBSET Lanes /\ flagged \in SUBSET Lanes
  BY DEF Healthy, TypeOK
<1>3. IsFiniteSet(Healthy) /\ IsFiniteSet(flagged)
  BY <1>1, <1>2, FS_Subset
<1>4. Cardinality(flagged) \in Nat /\ Cardinality(Healthy) \in Nat
  BY <1>3, FS_CardinalityType
<1>5. Healthy \cup flagged = Lanes /\ Healthy \cap flagged = {}
  BY <1>2 DEF Healthy
<1>6. Cardinality(flagged) + Cardinality(Healthy) = LaneCount
  <2>1. Cardinality(Healthy \cup flagged) =
          Cardinality(Healthy) + Cardinality(flagged) - Cardinality(Healthy \cap flagged)
    BY <1>3, FS_Union
  <2>2. Cardinality({}) = 0
    BY FS_EmptySet
  <2>3. Cardinality(Healthy \cup flagged) = LaneCount
    BY <1>1, <1>5, Zenon
  <2>4. Cardinality(Healthy \cap flagged) = 0
    BY <1>5, <2>2, Zenon
  <2> QED
    BY <1>4, <2>1, <2>3, <2>4
<1>7. Mixed => Cardinality(flagged) # 0 /\ Cardinality(Healthy) # 0
  BY <1>3, FS_EmptySet DEF Mixed
<1> QED
  BY <1>3, <1>4, <1>6, <1>7

\* The two sums of the model.
LEMMA TotalBaseLemma ==
    \E f : /\ Summed([l \in Healthy |-> Base(l)], SUBSET Healthy, f)
           /\ TotalBase = f[Healthy]
<1> DEFINE b == [l \in Healthy |-> Base(l)]
           F == CHOOSE f : f = [s \in SUBSET Healthy |-> IF s = {} THEN 0
                       ELSE LET x == CHOOSE x \in s : TRUE IN Base(x) + f[s \ {x}]]
<1>1. TotalBase = F[Healthy]
  BY DEF TotalBase, MapThenSumSet, MapThenFoldSet
<1>2. IsFiniteSet(Healthy)
  <2>1. IsFiniteSet(Lanes)
    BY FS_Interval, SchedulerAssumption DEF Lanes
  <2> QED
    BY <2>1, FS_Subset DEF Healthy
<1>3. PICK f : Summed(b, SUBSET Healthy, f)
  BY <1>2, SumExists
<1>4. \A s \in SUBSET Healthy : s # {} => b[CHOOSE x \in s : TRUE] = Base(CHOOSE x \in s : TRUE)
  BY DEF Healthy
<1>5. \A g : g = [s \in SUBSET Healthy |-> IF s = {} THEN 0
                       ELSE LET x == CHOOSE x \in s : TRUE IN Base(x) + g[s \ {x}]]
             <=> Summed(b, SUBSET Healthy, g)
  BY <1>4 DEF Summed
<1>6. Summed(b, SUBSET Healthy, F)
  BY <1>3, <1>5
<1> QED
  BY <1>1, <1>6

\* The bases of the lanes that are not flagged add up to no less than each of them and
\* no more than their number times a bound of them.
LEMMA TotalLemma ==
    ASSUME TypeOK, NEW m \in Nat, \A l \in Healthy : Base(l) <= m
    PROVE  /\ TotalBase \in Nat /\ \A l \in Healthy : Base(l) <= TotalBase
           /\ TotalBase <= m * Cardinality(Healthy)
<1> DEFINE b == [l \in Healthy |-> Base(l)]
<1>1. PICK f : Summed(b, SUBSET Healthy, f) /\ TotalBase = f[Healthy]
  BY TotalBaseLemma
<1>2. \A l \in Healthy : b[l] = Base(l) /\ b[l] \in Nat /\ b[l] <= m
  BY BaseLemma DEF Healthy
<1>3. IsFiniteSet(Healthy) /\ Healthy \in SUBSET Healthy
  BY CountsLemma
<1>5. Summed(b, SUBSET Healthy, f)
  BY <1>1
<1> HIDE DEF b
<1>6. \A l \in Healthy : b[l] \in Nat
  BY <1>2
<1>7. \A l \in Healthy : b[l] <= m
  BY <1>2
<1>8. PICK H : H = Healthy
  OBVIOUS
<1>9. PICK c : c = b
  OBVIOUS
<1>10. IsFiniteSet(H) /\ Summed(c, SUBSET H, f)
  BY <1>3, <1>5, <1>8, <1>9
<1>15. TotalBase = f[H] /\ \A l \in H : c[l] = Base(l)
  BY <1>1, <1>2, <1>8, <1>9
<1>11. \A y \in H : c[y] \in Nat
  BY <1>6, <1>8, <1>9
<1>12. \A y \in H : c[y] <= m
  BY <1>7, <1>8, <1>9
<1>16. IsFiniteSet(H)
  BY <1>10
<1>17. Summed(c, SUBSET H, f)
  BY <1>10
<1>14. /\ f[H] \in Nat /\ \A y \in H : c[y] <= f[H]
       /\ f[H] <= m * Cardinality(H)
  BY <1>16, <1>17, <1>11, <1>12, SumLemma
<1> QED
  BY <1>8, <1>14, <1>15

\* No share is more than the whole, and a lane that is not flagged has one of at least
\* its base.
LEMMA WeightLemma ==
    ASSUME TypeOK
    PROVE  /\ WholeWeight \in Nat \ {0}
           /\ \A l \in Lanes : /\ Weight(l) \in Nat
                               /\ l \notin flagged => Weight(l) <= WholeWeight
<1> DEFINE F == Cardinality(flagged)
           p == ProbeShare
<1>1. LaneCount \in Nat \ {0} /\ p \in Nat /\ p <= 50 /\ 100 - p \in Nat
  BY SchedulerAssumption
<1>2. CASE ~Mixed
  BY <1>1, <1>2 DEF WholeWeight, Weight
<1>3. CASE Mixed
  <2>1. F \in Nat /\ F >= 1 /\ Healthy # {}
    BY <1>3, CountsLemma DEF Mixed
  <2>2. \A l \in Lanes : Base(l) \in 1..100
    BY BaseLemma
  <2>3. \A l \in Healthy : Base(l) <= 100
    BY <2>2 DEF Healthy
  <2>4. TotalBase \in Nat /\ \A l \in Healthy : Base(l) <= TotalBase
    BY <2>3, TotalLemma
  <2>5. TotalBase >= 1
    BY <2>1, <2>2, <2>4 DEF Healthy
  <2>6. TotalBase * F \in Nat \ {0}
    BY <2>1, <2>4, <2>5
  <2>7. WholeWeight = 100 * (TotalBase * F)
    BY <1>3, <2>1, <2>4 DEF WholeWeight
  <2>8. ASSUME NEW l \in Lanes
        PROVE  Weight(l) \in Nat /\ (l \notin flagged => Weight(l) <= WholeWeight)
    <3>1. CASE l \in flagged
      <4>1. Weight(l) = p * TotalBase
        BY <1>3, <3>1 DEF Weight
      <4> QED
        BY <4>1, <3>1, <1>1, <2>4
    <3>2. CASE l \notin flagged
      <4>1. Weight(l) = (100 - p) * (Base(l) * F)
        BY <1>1, <1>3, <3>2, <2>1, <2>2 DEF Weight
      <4>2. Base(l) \in Nat /\ Base(l) <= TotalBase
        BY <3>2, <2>2, <2>4 DEF Healthy
      <4> HIDE DEF F, p
      <4>3. Base(l) * F <= TotalBase * F /\ Base(l) * F \in Nat
        BY <4>2, <2>1, <2>4
      <4>4. (100 - p) * (Base(l) * F) <= 100 * (Base(l) * F)
            /\ (100 - p) * (Base(l) * F) \in Nat
        BY <1>1, <4>3
      <4> QED
        BY <4>1, <4>3, <4>4, <2>6, <2>7, <3>2
    <3> QED
      BY <3>1, <3>2
  <2> QED
    BY <2>6, <2>7, <2>8
<1> QED
  BY <1>2, <1>3

\* A link of one lane carries the share of that lane.
LEMMA CarriedLemma ==
    ASSUME TypeOK, NEW l \in Lanes, NEW k, LanesOver[k] = {l}
    PROVE  Carried(State, k) = Weight(l)
<1> DEFINE b == [y \in {l} |-> State[y].weight]
           F == CHOOSE f : f = [s \in SUBSET {l} |-> IF s = {} THEN 0
                       ELSE LET x == CHOOSE x \in s : TRUE IN State[x].weight + f[s \ {x}]]
<1>1. Carried(State, k) = F[{l}]
  BY DEF Carried, MapThenSumSet, MapThenFoldSet
<1>2. IsFiniteSet({l})
  BY FS_Singleton
<1>3. PICK f : Summed(b, SUBSET {l}, f)
  BY <1>2, SumExists
<1>4. \A s \in SUBSET {l} : s # {} => b[CHOOSE x \in s : TRUE] = State[CHOOSE x \in s : TRUE].weight
  OBVIOUS
<1>5. \A g : g = [s \in SUBSET {l} |-> IF s = {} THEN 0
                       ELSE LET x == CHOOSE x \in s : TRUE IN State[x].weight + g[s \ {x}]]
             <=> Summed(b, SUBSET {l}, g)
  BY <1>4 DEF Summed
<1>6. Summed(b, SUBSET {l}, F)
  BY <1>3, <1>5
<1>7. b[l] = Weight(l) /\ Weight(l) \in Nat
  BY StateLemma, WeightLemma
<1> HIDE DEF F, b
<1>8. {l} \in SUBSET {l} /\ {} \in SUBSET {l} /\ {l} # {} /\ {l} \ {l} = {}
      /\ (CHOOSE x \in {l} : TRUE) = l
  OBVIOUS
<1>9. F[{}] = 0
  BY <1>6, <1>8 DEF Summed
<1>10. F[{l}] = b[l] + F[{}]
  BY <1>6, <1>8 DEF Summed
<1> QED
  BY <1>1, <1>7, <1>9, <1>10

\* Among the lanes that are not flagged a green one delivers as much as any, but for the
\* tolerance and the rounding.
LEMMA GreenLemma ==
    ASSUME TypeOK, NEW l \in Lanes, C!SchedulerLaneStates(State)[l] = "optimal"
    PROVE  l \in Healthy /\ \A m \in Healthy : Base(m) <= Base(l) + (C!Tolerance + 1)
<1> DEFINE healthy == {i \in 1..Len(State) : ~State[i].flagged}
           losses == {State[i].loss : i \in healthy}
           least == C!Least(losses)
<1>1. Len(State) = LaneCount /\ Lanes = 1..Len(State)
  BY StateLemma DEF Lanes
<1>2. healthy = Healthy
  BY <1>1, StateLemma DEF Healthy
<1>3. C!SchedulerLaneStates(State)[l] =
          IF l \notin healthy THEN "restricted"
          ELSE IF State[l].loss <= (IF healthy = {} THEN 0 ELSE least) + C!Tolerance
               THEN "optimal" ELSE "candidate"
  BY <1>1 DEF C!SchedulerLaneStates
<1>4. l \in healthy /\ State[l].loss <= least + C!Tolerance
  BY <1>3
<1>5. \A m \in Lanes : State[m].loss \in Nat
  BY BaseLemma
<1> HIDE DEF healthy
<1>6. losses \subseteq Nat /\ losses # {}
  BY <1>2, <1>4, <1>5 DEF Healthy
<1>7. least \in losses /\ \A x \in losses : least <= x
  <2>1. PICK n \in losses : \A x \in losses : n <= x
    BY <1>6, LeastOfNat
  <2> HIDE DEF losses
  <2> QED
    BY <2>1 DEF C!Least, C!Min
<1>8. \A m \in Healthy : least <= State[m].loss
  BY <1>2, <1>7
<1>9. least \in Nat
  BY <1>6, <1>7
<1>10. ASSUME NEW m \in Healthy PROVE Base(m) <= Base(l) + (C!Tolerance + 1)
  <2>1. m \in Lanes /\ State[l].loss <= State[m].loss + 2
    BY <1>4, <1>5, <1>8, <1>9, <1>10 DEF Healthy, C!Tolerance
  <2>2. /\ Base(m) \in 1..100 /\ State[m].loss \in 0..100
        /\ Base(m) = 1 \/ Base(m) + State[m].loss <= 100
    BY <2>1, BaseLemma
  <2>3. Base(l) \in 1..100 /\ State[l].loss \in 0..100 /\ Base(l) + State[l].loss >= 99
    BY BaseLemma
  <2>4. ASSUME NEW bl \in Nat, NEW bm \in Nat, NEW xl \in Nat, NEW xm \in Nat,
               xl <= xm + 2, bl + xl >= 99, bm + xm <= 100
        PROVE  bm <= bl + 3
    BY <2>4
  <2>5. Base(m) <= Base(l) + 3
    <3>1. CASE Base(m) = 1
      BY <2>3, <3>1
    <3>2. CASE Base(m) + State[m].loss <= 100
      <4>1. /\ Base(m) \in Nat /\ Base(l) \in Nat
            /\ State[m].loss \in Nat /\ State[l].loss \in Nat
        BY <2>2, <2>3
      <4> QED
        BY <4>1, <3>2, <2>1, <2>3, <2>4
    <3> QED
      BY <2>2, <3>1, <3>2
  <2> QED
    BY <2>5, <2>3 DEF C!Tolerance
<1> QED
  BY <1>2, <1>4, <1>10
-----------------------------------------------------------------------------
LEMMA WholeGraphLemma == NoNode \in DOMAIN Graphs /\ WholeGraph = Graphs[NoNode]
BY DEF Graphs, WholeGraph

LEMMA LinkColourLemma ==
    ASSUME TypeOK, NodeDisjoint(Paths), NEW sts, NEW l \in Lanes, NEW k \in C!LinksOf(Paths[l])
    PROVE  WholeGraph.lane[k] = l /\ l # 0 /\ LinkColour(WholeGraph, sts, k) = sts[l]
<1>1. WholeGraph.lane[k] = l
  BY WholeGraphLemma, GraphLemma, LinkLemma
<1>2. l # 0
  BY DEF Lanes
<1> QED
  BY <1>1, <1>2 DEF LinkColour

LEMMA NodeColourLemma ==
    ASSUME TypeOK, NodeDisjoint(Paths), NEW sts, NEW l \in Lanes, sts[l] # "none",
           NEW down \in DOMAIN Graphs, NEW i \in 2..(Len(Paths[l]) - 1), Paths[l][i] # down
    PROVE  NodeColour(Graphs[down], sts, Paths[l][i]) = sts[l]
<1> DEFINE node == Paths[l][i]
           g == Graphs[down]
           on == {m \in 1..Len(g.paths) : \E j \in 1..Len(g.paths[m]) : g.paths[m][j] = node}
<1>1. /\ g.mode = "tri" /\ g.paths = Paths /\ g.up = PathNodes \ {down}
      /\ g.source = Source /\ g.dest = Dest
  BY GraphLemma
<1>2. node \in PathNodes /\ node \notin {Source, Dest}
  BY RouterLemma
<1>3. {m \in 1..Len(Paths) : \E j \in 1..Len(Paths[m]) : Paths[m][j] = node} = {l}
  BY RouterLemma
<1>4. on = {l}
  BY <1>1, <1>3
<1>5. C!Least({l}) = l
  BY DEF Lanes, C!Least, C!Min
<1>6. NodeState(g, sts, node) =
          IF g.mode # "tri" \/ node \in {g.source, g.dest} \/ on = {} THEN "none"
          ELSE sts[C!Least(on)]
  BY DEF NodeState
<1>7. node # down
  OBVIOUS
<1> HIDE DEF node, g, on
<1>8. NodeState(g, sts, node) = sts[l]
  BY <1>1, <1>2, <1>4, <1>5, <1>6
<1>9. node \in g.up
  BY <1>1, <1>2, <1>7
<1>10. NodeColour(g, sts, node) = sts[l]
  BY <1>8, <1>9 DEF NodeColour
<1> QED
  BY <1>10 DEF node, g

\* A lane has one colour wherever it is drawn, whichever node is down (LaneHealth).
LEMMA OneColour ==
    ASSUME TypeOK, NodeDisjoint(Paths)
    PROVE  OneColourPerLane
<1> DEFINE sts == C!LaneStates(State, WholeGraph)
<1>1. sts = C!SchedulerLaneStates(State)
  BY WholeGraphLemma, ColourLemma
<1>2. ASSUME NEW l \in Lanes
      PROVE  LET hud == HudRow(State, l).colour
                 row == PathsRow(State, l)
             IN /\ row.colour = hud
                /\ row.badge = "flag" <=> hud = "restricted"
                /\ row.badge = "share" => row.share <= 100
                /\ \A k \in C!LinksOf(Paths[l]) : LinkColour(WholeGraph, sts, k) = hud
                /\ \A down \in DOMAIN Graphs, i \in 2..(Len(Paths[l]) - 1) :
                      Paths[l][i] # down => NodeColour(Graphs[down], sts, Paths[l][i]) = hud
  <2> DEFINE row == PathsRow(State, l)
             w == State[l].weight
  <2>1. /\ HudRow(State, l).colour = sts[l] /\ row.colour = sts[l]
        /\ row.badge = (IF State[l].flagged THEN "flag" ELSE "share")
        /\ row.share = (200 * w + WholeWeight) \div (2 * WholeWeight)
    BY <1>1 DEF HudRow, PathsRow
  <2>2. /\ sts[l] \in {"restricted", "optimal", "candidate"}
        /\ sts[l] = "restricted" <=> l \in flagged
    BY <1>1, WholeGraphLemma, ColourLemma
  <2>3. State[l].flagged = (l \in flagged) /\ w = Weight(l)
    BY StateLemma
  <2>4. row.badge = "flag" <=> sts[l] = "restricted"
    BY <2>1, <2>2, <2>3
  <2>5. row.badge = "share" => row.share <= 100
    <3>1. SUFFICES ASSUME row.badge = "share" PROVE row.share <= 100
      OBVIOUS
    <3>2. l \notin flagged
      BY <2>1, <2>3, <3>1
    <3>3. w \in Nat /\ WholeWeight \in Nat \ {0} /\ w <= WholeWeight
      BY <2>3, <3>2, WeightLemma
    <3>4. (200 * w + WholeWeight) \div (2 * WholeWeight) <= 100
      BY <3>3, ShareLemma
    <3> QED
      BY <2>1, <3>4
  <2>6. \A k \in C!LinksOf(Paths[l]) : LinkColour(WholeGraph, sts, k) = sts[l]
    BY LinkColourLemma
  <2> HIDE DEF row, sts
  <2>7. sts[l] # "none"
    BY <2>2
  <2>8. \A down \in DOMAIN Graphs, i \in 2..(Len(Paths[l]) - 1) :
           Paths[l][i] # down => NodeColour(Graphs[down], sts, Paths[l][i]) = sts[l]
    BY <2>7, NodeColourLemma
  <2> QED
    BY <2>1, <2>4, <2>5, <2>6, <2>8 DEF row
<1> QED
  BY <1>2 DEF OneColourPerLane
-----------------------------------------------------------------------------
\* A link is drawn in the colour of its lane, as wide as the share the lane has.
LEMMA DrawnLemma ==
    ASSUME TypeOK, NodeDisjoint(Paths), NEW a \in DrawnLinks(WholeGraph, State)
    PROVE  \E l \in Lanes :
               /\ a.colour = C!SchedulerLaneStates(State)[l] /\ a.carried = Weight(l)
               /\ a.colour # "restricted" =>
                      a.width = 20 + 10 * ((6 * Weight(l) + WholeWeight) \div (2 * WholeWeight))
<1> DEFINE sts == C!LaneStates(State, WholeGraph)
<1>1. sts = C!SchedulerLaneStates(State)
  BY WholeGraphLemma, ColourLemma
<1>2. PICK k \in WholeGraph.links :
        a = [colour |-> LinkColour(WholeGraph, sts, k),
             width |-> LinkWidth(WholeGraph, State, sts, k), carried |-> Carried(State, k)]
  BY DEF DrawnLinks
<1>3. k \in PathLinks
  BY <1>2, WholeGraphLemma, GraphLemma
<1>4. PICK l \in Lanes : k \in C!LinksOf(Paths[l])
  BY <1>3 DEF PathLinks
<1>5. WholeGraph.lane[k] = l /\ l # 0 /\ LinkColour(WholeGraph, sts, k) = sts[l]
  BY <1>4, LinkColourLemma
<1>6. LanesOver[k] = {l}
  BY <1>4, LinkLemma
<1>7. Carried(State, k) = Weight(l)
  BY <1>6, CarriedLemma
<1>8. State[l].weight = Weight(l)
  BY StateLemma
<1> HIDE DEF sts
<1>9. sts[l] # "restricted" =>
        LinkWidth(WholeGraph, State, sts, k) =
            20 + 10 * ((6 * Weight(l) + WholeWeight) \div (2 * WholeWeight))
  BY <1>5, <1>8 DEF LinkWidth
<1> QED
  BY <1>1, <1>2, <1>5, <1>7, <1>9

LEMMA ProductLemma ==
    ASSUME NEW x \in Nat, NEW y \in Nat, NEW z \in Nat, x <= y
    PROVE  x * z <= y * z /\ x * z \in Nat /\ y * z \in Nat
OBVIOUS

\* A lane that is not flagged and is green has no less than any other, but for the
\* tolerance.
LEMMA GreenWeightLemma ==
    ASSUME TypeOK, ProbeShare * LaneCount <= 100,
           NEW l \in Lanes, C!SchedulerLaneStates(State)[l] = "optimal", NEW m \in Lanes
    PROVE  Weight(l) + Slack >= Weight(m)
<1> DEFINE F == Cardinality(flagged)
           H == Cardinality(Healthy)
           p == ProbeShare
           q == 100 - ProbeShare
           t == Base(l) + 3
<1>1. p \in Nat /\ q \in Nat /\ LaneCount \in Nat
  BY SchedulerAssumption
<1>2. F \in Nat /\ H \in Nat /\ F + H = LaneCount /\ (Mixed => F >= 1 /\ H >= 1)
  BY CountsLemma
<1>3. Slack = (q * F) * 4
  BY DEF Slack, C!Tolerance
<1>4. Base(l) \in Nat /\ t \in Nat
  BY BaseLemma
<1>5. l \in Healthy /\ \A k \in Healthy : Base(k) <= t
  BY GreenLemma DEF C!Tolerance
<1>6. TotalBase \in Nat /\ TotalBase <= t * H
  BY <1>4, <1>5, TotalLemma
<1>7. Weight(l) \in Nat /\ Weight(m) \in Nat
  BY WeightLemma
<1>8. \A k \in Lanes : Mixed => Weight(k) = IF k \in flagged THEN p * TotalBase
                                             ELSE (q * Base(k)) * F
  BY DEF Weight
<1>9. l \notin flagged /\ (m \notin flagged => m \in Healthy)
  BY <1>5 DEF Healthy
<1>10. q * F \in Nat
  BY <1>1, <1>2
<1>11. CASE ~Mixed
  <2>1. Weight(l) = 1 /\ Weight(m) = 1
    BY <1>11 DEF Weight
  <2> QED
    BY <2>1, <1>3, <1>10
<1> HIDE DEF F, H, p, q, t
<1>12. CASE Mixed
  <2>1. Weight(l) = (q * F) * Base(l)
    <3>1. Weight(l) = (q * Base(l)) * F
      BY <1>8, <1>9, <1>12
    <3> QED
      BY <3>1, <1>1, <1>2, <1>4
  <2>2. Weight(l) + Slack = (q * F) * (Base(l) + 4)
    BY <2>1, <1>3, <1>4, <1>10
  <2>3. t <= Base(l) + 4
    BY <1>4 DEF t
  <2>4. t * (q * F) <= (Base(l) + 4) * (q * F)
    BY <2>3, <1>4, <1>10, ProductLemma
  <2>5. Weight(m) <= t * (q * F)
    <3>1. CASE m \notin flagged
      <4>1. Base(m) \in Nat /\ Base(m) <= t
        BY <3>1, <1>5, <1>9, BaseLemma
      <4>2. Weight(m) = (q * Base(m)) * F
        BY <3>1, <1>8, <1>12
      <4>3. Weight(m) = Base(m) * (q * F)
        BY <4>1, <4>2, <1>1, <1>2
      <4> QED
        BY <4>1, <4>3, <1>4, <1>10, ProductLemma
    <3>2. CASE m \in flagged
      <4>1. Weight(m) = TotalBase * p
        BY <3>2, <1>1, <1>6, <1>8, <1>12
      <4>2. TotalBase * p <= (t * H) * p
        BY <1>1, <1>2, <1>4, <1>6, ProductLemma
      <4>3. H * p <= q * F
        <5>1. F >= 1 /\ H <= LaneCount - 1
          BY <1>2, <1>12
        <5>2. p * LaneCount <= 100 /\ q = 100 - p
          BY DEF p, q
        <5>3. LaneCount - 1 \in Nat
          BY <1>1, <1>2, <1>12
        <5>4. H * p <= (LaneCount - 1) * p
          BY <5>1, <5>3, <1>1, <1>2, ProductLemma
        <5>5. (LaneCount - 1) * p = p * LaneCount - p
          BY <1>1
        <5>6. H * p <= q
          BY <5>2, <5>4, <5>5, <1>1, <1>2
        <5>7. 1 * q <= F * q
          BY <5>1, <1>1, <1>2, ProductLemma
        <5>8. F * q = q * F /\ 1 * q = q
          BY <1>1, <1>2
        <5> QED
          BY <5>6, <5>7, <5>8, <1>1, <1>2, <1>10
      <4>4. H * p \in Nat
        BY <1>1, <1>2
      <4>5. (H * p) * t <= (q * F) * t
        BY <4>3, <4>4, <1>4, <1>10, ProductLemma
      <4>6. (t * H) * p = (H * p) * t /\ (q * F) * t = t * (q * F)
        BY <1>1, <1>2, <1>4
      <4> QED
        BY <4>1, <4>2, <4>5, <4>6, <1>1, <1>2, <1>4, <1>6, <1>10
    <3> QED
      BY <3>1, <3>2
  <2>6. (Base(l) + 4) * (q * F) = (q * F) * (Base(l) + 4)
    BY <1>4, <1>10
  <2>7. t * (q * F) \in Nat /\ (q * F) * (Base(l) + 4) \in Nat
    BY <1>4, <1>10
  <2> QED
    BY <2>2, <2>4, <2>5, <2>6, <2>7, <1>7
<1> QED
  BY <1>11, <1>12

\* Traffic follows the colours (LaneHealth).
LEMMA Green ==
    ASSUME TypeOK, NodeDisjoint(Paths), ProbeShare * LaneCount <= 100
    PROVE  GreenIsPreferred
<1> DEFINE W == WholeWeight
           width(v) == 20 + 10 * ((6 * v + W) \div (2 * W))
           sts == C!SchedulerLaneStates(State)
<1>1. W \in Nat \ {0} /\ \A l \in Lanes : Weight(l) \in Nat
  BY WeightLemma
<1>2. ASSUME NEW v \in Nat, NEW w \in Nat, v <= w PROVE width(v) <= width(w)
  <2>1. /\ 6 * v + W \in Nat /\ 6 * w + W \in Nat /\ 6 * v + W <= 6 * w + W
        /\ 2 * W \in Nat \ {0}
    BY <1>1, <1>2
  <2>2. PICK x \in Nat : x = (6 * v + W) \div (2 * W)
    BY <2>1, WidthLemma
  <2>3. PICK y \in Nat : y = (6 * w + W) \div (2 * W)
    BY <2>1, WidthLemma
  <2>4. x <= y
    BY <2>1, <2>2, <2>3, WidthLemma
  <2>5. 20 + 10 * x <= 20 + 10 * y
    BY <2>4
  <2> QED
    BY <2>2, <2>3, <2>5
<1>3. ASSUME NEW a \in DrawnLinks(WholeGraph, State), NEW b \in DrawnLinks(WholeGraph, State)
      PROVE  /\ a.colour = "optimal" => a.carried + Slack >= b.carried
             /\ "restricted" \notin {a.colour, b.colour} /\ a.carried >= b.carried
                    => a.width >= b.width
  <2>1. PICK l \in Lanes : /\ a.colour = sts[l] /\ a.carried = Weight(l)
                           /\ a.colour # "restricted" => a.width = width(Weight(l))
    BY DrawnLemma
  <2>2. PICK m \in Lanes : /\ b.colour = sts[m] /\ b.carried = Weight(m)
                           /\ b.colour # "restricted" => b.width = width(Weight(m))
    BY DrawnLemma
  <2>3. a.colour = "optimal" => a.carried + Slack >= b.carried
    <3>1. SUFFICES ASSUME a.colour = "optimal" PROVE Weight(l) + Slack >= Weight(m)
      BY <2>1, <2>2
    <3> QED
      BY <2>1, <3>1, GreenWeightLemma
  <2> HIDE DEF width, W, sts
  <2>4. "restricted" \notin {a.colour, b.colour} /\ a.carried >= b.carried
           => a.width >= b.width
    <3>1. SUFFICES ASSUME a.colour # "restricted", b.colour # "restricted",
                          a.carried >= b.carried
                   PROVE  a.width >= b.width
      OBVIOUS
    <3>2. Weight(m) \in Nat /\ Weight(l) \in Nat /\ Weight(m) <= Weight(l)
      BY <1>1, <2>1, <2>2, <3>1
    <3>3. width(Weight(m)) <= width(Weight(l))
      BY <1>2, <3>2
    <3> QED
      BY <2>1, <2>2, <3>1, <3>3
  <2> QED
    BY <2>3, <2>4
<1> HIDE DEF sts, width, W
<1> QED
  BY <1>3 DEF GreenIsPreferred
-----------------------------------------------------------------------------
\* On lanes that share no node but their ends, as canvas.ts:248 says they are, a lane has
\* one colour on its links, on its routers that are up and in the two lists of lanes,
\* whichever node is down, and only a flagged lane has the red badge.
THEOREM OneColourPerLaneHolds ==
    ASSUME NodeDisjoint(Paths)
    PROVE  Spec => []OneColourPerLane
<1>1. TypeOK => OneColourPerLane
  BY OneColour
<1> QED
  BY <1>1, TypeCorrect, PTL

\* With it, and with probes that leave at least as much to a lane as all of them could
\* take (the default tenth with up to ten lanes, the 30 per cent the page offers at most
\* with three), a green link carries no less than any other but
\* for the tolerance of the colour, and of two links that are not red the one that carries
\* more is not drawn thinner.
THEOREM GreenIsPreferredHolds ==
    ASSUME NodeDisjoint(Paths), ProbeShare * LaneCount <= 100
    PROVE  Spec => []GreenIsPreferred
<1>1. TypeOK => GreenIsPreferred
  BY Green
<1> QED
  BY <1>1, TypeCorrect, PTL
=============================================================================
