------------------------- MODULE AlertHistory_proofs -------------------------
(***************************************************************************)
(* Proofs, for every set of services and every threshold, of the safety    *)
(* properties of AlertCycle and AlertHistory. The inductive invariant      *)
(* relates the persisted counter and notified status to the history the    *)
(* properties speak of.                                                    *)
(***************************************************************************)
EXTENDS AlertHistory, TLAPS

(* The length of the run of equal evaluations a record stands for; a       *)
(* record of an older version stands for one.                              *)
RunLength(n) == IF snapshot[n].cycles > 0 THEN snapshot[n].cycles ELSE 1

(* The last k evaluations of n all are st.                                 *)
LastAre(n, k, st) == \A i \in Window : i > Threshold - k => recent[n][i] = st

(* What was last alerted is the persisted baseline.                        *)
AlertedIsNotified ==
    \A n \in Services : alerted[n] # NoStatus =>
        n \in DOMAIN snapshot /\ snapshot[n].notified = alerted[n]

(* A service without a record has no history.                              *)
UntrackedUnobserved ==
    \A n \in Services : n \notin DOMAIN snapshot => recent[n] = Unobserved

(* The counter counts only equal evaluations ...                           *)
CounterSound ==
    \A n \in DOMAIN snapshot : LastAre(n, RunLength(n), snapshot[n].status)

(* ... and, up to the threshold, all of them.                              *)
CounterComplete ==
    \A n \in DOMAIN snapshot : \A k \in Window :
        LastAre(n, k, snapshot[n].status) => RunLength(n) >= k

IInv ==
    /\ HTypeOK
    /\ AlertedIsNotified
    /\ UntrackedUnobserved
    /\ CounterSound
    /\ CounterComplete
    /\ SettledWhenStable

-----------------------------------------------------------------------------
(* One cycle: what is persisted, and which alerts are raised               *)

(* The code's effective threshold is at least one cycle.                   *)
LEMMA ThresholdFacts ==
    /\ Threshold \in Nat \ {0}
    /\ CycleCap \in Nat
    /\ Threshold <= CycleCap
  BY StabilizationAssumption DEF Threshold

(* A snapshot is a function from some services to records.                 *)
LEMMA SnapshotFacts ==
    ASSUME NEW prev \in Snapshots
    PROVE  /\ DOMAIN prev \subseteq Services
           /\ \A n \in DOMAIN prev :
                /\ prev[n] \in ServiceRecord
                /\ prev[n].status \in Status
                /\ prev[n].cycles \in 0..CycleCap
                /\ prev[n].notified \in Status \cup {NoStatus}
  BY ThresholdFacts DEF Snapshots, ServiceRecord

(* An evaluation is a function from some services to statuses.             *)
LEMMA EvaluationFacts ==
    ASSUME NEW current \in Evaluations
    PROVE  /\ DOMAIN current \subseteq Services
           /\ \A n \in DOMAIN current : current[n] \in Status
  BY DEF Evaluations

(* The code's counter k is not capped. The model's, Saturated(k), answers  *)
(* the two questions the code asks of a counter as k does, and goes on     *)
(* doing so after the next evaluation (runner.go:464-486).                 *)
LEMMA SaturationLosesNothing ==
    ASSUME NEW k \in Nat
    PROVE  /\ Saturated(k) > 0 <=> k > 0
           /\ Saturated(k) >= Threshold <=> k >= Threshold
           /\ Saturated(Saturated(k) + 1) = Saturated(k + 1)
  BY ThresholdFacts DEF Saturated

(* The new counter is positive and at most its cap.                        *)
LEMMA ConsecutiveType ==
    ASSUME NEW prev \in Snapshots, NEW n, NEW status
    PROVE  Consecutive(prev, n, status) \in 1..CycleCap
  BY SnapshotFacts, ThresholdFacts DEF Consecutive, Saturated

(* The baseline of a tracked service is a status, never the zero value.    *)
LEMMA LastNotifiedType ==
    ASSUME NEW prev \in Snapshots, NEW n
    PROVE  /\ LastNotified(prev, n) \in Status \cup {NoStatus}
           /\ n \in DOMAIN prev => LastNotified(prev, n) \in Status
           /\ n \notin DOMAIN prev => LastNotified(prev, n) = NoStatus
           /\ PreviousStatus(prev, n) = LastNotified(prev, n)
  BY SnapshotFacts DEF LastNotified, PreviousStatus

(* What is persisted for the next cycle is again a snapshot, of the        *)
(* services evaluated.                                                     *)
LEMMA UpdatedType ==
    ASSUME NEW prev \in Snapshots, NEW current \in Evaluations
    PROVE  /\ Updated(prev, current) \in Snapshots
           /\ DOMAIN Updated(prev, current) = DOMAIN current
<1>1. DOMAIN Updated(prev, current) = DOMAIN current
  BY DEF Updated
<1>2. ASSUME NEW n \in DOMAIN current
      PROVE  Updated(prev, current)[n] \in ServiceRecord
  <2>1. current[n] \in Status
    BY EvaluationFacts
  <2>2. Consecutive(prev, n, current[n]) \in 1..CycleCap
    BY ConsecutiveType
  <2>3. LastNotified(prev, n) \in Status \cup {NoStatus}
    BY LastNotifiedType
  <2> QED BY <2>1, <2>2, <2>3 DEF Updated, ServiceRecord
<1>3. Updated(prev, current) \in [DOMAIN current -> ServiceRecord]
  BY <1>2 DEF Updated
<1> QED BY <1>1, <1>3, EvaluationFacts DEF Snapshots

(* An alert is raised for exactly the eligible services: the second filter *)
(* of DetectServiceTransitions drops only services that appear in OK.      *)
LEMMA TransitionFacts ==
    ASSUME NEW prev \in Snapshots, NEW current \in Evaluations
    PROVE  /\ Transitions(prev, current) \in SUBSET Alerts
           /\ \A t \in Transitions(prev, current) :
                /\ t.name \in DOMAIN current
                /\ ShouldNotify(prev, t.name, current[t.name])
                /\ t.from = LastNotified(prev, t.name)
                /\ t.to = current[t.name]
                /\ t.from # t.to
           /\ \A n \in DOMAIN current :
                /\ ShouldNotify(prev, n, current[n])
                /\ n \in DOMAIN prev \/ current[n] # "OK"
                => [name |-> n, from |-> LastNotified(prev, n),
                    to |-> current[n]] \in Transitions(prev, current)
<1>1. ASSUME NEW t \in Transitions(prev, current)
      PROVE  /\ t \in Alerts
             /\ t.name \in DOMAIN current
             /\ ShouldNotify(prev, t.name, current[t.name])
             /\ t.from = LastNotified(prev, t.name)
             /\ t.to = current[t.name]
             /\ t.from # t.to
  <2>1. PICK n \in DOMAIN current :
          /\ ShouldNotify(prev, n, current[n])
          /\ IsTransition(prev, n, current[n])
          /\ t = [name |-> n, from |-> PreviousStatus(prev, n),
                  to |-> current[n]]
    BY <1>1 DEF Transitions, DetectTransitions, Eligible
  <2>2. /\ current[n] \in Status
        /\ n \in Services
    BY EvaluationFacts
  <2>3. /\ LastNotified(prev, n) \in Status \cup {NoStatus}
        /\ PreviousStatus(prev, n) = LastNotified(prev, n)
        /\ n \notin DOMAIN prev => LastNotified(prev, n) = NoStatus
    BY LastNotifiedType
  <2>4. LastNotified(prev, n) # current[n]
    BY <2>1, <2>2, <2>3 DEF IsTransition, FirstRun, Status, NoStatus
  <2> QED BY <2>1, <2>2, <2>3, <2>4 DEF Alerts
<1>2. ASSUME NEW n \in DOMAIN current,
             ShouldNotify(prev, n, current[n]),
             n \in DOMAIN prev \/ current[n] # "OK"
      PROVE  [name |-> n, from |-> LastNotified(prev, n), to |-> current[n]]
                \in Transitions(prev, current)
  <2>1. PreviousStatus(prev, n) = LastNotified(prev, n)
    BY LastNotifiedType
  <2>2. IsTransition(prev, n, current[n])
    BY <1>2, <2>1 DEF IsTransition, ShouldNotify, FirstRun
  <2>3. n \in Eligible(prev, current)
    BY <1>2 DEF Eligible
  <2> QED BY <2>1, <2>2, <2>3 DEF Transitions, DetectTransitions
<1> QED BY <1>1, <1>2

-----------------------------------------------------------------------------
(* The inductive invariant                                                 *)

(* The code's effective threshold, and the window it gives.                *)
LEMMA ThresholdType ==
    /\ Threshold \in Nat \ {0}
    /\ CycleCap \in Nat
    /\ Threshold <= CycleCap
    /\ Threshold \in Window
    /\ 1 \in Window
  BY ThresholdFacts DEF Window

(* A window of zero values with one status shifted in.                     *)
LEMMA ObservedType ==
    ASSUME NEW window \in [Window -> Status \cup {NoStatus}], NEW st \in Status
    PROVE  Observed(window, st) \in [Window -> Status \cup {NoStatus}]
  BY ThresholdType DEF Observed, Window

LEMMA UnobservedType == Unobserved \in [Window -> Status \cup {NoStatus}]
  BY DEF Unobserved

(* Fresh files and files of an older version satisfy the invariant.        *)
LEMMA InitInv == HInit => IInv
<1> SUFFICES ASSUME HInit PROVE IInv
  OBVIOUS
<1>1. snapshot \in Snapshots
  <2>1. CASE snapshot = NoSnapshot
    BY <2>1 DEF NoSnapshot, Snapshots
  <2>2. CASE snapshot \in OldSnapshots
    <3>1. PICK e \in Evaluations :
            snapshot = [n \in DOMAIN e |-> OldRecord(e[n])]
      BY <2>2 DEF OldSnapshots
    <3>2. \A n \in DOMAIN e : OldRecord(e[n]) \in ServiceRecord
      BY EvaluationFacts, ThresholdType DEF OldRecord, ServiceRecord
    <3>3. snapshot \in [DOMAIN e -> ServiceRecord]
      BY <3>1, <3>2
    <3> QED BY <3>3, EvaluationFacts DEF Snapshots
  <2> QED BY <2>1, <2>2 DEF HInit, Init
<1>2. \A n \in DOMAIN snapshot :
        snapshot[n].cycles = 0 /\ snapshot[n].notified = NoStatus
  <2>1. CASE snapshot = NoSnapshot
    BY <2>1 DEF NoSnapshot
  <2>2. CASE snapshot \in OldSnapshots
    <3>1. PICK e \in Evaluations :
            snapshot = [n \in DOMAIN e |-> OldRecord(e[n])]
      BY <2>2 DEF OldSnapshots
    <3>2. \A n \in DOMAIN snapshot : snapshot[n] = OldRecord(e[n])
      BY <3>1
    <3> QED BY <3>2 DEF OldRecord
  <2> QED BY <2>1, <2>2 DEF HInit, Init
<1>3. \A n \in DOMAIN snapshot : n \in Services /\ snapshot[n].status \in Status
  BY <1>1, SnapshotFacts
<1>4. \A n \in Services :
        recent[n] = IF n \in DOMAIN snapshot
                      THEN Observed(Unobserved, snapshot[n].status)
                      ELSE Unobserved
  BY DEF HInit
<1>5. recent \in [Services -> [Window -> Status \cup {NoStatus}]]
  <2>1. ASSUME NEW n \in Services
        PROVE  recent[n] \in [Window -> Status \cup {NoStatus}]
    BY <1>3, <1>4, ObservedType, UnobservedType
  <2> QED BY <2>1 DEF HInit
<1>6. HTypeOK
  BY <1>1, <1>5 DEF HInit, Init, HTypeOK, TypeOK
<1>7. AlertedIsNotified /\ UntrackedUnobserved
  BY <1>4 DEF HInit, AlertedIsNotified, UntrackedUnobserved
<1>8. \A n \in DOMAIN snapshot : \A i \in Window :
        recent[n][i] = IF i = Threshold THEN snapshot[n].status ELSE NoStatus
  <2> SUFFICES ASSUME NEW n \in DOMAIN snapshot, NEW i \in Window
               PROVE  recent[n][i] = IF i = Threshold
                                       THEN snapshot[n].status ELSE NoStatus
    OBVIOUS
  <2>1. recent[n] = Observed(Unobserved, snapshot[n].status)
    BY <1>3, <1>4
  <2>2. i # Threshold => i + 1 \in Window
    BY ThresholdType DEF Window
  <2> QED BY <2>1, <2>2 DEF Observed, Unobserved
<1>9. CounterSound
  BY <1>2, <1>8, ThresholdType DEF CounterSound, LastAre, RunLength, Window
<1>10. CounterComplete
  <2> SUFFICES ASSUME NEW n \in DOMAIN snapshot, NEW k \in Window,
                      LastAre(n, k, snapshot[n].status)
               PROVE  1 >= k
    BY <1>2 DEF CounterComplete, RunLength
  <2> SUFFICES ASSUME k > 1 PROVE FALSE
    BY DEF Window
  <2>1. /\ Threshold - 1 \in Window
        /\ Threshold - 1 > Threshold - k
        /\ Threshold - 1 # Threshold
    BY ThresholdType DEF Window
  <2>2. recent[n][Threshold - 1] = snapshot[n].status
    BY <2>1 DEF LastAre
  <2>3. recent[n][Threshold - 1] = NoStatus
    BY <1>8, <2>1
  <2> QED BY <1>3, <2>2, <2>3 DEF Status, NoStatus
<1>11. SettledWhenStable
  <2> SUFFICES ASSUME NEW n \in Services, NEW st \in Status,
                      \A i \in Window : recent[n][i] = st
               PROVE  n \in DOMAIN snapshot /\ LastNotified(snapshot, n) = st
    BY DEF SettledWhenStable
  <2>1. recent[n][Threshold] = st
    BY ThresholdType
  <2>2. n \in DOMAIN snapshot
    BY <1>4, <2>1, ThresholdType DEF Unobserved, Status, NoStatus
  <2> QED BY <1>2, <1>8, <2>1, <2>2, ThresholdType DEF LastNotified
<1> QED BY <1>6, <1>7, <1>9, <1>10, <1>11 DEF IInv

(* What an evaluation does to the record and the history of one service.   *)
LEMMA CycleFacts ==
    ASSUME IInv, NEW current \in Evaluations, HCycle(current)
    PROVE  /\ DOMAIN snapshot' = DOMAIN current
           /\ \A n \in DOMAIN current :
                /\ n \in Services
                /\ current[n] \in Status
                /\ snapshot'[n].status = current[n]
                /\ snapshot'[n].cycles = Consecutive(snapshot, n, current[n])
                /\ snapshot'[n].notified =
                     IF ShouldNotify(snapshot, n, current[n])
                       THEN current[n] ELSE LastNotified(snapshot, n)
           /\ \A n \in Services : \A i \in Window :
                recent'[n][i] = IF n \notin DOMAIN current THEN NoStatus
                                ELSE IF i = Threshold THEN current[n]
                                ELSE recent[n][i + 1]
<1>1. snapshot' = Updated(snapshot, current)
  BY DEF HCycle, Cycle
<1>2. DOMAIN snapshot' = DOMAIN current
  BY <1>1 DEF Updated
<1>3. \A n \in DOMAIN current :
        /\ n \in Services
        /\ current[n] \in Status
        /\ snapshot'[n].status = current[n]
        /\ snapshot'[n].cycles = Consecutive(snapshot, n, current[n])
        /\ snapshot'[n].notified =
             IF ShouldNotify(snapshot, n, current[n])
               THEN current[n] ELSE LastNotified(snapshot, n)
  BY <1>1, EvaluationFacts DEF Updated, Eligible
<1>4. \A n \in Services : \A i \in Window :
        recent'[n][i] = IF n \notin DOMAIN current THEN NoStatus
                        ELSE IF i = Threshold THEN current[n]
                        ELSE recent[n][i + 1]
  BY DEF HCycle, Cycle, Observed, Unobserved
<1> QED BY <1>2, <1>3, <1>4

(* The counter after an evaluation: it grows by one on the same status, up *)
(* to its cap, and restarts on another.                                    *)
LEMMA CounterStep ==
    ASSUME HTypeOK, NEW n, NEW st
    PROVE  LET same == n \in DOMAIN snapshot /\ snapshot[n].status = st
               c == Consecutive(snapshot, n, st)
           IN  /\ c \in 1..CycleCap
               /\ ~same => c = 1
               /\ same => c <= RunLength(n) + 1
               /\ same => c = RunLength(n) + 1 \/ c = CycleCap
               /\ same => RunLength(n) \in 1..CycleCap
  BY SnapshotFacts, ConsecutiveType, ThresholdType
  DEF HTypeOK, TypeOK, Consecutive, Saturated, RunLength

(* Every conjunct of the invariant survives an evaluation.                 *)
LEMMA CycleInv ==
    ASSUME IInv, NEW current \in Evaluations, HCycle(current)
    PROVE  IInv'
<1> USE DEF IInv
<1>1. HTypeOK'
  <2>1. snapshot' \in Snapshots
    BY UpdatedType DEF HCycle, Cycle, HTypeOK, TypeOK
  <2>2. outbox' \in SUBSET Alerts
    BY TransitionFacts DEF HCycle, Cycle, HTypeOK, TypeOK
  <2>3. alerted' \in [Services -> Status \cup {NoStatus}]
    BY EvaluationFacts DEF HCycle, Cycle, HTypeOK, TypeOK
  <2>4. recent' \in [Services -> [Window -> Status \cup {NoStatus}]]
    BY EvaluationFacts, ObservedType, UnobservedType
       DEF HCycle, Cycle, HTypeOK, TypeOK
  <2> QED BY <2>1, <2>2, <2>3, <2>4 DEF HTypeOK, TypeOK
<1>2. AlertedIsNotified'
  <2> SUFFICES ASSUME NEW n \in Services, alerted'[n] # NoStatus
               PROVE  /\ n \in DOMAIN snapshot'
                      /\ snapshot'[n].notified = alerted'[n]
    BY DEF AlertedIsNotified
  <2>1. n \in DOMAIN current
    BY DEF HCycle, Cycle
  <2>2. CASE \E t \in outbox' : t.name = n
    <3>1. ShouldNotify(snapshot, n, current[n])
      BY <2>2, TransitionFacts DEF HCycle, Cycle, HTypeOK, TypeOK
    <3>2. alerted'[n] = current[n]
      BY <2>1, <2>2 DEF HCycle, Cycle
    <3> QED BY <2>1, <3>1, <3>2, CycleFacts
  <2>3. CASE ~ \E t \in outbox' : t.name = n
    <3>1. alerted'[n] = alerted[n]
      BY <2>1, <2>3 DEF HCycle, Cycle
    <3>2. n \in DOMAIN snapshot /\ LastNotified(snapshot, n) = alerted[n]
      BY <3>1 DEF AlertedIsNotified, LastNotified
    <3>3. ~ ShouldNotify(snapshot, n, current[n])
      BY <2>1, <2>3, <3>2, TransitionFacts DEF HCycle, Cycle, HTypeOK, TypeOK
    <3> QED BY <2>1, <3>1, <3>2, <3>3, CycleFacts
  <2> QED BY <2>2, <2>3
<1>3. UntrackedUnobserved'
  BY CycleFacts DEF UntrackedUnobserved, HCycle, Cycle
<1>4. CounterSound'
  <2> SUFFICES ASSUME NEW n \in DOMAIN current, NEW i \in Window,
                      i > Threshold - Consecutive(snapshot, n, current[n])
               PROVE  recent'[n][i] = current[n]
    BY CycleFacts, CounterStep, ThresholdType
       DEF CounterSound, LastAre, RunLength, Window
  <2>1. CASE i = Threshold
    BY <2>1, CycleFacts
  <2>2. CASE i # Threshold
    <3>1. i + 1 \in Window
      BY <2>2, ThresholdType DEF Window
    <3>2. recent'[n][i] = recent[n][i + 1]
      BY <2>2, CycleFacts
    <3>3. n \in DOMAIN snapshot /\ snapshot[n].status = current[n]
      BY <2>2, CounterStep, ThresholdType DEF Window
    <3>4. i + 1 > Threshold - RunLength(n)
      BY <3>3, CounterStep, ThresholdType DEF Window
    <3> QED BY <3>1, <3>2, <3>3, <3>4 DEF CounterSound, LastAre
  <2> QED BY <2>1, <2>2
<1>5. ASSUME NEW n \in DOMAIN current, NEW k \in Window,
             \A i \in Window : i > Threshold - k => recent'[n][i] = current[n]
      PROVE  Consecutive(snapshot, n, current[n]) >= k
  <2>1. CASE k = 1
    BY <2>1, CounterStep
  <2>2. CASE k > 1
    <3>1. ASSUME NEW j \in Window, j > Threshold - (k - 1)
          PROVE  recent[n][j] = current[n]
      <4>1. /\ j - 1 \in Window
            /\ j - 1 > Threshold - k
            /\ j - 1 # Threshold
            /\ (j - 1) + 1 = j
        BY <2>2, <3>1, ThresholdType DEF Window
      <4>2. recent'[n][j - 1] = recent[n][j]
        BY <4>1, CycleFacts
      <4> QED BY <4>1, <4>2, <1>5
    <3>2. recent[n][Threshold] = current[n]
      BY <2>2, <3>1, ThresholdType DEF Window
    <3>3. current[n] \in Status /\ n \in Services
      BY CycleFacts
    <3>4. n \in DOMAIN snapshot
      BY <3>2, <3>3, ThresholdType
      DEF UntrackedUnobserved, Unobserved, Status, NoStatus
    <3>5. RunLength(n) >= 1
      BY <3>4, SnapshotFacts DEF RunLength, HTypeOK, TypeOK
    <3>6. recent[n][Threshold] = snapshot[n].status
      BY <3>4, <3>5, ThresholdType, SnapshotFacts
      DEF CounterSound, LastAre, RunLength, HTypeOK, TypeOK
    <3>7. k - 1 \in Window
      BY <2>2, ThresholdType DEF Window
    <3>8. LastAre(n, k - 1, snapshot[n].status)
      BY <3>1, <3>2, <3>6 DEF LastAre
    <3>9. RunLength(n) >= k - 1
      BY <3>4, <3>7, <3>8 DEF CounterComplete
    <3> QED BY <3>2, <3>4, <3>6, <3>9, CounterStep, ThresholdType DEF Window
  <2> QED BY <2>1, <2>2 DEF Window
<1>6. CounterComplete'
  <2>1. \A n \in DOMAIN current :
          RunLength(n)' = Consecutive(snapshot, n, current[n])
    BY CycleFacts, CounterStep DEF RunLength
  <2> QED BY <1>5, <2>1, CycleFacts DEF CounterComplete, LastAre
<1>7. SettledWhenStable'
  <2> SUFFICES ASSUME NEW n \in Services, NEW st \in Status,
                      \A i \in Window : recent'[n][i] = st
               PROVE  n \in DOMAIN snapshot' /\ LastNotified(snapshot, n)' = st
    BY DEF SettledWhenStable, LastNotified
  <2>1. n \in DOMAIN current /\ current[n] = st
    BY CycleFacts, ThresholdType DEF Status, NoStatus
  <2>2. Consecutive(snapshot, n, st) >= Threshold
    BY <1>5, <2>1, ThresholdType
  <2>3. CASE ShouldNotify(snapshot, n, st)
    BY <2>1, <2>3, CycleFacts DEF LastNotified, Status, NoStatus
  <2>4. CASE ~ ShouldNotify(snapshot, n, st) /\ FirstRun(snapshot)
    <3>1. LastNotified(snapshot, n) = NoStatus
      BY <2>4 DEF LastNotified, FirstRun
    <3> QED BY <2>1, <2>4, <3>1, CycleFacts DEF LastNotified
  <2>5. CASE ~ ShouldNotify(snapshot, n, st) /\ ~ FirstRun(snapshot)
    <3>1. LastNotified(snapshot, n) = st
      BY <2>2, <2>5 DEF ShouldNotify
    <3> QED BY <2>1, <2>5, <3>1, CycleFacts DEF LastNotified, Status, NoStatus
  <2> QED BY <2>3, <2>4, <2>5
<1> QED BY <1>1, <1>2, <1>3, <1>4, <1>6, <1>7

(* A delivery, the loss of the file and a stuttering step keep it too.     *)
LEMMA NextInv == IInv /\ [HNext]_hvars => IInv'
<1> SUFFICES ASSUME IInv, [HNext]_hvars PROVE IInv'
  OBVIOUS
<1>1. ASSUME NEW current \in Evaluations, HCycle(current) PROVE IInv'
  BY <1>1, CycleInv
<1>2. CASE HDispatch
  BY <1>2 DEF HDispatch, Dispatch, IInv, HTypeOK, TypeOK, AlertedIsNotified,
     UntrackedUnobserved, CounterSound, CounterComplete, LastAre, RunLength,
     SettledWhenStable,
     LastNotified
<1>3. CASE HForget
  <2>1. DOMAIN snapshot' = {} /\ snapshot' \in Snapshots
    BY <1>3 DEF HForget, Forget, NoSnapshot, Snapshots
  <2>2. HTypeOK'
    BY <1>3, <2>1, UnobservedType DEF HForget, Forget, HTypeOK, TypeOK, IInv
  <2>3. SettledWhenStable'
    BY <1>3, ThresholdType
    DEF HForget, Forget, SettledWhenStable, Unobserved, Status, NoStatus
  <2> QED BY <1>3, <2>1, <2>2, <2>3
          DEF HForget, Forget, IInv, AlertedIsNotified, UntrackedUnobserved,
              CounterSound, CounterComplete
<1>4. CASE UNCHANGED hvars
  BY <1>4 DEF hvars, IInv, HTypeOK, TypeOK, AlertedIsNotified,
     UntrackedUnobserved, CounterSound, CounterComplete, LastAre, RunLength,
     SettledWhenStable,
     LastNotified
<1> QED BY <1>1, <1>2, <1>3, <1>4 DEF HNext

(* The inductive invariant holds in every reachable state.                 *)
THEOREM Inductive == HSpec => []IInv
  BY InitInv, NextInv, PTL DEF HSpec

-----------------------------------------------------------------------------
(* The theorems                                                            *)

(* The state keeps its types (files, alerts and counters of runner.go).    *)
THEOREM TypeCorrect == HSpec => []HTypeOK
  BY Inductive, PTL DEF IInv

(* A stable status is the persisted baseline, for every threshold: no      *)
(* counter that is reset, restarted or capped leaves a change pending      *)
(* (runner.go:464-491).                                                    *)
THEOREM StableIsSettled == HSpec => []SettledWhenStable
  BY Inductive, PTL DEF IInv

(* New alerts come from an evaluation.                                     *)
LEMMA NewAlertsFacts ==
    ASSUME IInv, [HNext]_hvars, NEW t \in NewAlerts
    PROVE  \E current \in Evaluations :
             /\ HCycle(current)
             /\ t.name \in DOMAIN current
             /\ t.to = current[t.name]
             /\ t.from = LastNotified(snapshot, t.name)
             /\ t.from # t.to
             /\ ShouldNotify(snapshot, t.name, t.to)
<1>1. PICK current \in Evaluations : HCycle(current)
  BY DEF NewAlerts, HNext, HDispatch, Dispatch, HForget, Forget, hvars
<1>2. t \in Transitions(snapshot, current)
  BY <1>1 DEF NewAlerts, HCycle, Cycle
<1> QED BY <1>1, <1>2, TransitionFacts DEF IInv, HTypeOK, TypeOK

(* Alerts about a service form a chain (runner.go:473-491 and              *)
(* transition.go:49-64 agree on where an alert starts).                    *)
THEOREM AlertsFormChain == HSpec => AlertsChain
<1>1. IInv /\ [HNext]_hvars =>
        [\A t \in NewAlerts :
           /\ t.from # t.to
           /\ alerted[t.name] \in {NoStatus, t.from}]_hvars
  <2> SUFFICES ASSUME IInv, [HNext]_hvars, NEW t \in NewAlerts
               PROVE  /\ t.from # t.to
                      /\ alerted[t.name] \in {NoStatus, t.from}
    OBVIOUS
  <2>1. PICK current \in Evaluations :
          /\ HCycle(current)
          /\ t.name \in DOMAIN current
          /\ t.from = LastNotified(snapshot, t.name)
          /\ t.from # t.to
    BY NewAlertsFacts
  <2>2. t.name \in Services
    BY <2>1, EvaluationFacts
  <2>3. alerted[t.name] # NoStatus => alerted[t.name] = t.from
    BY <2>1, <2>2 DEF IInv, AlertedIsNotified, LastNotified
  <2> QED BY <2>1, <2>3
<1> QED BY <1>1, Inductive, PTL DEF HSpec, AlertsChain

(* Outside a first run an alert has Threshold equal evaluations behind it  *)
(* (runner.go:464-486).                                                    *)
THEOREM AlertsAreStable == HSpec => AlertNeedsStability
<1>1. IInv /\ [HNext]_hvars =>
        [\A t \in NewAlerts :
           \/ FirstRun(snapshot)
           \/ \A i \in Window : recent'[t.name][i] = t.to]_hvars
  <2> SUFFICES ASSUME IInv, [HNext]_hvars, NEW t \in NewAlerts,
                      ~ FirstRun(snapshot), NEW i \in Window
               PROVE  recent'[t.name][i] = t.to
    OBVIOUS
  <2>1. PICK current \in Evaluations :
          /\ HCycle(current)
          /\ t.name \in DOMAIN current
          /\ t.to = current[t.name]
          /\ ShouldNotify(snapshot, t.name, t.to)
    BY NewAlertsFacts
  <2>2. Consecutive(snapshot, t.name, t.to) >= Threshold
    BY <2>1 DEF ShouldNotify
  <2>3. /\ t.name \in DOMAIN snapshot'
        /\ snapshot'[t.name].status = t.to
        /\ snapshot'[t.name].cycles = Consecutive(snapshot, t.name, t.to)
    BY <2>1, CycleFacts
  <2>4. CounterSound'
    BY NextInv DEF IInv
  <2>5. Consecutive(snapshot, t.name, t.to) \in 1..CycleCap
    BY ConsecutiveType DEF IInv, HTypeOK, TypeOK
  <2>6. i > Threshold - Consecutive(snapshot, t.name, t.to)
    BY <2>2, <2>5, ThresholdType DEF Window
  <2> QED BY <2>3, <2>4, <2>5, <2>6, ThresholdType
          DEF CounterSound, LastAre, RunLength, Window
<1> QED BY <1>1, Inductive, PTL DEF HSpec, AlertNeedsStability

(* Steps of AlertCycle alone: the snapshot and the outbox need no history  *)
(* to keep their types.                                                    *)
LEMMA CoreTypeInv == TypeOK /\ [Next]_vars => TypeOK'
<1> SUFFICES ASSUME TypeOK, [Next]_vars PROVE TypeOK'
  OBVIOUS
<1>1. ASSUME NEW current \in Evaluations, Cycle(current) PROVE TypeOK'
  BY <1>1, UpdatedType, TransitionFacts DEF Cycle, TypeOK
<1>2. CASE Dispatch
  BY <1>2 DEF Dispatch, TypeOK
<1>3. CASE Forget
  BY <1>3 DEF Forget, NoSnapshot, Snapshots, TypeOK
<1>4. CASE UNCHANGED vars
  BY <1>4 DEF vars, TypeOK
<1> QED BY <1>1, <1>2, <1>3, <1>4 DEF Next

(* The persisted snapshot and the outbox keep their types.                 *)
THEOREM CoreTypeCorrect == Spec => []TypeOK
<1>1. Init => TypeOK
  <2> SUFFICES ASSUME Init PROVE TypeOK
    OBVIOUS
  <2>1. CASE snapshot = NoSnapshot
    BY <2>1 DEF Init, NoSnapshot, Snapshots, TypeOK
  <2>2. CASE snapshot \in OldSnapshots
    <3>1. PICK e \in Evaluations :
            snapshot = [n \in DOMAIN e |-> OldRecord(e[n])]
      BY <2>2 DEF OldSnapshots
    <3>2. \A n \in DOMAIN e : OldRecord(e[n]) \in ServiceRecord
      BY EvaluationFacts, ThresholdType DEF OldRecord, ServiceRecord
    <3>3. snapshot \in [DOMAIN e -> ServiceRecord]
      BY <3>1, <3>2
    <3> QED BY <3>3, EvaluationFacts DEF Init, Snapshots, TypeOK
  <2> QED BY <2>1, <2>2 DEF Init
<1> QED BY <1>1, CoreTypeInv, PTL DEF Spec

(* The baseline of a tracked service moves only with the alert that says   *)
(* so (runner.go:473-491).                                                 *)
THEOREM BaselineNeedsAlert == Spec => BaselineMovesOnlyByAlert
<1>1. TypeOK /\ [Next]_vars =>
        [\A n \in DOMAIN snapshot \cap DOMAIN snapshot' :
           LET old == LastNotified(snapshot, n)
               new == LastNotified(snapshot', n)
           IN  old # new => [name |-> n, from |-> old, to |-> new] \in outbox'
        ]_vars
  <2> SUFFICES ASSUME TypeOK, [Next]_vars, ~ UNCHANGED vars,
                      NEW n \in DOMAIN snapshot, n \in DOMAIN snapshot',
                      LastNotified(snapshot, n) # LastNotified(snapshot', n)
               PROVE  [name |-> n, from |-> LastNotified(snapshot, n),
                       to |-> LastNotified(snapshot', n)] \in outbox'
    OBVIOUS
  <2>1. PICK current \in Evaluations : Cycle(current)
    <3>1. ~ Dispatch
      BY DEF Dispatch
    <3>2. ~ Forget
      BY DEF Forget, NoSnapshot
    <3> QED BY <3>1, <3>2 DEF Next
  <2>2. /\ n \in DOMAIN current
        /\ current[n] \in Status
        /\ snapshot'[n].notified =
             IF ShouldNotify(snapshot, n, current[n])
               THEN current[n] ELSE LastNotified(snapshot, n)
    BY <2>1, EvaluationFacts DEF Cycle, Updated, Eligible
  <2>3. LastNotified(snapshot, n) \in Status
    BY LastNotifiedType DEF TypeOK
  <2>4. /\ ShouldNotify(snapshot, n, current[n])
        /\ LastNotified(snapshot', n) = current[n]
    BY <2>2, <2>3 DEF LastNotified, Status, NoStatus
  <2> QED BY <2>1, <2>2, <2>4, TransitionFacts DEF Cycle, TypeOK
<1> QED BY <1>1, CoreTypeCorrect, PTL DEF Spec, BaselineMovesOnlyByAlert

=============================================================================
