---------------------------- MODULE Stabilization ----------------------------
(***************************************************************************)
(* The pure decision at the heart of swarm-sentinel: given the persisted   *)
(* snapshot of a stack and the statuses evaluated in this cycle, which     *)
(* services raise an alert and what is persisted for the next cycle        *)
(* (Runner.stabilizeTransitions and transition.DetectServiceTransitions).  *)
(*                                                                         *)
(* A snapshot is a function from the services it holds to their records;   *)
(* a missing snapshot and one without services are the same to the code    *)
(* (runner.go:457) and both are the empty function here.  Reasons, drift,  *)
(* replica and image details ride along with a status and are left out.    *)
(***************************************************************************)
EXTENDS Integers

CONSTANTS
    Services,                   \* the service names a snapshot may hold
    AlertStabilizationCycles,   \* SS_ALERT_STABILIZATION_CYCLES
    CycleCap                    \* model bound: ConsecutiveCycles saturates here

(* Non-positive settings count as one cycle (runner.go:448-451).           *)
Threshold == IF AlertStabilizationCycles <= 0 THEN 1
                                              ELSE AlertStabilizationCycles

(* The code never caps the counter (runner.go:467), but only asks whether  *)
(* it is positive and whether it has reached the threshold, so saturating  *)
(* it there or above loses nothing (SaturationLosesNothing).               *)
ASSUME StabilizationAssumption ==
    /\ AlertStabilizationCycles \in Int
    /\ CycleCap \in Int
    /\ CycleCap >= Threshold

Status == {"OK", "DEGRADED", "FAILED"}

NoStatus == ""                  \* the zero value of LastNotifiedStatus

(* What health.ServiceHealth keeps between cycles. A record counts the     *)
(* evaluation it was made in; cycles = 0 is a record written before        *)
(* ConsecutiveCycles and LastNotifiedStatus existed.                       *)
ServiceRecord ==
    [status : Status, cycles : 1..CycleCap, notified : Status \cup {NoStatus}]
        \cup [status : Status, cycles : {0}, notified : {NoStatus}]

Snapshots == UNION {[D -> ServiceRecord] : D \in SUBSET Services}

(* The statuses of one evaluation. A desired state holds at least one      *)
(* service (compose.ParseDesiredState), so no evaluation is empty.         *)
Evaluations == UNION {[D -> Status] : D \in (SUBSET Services) \ {{}}}

Alerts == [name : Services, from : Status \cup {NoStatus}, to : Status]

NoSnapshot == [n \in {} |-> NoStatus]

-----------------------------------------------------------------------------
(* Runner.stabilizeTransitions                                             *)

FirstRun(prev) == DOMAIN prev = {}

Saturated(k) == IF k > CycleCap THEN CycleCap ELSE k

(* Mutated form: the counter survives a change of status.                  *)
ConsecutiveKeepsCounting(prev, n, status) ==
    IF n \in DOMAIN prev THEN Saturated(prev[n].cycles + 1) ELSE 1

(* Mutated form: the first evaluation with a status is not counted, and    *)
(* the record it leaves looks like one of an older version.                *)
ConsecutiveFromZero(prev, n, status) ==
    IF n \in DOMAIN prev /\ prev[n].status = status
      THEN Saturated(IF prev[n].cycles > 0 THEN prev[n].cycles + 1 ELSE 2)
      ELSE 0

Consecutive(prev, n, status) ==
    IF n \in DOMAIN prev /\ prev[n].status = status
      THEN Saturated(IF prev[n].cycles > 0 THEN prev[n].cycles + 1 ELSE 2)
      ELSE 1

(* The status the operators were last told about; a record without one     *)
(* makes its evaluated status the baseline.                                *)
LastNotified(prev, n) ==
    IF n \notin DOMAIN prev THEN NoStatus
    ELSE IF prev[n].notified # NoStatus THEN prev[n].notified
    ELSE prev[n].status

(* Mutated form: the counter must exceed the threshold.                    *)
ShouldNotifyOffByOne(prev, n, status) ==
    IF FirstRun(prev)
      THEN status # "OK"
      ELSE /\ status # LastNotified(prev, n)
           /\ Consecutive(prev, n, status) > Threshold

ShouldNotify(prev, n, status) ==
    IF FirstRun(prev)
      THEN status # "OK"
      ELSE /\ status # LastNotified(prev, n)
           /\ Consecutive(prev, n, status) >= Threshold

Eligible(prev, current) ==
    {n \in DOMAIN current : ShouldNotify(prev, n, current[n])}

(* Mutated form: a notified service keeps its old baseline.                *)
UpdatedForgetsNotified(prev, current) ==
    [n \in DOMAIN current |->
        [status   |-> current[n],
         cycles   |-> Consecutive(prev, n, current[n]),
         notified |-> LastNotified(prev, n)]]

(* Mutated form: every evaluation moves the baseline, alert or not.        *)
UpdatedMarksEverything(prev, current) ==
    [n \in DOMAIN current |->
        [status   |-> current[n],
         cycles   |-> Consecutive(prev, n, current[n]),
         notified |-> current[n]]]

(* The records persisted for the next cycle: services that were not        *)
(* evaluated are dropped.                                                  *)
Updated(prev, current) ==
    [n \in DOMAIN current |->
        [status   |-> current[n],
         cycles   |-> Consecutive(prev, n, current[n]),
         notified |-> IF n \in Eligible(prev, current)
                        THEN current[n]
                        ELSE LastNotified(prev, n)]]

-----------------------------------------------------------------------------
(* transition.DetectServiceTransitions                                     *)

PreviousStatus(prev, n) ==
    IF n \notin DOMAIN prev THEN NoStatus
    ELSE IF prev[n].notified # NoStatus THEN prev[n].notified
    ELSE prev[n].status

IsTransition(prev, n, status) ==
    IF FirstRun(prev) \/ n \notin DOMAIN prev
      THEN status # "OK"
      ELSE status # PreviousStatus(prev, n)

(* The code returns them sorted by name; a service appears at most once.   *)
DetectTransitions(prev, eligible, current) ==
    {[name |-> n, from |-> PreviousStatus(prev, n), to |-> current[n]] :
        n \in {m \in eligible : IsTransition(prev, m, current[m])}}

(* What stabilizeTransitions returns beside the updated records.           *)
Transitions(prev, current) ==
    DetectTransitions(prev, Eligible(prev, current), current)

=============================================================================
