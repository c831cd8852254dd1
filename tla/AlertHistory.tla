----------------------------- MODULE AlertHistory -----------------------------
(***************************************************************************)
(* AlertCycle with two history variables: what was last alerted about each *)
(* service, and its last evaluations. They restrict no step; they let the  *)
(* properties below relate the persisted counter and notified status to    *)
(* what the service did and to what the operators were told.               *)
(***************************************************************************)
EXTENDS AlertCycle

VARIABLES
    alerted,    \* the last alert decided since the service has been tracked
    recent      \* its last Threshold evaluations since it has been tracked

hvars == <<snapshot, outbox, alerted, recent>>

Window == 1..Threshold

Unobserved == [i \in Window |-> NoStatus]

Observed(window, status) ==
    [i \in Window |-> IF i = Threshold THEN status ELSE window[i + 1]]

HInit ==
    /\ Init
    /\ alerted = [n \in Services |-> NoStatus]
    /\ recent = [n \in Services |->
                    IF n \in DOMAIN snapshot
                      THEN Observed(Unobserved, snapshot[n].status)
                      ELSE Unobserved]

HCycle(current) ==
    /\ Cycle(current)
    /\ alerted' = [n \in Services |->
                    IF n \notin DOMAIN current THEN NoStatus
                    ELSE IF \E t \in outbox' : t.name = n THEN current[n]
                    ELSE alerted[n]]
    /\ recent' = [n \in Services |->
                    IF n \in DOMAIN current
                      THEN Observed(recent[n], current[n])
                      ELSE Unobserved]

HDispatch == Dispatch /\ UNCHANGED <<alerted, recent>>

HForget ==
    /\ Forget
    /\ alerted' = [n \in Services |-> NoStatus]
    /\ recent' = [n \in Services |-> Unobserved]

HNext ==
    \/ \E current \in Evaluations : HCycle(current)
    \/ HDispatch
    \/ HForget

HSpec == HInit /\ [][HNext]_hvars

HFairSpec == HSpec /\ Fairness

-----------------------------------------------------------------------------
(* Types of the state, the history included; every record counts the       *)
(* evaluation it was made in, but those of an older version.               *)
HTypeOK ==
    /\ TypeOK
    /\ alerted \in [Services -> Status \cup {NoStatus}]
    /\ recent \in [Services -> [Window -> Status \cup {NoStatus}]]

NewAlerts == outbox' \ outbox

(* Successive alerts about a service form a chain: an alert says "from A"  *)
(* only if A is what the operators were last told, or if they were told    *)
(* nothing about the service since it is tracked (runner.go:473-491 and    *)
(* transition.go:49-64 each compute A, from the persisted records).        *)
AlertsChain ==
    [][\A t \in NewAlerts :
         /\ t.from # t.to
         /\ alerted[t.name] \in {NoStatus, t.from}]_hvars

(* Outside a first run no alert is raised before the service was seen in   *)
(* the alerted status in Threshold evaluations in a row (README.md:162).   *)
AlertNeedsStability ==
    [][\A t \in NewAlerts :
         \/ FirstRun(snapshot)
         \/ \A i \in Window : recent'[t.name][i] = t.to]_hvars

(* A service seen in one status for Threshold evaluations in a row is      *)
(* persisted with that status as its baseline: no stable change is left    *)
(* pending in a counter that was reset, restarted or capped.               *)
SettledWhenStable ==
    \A n \in Services : \A st \in Status :
        (\A i \in Window : recent[n][i] = st)
            => n \in DOMAIN snapshot /\ LastNotified(snapshot, n) = st

(* A service that stays broken for Threshold evaluations has an alert that *)
(* says so (README.md:162, ARCHITECTURE.md:194-201). Records of an older   *)
(* version are trusted to have been alerted, so this is for fresh files.   *)
StableFailureAlerted ==
    \A n \in Services : \A st \in Status \ {"OK"} :
        (\A i \in Window : recent[n][i] = st) => alerted[n] = st

=============================================================================
