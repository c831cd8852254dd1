------------------------------ MODULE AlertCycle ------------------------------
(***************************************************************************)
(* What one stack's runner promises, whatever Docker, the compose source   *)
(* and the other runners do: a sequence of evaluation cycles, each reading *)
(* the persisted snapshot, deciding the alerts and writing the snapshot    *)
(* back as one step, and each followed by at most one delivery attempt.    *)
(* Sentinel, with its lock, file, failures and crashes, implements this    *)
(* specification for every stack.                                          *)
(***************************************************************************)
EXTENDS Stabilization

CONSTANT
    UpgradedFile    \* TRUE: the file may hold records of an older version

ASSUME AlertCycleAssumption == UpgradedFile \in BOOLEAN

VARIABLES
    snapshot,   \* the persisted records of the stack
    outbox      \* alerts decided and saved, whose delivery was not yet tried

vars == <<snapshot, outbox>>

(* A record of a version that had neither counters nor notified statuses.  *)
OldRecord(status) == [status |-> status, cycles |-> 0, notified |-> NoStatus]

OldSnapshots ==
    {[n \in DOMAIN e |-> OldRecord(e[n])] : e \in Evaluations}

Init ==
    /\ \/ snapshot = NoSnapshot
       \/ UpgradedFile /\ snapshot \in OldSnapshots
    /\ outbox = {}

(* One evaluation (Runner.evaluateAndPersist up to the release of the      *)
(* state lock). The next one starts only after Notify has returned.        *)
Cycle(current) ==
    /\ outbox = {}
    /\ snapshot' = Updated(snapshot, current)
    /\ outbox' = Transitions(snapshot, current)

(* The one delivery attempt: delivered, failed and logged, or lost with    *)
(* the process. The alerts are not tried again.                            *)
Dispatch ==
    /\ outbox # {}
    /\ outbox' = {}
    /\ UNCHANGED snapshot

(* The state file is removed or unreadable: everything starts again.       *)
Forget ==
    /\ outbox = {}
    /\ snapshot' = NoSnapshot
    /\ UNCHANGED outbox

Next ==
    \/ \E current \in Evaluations : Cycle(current)
    \/ Dispatch
    \/ Forget

Spec == Init /\ [][Next]_vars

(* The ticker fires for ever and Notify returns.                           *)
Fairness ==
    /\ WF_vars(\E current \in Evaluations : Cycle(current))
    /\ WF_vars(Dispatch)

FairSpec == Spec /\ Fairness

-----------------------------------------------------------------------------
(* Types of the state; every record counts the evaluation it was made in   *)
(* (runner.go:464-469), but those of an older version.                     *)
TypeOK ==
    /\ snapshot \in Snapshots
    /\ outbox \in SUBSET Alerts

(* The status the operators believe a tracked service is in never changes  *)
(* without an alert that says exactly that change, whatever mixture of old *)
(* and new records the file holds (runner.go:473-491).                     *)
BaselineMovesOnlyByAlert ==
    [][\A n \in DOMAIN snapshot \cap DOMAIN snapshot' :
         LET old == LastNotified(snapshot, n)
             new == LastNotified(snapshot', n)
         IN  old # new => [name |-> n, from |-> old, to |-> new] \in outbox'
      ]_vars

(* What the operators were last told about a service becomes, and stays,   *)
(* the status the service keeps, whatever it did before.                   *)
BaselineConverges ==
    \A n \in Services : \A st \in Status :
        <>[](n \in DOMAIN snapshot /\ snapshot[n].status = st)
            => <>[](n \in DOMAIN snapshot /\ LastNotified(snapshot, n) = st)

=============================================================================
