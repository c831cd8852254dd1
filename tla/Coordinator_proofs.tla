-------------------------- MODULE Coordinator_proofs --------------------------
(***************************************************************************)
(* Proofs about the coordinator, for any mapping and any number of Stops.  *)
(* StopWaitsForRunners is not inductive: a Stop returns because the done   *)
(* channel is closed, and that has to mean that Run has waited for the     *)
(* runners, and that none comes to life after it has.                      *)
(***************************************************************************)
EXTENDS Coordinator, TLAPS

(* Run is past its wait group only when every runner has exited.           *)
WaitIsOver ==
    run \in {"close", "returned"} => \A s \in DOMAIN mapping : runner[s] = "exited"

(* The channel is closed by the return of Run alone.                       *)
ClosedByRun == doneClosed => run = "returned"

(* A Stop that holds the channel returns only after it was closed.         *)
StopSeesClosed == \A p \in handle : stopper[p] = "returned" => doneClosed

IInv == TypeOK /\ WaitIsOver /\ ClosedByRun /\ StopSeesClosed

-----------------------------------------------------------------------------
LEMMA InitInv == Init => IInv
BY DEF Init, IInv, TypeOK, WaitIsOver, ClosedByRun, StopSeesClosed

(* Run's own steps: it registers, spawns, waits and closes the channel.    *)
LEMMA RunInv == IInv /\ RunNext => IInv'
<1> SUFFICES ASSUME IInv, RunNext PROVE IInv'
    OBVIOUS
<1> USE DEF IInv, TypeOK, WaitIsOver, ClosedByRun, StopSeesClosed,
            stopVars, runVars, Startable
<1>1. CASE Register
    BY <1>1 DEF Register
<1>2. CASE WaitAll
    BY <1>2 DEF WaitAll
<1>3. CASE CloseDone
    BY <1>3 DEF CloseDone
<1>4. ASSUME NEW s \in DOMAIN mapping, Spawn(s) PROVE IInv'
    BY <1>4 DEF Spawn
<1> QED BY <1>1, <1>2, <1>3, <1>4 DEF RunNext

(* A runner's steps: one that has exited does not come back.               *)
LEMMA RunnerInv ==
    ASSUME IInv, NEW s \in DOMAIN mapping, RunnerNext(s)
    PROVE  IInv'
<1> USE DEF IInv, TypeOK, WaitIsOver, ClosedByRun, StopSeesClosed,
            stopVars, runVars, Startable
<1>1. CASE StartRunner(s)
    BY <1>1 DEF StartRunner
<1>2. CASE FailToStart(s)
    BY <1>2 DEF FailToStart
<1>3. CASE RunnerReturns(s)
    BY <1>3 DEF RunnerReturns
<1> QED BY <1>1, <1>2, <1>3 DEF RunnerNext

(* The steps of Stop, which reads the channel before Run may close it.     *)
LEMMA StopInv ==
    ASSUME IInv, NEW p \in Stoppers, StopReads(p) \/ StopNext(p)
    PROVE  IInv'
<1> USE DEF IInv, TypeOK, WaitIsOver, ClosedByRun, StopSeesClosed,
            stopVars, runVars, Startable
<1>1. CASE StopReads(p)
    BY <1>1 DEF StopReads
<1>2. CASE StopCancels(p)
    BY <1>2 DEF StopCancels
<1>3. CASE StopReturns(p)
    BY <1>3 DEF StopReturns
<1> QED BY <1>1, <1>2, <1>3 DEF StopNext

LEMMA NextInv == IInv /\ [Next]_vars => IInv'
<1> SUFFICES ASSUME IInv, [Next]_vars PROVE IInv'
    OBVIOUS
<1>1. CASE CancelContext
    BY <1>1 DEF CancelContext, IInv, TypeOK, WaitIsOver, ClosedByRun,
                StopSeesClosed, stopVars, runVars, Startable
<1>2. CASE UNCHANGED vars
    BY <1>2 DEF vars, IInv, TypeOK, WaitIsOver, ClosedByRun,
                StopSeesClosed, Startable
<1> QED BY <1>1, <1>2, RunInv, RunnerInv, StopInv DEF Next

-----------------------------------------------------------------------------
(* The invariant behind the two theorems that follow                       *)
(* (coordinator.go:97-153).                                                *)
THEOREM CoordinatorInductive == Spec => []IInv
BY InitInv, NextInv, PTL DEF Spec

(* Types of the coordinator's state; only runners that cannot start leave  *)
(* an error (coordinator.go:156-226).                                      *)
THEOREM CoordinatorTypeCorrect == Spec => []TypeOK
<1>1. IInv => TypeOK
    BY DEF IInv
<1> QED BY <1>1, CoordinatorInductive, PTL

(* A Stop that found the coordinator running returns only when no runner   *)
(* is left (coordinator.go:140-153).                                       *)
THEOREM StopIsPatient == Spec => []StopWaitsForRunners
<1>1. IInv => StopWaitsForRunners
    BY DEF IInv, WaitIsOver, ClosedByRun, StopSeesClosed, StopWaitsForRunners
<1> QED BY <1>1, CoordinatorInductive, PTL

=============================================================================
