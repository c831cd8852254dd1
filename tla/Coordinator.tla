----------------------------- MODULE Coordinator -----------------------------
(***************************************************************************)
(* coordinator.Coordinator: Run spawns one runner per mapping and waits    *)
(* for all of them; Stop, called from other goroutines, cancels them and   *)
(* waits for Run. Runners are reduced to starting, running and having      *)
(* returned; Sentinel models what they do in between.                      *)
(***************************************************************************)
CONSTANTS
    Stacks,         \* the stacks a mapping file may name
    Stoppers        \* goroutines that call Stop once

VARIABLES
    mapping,        \* c.mappings: whether the fetcher of a stack can be built
    run,            \* where Run is
    ctxDone,        \* the context given to Run is done
    cancelled,      \* runCtx is done
    registered,     \* c.cancel and c.done are set
    doneClosed,     \* the done channel is closed
    runner,         \* the goroutine of each mapping
    runnerErrors,   \* the mappings with a recorded error
    stopper,        \* where each Stop is
    handle          \* the stoppers that found cancel and done set

vars == <<mapping, run, ctxDone, cancelled, registered, doneClosed, runner,
          runnerErrors, stopper, handle>>
runVars == <<mapping, run, registered, doneClosed>>
stopVars == <<stopper, handle>>

Mappings == UNION {[D -> BOOLEAN] : D \in (SUBSET Stacks) \ {{}}}

Startable == {s \in DOMAIN mapping : mapping[s]}

Init ==
    /\ mapping \in Mappings
    /\ run = "new"
    /\ ctxDone = FALSE
    /\ cancelled = FALSE
    /\ registered = FALSE
    /\ doneClosed = FALSE
    /\ runner = [s \in DOMAIN mapping |-> "none"]
    /\ runnerErrors = {}
    /\ stopper = [p \in Stoppers |-> "new"]
    /\ handle = {}

-----------------------------------------------------------------------------
(* Coordinator.Run                                                         *)

Register ==
    /\ run = "new"
    /\ run' = "spawn"
    /\ registered' = TRUE
    /\ UNCHANGED <<mapping, ctxDone, cancelled, doneClosed, runner, runnerErrors,
                   stopVars>>

Spawn(s) ==
    /\ run = "spawn"
    /\ runner[s] = "none"
    /\ runner' = [runner EXCEPT ![s] = "starting"]
    /\ UNCHANGED <<runVars, ctxDone, cancelled, runnerErrors, stopVars>>

(* Mutated form: a goroutine joins the wait group only once it runs.       *)
WaitForStarted ==
    /\ run = "spawn"
    /\ \A s \in DOMAIN mapping : runner[s] \in {"starting", "exited"}
    /\ run' = "close"
    /\ registered' = FALSE
    /\ UNCHANGED <<mapping, ctxDone, cancelled, doneClosed, runner, runnerErrors,
                   stopVars>>

(* wg.Wait returns, the errors are logged, cancel and done are cleared.    *)
WaitAll ==
    /\ run = "spawn"
    /\ \A s \in DOMAIN mapping : runner[s] = "exited"
    /\ run' = "close"
    /\ registered' = FALSE
    /\ UNCHANGED <<mapping, ctxDone, cancelled, doneClosed, runner, runnerErrors,
                   stopVars>>

(* Mutated form: the done channel stays open when Run returns.             *)
CloseNothing ==
    /\ run = "close"
    /\ run' = "returned"
    /\ UNCHANGED <<mapping, registered, doneClosed, ctxDone, cancelled, runner,
                   runnerErrors, stopVars>>

CloseDone ==
    /\ run = "close"
    /\ run' = "returned"
    /\ doneClosed' = TRUE
    /\ UNCHANGED <<mapping, registered, ctxDone, cancelled, runner, runnerErrors,
                   stopVars>>

-----------------------------------------------------------------------------
(* Coordinator.spawnRunner, on a goroutine of its own                      *)

StartRunner(s) ==
    /\ runner[s] = "starting"
    /\ s \in Startable
    /\ runner' = [runner EXCEPT ![s] = "running"]
    /\ UNCHANGED <<runVars, ctxDone, cancelled, runnerErrors, stopVars>>

(* Mutated form: an error cancels the runners of the other stacks.         *)
FailAll(s) ==
    /\ runner[s] = "starting"
    /\ s \notin Startable
    /\ runner' = [runner EXCEPT ![s] = "exited"]
    /\ runnerErrors' = runnerErrors \cup {s}
    /\ cancelled' = TRUE
    /\ UNCHANGED <<runVars, ctxDone, stopVars>>

(* The fetcher cannot be built: the error is recorded, the others go on.   *)
FailToStart(s) ==
    /\ runner[s] = "starting"
    /\ s \notin Startable
    /\ runner' = [runner EXCEPT ![s] = "exited"]
    /\ runnerErrors' = runnerErrors \cup {s}
    /\ UNCHANGED <<runVars, ctxDone, cancelled, stopVars>>

(* Mutated form: a cancelled runner reports the cancellation as an error.  *)
RunnerReturnsError(s) ==
    /\ runner[s] = "running"
    /\ cancelled
    /\ runner' = [runner EXCEPT ![s] = "exited"]
    /\ runnerErrors' = runnerErrors \cup {s}
    /\ UNCHANGED <<runVars, ctxDone, cancelled, stopVars>>

(* Runner.Run returns only when its context is done.                       *)
RunnerReturns(s) ==
    /\ runner[s] = "running"
    /\ cancelled
    /\ runner' = [runner EXCEPT ![s] = "exited"]
    /\ UNCHANGED <<runVars, ctxDone, cancelled, runnerErrors, stopVars>>

-----------------------------------------------------------------------------
(* Coordinator.Stop, and the context of the process                        *)

StopReads(p) ==
    /\ stopper[p] = "new"
    /\ stopper' = [stopper EXCEPT ![p] = "cancel"]
    /\ handle' = IF registered THEN handle \cup {p} ELSE handle
    /\ UNCHANGED <<runVars, ctxDone, cancelled, runner, runnerErrors>>

StopCancels(p) ==
    /\ stopper[p] = "cancel"
    /\ stopper' = [stopper EXCEPT ![p] = "wait"]
    /\ cancelled' = (cancelled \/ p \in handle)
    /\ UNCHANGED <<runVars, ctxDone, runner, runnerErrors, handle>>

StopReturns(p) ==
    /\ stopper[p] = "wait"
    /\ p \in handle => doneClosed
    /\ stopper' = [stopper EXCEPT ![p] = "returned"]
    /\ UNCHANGED <<runVars, ctxDone, cancelled, runner, runnerErrors, handle>>

CancelContext ==
    /\ ~ctxDone
    /\ ctxDone' = TRUE
    /\ cancelled' = TRUE
    /\ UNCHANGED <<runVars, runner, runnerErrors, stopVars>>

-----------------------------------------------------------------------------
RunNext == Register \/ WaitAll \/ CloseDone \/ \E s \in DOMAIN mapping : Spawn(s)

RunnerNext(s) == StartRunner(s) \/ FailToStart(s) \/ RunnerReturns(s)

StopNext(p) == StopCancels(p) \/ StopReturns(p)

Next ==
    \/ RunNext
    \/ \E s \in DOMAIN mapping : RunnerNext(s)
    \/ \E p \in Stoppers : StopReads(p) \/ StopNext(p)
    \/ CancelContext

(* Goroutines are scheduled; nobody need call Stop or signal the process.  *)
Fairness ==
    /\ WF_vars(RunNext)
    /\ \A s \in Stacks : WF_vars(s \in DOMAIN mapping /\ RunnerNext(s))
    /\ \A p \in Stoppers : WF_vars(StopNext(p))

Spec == Init /\ [][Next]_vars /\ Fairness

-----------------------------------------------------------------------------
(* Types of the state; a runner that was cancelled has no error.           *)
TypeOK ==
    /\ mapping \in Mappings
    /\ run \in {"new", "spawn", "close", "returned"}
    /\ {ctxDone, cancelled, registered, doneClosed} \subseteq BOOLEAN
    /\ runner \in [DOMAIN mapping -> {"none", "starting", "running", "exited"}]
    /\ runnerErrors \subseteq DOMAIN mapping \ Startable
    /\ stopper \in [Stoppers -> {"new", "cancel", "wait", "returned"}]
    /\ handle \subseteq Stoppers

(* A Stop that found the coordinator running returns only when no runner   *)
(* is left, however it interleaves with the start of Run and with other    *)
(* Stops (coordinator.go:140-153).                                         *)
StopWaitsForRunners ==
    \A p \in handle : stopper[p] = "returned" =>
        \A s \in DOMAIN mapping : runner[s] = "exited"

(* A call of Stop returns, and so does Run once it was cancelled: nobody   *)
(* waits for a channel or a wait group for ever.                           *)
StopCompletes ==
    \A p \in Stoppers : stopper[p] # "new" ~> stopper[p] = "returned"

=============================================================================
