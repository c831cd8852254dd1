------------------------------- MODULE Sentinel -------------------------------
(***************************************************************************)
(* The swarm-sentinel process: one runner goroutine per stack, polling its *)
(* own compose source and the Docker API, sharing one state file behind    *)
(* one mutex, and notifying after the file is saved. Sources answer with   *)
(* or without ETags, calls fail, the process is signalled, killed and      *)
(* started again, and the file may be removed while it is down.            *)
(*                                                                         *)
(* A runner is at one of these points (runner.go):                         *)
(*   idle      in the select of Run, between cycles                        *)
(*   fetch     at the start of defaultRunOnce                              *)
(*   collect   past the compose step, before GetActualState                *)
(*   lock      statuses evaluated, waiting for the state mutex             *)
(*   load      holding the mutex, before Load                              *)
(*   save      loaded and decided, before Save                             *)
(*   notify    saved and unlocked, alerts to deliver                       *)
(*   stopped   Run has returned            down   the process was killed   *)
(***************************************************************************)
EXTENDS Stabilization

CONSTANTS
    Stacks,         \* the stacks of the mapping file; one in single-stack mode
    Served,         \* of each stack: the bodies its compose source may serve
    NoCompose,      \* "" or nil: no ETag, no fingerprint, no desired state
    ServicesIn,     \* the services a body declares; none: it does not parse
    ETagChoices,    \* of each: whether a 200 carries an ETag, always, never or either
    StackScoped     \* FALSE only in single-stack mode without SS_STACK_NAME

Composes == UNION {Served[s] : s \in Stacks}

NoHolder == "unlocked"          \* of the mutex; not the name of a stack

ASSUME SentinelAssumption ==
    /\ NoCompose \notin Composes
    /\ ServicesIn \in [Composes -> SUBSET Services]
    /\ ETagChoices \in [Stacks -> SUBSET BOOLEAN]
    /\ StackScoped \in BOOLEAN
    /\ NoHolder \notin Stacks

VARIABLES
    remote,     \* what each stack's compose source serves now
    pc,         \* where each runner is
    etag,       \* Runner.composeETag; a source's ETag identifies the body
    hash,       \* Runner.composeHash; a fingerprint identifies the body
    desired,    \* Runner.lastDesiredState, as the body it was parsed from
    observed,   \* the statuses this cycle evaluated
    lock,       \* the runner that holds the state mutex, or NoHolder
    file,       \* the state file: what Load returns
    loaded,     \* the State a runner has loaded
    pending,    \* the transitions a runner has saved and is to notify
    ctxDone     \* the process was told to stop

kept == <<etag, hash, desired>>         \* Runner fields that outlive a cycle
local == <<observed, loaded>>           \* local variables of a cycle
vars == <<remote, pc, kept, local, lock, file, pending, ctxDone>>

Points == {"idle", "fetch", "collect", "lock", "load", "save", "notify",
           "stopped", "down"}

Maybe(C) == C \cup {NoCompose}

(* One entry of the state file. A stack without an entry, and any stack of *)
(* a missing, corrupt or too new file, reads as the empty entry.           *)
Entries == [services : Snapshots, fingerprint : Maybe(Composes)]

NoEntry == [services |-> NoSnapshot, fingerprint |-> NoCompose]

EmptyFile == [s \in Stacks |-> NoEntry]

Parses(c) == ServicesIn[c] # {}

(* What health.EvaluateStackHealth may report about body c: every desired  *)
(* service in any status and, when the stack is scoped, deployed services  *)
(* that are not desired as DEGRADED.                                       *)
EvaluationsOf(c) ==
    {e \in Evaluations :
        /\ ServicesIn[c] \subseteq DOMAIN e
        /\ StackScoped \/ DOMAIN e = ServicesIn[c]
        /\ \A n \in DOMAIN e \ ServicesIn[c] : e[n] = "DEGRADED"}

Goto(s, point) == pc' = [pc EXCEPT ![s] = point]

(* The cycle is over for now: stackHealth and loaded, local to             *)
(* evaluateAndPersist, are gone; what the Runner keeps stays.              *)
Leave(s, point) ==
    /\ Goto(s, point)
    /\ observed' = [observed EXCEPT ![s] = NoSnapshot]
    /\ loaded' = [loaded EXCEPT ![s] = EmptyFile]

-----------------------------------------------------------------------------
Nothing == [s \in Stacks |-> NoCompose]

(* New runners: no ETag, no fingerprint, no desired state; the first cycle *)
(* runs at once.                                                           *)
Init ==
    /\ remote \in {r \in [Stacks -> Composes] : \A s \in Stacks : r[s] \in Served[s]}
    /\ pc = [s \in Stacks |-> "fetch"]
    /\ etag = Nothing
    /\ hash = Nothing
    /\ desired = Nothing
    /\ observed = [s \in Stacks |-> NoSnapshot]
    /\ loaded = [s \in Stacks |-> EmptyFile]
    /\ lock = NoHolder
    /\ file = EmptyFile
    /\ pending = [s \in Stacks |-> {}]
    /\ ctxDone = FALSE

-----------------------------------------------------------------------------
(* Runner.Run: the select between the ticker and the context. When both    *)
(* are ready Go picks either.                                              *)

Tick(s) ==
    /\ pc[s] = "idle"
    /\ Goto(s, "fetch")
    /\ UNCHANGED <<remote, kept, local, lock, file, pending, ctxDone>>

Stop(s) ==
    /\ pc[s] = "idle"
    /\ ctxDone
    /\ Goto(s, "stopped")
    /\ UNCHANGED <<remote, kept, local, lock, file, pending, ctxDone>>

-----------------------------------------------------------------------------
(* Runner.defaultRunOnce: the compose step. A cycle ends early with the    *)
(* error, which Run logs; a done context fails every call.                 *)

FetchFails(s) ==
    /\ pc[s] = "fetch"
    /\ Goto(s, "idle")
    /\ UNCHANGED <<remote, kept, local, lock, file, pending, ctxDone>>

(* 304: the source's ETag is the one the runner sent.                      *)
FetchNotModified(s) ==
    /\ pc[s] = "fetch"
    /\ ~ctxDone
    /\ etag[s] = remote[s]
    /\ Goto(s, "collect")
    /\ UNCHANGED <<remote, kept, local, lock, file, pending, ctxDone>>

(* Mutated form: only the first body is parsed.                            *)
FetchBodyOnce(s, tagged) ==
    /\ pc[s] = "fetch"
    /\ ~ctxDone
    /\ etag' = [etag EXCEPT ![s] = IF tagged THEN remote[s] ELSE @]
    /\ hash' = [hash EXCEPT ![s] = remote[s]]
    /\ IF desired[s] # NoCompose
         THEN UNCHANGED desired /\ Goto(s, "collect")
         ELSE IF Parses(remote[s])
         THEN desired' = [desired EXCEPT ![s] = remote[s]] /\ Goto(s, "collect")
         ELSE UNCHANGED desired /\ Goto(s, "idle")
    /\ UNCHANGED <<remote, local, lock, file, pending, ctxDone>>

(* 200: the ETag, when there is one, and a changed fingerprint are kept    *)
(* before the body is parsed; a body that does not parse ends the cycle.   *)
FetchBody(s, tagged) ==
    /\ pc[s] = "fetch"
    /\ ~ctxDone
    /\ etag' = [etag EXCEPT ![s] = IF tagged THEN remote[s] ELSE @]
    /\ hash' = [hash EXCEPT ![s] = remote[s]]
    /\ IF hash[s] = remote[s]
         THEN UNCHANGED desired /\ Goto(s, "collect")
         ELSE IF Parses(remote[s])
         THEN desired' = [desired EXCEPT ![s] = remote[s]] /\ Goto(s, "collect")
         ELSE UNCHANGED desired /\ Goto(s, "idle")
    /\ UNCHANGED <<remote, local, lock, file, pending, ctxDone>>

-----------------------------------------------------------------------------
(* Runner.defaultRunOnce: the Docker step and the pure evaluation.         *)

CollectFails(s) ==
    /\ pc[s] = "collect"
    /\ Goto(s, "idle")
    /\ UNCHANGED <<remote, kept, local, lock, file, pending, ctxDone>>

(* Without a desired state the services are collected and nothing follows. *)
CollectOnly(s) ==
    /\ pc[s] = "collect"
    /\ ~ctxDone
    /\ desired[s] = NoCompose
    /\ Goto(s, "idle")
    /\ UNCHANGED <<remote, kept, local, lock, file, pending, ctxDone>>

CollectAndEvaluate(s) ==
    /\ pc[s] = "collect"
    /\ ~ctxDone
    /\ desired[s] # NoCompose
    /\ \E e \in EvaluationsOf(desired[s]) :
         observed' = [observed EXCEPT ![s] = e]
    /\ Goto(s, "lock")
    /\ UNCHANGED <<remote, kept, lock, file, loaded, pending, ctxDone>>

-----------------------------------------------------------------------------
(* Runner.evaluateAndPersist: load, decide and save under the mutex.       *)

(* Mutated form: the mutex is not shared by the runners.                   *)
AcquireAnyway(s) ==
    /\ pc[s] = "lock"
    /\ lock' = s
    /\ Goto(s, "load")
    /\ UNCHANGED <<remote, kept, local, file, pending, ctxDone>>

Acquire(s) ==
    /\ pc[s] = "lock"
    /\ lock = NoHolder
    /\ lock' = s
    /\ Goto(s, "load")
    /\ UNCHANGED <<remote, kept, local, file, pending, ctxDone>>

(* Mutated form: the error path returns without the deferred Unlock.       *)
LoadFailsHoldingLock(s) ==
    /\ pc[s] = "load"
    /\ Leave(s, "idle")
    /\ UNCHANGED <<remote, kept, lock, file, pending, ctxDone>>

LoadFails(s) ==
    /\ pc[s] = "load"
    /\ lock' = NoHolder
    /\ Leave(s, "idle")
    /\ UNCHANGED <<remote, kept, file, pending, ctxDone>>

Load(s) ==
    /\ pc[s] = "load"
    /\ ~ctxDone
    /\ loaded' = [loaded EXCEPT ![s] = file]
    /\ Goto(s, "save")
    /\ UNCHANGED <<remote, kept, observed, lock, file, pending, ctxDone>>

(* Mutated form: alerts are decided against the records just updated.      *)
DecidedTooLate(s) ==
    Transitions(Updated(loaded[s][s].services, observed[s]), observed[s])

Decided(s) == Transitions(loaded[s][s].services, observed[s])

NewEntry(s) ==
    [services    |-> Updated(loaded[s][s].services, observed[s]),
     fingerprint |-> hash[s]]

(* Mutated form: the alerts decided are delivered though Save failed.      *)
SaveFailsQuietly(s) ==
    /\ pc[s] = "save"
    /\ lock' = NoHolder
    /\ pending' = [pending EXCEPT ![s] = Decided(s)]
    /\ Leave(s, IF Decided(s) = {} THEN "idle" ELSE "notify")
    /\ UNCHANGED <<remote, kept, file, ctxDone>>

SaveFails(s) ==
    /\ pc[s] = "save"
    /\ lock' = NoHolder
    /\ Leave(s, "idle")
    /\ UNCHANGED <<remote, kept, file, pending, ctxDone>>

(* Mutated form: the mutex is held until Notify has returned.              *)
SaveKeepsLock(s) ==
    /\ pc[s] = "save"
    /\ ~ctxDone
    /\ file' = [loaded[s] EXCEPT ![s] = NewEntry(s)]
    /\ pending' = [pending EXCEPT ![s] = Decided(s)]
    /\ lock' = IF Decided(s) = {} THEN NoHolder ELSE s
    /\ Leave(s, IF Decided(s) = {} THEN "idle" ELSE "notify")
    /\ UNCHANGED <<remote, kept, ctxDone>>

(* Save writes back the whole state it loaded, with this stack's entry     *)
(* replaced; the mutex is released before anything is notified.            *)
Save(s) ==
    /\ pc[s] = "save"
    /\ ~ctxDone
    /\ file' = [loaded[s] EXCEPT ![s] = NewEntry(s)]
    /\ pending' = [pending EXCEPT ![s] = Decided(s)]
    /\ lock' = NoHolder
    /\ Leave(s, IF Decided(s) = {} THEN "idle" ELSE "notify")
    /\ UNCHANGED <<remote, kept, ctxDone>>

(* Notify returns. A failed or cancelled delivery is logged and not tried  *)
(* again, so success and failure leave the runner in the same state.       *)
Notify(s) ==
    /\ pc[s] = "notify"
    /\ pending' = [pending EXCEPT ![s] = {}]
    /\ Goto(s, "idle")
    /\ UNCHANGED <<remote, kept, local, lock, file, ctxDone>>

-----------------------------------------------------------------------------
(* The environment: the compose sources, the operators and the host.       *)

Publish(s) ==
    /\ \E c \in Served[s] \ {remote[s]} : remote' = [remote EXCEPT ![s] = c]
    /\ UNCHANGED <<pc, kept, local, lock, file, pending, ctxDone>>

Running == \E s \in Stacks : pc[s] \notin {"stopped", "down"}

(* SIGINT or SIGTERM.                                                      *)
Shutdown ==
    /\ Running
    /\ ~ctxDone
    /\ ctxDone' = TRUE
    /\ UNCHANGED <<remote, pc, kept, local, lock, file, pending>>

(* The memory of the process is gone, the mutex with it.                   *)
ForgetMemory ==
    /\ etag' = Nothing
    /\ hash' = Nothing
    /\ desired' = Nothing
    /\ observed' = [s \in Stacks |-> NoSnapshot]
    /\ loaded' = [s \in Stacks |-> EmptyFile]
    /\ lock' = NoHolder
    /\ pending' = [s \in Stacks |-> {}]
    /\ ctxDone' = FALSE

(* The process is killed. The file stays, as FileStore shows: Save         *)
(* replaces it atomically.                                                 *)
Crash ==
    /\ Running
    /\ pc' = [s \in Stacks |-> "down"]
    /\ ForgetMemory
    /\ UNCHANGED <<remote, file>>

Restart ==
    /\ ~Running
    /\ pc' = [s \in Stacks |-> "fetch"]
    /\ ForgetMemory
    /\ UNCHANGED <<remote, file>>

(* The file is removed or damaged while the process is down.               *)
LoseFile ==
    /\ ~Running
    /\ file' = EmptyFile
    /\ UNCHANGED <<remote, pc, kept, local, lock, pending, ctxDone>>

-----------------------------------------------------------------------------
Cycle(s) ==
    \/ FetchFails(s)
    \/ FetchNotModified(s)
    \/ \E tagged \in ETagChoices[s] : FetchBody(s, tagged)
    \/ CollectFails(s)
    \/ CollectOnly(s)
    \/ CollectAndEvaluate(s)
    \/ LoadFails(s)
    \/ Load(s)
    \/ SaveFails(s)
    \/ Save(s)

Environment == (\E s \in Stacks : Publish(s)) \/ Shutdown \/ Crash \/ Restart
                  \/ LoseFile

Next ==
    \/ \E s \in Stacks :
          Tick(s) \/ Stop(s) \/ Cycle(s) \/ Acquire(s) \/ Notify(s)
    \/ Environment

Spec == Init /\ [][Next]_vars

(* Every call a cycle makes is bounded by a timeout and a retry limit, the *)
(* ticker fires, Go's select picks a ready case at random and its mutex    *)
(* hands over to starving waiters. Notify is bounded only once the context *)
(* is done: a 429 with Retry-After is retried without limit.               *)
RunnerFairness(s) ==
    /\ WF_vars(Tick(s))
    /\ WF_vars(Cycle(s))
    /\ SF_vars(Acquire(s))
    /\ SF_vars(Stop(s))
    /\ WF_vars(ctxDone /\ Notify(s))

FairSpec == Spec /\ \A s \in Stacks : RunnerFairness(s)

-----------------------------------------------------------------------------
(* Types of the state; every record in the file counts the evaluation it   *)
(* was made in (runner.go:464-469).                                        *)
TypeOK ==
    /\ \A s \in Stacks : remote[s] \in Served[s]
    /\ pc \in [Stacks -> Points]
    /\ etag \in [Stacks -> Maybe(Composes)]
    /\ hash \in [Stacks -> Maybe(Composes)]
    /\ desired \in [Stacks -> Maybe(Composes)]
    /\ observed \in [Stacks -> Evaluations \cup {NoSnapshot}]
    /\ lock \in Stacks \cup {NoHolder}
    /\ file \in [Stacks -> Entries]
    /\ loaded \in [Stacks -> [Stacks -> Entries]]
    /\ pending \in [Stacks -> SUBSET Alerts]
    /\ ctxDone \in BOOLEAN

(* A stack's entry changes only when its own runner saves, or when the     *)
(* file is lost while the process is down: no runner writes back another   *)
(* stack's entry from before that stack saved (README.md:65, the           *)
(* load-modify-save of runner.go:340-368).                                 *)
StacksIsolated ==
    [][\A s \in Stacks : file'[s] # file[s] => pc[s] = "save" \/ ~Running]_vars

(* An alert is delivered only if the file already says it was: after a     *)
(* crash at any point it is not raised again (ARCHITECTURE.md:88), at the  *)
(* price of losing it (runner.go:360 comes before runner.go:406).          *)
PendingIsPersisted ==
    \A s \in Stacks : \A t \in pending[s] :
        /\ t.name \in DOMAIN file[s].services
        /\ file[s].services[t.name].notified = t.to

(* For each stack the interleaved cycles, the mutex, the failures, the     *)
(* crashes and the other stacks add up to the atomic cycles of AlertCycle. *)
Promise(s) == INSTANCE AlertCycle WITH
    snapshot <- file[s].services,
    outbox <- pending[s],
    UpgradedFile <- FALSE

CyclesAreAtomic ==      \* \A s \in Stacks : Promise(s)!Spec, as TLC reads it
    /\ \A s \in Stacks : Promise(s)!Init
    /\ [][\A s \in Stacks : [Promise(s)!Next]_(Promise(s)!vars)]_vars

(* A cycle that gets past the compose step evaluates against what the      *)
(* source serves, if that parses (ARCHITECTURE.md:103), also after bodies  *)
(* that did not. It takes a source that sends an ETag always or never: a   *)
(* 200 without one keeps the old one, which names another body, and a 304  *)
(* then confirms the wrong desired state (runner.go:234-239).              *)
DesiredIsCurrent ==
    [][\A s \in Stacks :
         pc[s] = "fetch" /\ pc'[s] = "collect" /\ Parses(remote[s])
            => desired'[s] = remote[s]]_vars

(* The fingerprint saved with the statuses is that of the desired state    *)
(* they were evaluated against (ARCHITECTURE.md:86).                       *)
FingerprintDescribesDesired ==
    [][\A s \in Stacks :
         file'[s] # file[s] /\ pc[s] = "save"
            => file'[s].fingerprint = desired[s]]_vars

(* No runner waits for the mutex for ever, even if another one is stuck in *)
(* a notification (the mutex is released at runner.go:368, before 406).    *)
WaitersProceed == \A s \in Stacks : pc[s] = "lock" ~> pc[s] # "lock"

(* Once the process is told to stop every runner returns, wherever the     *)
(* signal finds it: cycles end at their next context check.                *)
ShutdownCompletes == ctxDone ~> ~Running

(* What a source keeps serving becomes the desired state, and stays it,    *)
(* after failed fetches and bodies that did not parse (runner.go:229-266). *)
PublishedIsEvaluated ==
    \A s \in Stacks : \A c \in Served[s] :
        Parses(c) /\ <>[](remote[s] = c /\ ~ctxDone
                                        /\ pc[s] \notin {"stopped", "down"})
            => <>[](desired[s] = c)

=============================================================================
