---------------------------- MODULE Sentinel_proofs ----------------------------
(***************************************************************************)
(* Proofs about Sentinel, for any number of stacks, bodies and services:   *)
(* its types, the mutex around Load and Save, what is persisted before it  *)
(* is notified, and that the cycles of each stack are those of AlertCycle; *)
(* and about ComposeFetch, which takes its fetches apart: that it          *)
(* implements Sentinel and is never left with an outdated body.            *)
(***************************************************************************)
EXTENDS ComposeFetch, TLAPS

(* Whoever is between Lock and Unlock holds the mutex, and nobody else.    *)
HolderIsInside == \A s \in Stacks : lock = s <=> pc[s] \in {"load", "save"}

(* What a runner is about to write back is what the file still holds.      *)
LoadedIsCurrent == \A s \in Stacks : pc[s] = "save" => loaded[s] = file

(* A runner comes to the mutex with the statuses of this cycle.            *)
ObservedIsFresh ==
    \A s \in Stacks : pc[s] \in {"lock", "load", "save"} => observed[s] \in Evaluations

(* Alerts wait to be delivered only while their runner is at Notify.       *)
OutboxIsTransient == \A s \in Stacks : pc[s] # "notify" => pending[s] = {}

IInv ==
    /\ TypeOK
    /\ HolderIsInside
    /\ LoadedIsCurrent
    /\ ObservedIsFresh
    /\ OutboxIsTransient
    /\ PendingIsPersisted

-----------------------------------------------------------------------------
(* The empty snapshot and the empty file have their types.                 *)
LEMMA EmptyTypes ==
    /\ NoSnapshot \in Snapshots
    /\ NoEntry \in Entries
    /\ EmptyFile \in [Stacks -> Entries]
    /\ \A s \in Stacks : EmptyFile[s] = NoEntry
<1>1. NoSnapshot \in Snapshots
  BY DEF NoSnapshot, Snapshots
<1> QED BY <1>1 DEF NoEntry, Entries, EmptyFile, Maybe

(* What a source serves is a body, and an evaluation of one is one.        *)
LEMMA ServedFacts ==
    /\ \A s \in Stacks : Served[s] \subseteq Composes
    /\ \A c : EvaluationsOf(c) \subseteq Evaluations
  BY DEF Composes, EvaluationsOf

(* What a cycle makes of a snapshot is a snapshot, and it raises an alert  *)
(* only about a service it evaluated and is to notify of.                  *)
LEMMA StabilizedFacts ==
    ASSUME NEW prev \in Snapshots, NEW current \in Evaluations
    PROVE  /\ Updated(prev, current) \in Snapshots
           /\ Transitions(prev, current) \in SUBSET Alerts
           /\ \A t \in Transitions(prev, current) :
                /\ t.name \in DOMAIN current
                /\ ShouldNotify(prev, t.name, current[t.name])
                /\ t.to = current[t.name]
<1>1. /\ DOMAIN current \subseteq Services
      /\ \A n \in DOMAIN current : current[n] \in Status
  BY DEF Evaluations
<1>2. ASSUME NEW n
      PROVE  /\ n \in DOMAIN prev => /\ prev[n].status \in Status
                                     /\ prev[n].cycles \in 0..CycleCap
                                     /\ prev[n].notified \in Status \cup {NoStatus}
             /\ LastNotified(prev, n) \in Status \cup {NoStatus}
             /\ PreviousStatus(prev, n) = LastNotified(prev, n)
  BY StabilizationAssumption
     DEF Snapshots, ServiceRecord, Threshold, LastNotified, PreviousStatus
<1>3. ASSUME NEW n \in DOMAIN current
      PROVE  Updated(prev, current)[n] \in ServiceRecord
  <2>1. Consecutive(prev, n, current[n]) \in 1..CycleCap
    BY <1>2, StabilizationAssumption DEF Consecutive, Saturated, Threshold
  <2> QED BY <1>1, <1>2, <2>1 DEF Updated, ServiceRecord
<1>4. Updated(prev, current) \in [DOMAIN current -> ServiceRecord]
  BY <1>3 DEF Updated
<1>5. ASSUME NEW t \in Transitions(prev, current)
      PROVE  /\ t \in Alerts
             /\ t.name \in DOMAIN current
             /\ ShouldNotify(prev, t.name, current[t.name])
             /\ t.to = current[t.name]
  <2>1. PICK n \in DOMAIN current :
          /\ ShouldNotify(prev, n, current[n])
          /\ t = [name |-> n, from |-> PreviousStatus(prev, n), to |-> current[n]]
    BY DEF Transitions, DetectTransitions, Eligible
  <2> QED BY <1>1, <1>2, <2>1 DEF Alerts
<1> QED BY <1>1, <1>4, <1>5 DEF Snapshots

(* What Save writes: the entry of this stack is the updated one, and every *)
(* alert decided is about a service whose new record says so.              *)
LEMMA SaveFacts ==
    ASSUME IInv, NEW s \in Stacks, pc[s] = "save"
    PROVE  /\ loaded[s] = file
           /\ lock = s
           /\ pending[s] = {}
           /\ observed[s] \in Evaluations
           /\ NewEntry(s) \in Entries
           /\ NewEntry(s).services = Updated(file[s].services, observed[s])
           /\ Decided(s) = Transitions(file[s].services, observed[s])
           /\ Decided(s) \in SUBSET Alerts
           /\ \A t \in Decided(s) :
                /\ t.name \in DOMAIN NewEntry(s).services
                /\ NewEntry(s).services[t.name].notified = t.to
<1>1. /\ loaded[s] = file
      /\ lock = s
      /\ pending[s] = {}
      /\ observed[s] \in Evaluations
  BY DEF IInv, LoadedIsCurrent, HolderIsInside, ObservedIsFresh, OutboxIsTransient
<1>2. file[s].services \in Snapshots /\ hash[s] \in Maybe(Composes)
  BY DEF IInv, TypeOK, Entries
<1>3. NewEntry(s) \in Entries
  BY <1>1, <1>2, StabilizedFacts DEF NewEntry, Entries
<1>4. /\ NewEntry(s).services = Updated(file[s].services, observed[s])
      /\ Decided(s) = Transitions(file[s].services, observed[s])
  BY <1>1 DEF NewEntry, Decided
<1>5. Decided(s) \in SUBSET Alerts
  BY <1>1, <1>2, <1>4, StabilizedFacts
<1>6. ASSUME NEW t \in Decided(s)
      PROVE  /\ t.name \in DOMAIN NewEntry(s).services
             /\ NewEntry(s).services[t.name].notified = t.to
  <2>1. /\ t.name \in DOMAIN observed[s]
        /\ ShouldNotify(file[s].services, t.name, observed[s][t.name])
        /\ t.to = observed[s][t.name]
    BY <1>1, <1>2, <1>4, StabilizedFacts
  <2> QED BY <1>4, <2>1 DEF Updated, Eligible
<1> QED BY <1>1, <1>3, <1>4, <1>5, <1>6

-----------------------------------------------------------------------------
(* The inductive invariant                                                 *)

LEMMA InitInv == Init => IInv
<1> SUFFICES ASSUME Init PROVE IInv
  OBVIOUS
<1>1. TypeOK
  BY EmptyTypes DEF Init, TypeOK, Points, Nothing, Maybe
<1>2. HolderIsInside /\ LoadedIsCurrent /\ ObservedIsFresh
  BY SentinelAssumption DEF Init, HolderIsInside, LoadedIsCurrent, ObservedIsFresh
<1>3. OutboxIsTransient /\ PendingIsPersisted
  BY DEF Init, OutboxIsTransient, PendingIsPersisted
<1> QED BY <1>1, <1>2, <1>3 DEF IInv

(* A step that moves a runner where it neither holds the mutex nor has     *)
(* come to it, and touches at most what it keeps between cycles.           *)
LEMMA OutsideStep ==
    ASSUME IInv, NEW s \in Stacks,
           pc[s] \in {"idle", "fetch", "collect"},
           NEW point \in {"idle", "fetch", "collect", "stopped"},
           pc' = [pc EXCEPT ![s] = point],
           etag' \in [Stacks -> Maybe(Composes)],
           hash' \in [Stacks -> Maybe(Composes)],
           desired' \in [Stacks -> Maybe(Composes)],
           UNCHANGED <<remote, local, lock, file, pending, ctxDone>>
    PROVE  IInv'
<1> USE DEF IInv
<1>1. TypeOK'
  BY DEF TypeOK, Points, local
<1>2. HolderIsInside' /\ LoadedIsCurrent' /\ ObservedIsFresh'
  BY DEF HolderIsInside, LoadedIsCurrent, ObservedIsFresh, TypeOK, local
<1>3. OutboxIsTransient' /\ PendingIsPersisted'
  BY DEF OutboxIsTransient, PendingIsPersisted, TypeOK
<1> QED BY <1>1, <1>2, <1>3

LEMMA OutsideInv ==
    ASSUME IInv, NEW s \in Stacks,
           \/ Tick(s) \/ Stop(s) \/ FetchFails(s) \/ FetchNotModified(s)
           \/ CollectFails(s) \/ CollectOnly(s)
           \/ \E tagged \in ETagChoices[s] : FetchBody(s, tagged)
    PROVE  IInv'
<1>1. /\ pc[s] \in {"idle", "fetch", "collect"}
      /\ \E point \in {"idle", "fetch", "collect", "stopped"} :
            pc' = [pc EXCEPT ![s] = point]
      /\ UNCHANGED <<remote, local, lock, file, pending, ctxDone>>
  BY DEF Tick, Stop, FetchFails, FetchNotModified, CollectFails, CollectOnly,
         FetchBody, Goto
<1>2. /\ etag' \in [Stacks -> Maybe(Composes)]
      /\ hash' \in [Stacks -> Maybe(Composes)]
      /\ desired' \in [Stacks -> Maybe(Composes)]
  <2>1. CASE UNCHANGED kept
    BY <2>1 DEF IInv, TypeOK, kept
  <2>2. ASSUME NEW tagged \in ETagChoices[s], FetchBody(s, tagged)
        PROVE  /\ etag' \in [Stacks -> Maybe(Composes)]
               /\ hash' \in [Stacks -> Maybe(Composes)]
               /\ desired' \in [Stacks -> Maybe(Composes)]
    <3>1. remote[s] \in Maybe(Composes)
      BY ServedFacts DEF IInv, TypeOK, Maybe
    <3> QED BY <2>2, <3>1 DEF FetchBody, IInv, TypeOK
  <2> QED BY <2>1, <2>2 DEF Tick, Stop, FetchFails, FetchNotModified, CollectFails,
                            CollectOnly
<1> QED BY <1>1, <1>2, OutsideStep

(* The evaluation: the runner goes to the mutex with its statuses.         *)
LEMMA EvaluateInv ==
    ASSUME IInv, NEW s \in Stacks, CollectAndEvaluate(s)
    PROVE  IInv'
<1> USE DEF IInv
<1>1. PICK e \in Evaluations : observed' = [observed EXCEPT ![s] = e]
  BY ServedFacts DEF CollectAndEvaluate
<1>2. /\ pc[s] = "collect"
      /\ pc' = [pc EXCEPT ![s] = "lock"]
      /\ UNCHANGED <<remote, kept, lock, file, loaded, pending, ctxDone>>
  BY DEF CollectAndEvaluate, Goto
<1>3. TypeOK'
  BY <1>1, <1>2 DEF TypeOK, Points, kept
<1>4. HolderIsInside' /\ LoadedIsCurrent' /\ ObservedIsFresh'
  BY <1>1, <1>2 DEF HolderIsInside, LoadedIsCurrent, ObservedIsFresh, TypeOK
<1>5. OutboxIsTransient' /\ PendingIsPersisted'
  BY <1>1, <1>2 DEF OutboxIsTransient, PendingIsPersisted, TypeOK
<1> QED BY <1>3, <1>4, <1>5

(* Taking the mutex, and reading the file under it.                        *)
LEMMA LoadInv ==
    ASSUME IInv, NEW s \in Stacks, Acquire(s) \/ Load(s)
    PROVE  IInv'
<1> USE DEF IInv, TypeOK, HolderIsInside, LoadedIsCurrent, ObservedIsFresh,
            OutboxIsTransient, PendingIsPersisted, Points, Goto, kept, local
<1>1. CASE Acquire(s)
  BY <1>1, SentinelAssumption DEF Acquire
<1>2. CASE Load(s)
  BY <1>2 DEF Load
<1> QED BY <1>1, <1>2

(* Giving it back after an error: the file stays as it is.                 *)
LEMMA FailInv ==
    ASSUME IInv, NEW s \in Stacks, LoadFails(s) \/ SaveFails(s)
    PROVE  IInv'
<1> USE DEF IInv
<1>1. /\ lock = s /\ lock' = NoHolder
      /\ pc[s] \in {"load", "save"}
      /\ pc' = [pc EXCEPT ![s] = "idle"]
      /\ observed' = [observed EXCEPT ![s] = NoSnapshot]
      /\ loaded' = [loaded EXCEPT ![s] = EmptyFile]
      /\ UNCHANGED <<remote, kept, file, pending, ctxDone>>
  BY DEF LoadFails, SaveFails, Leave, Goto, HolderIsInside
<1>2. TypeOK'
  BY <1>1, EmptyTypes DEF TypeOK, Points, kept
<1>3. HolderIsInside' /\ LoadedIsCurrent' /\ ObservedIsFresh'
  BY <1>1, SentinelAssumption DEF HolderIsInside, LoadedIsCurrent, ObservedIsFresh, TypeOK
<1>4. OutboxIsTransient' /\ PendingIsPersisted'
  BY <1>1 DEF OutboxIsTransient, PendingIsPersisted, TypeOK
<1> QED BY <1>2, <1>3, <1>4

(* Save, the one step that changes the file while the process runs.        *)
LEMMA SaveInv ==
    ASSUME IInv, NEW s \in Stacks, Save(s)
    PROVE  IInv'
<1> USE DEF IInv
<1>1. /\ pc[s] = "save"
      /\ \E point \in {"idle", "notify"} :
            /\ pc' = [pc EXCEPT ![s] = point]
            /\ point = "idle" => Decided(s) = {}
      /\ lock = s /\ lock' = NoHolder
      /\ observed' = [observed EXCEPT ![s] = NoSnapshot]
      /\ loaded' = [loaded EXCEPT ![s] = EmptyFile]
      /\ file' = [file EXCEPT ![s] = NewEntry(s)]
      /\ pending' = [pending EXCEPT ![s] = Decided(s)]
      /\ UNCHANGED <<remote, kept, ctxDone>>
  BY SaveFacts DEF Save, Leave, Goto
<1>2. TypeOK'
  BY <1>1, EmptyTypes, SaveFacts DEF TypeOK, Points, kept
<1>3. HolderIsInside' /\ LoadedIsCurrent' /\ ObservedIsFresh'
  BY <1>1, SentinelAssumption DEF HolderIsInside, LoadedIsCurrent, ObservedIsFresh, TypeOK
<1>4. OutboxIsTransient'
  BY <1>1 DEF OutboxIsTransient, TypeOK
<1>5. PendingIsPersisted'
  <2> SUFFICES ASSUME NEW r \in Stacks, NEW t \in pending'[r]
               PROVE  /\ t.name \in DOMAIN file'[r].services
                      /\ file'[r].services[t.name].notified = t.to
    BY DEF PendingIsPersisted
  <2>1. CASE r = s
    BY <1>1, <2>1, SaveFacts DEF TypeOK
  <2>2. CASE r # s
    BY <1>1, <2>2 DEF PendingIsPersisted, TypeOK
  <2> QED BY <2>1, <2>2
<1> QED BY <1>2, <1>3, <1>4, <1>5

LEMMA NotifyInv ==
    ASSUME IInv, NEW s \in Stacks, Notify(s)
    PROVE  IInv'
  BY DEF Notify, Goto, IInv, TypeOK, HolderIsInside, LoadedIsCurrent, ObservedIsFresh,
         OutboxIsTransient, PendingIsPersisted, Points, kept, local

(* A crash, a restart and the loss of the file find or leave no runner     *)
(* inside a cycle.                                                         *)
LEMMA EnvironmentInv == IInv /\ Environment => IInv'
<1> SUFFICES ASSUME IInv, Environment PROVE IInv'
  OBVIOUS
<1> USE DEF IInv, TypeOK, HolderIsInside, LoadedIsCurrent, ObservedIsFresh,
            OutboxIsTransient, PendingIsPersisted, Points, kept, local
<1>1. ASSUME NEW s \in Stacks, Publish(s) PROVE IInv'
  BY <1>1 DEF Publish
<1>2. CASE Shutdown
  BY <1>2 DEF Shutdown
<1>3. ASSUME Crash \/ Restart PROVE IInv'
  <2>1. /\ \E point \in {"down", "fetch"} : pc' = [s \in Stacks |-> point]
        /\ ForgetMemory
        /\ UNCHANGED <<remote, file>>
    BY <1>3 DEF Crash, Restart
  <2>2. TypeOK'
    <3>1. pc' \in [Stacks -> Points]
      BY <2>1
    <3>2. /\ etag' \in [Stacks -> Maybe(Composes)]
          /\ hash' \in [Stacks -> Maybe(Composes)]
          /\ desired' \in [Stacks -> Maybe(Composes)]
      BY <2>1 DEF ForgetMemory, Nothing, Maybe
    <3>3. /\ observed' \in [Stacks -> Evaluations \cup {NoSnapshot}]
          /\ loaded' \in [Stacks -> [Stacks -> Entries]]
          /\ pending' \in [Stacks -> SUBSET Alerts]
      BY <2>1, EmptyTypes DEF ForgetMemory
    <3> QED BY <2>1, <3>1, <3>2, <3>3 DEF ForgetMemory
  <2>3. \A s \in Stacks : pc'[s] \in {"down", "fetch"} /\ pending'[s] = {}
    BY <2>1 DEF ForgetMemory
  <2>4. lock' = NoHolder
    BY <2>1 DEF ForgetMemory
  <2> QED BY <2>2, <2>3, <2>4, SentinelAssumption
<1>4. CASE LoseFile
  BY <1>4, EmptyTypes DEF LoseFile, Running
<1> QED BY <1>1, <1>2, <1>3, <1>4 DEF Environment

LEMMA NextInv == IInv /\ [Next]_vars => IInv'
<1> SUFFICES ASSUME IInv, [Next]_vars PROVE IInv'
  OBVIOUS
<1>1. CASE UNCHANGED vars
  BY <1>1 DEF vars, kept, local, IInv, TypeOK, HolderIsInside, LoadedIsCurrent,
              ObservedIsFresh, OutboxIsTransient, PendingIsPersisted
<1> QED BY <1>1, OutsideInv, EvaluateInv, LoadInv, FailInv, SaveInv, NotifyInv,
           EnvironmentInv DEF Next, Cycle

(* The invariant holds in every reachable state.                           *)
THEOREM SentinelInductive == Spec => []IInv
  BY InitInv, NextInv, PTL DEF Spec

-----------------------------------------------------------------------------
(* The theorems                                                            *)

(* The state keeps its types, whatever fails or crashes.                   *)
THEOREM SentinelTypeCorrect == Spec => []TypeOK
  BY SentinelInductive, PTL DEF IInv

(* Every alert on its way is in the file (runner.go:360 before 406).       *)
THEOREM NotifiedIsPersisted == Spec => []PendingIsPersisted
  BY SentinelInductive, PTL DEF IInv

(* What a step may do to the file: nothing, unless a runner saves its own  *)
(* entry or the file is lost while no runner is alive.                     *)
LEMMA FileFacts ==
    ASSUME IInv, [Next]_vars, file' # file
    PROVE  \/ LoseFile
           \/ \E s \in Stacks : Save(s) /\ file' = [file EXCEPT ![s] = NewEntry(s)]
<1>1. CASE \E s \in Stacks : Save(s)
  <2>1. PICK s \in Stacks : Save(s)
    BY <1>1
  <2> QED BY <2>1, SaveFacts DEF Save
<1>2. CASE ~ \E s \in Stacks : Save(s)
  BY <1>2 DEF Next, Cycle, Environment, Tick, Stop, FetchFails, FetchNotModified,
              FetchBody, CollectFails, CollectOnly, CollectAndEvaluate, Acquire,
              LoadFails, Load, SaveFails, Notify, Publish, Shutdown, Crash, Restart, vars
<1> QED BY <1>1, <1>2

(* No runner writes back another stack's entry from before that stack      *)
(* saved: the mutex spans load, modify and save (runner.go:340-368).       *)
THEOREM StacksStayIsolated == Spec => StacksIsolated
<1>1. IInv /\ [Next]_vars =>
        [\A s \in Stacks : file'[s] # file[s] => pc[s] = "save" \/ ~Running]_vars
  <2> SUFFICES ASSUME IInv, [Next]_vars, NEW s \in Stacks, file'[s] # file[s], Running
               PROVE  pc[s] = "save"
    OBVIOUS
  <2>1. ~ LoseFile
    BY DEF LoseFile
  <2>2. PICK r \in Stacks : Save(r) /\ file' = [file EXCEPT ![r] = NewEntry(r)]
    BY <2>1, FileFacts
  <2>3. r = s
    BY <2>2 DEF IInv, TypeOK
  <2> QED BY <2>2, <2>3 DEF Save
<1> QED BY <1>1, SentinelInductive, PTL DEF Spec, StacksIsolated

-----------------------------------------------------------------------------
(* The refinement: for each stack, AlertCycle                              *)

(* AlertCycle's pure operators are Sentinel's own.                         *)
LEMMA SameOperators ==
    ASSUME NEW s
    PROVE  /\ Promise(s)!NoSnapshot = NoSnapshot
           /\ Promise(s)!Evaluations = Evaluations
           /\ \A prev, current :
                /\ Promise(s)!Updated(prev, current) = Updated(prev, current)
                /\ Promise(s)!Transitions(prev, current) = Transitions(prev, current)
  BY DEF NoSnapshot, Promise!NoSnapshot, NoStatus, Promise!NoStatus, Status,
     Promise!Status, Evaluations, Promise!Evaluations, Threshold,
     Promise!Threshold, FirstRun, Promise!FirstRun, Saturated,
     Promise!Saturated, Consecutive, Promise!Consecutive, LastNotified,
     Promise!LastNotified, ShouldNotify, Promise!ShouldNotify, Eligible,
     Promise!Eligible, Updated, Promise!Updated, PreviousStatus,
     Promise!PreviousStatus, IsTransition, Promise!IsTransition,
     DetectTransitions, Promise!DetectTransitions, Transitions,
     Promise!Transitions

(* What any step but a save and the loss of the file may do to the alerts  *)
(* of a stack: drop them all.                                              *)
LEMMA OutboxFacts ==
    ASSUME IInv, [Next]_vars, NEW s \in Stacks, pending'[s] # pending[s], ~ Save(s)
    PROVE  pending'[s] = {} /\ file' = file
<1>1. CASE \E r \in Stacks : Save(r)
  BY <1>1 DEF Save, IInv, TypeOK
<1>2. CASE Notify(s)
  BY <1>2 DEF Notify, IInv, TypeOK
<1>3. CASE Crash \/ Restart
  BY <1>3 DEF Crash, Restart, ForgetMemory
<1>4. CASE \E r \in Stacks : r # s /\ Notify(r)
  BY <1>4 DEF Notify, IInv, TypeOK
<1>5. CASE /\ ~ \E r \in Stacks : Save(r) \/ Notify(r)
           /\ ~ Crash /\ ~ Restart
  BY <1>5 DEF Next, Cycle, Environment, Tick, Stop, FetchFails, FetchNotModified,
              FetchBody, CollectFails, CollectOnly, CollectAndEvaluate, Acquire,
              LoadFails, Load, SaveFails, Publish, Shutdown, LoseFile, vars
<1> QED BY <1>1, <1>2, <1>3, <1>4, <1>5

(* Save is the abstract cycle, whatever ended a delivery the dispatch.     *)
LEMMA StepRefines ==
    ASSUME IInv, [Next]_vars, NEW s \in Stacks
    PROVE  [Promise(s)!Next]_(Promise(s)!vars)
<1>1. CASE Save(s)
  <2>1. /\ pending[s] = {}
        /\ observed[s] \in Evaluations
        /\ file'[s].services = Updated(file[s].services, observed[s])
        /\ pending'[s] = Transitions(file[s].services, observed[s])
    BY <1>1, SaveFacts DEF Save, IInv, TypeOK
  <2>2. Promise(s)!Cycle(observed[s])
    BY <2>1, SameOperators DEF Promise!Cycle
  <2> QED BY <2>1, <2>2, SameOperators DEF Promise!Next
<1>2. CASE LoseFile
  <2>1. pc[s] # "notify"
    BY <1>2 DEF LoseFile, Running
  <2>2. Promise(s)!Forget
    BY <1>2, <2>1, EmptyTypes, SameOperators DEF LoseFile, IInv, OutboxIsTransient, NoEntry, Promise!Forget
  <2> QED BY <2>2 DEF Promise!Next
<1>3. CASE ~ Save(s) /\ ~ LoseFile
  <2>1. file'[s] = file[s]
    BY <1>3, FileFacts DEF IInv, TypeOK
  <2>2. CASE pending'[s] = pending[s]
    BY <2>1, <2>2 DEF Promise!vars
  <2>3. CASE pending'[s] # pending[s]
    <3>1. Promise(s)!Dispatch
      BY <1>3, <2>1, <2>3, OutboxFacts DEF Promise!Dispatch
    <3> QED BY <3>1 DEF Promise!Next
  <2> QED BY <2>2, <2>3
<1> QED BY <1>1, <1>2, <1>3

LEMMA InitRefines == Init => \A s \in Stacks : Promise(s)!Init
  BY EmptyTypes, SameOperators DEF Init, NoEntry, Promise!Init

(* The interleaved cycles of a stack are atomic cycles (runner.go:340-410).*)
THEOREM CyclesRefine == Spec => CyclesAreAtomic
<1>1. IInv /\ [Next]_vars =>
        [\A s \in Stacks : [Promise(s)!Next]_(Promise(s)!vars)]_vars
  BY StepRefines
<1> QED BY <1>1, InitRefines, SentinelInductive, PTL DEF Spec, CyclesAreAtomic

(* Stack by stack, in the form of a refinement.                            *)
THEOREM ImplementsAlertCycle ==
    ASSUME NEW s \in Stacks
    PROVE  Spec => Promise(s)!Spec
<1>1. Init => Promise(s)!Init
  BY InitRefines
<1>2. IInv /\ [Next]_vars => [Promise(s)!Next]_(Promise(s)!vars)
  BY StepRefines
<1> QED BY <1>1, <1>2, SentinelInductive, PTL DEF Spec, Promise!Spec

-----------------------------------------------------------------------------
(* ComposeFetch: what the requests of a fetch do to the runner             *)

(* The state of the request and of the retry loop.                         *)
RequestTypeOK ==
    /\ \A s \in Stacks : seen[s] \in Served[s]
    /\ seen \in [Stacks -> Composes]
    /\ attempt \in [Stacks -> 0..MaxRetries]
    /\ reply \in [Stacks -> Replies]
    /\ \A s \in Stacks : pc[s] # "fetch" => attempt[s] = 0 /\ reply[s] = "unsent"
    /\ \A s \in Stacks : reply[s] = "backoff" => attempt[s] > 0

FetchInv == IInv /\ RequestTypeOK

LEMMA FetchInitInv == FetchInit => FetchInv
  BY InitInv, ServedFacts, ComposeFetchAssumption
     DEF FetchInit, Init, FetchInv, RequestTypeOK, Replies

(* An answer that came back, acted on by the runner.                       *)
LEMMA AnswerFacts ==
    ASSUME FetchInv, NEW s \in Stacks,
           NotModified(s) \/ \E tagged \in ETagChoices[s] : Body(s, tagged)
    PROVE  /\ pc[s] = "fetch"
           /\ \E point \in {"idle", "collect"} : pc' = [pc EXCEPT ![s] = point]
           /\ etag' \in [Stacks -> Maybe(Composes)]
           /\ hash' \in [Stacks -> Maybe(Composes)]
           /\ desired' \in [Stacks -> Maybe(Composes)]
           /\ UNCHANGED <<remote, seen, local, lock, file, pending, ctxDone>>
<1>1. seen[s] \in Maybe(Composes)
  BY DEF FetchInv, RequestTypeOK, Maybe
<1>2. CASE NotModified(s)
  BY <1>2 DEF NotModified, S!FetchNotModified, S!Goto, S!kept, S!local, local, Return,
              FetchInv, IInv, TypeOK
<1>3. ASSUME NEW tagged \in ETagChoices[s], Body(s, tagged)
      PROVE  /\ pc[s] = "fetch"
             /\ \E point \in {"idle", "collect"} : pc' = [pc EXCEPT ![s] = point]
             /\ etag' \in [Stacks -> Maybe(Composes)]
             /\ hash' \in [Stacks -> Maybe(Composes)]
             /\ desired' \in [Stacks -> Maybe(Composes)]
             /\ UNCHANGED <<remote, seen, local, lock, file, pending, ctxDone>>
  BY <1>1, <1>3 DEF Body, S!FetchBody, S!Goto, S!kept, S!local, local, Return,
                    FetchInv, IInv, TypeOK
<1> QED BY <1>2, <1>3

(* Every other step is one of Sentinel, or hidden from it.                 *)
LEMMA FetchStepCases ==
    ASSUME FetchInv, [FetchNext]_allVars
    PROVE  \/ \E s \in Stacks :
                NotModified(s) \/ \E tagged \in ETagChoices[s] : Body(s, tagged)
           \/ [Next]_vars
  BY DEF FetchNext, allVars, Request, ServeWell, Serve, ServeNothing, FetchStep, Retry,
         Resume, GiveUp, Elsewhere, AfterFetch, Next, Cycle, Environment

LEMMA FetchKeepsIInv == FetchInv /\ [FetchNext]_allVars => IInv'
<1> SUFFICES ASSUME FetchInv, [FetchNext]_allVars PROVE IInv'
  OBVIOUS
<1>1. ASSUME NEW s \in Stacks,
             NotModified(s) \/ \E tagged \in ETagChoices[s] : Body(s, tagged)
      PROVE  IInv'
  BY <1>1, AnswerFacts, OutsideStep DEF FetchInv
<1>2. CASE [Next]_vars
  BY <1>2, NextInv DEF FetchInv
<1> QED BY <1>1, <1>2, FetchStepCases

(* A request is under way only in a fetch, and only one that failed is     *)
(* tried again.                                                            *)
LEMMA FetchKeepsRequests == FetchInv /\ [FetchNext]_allVars => RequestTypeOK'
<1> SUFFICES ASSUME FetchInv, [FetchNext]_allVars PROVE RequestTypeOK'
  OBVIOUS
<1> USE ComposeFetchAssumption DEF FetchInv, RequestTypeOK, Replies, TransientReplies
<1>1. ASSUME NEW s \in Stacks, Request(s) PROVE RequestTypeOK'
  <2>1. remote[s] \in Served[s] /\ remote[s] \in Composes
    BY ServedFacts DEF IInv, TypeOK
  <2>2. ASSUME NEW r \in AnswersOf(s) \cup {"cut"}, Serve(s, r) PROVE RequestTypeOK'
    <3>1. r \in {"notModified", "tagged", "untagged", "cut"}
      BY DEF AnswersOf
    <3> QED BY <2>1, <2>2, <3>1 DEF Serve, Fetching, vars
  <2>3. CASE ServeNothing(s)
    BY <2>3 DEF ServeNothing, Fetching, vars
  <2> QED BY <1>1, <2>2, <2>3 DEF Request, ServeWell
<1>2. ASSUME NEW s \in Stacks, FetchStep(s) PROVE RequestTypeOK'
  <2>1. CASE \/ NotModified(s) \/ GiveUp(s)
             \/ \E tagged \in ETagChoices[s] : Body(s, tagged)
    <3>1. /\ pc[s] = "fetch"
          /\ \E point \in {"idle", "collect"} : pc' = [pc EXCEPT ![s] = point]
      BY <2>1, AnswerFacts DEF GiveUp, FetchFails, Goto
    <3>2. Return(s)
      BY <2>1 DEF NotModified, GiveUp, Body
    <3> QED BY <3>1, <3>2 DEF Return, IInv, TypeOK
  <2>2. CASE Retry(s)
    BY <2>2 DEF Retry, vars
  <2>3. CASE Resume(s)
    BY <2>3 DEF Resume, Fetching, vars
  <2> QED BY <1>2, <2>1, <2>2, <2>3 DEF FetchStep
<1>3. CASE Elsewhere /\ UNCHANGED fetchVars
  <2>1. \A s \in Stacks : pc'[s] # "fetch" => pc[s] # "fetch" \/ pc' = pc
    BY <1>3 DEF Elsewhere, AfterFetch, Tick, Stop, CollectFails, CollectOnly,
                CollectAndEvaluate, LoadFails, Load, SaveFails, Save, Acquire, Notify,
                Publish, Shutdown, LoseFile, Leave, Goto, IInv, TypeOK
  <2> QED BY <1>3, <2>1 DEF fetchVars
<1>4. CASE /\ Crash \/ Restart
           /\ attempt' = [s \in Stacks |-> 0]
           /\ reply' = [s \in Stacks |-> "unsent"]
           /\ UNCHANGED seen
  BY <1>4
<1>5. CASE UNCHANGED allVars
  BY <1>5 DEF allVars, vars, fetchVars
<1> QED BY <1>1, <1>2, <1>3, <1>4, <1>5 DEF FetchNext

THEOREM FetchInductive == FetchSpec => []FetchInv
<1>1. FetchInv /\ [FetchNext]_allVars => FetchInv'
  BY FetchKeepsIInv, FetchKeepsRequests DEF FetchInv
<1> QED BY <1>1, FetchInitInv, PTL DEF FetchSpec

(* The state keeps its types; a request is under way only in a fetch, and  *)
(* the attempts are bounded (fetcher.go:126-160).                          *)
THEOREM FetchTypeCorrect == FetchSpec => []FetchTypeOK
<1>1. FetchInv => FetchTypeOK
  BY DEF FetchInv, IInv, RequestTypeOK, FetchTypeOK
<1> QED BY <1>1, FetchInductive, PTL

-----------------------------------------------------------------------------
(* ComposeFetch implements Sentinel                                        *)

(* The operators of the instance are those of the module.                  *)
LEMMA SentinelOperators ==
    /\ S!NoSnapshot = NoSnapshot
    /\ S!EmptyFile = EmptyFile
    /\ S!Nothing = Nothing
    /\ S!NoHolder = NoHolder
    /\ S!Composes = Composes
    /\ \A c : S!EvaluationsOf(c) = EvaluationsOf(c)
    /\ \A s : S!Decided(s) = Decided(s) /\ S!NewEntry(s) = NewEntry(s)
  BY DEF NoSnapshot, S!NoSnapshot, NoStatus, S!NoStatus, Status, S!Status,
     Evaluations, S!Evaluations, Threshold, S!Threshold, FirstRun, S!FirstRun,
     Saturated, S!Saturated, Consecutive, S!Consecutive, LastNotified,
     S!LastNotified, ShouldNotify, S!ShouldNotify, Eligible, S!Eligible,
     Updated, S!Updated, PreviousStatus, S!PreviousStatus, IsTransition,
     S!IsTransition, DetectTransitions, S!DetectTransitions, Transitions,
     S!Transitions, EvaluationsOf, S!EvaluationsOf, NoEntry, S!NoEntry,
     EmptyFile, S!EmptyFile, Nothing, S!Nothing, NoHolder, S!NoHolder, Composes, S!Composes, Decided,
     S!Decided, NewEntry, S!NewEntry

(* A request that finds the source changed is where Sentinel sees it       *)
(* change, acting on the answer is Sentinel's fetch, and the retries are   *)
(* hidden.                                                                 *)
LEMMA FetchStepRefines ==
    ASSUME FetchInv, [FetchNext]_allVars
    PROVE  [S!Next]_(S!vars)
<1> USE DEF S!vars, S!kept, S!local
<1>1. ASSUME NEW s \in Stacks, Request(s) PROVE [S!Next]_(S!vars)
  <2>1. /\ UNCHANGED vars
        /\ seen' = seen \/ seen' = [seen EXCEPT ![s] = remote[s]]
    BY <1>1 DEF Request, ServeWell, Serve, ServeNothing
  <2>2. CASE seen' = seen
    BY <2>1, <2>2 DEF vars, kept, local
  <2>3. CASE seen' # seen
    <3>1. remote[s] \in Served[s] \ {seen[s]}
      BY <2>1, <2>3 DEF FetchInv, IInv, TypeOK, RequestTypeOK
    <3>2. S!Publish(s)
      BY <2>1, <2>3, <3>1 DEF S!Publish, vars, kept, local
    <3> QED BY <3>2 DEF S!Next, S!Environment
  <2> QED BY <2>2, <2>3
<1>2. ASSUME NEW s \in Stacks, FetchStep(s) PROVE [S!Next]_(S!vars)
  <2>1. CASE NotModified(s) \/ \E tagged \in ETagChoices[s] : Body(s, tagged)
    BY <2>1 DEF NotModified, Body, S!Next, S!Cycle
  <2>2. CASE Retry(s) \/ Resume(s)
    BY <2>2 DEF Retry, Resume, vars, kept, local
  <2>3. CASE GiveUp(s)
    <3>1. S!FetchFails(s)
      BY <2>3 DEF GiveUp, FetchFails, Return, S!FetchFails, Goto, S!Goto, kept, local
    <3> QED BY <3>1 DEF S!Next, S!Cycle
  <2> QED BY <1>2, <2>1, <2>2, <2>3 DEF FetchStep
<1>3. ASSUME NEW s \in Stacks, UNCHANGED fetchVars,
             Tick(s) \/ Stop(s) \/ AfterFetch(s) \/ Acquire(s) \/ Notify(s)
      PROVE  S!Next
  <2>1. seen' = seen
    BY <1>3 DEF fetchVars
  <2> USE DEF Goto, S!Goto, kept, local
  <2>2. CASE Tick(s) \/ Stop(s) \/ Notify(s) \/ Acquire(s)
    <3>1. S!Tick(s) \/ S!Stop(s) \/ S!Notify(s) \/ S!Acquire(s)
      BY <2>1, <2>2, SentinelOperators
         DEF Tick, S!Tick, Stop, S!Stop, Notify, S!Notify, Acquire, S!Acquire
    <3> QED BY <3>1 DEF S!Next
  <2>3. CASE CollectFails(s) \/ CollectOnly(s) \/ CollectAndEvaluate(s)
    <3>1. S!CollectFails(s) \/ S!CollectOnly(s) \/ S!CollectAndEvaluate(s)
      BY <2>1, <2>3, SentinelOperators
         DEF CollectFails, S!CollectFails, CollectOnly, S!CollectOnly,
             CollectAndEvaluate, S!CollectAndEvaluate
    <3> QED BY <3>1 DEF S!Next, S!Cycle
  <2>4. CASE Load(s) \/ LoadFails(s) \/ SaveFails(s) \/ Save(s)
    <3>1. S!Load(s) \/ S!LoadFails(s) \/ S!SaveFails(s) \/ S!Save(s)
      BY <2>1, <2>4, SentinelOperators
         DEF Load, S!Load, LoadFails, S!LoadFails, SaveFails, S!SaveFails, Save, S!Save,
             Leave, S!Leave
    <3> QED BY <3>1 DEF S!Next, S!Cycle
  <2> QED BY <1>3, <2>2, <2>3, <2>4 DEF AfterFetch
<1>4. ASSUME NEW s \in Stacks, UNCHANGED fetchVars, Publish(s)
      PROVE  UNCHANGED S!vars
  BY <1>4 DEF Publish, fetchVars, kept, local
<1>5. CASE UNCHANGED fetchVars /\ (Shutdown \/ LoseFile)
  <2>1. S!Shutdown \/ S!LoseFile
    BY <1>5, SentinelOperators DEF Shutdown, S!Shutdown, LoseFile, S!LoseFile, Running,
                                   S!Running, fetchVars, kept, local
  <2> QED BY <2>1 DEF S!Next, S!Environment
<1>6. CASE UNCHANGED seen /\ (Crash \/ Restart)
  <2>1. S!Crash \/ S!Restart
    BY <1>6, SentinelOperators DEF Crash, S!Crash, Restart, S!Restart, Running,
                                   S!Running, ForgetMemory, S!ForgetMemory
  <2> QED BY <2>1 DEF S!Next, S!Environment
<1>7. CASE UNCHANGED allVars
  BY <1>7 DEF allVars, vars, fetchVars, kept, local
<1> QED BY <1>1, <1>2, <1>3, <1>4, <1>5, <1>6, <1>7 DEF FetchNext, Elsewhere

LEMMA FetchInitRefines == FetchInit => S!Init
  BY SentinelOperators, ServedFacts DEF FetchInit, Init, S!Init

(* Seen from Sentinel, the cycles of a stack are still those of AlertCycle.*)
LEMMA PromiseOperators ==
    ASSUME NEW s
    PROVE  /\ S!Promise(s)!Init <=> Promise(s)!Init
           /\ S!Promise(s)!Next <=> Promise(s)!Next
           /\ S!Promise(s)!vars = Promise(s)!vars
  BY DEF Promise!NoSnapshot, S!Promise!NoSnapshot, Promise!NoStatus,
     S!Promise!NoStatus, Promise!Status, S!Promise!Status, Promise!Evaluations,
     S!Promise!Evaluations, Promise!Threshold, S!Promise!Threshold,
     Promise!FirstRun, S!Promise!FirstRun, Promise!Saturated,
     S!Promise!Saturated, Promise!Consecutive, S!Promise!Consecutive,
     Promise!LastNotified, S!Promise!LastNotified, Promise!ShouldNotify,
     S!Promise!ShouldNotify, Promise!Eligible, S!Promise!Eligible,
     Promise!Updated, S!Promise!Updated, Promise!PreviousStatus,
     S!Promise!PreviousStatus, Promise!IsTransition, S!Promise!IsTransition,
     Promise!DetectTransitions, S!Promise!DetectTransitions,
     Promise!Transitions, S!Promise!Transitions, Promise!Init, S!Promise!Init,
     Promise!OldRecord, S!Promise!OldRecord, Promise!OldSnapshots,
     S!Promise!OldSnapshots, Promise!Cycle, S!Promise!Cycle, Promise!Dispatch,
     S!Promise!Dispatch, Promise!Forget, S!Promise!Forget, Promise!Next,
     S!Promise!Next, Promise!vars, S!Promise!vars

(* A step of a fetch is at most a step of AlertCycle that stutters.        *)
LEMMA FetchStepKeepsPromise ==
    ASSUME FetchInv, [FetchNext]_allVars, NEW s \in Stacks
    PROVE  S!Promise(s)!Next \/ UNCHANGED S!Promise(s)!vars
<1>1. ASSUME NEW r \in Stacks,
             NotModified(r) \/ \E tagged \in ETagChoices[r] : Body(r, tagged)
      PROVE  UNCHANGED Promise(s)!vars
  BY <1>1, AnswerFacts DEF Promise!vars
<1>2. ASSUME [Next]_vars PROVE [Promise(s)!Next]_(Promise(s)!vars)
  BY <1>2, StepRefines DEF FetchInv
<1>3. Promise(s)!Next \/ UNCHANGED Promise(s)!vars
  BY <1>1, <1>2, FetchStepCases
<1> QED BY <1>3, PromiseOperators DEF Promise!vars, S!Promise!vars

(* With its requests, retries and late answers a fetch is the single step  *)
(* Sentinel takes it for (runner.go:230-268, fetcher.go:126-160).          *)
THEOREM FetchImplementsSentinel == FetchSpec => ImplementsSentinel
<1>1. FetchInit => S!Init /\ \A s \in Stacks : S!Promise(s)!Init
  BY FetchInitRefines, InitRefines, PromiseOperators DEF FetchInit
<1>2. FetchInv /\ [FetchNext]_allVars => [S!Next]_(S!vars)
  BY FetchStepRefines
<1>3. FetchInv /\ [FetchNext]_allVars =>
        [\A s \in Stacks : [S!Promise(s)!Next]_(S!Promise(s)!vars)]_(S!vars)
  BY FetchStepKeepsPromise
<1> QED BY <1>1, <1>2, <1>3, FetchInductive, PTL
        DEF FetchSpec, ImplementsSentinel, S!Spec, S!CyclesAreAtomic

-----------------------------------------------------------------------------
(* What the runner keeps names the body it evaluates                       *)

(* A source that sends an ETag with every body or with none.               *)
ETagsConsistent == \A s \in Stacks : ETagChoices[s] # BOOLEAN

(* The kept ETag is that of the kept fingerprint, and the desired state is *)
(* that of the fingerprint unless that body did not parse.                 *)
Agrees(s) ==
    /\ etag[s] \in {NoCompose, hash[s]}
    /\ FALSE \in ETagChoices[s] => etag[s] = NoCompose
    /\ hash[s] # NoCompose /\ Parses(hash[s]) => desired[s] = hash[s]

KeptAgrees == \A s \in Stacks : Agrees(s)

LEMMA BodyKeepsAgreement ==
    ASSUME ETagsConsistent, FetchInv, KeptAgrees, NEW s \in Stacks,
           NEW tagged \in ETagChoices[s], Body(s, tagged)
    PROVE  /\ KeptAgrees'
           /\ pc'[s] = "collect" /\ Parses(seen[s]) => desired'[s] = seen[s]
<1>1. seen[s] # NoCompose
  BY SentinelAssumption DEF FetchInv, RequestTypeOK
<1>2. tagged \in BOOLEAN /\ ETagChoices[s] = {tagged}
  BY SentinelAssumption DEF ETagsConsistent
<1>3. /\ etag' = [etag EXCEPT ![s] = IF tagged THEN seen[s] ELSE etag[s]]
      /\ hash' = [hash EXCEPT ![s] = seen[s]]
      /\ IF hash[s] = seen[s]
           THEN UNCHANGED desired
           ELSE IF Parses(seen[s])
           THEN desired' = [desired EXCEPT ![s] = seen[s]]
           ELSE UNCHANGED desired /\ pc' = [pc EXCEPT ![s] = "idle"]
  BY DEF Body, S!FetchBody, S!Parses, Parses, S!Goto
<1>4. /\ pc \in [Stacks -> Points]
      /\ etag \in [Stacks -> Maybe(Composes)]
      /\ hash \in [Stacks -> Maybe(Composes)]
      /\ desired \in [Stacks -> Maybe(Composes)]
  BY DEF FetchInv, IInv, TypeOK
<1>5. Parses(seen[s]) => desired'[s] = seen[s]
  BY <1>1, <1>3, <1>4 DEF KeptAgrees, Agrees
<1>6. Agrees(s)'
  BY <1>1, <1>2, <1>3, <1>4, <1>5 DEF KeptAgrees, Agrees, Parses
<1>7. ASSUME NEW r \in Stacks, r # s PROVE Agrees(r)'
  <2>1. etag'[r] = etag[r] /\ hash'[r] = hash[r] /\ desired'[r] = desired[r]
    BY <1>3, <1>4, <1>7
  <2> QED BY <2>1 DEF KeptAgrees, Agrees, Parses
<1> QED BY <1>5, <1>6, <1>7 DEF KeptAgrees

(* The steps that do not act on an answer keep what the runner keeps, or   *)
(* forget it, and do not get past the compose step.                        *)
LEMMA OtherStepsKeepAgreement ==
    ASSUME FetchInv, [FetchNext]_allVars,
           ~ \E s \in Stacks :
               NotModified(s) \/ \E tagged \in ETagChoices[s] : Body(s, tagged)
    PROVE  /\ UNCHANGED kept \/ ForgetMemory
           /\ \A s \in Stacks : pc[s] = "fetch" => pc'[s] # "collect"
<1> USE DEF Goto, FetchInv, IInv, TypeOK, vars
<1>1. ASSUME NEW s \in Stacks, Request(s) \/ Retry(s) \/ Resume(s)
      PROVE  UNCHANGED <<pc, kept>>
  BY <1>1 DEF Request, ServeWell, Serve, ServeNothing, Retry, Resume
<1>2. ASSUME NEW s \in Stacks, GiveUp(s)
      PROVE  UNCHANGED kept /\ pc' = [pc EXCEPT ![s] = "idle"]
  BY <1>2 DEF GiveUp, FetchFails
<1>3. ASSUME Elsewhere
      PROVE  /\ UNCHANGED kept
             /\ \A s \in Stacks : pc[s] = "fetch" => pc'[s] # "collect"
  BY <1>3 DEF Elsewhere, AfterFetch, Tick, Stop, CollectFails, CollectOnly,
              CollectAndEvaluate, LoadFails, Load, SaveFails, Save, Acquire, Notify,
              Publish, Shutdown, LoseFile, Leave
<1>4. ASSUME Crash \/ Restart
      PROVE  ForgetMemory /\ \A s \in Stacks : pc'[s] # "collect"
  BY <1>4 DEF Crash, Restart
<1>5. CASE UNCHANGED allVars
  BY <1>5 DEF allVars
<1> QED BY <1>1, <1>2, <1>3, <1>4, <1>5 DEF FetchNext, FetchStep

LEMMA StepKeepsAgreement ==
    ASSUME ETagsConsistent, FetchInv, KeptAgrees, [FetchNext]_allVars
    PROVE  /\ KeptAgrees'
           /\ \A s \in Stacks : pc[s] = "fetch" /\ pc'[s] = "collect" /\ Parses(seen[s])
                                   => desired'[s] = seen[s]
<1> DEFINE Current(s) == pc[s] = "fetch" /\ pc'[s] = "collect" /\ Parses(seen[s])
                            => desired'[s] = seen[s]
<1>1. ASSUME UNCHANGED kept PROVE KeptAgrees'
  BY <1>1 DEF KeptAgrees, Agrees, kept, Parses
<1>2. ASSUME ForgetMemory PROVE KeptAgrees'
  BY <1>2 DEF ForgetMemory, Nothing, KeptAgrees, Agrees, Parses
<1>3. ASSUME NEW s \in Stacks,
             NotModified(s) \/ \E tagged \in ETagChoices[s] : Body(s, tagged)
      PROVE  KeptAgrees' /\ \A r \in Stacks : Current(r)
  <2>1. \A r \in Stacks : r # s => pc'[r] = pc[r]
    BY <1>3, AnswerFacts DEF FetchInv, IInv, TypeOK
  <2>2. CASE NotModified(s)
    <3>1. UNCHANGED kept /\ etag[s] = seen[s]
      BY <2>2 DEF NotModified, S!FetchNotModified, S!kept, kept
    <3>2. seen[s] # NoCompose
      BY SentinelAssumption DEF FetchInv, RequestTypeOK
    <3>3. Current(s)
      BY <3>1, <3>2 DEF KeptAgrees, Agrees, kept
    <3> QED BY <1>1, <2>1, <3>1, <3>3
  <2>3. CASE \E tagged \in ETagChoices[s] : Body(s, tagged)
    <3>1. KeptAgrees' /\ Current(s)
      BY <2>3, BodyKeepsAgreement
    <3> QED BY <2>1, <3>1
  <2> QED BY <1>3, <2>2, <2>3
<1>4. CASE ~ \E s \in Stacks :
               NotModified(s) \/ \E tagged \in ETagChoices[s] : Body(s, tagged)
  BY <1>1, <1>2, <1>4, OtherStepsKeepAgreement
<1> QED BY <1>3, <1>4

(* If no source sends an ETag with only some of its bodies, a cycle that   *)
(* gets past the compose step evaluates against the body its last request  *)
(* found, whatever came before it: failed attempts, bodies that were cut   *)
(* or did not parse, 304s (runner.go:234-266).                             *)
THEOREM AnswersAreCurrent ==
    ASSUME ETagsConsistent
    PROVE  FetchSpec => AnswerBecomesDesired
<1>1. FetchInit => KeptAgrees
  BY DEF FetchInit, Init, Nothing, KeptAgrees, Agrees
<1>2. FetchInv /\ KeptAgrees /\ [FetchNext]_allVars => KeptAgrees'
  BY StepKeepsAgreement
<1>3. FetchInv /\ KeptAgrees /\ [FetchNext]_allVars =>
        [\A s \in Stacks :
           pc[s] = "fetch" /\ pc'[s] = "collect" /\ S!Parses(seen[s])
              => desired'[s] = seen[s]]_(S!vars)
  BY StepKeepsAgreement DEF Parses, S!Parses
<1> QED BY <1>1, <1>2, <1>3, FetchInductive, PTL
        DEF FetchSpec, AnswerBecomesDesired, S!DesiredIsCurrent

=============================================================================
