-------------------------- MODULE SwarmHealth_proofs --------------------------
(***************************************************************************)
(* Proofs about SwarmHealth, for any compose files, specifications and     *)
(* number of tasks and of changes during a collection: what each status    *)
(* says about the swarm while it was looked at.                            *)
(***************************************************************************)
EXTENDS SwarmHealth, FiniteSetTheorems, TLAPS

(* The tasks Swarm may keep of service n, and the services it may hold.    *)
Tasks(n) == [state : {"running", "ended"},
             resources : {spec.resources : spec \in Specs[n]}]

TaskLists(n) == UNION {[D -> Tasks(n)] : D \in SUBSET (1..MaxTasks[n])}

Services(n) == [spec : Specs[n], update : Updates, desiredTasks : Nat,
                tasks : TaskLists(n)]

(* Swarm wants as many tasks as it may.                                    *)
ServiceOK(n, service) ==
    /\ service \in Services(n)
    /\ service.desiredTasks \in TasksWanted(n, service.spec)

SwarmOK(sw) ==
    /\ DOMAIN sw \subseteq Names
    /\ \A n \in DOMAIN sw : ServiceOK(n, sw[n])

-----------------------------------------------------------------------------
(* What one step of the swarm does                                         *)

LEMMA WantedFacts ==
    ASSUME NEW n \in Names, NEW spec \in Specs[n], NEW wanted \in TasksWanted(n, spec)
    PROVE  /\ wanted \in Nat
           /\ spec.mode = "replicated" => wanted = spec.replicas
  BY SwarmHealthAssumption DEF TasksWanted

LEMMA NoTasks ==
    ASSUME NEW n \in Names
    PROVE  Empty \in TaskLists(n)
<1>1. Empty \in [{} -> Tasks(n)]
  BY DEF Empty
<1> QED BY <1>1 DEF TaskLists

(* A service is changed in one respect: its tasks come or go, or Swarm     *)
(* wants another number of them.                                           *)
OneAtATime(old, new) ==
    new.tasks = old.tasks \/ (new.spec = old.spec /\ new.desiredTasks = old.desiredTasks)

LEMMA OneChanges ==
    ASSUME SwarmOK(swarm), NEW n \in Names, NEW service, ServiceOK(n, service),
           n \in DOMAIN swarm => OneAtATime(swarm[n], service),
           DOMAIN swarm' = DOMAIN swarm \cup {n},
           swarm'[n] = service,
           \A m \in DOMAIN swarm \ {n} : swarm'[m] = swarm[m]
    PROVE  /\ SwarmOK(swarm')
           /\ \A m \in DOMAIN swarm : OneAtATime(swarm[m], swarm'[m])
  BY DEF SwarmOK, OneAtATime

LEMMA DeployFacts ==
    ASSUME SwarmOK(swarm), NEW n \in Names, Deploy(n)
    PROVE  /\ SwarmOK(swarm')
           /\ \A m \in DOMAIN swarm : m \in DOMAIN swarm' /\ OneAtATime(swarm[m], swarm'[m])
<1>1. PICK spec \in Specs[n] : \E wanted \in TasksWanted(n, spec) :
        Becomes(n, [spec |-> spec, desiredTasks |-> wanted,
                    update |-> IF n \in DOMAIN swarm THEN swarm[n].update ELSE "",
                    tasks |-> IF n \in DOMAIN swarm THEN swarm[n].tasks ELSE Empty])
  BY DEF Deploy
<1>2. PICK wanted \in TasksWanted(n, spec) :
        Becomes(n, [spec |-> spec, desiredTasks |-> wanted,
                    update |-> IF n \in DOMAIN swarm THEN swarm[n].update ELSE "",
                    tasks |-> IF n \in DOMAIN swarm THEN swarm[n].tasks ELSE Empty])
  BY <1>1
<1> DEFINE service == [spec |-> spec, desiredTasks |-> wanted,
                       update |-> IF n \in DOMAIN swarm THEN swarm[n].update ELSE "",
                       tasks |-> IF n \in DOMAIN swarm THEN swarm[n].tasks ELSE Empty]
<1>3. ServiceOK(n, service)
  BY WantedFacts, NoTasks DEF SwarmOK, ServiceOK, Services, Updates
<1>4. n \in DOMAIN swarm => OneAtATime(swarm[n], service)
  BY DEF OneAtATime
<1>5. /\ DOMAIN swarm' = DOMAIN swarm \cup {n}
      /\ swarm'[n] = service
      /\ \A m \in DOMAIN swarm \ {n} : swarm'[m] = swarm[m]
  BY <1>2 DEF Becomes
<1> HIDE DEF service
<1> QED BY <1>3, <1>4, <1>5, OneChanges

LEMMA ChangeUpdateFacts ==
    ASSUME SwarmOK(swarm), NEW n \in Names, ChangeUpdate(n)
    PROVE  /\ SwarmOK(swarm')
           /\ \A m \in DOMAIN swarm : m \in DOMAIN swarm' /\ OneAtATime(swarm[m], swarm'[m])
<1>1. PICK update \in Updates : swarm' = [swarm EXCEPT ![n].update = update]
  BY DEF ChangeUpdate
<1>2. n \in DOMAIN swarm /\ swarm[n] \in Services(n)
  BY DEF ChangeUpdate, SwarmOK, ServiceOK
<1> DEFINE service == [swarm[n] EXCEPT !.update = update]
<1>3. /\ service \in Services(n)
      /\ service.spec = swarm[n].spec
      /\ service.desiredTasks = swarm[n].desiredTasks
      /\ service.tasks = swarm[n].tasks
  BY <1>2 DEF Services
<1>4. /\ DOMAIN swarm' = DOMAIN swarm \cup {n}
      /\ swarm'[n] = service
      /\ \A m \in DOMAIN swarm \ {n} : swarm'[m] = swarm[m]
  BY <1>1, <1>2
<1> HIDE DEF service
<1>5. ServiceOK(n, service) /\ OneAtATime(swarm[n], service)
  BY <1>2, <1>3 DEF SwarmOK, ServiceOK, OneAtATime
<1> QED BY <1>2, <1>4, <1>5, OneChanges

LEMMA ChangeCountFacts ==
    ASSUME SwarmOK(swarm), NEW n \in Names, ChangeCount(n)
    PROVE  /\ SwarmOK(swarm')
           /\ \A m \in DOMAIN swarm : m \in DOMAIN swarm' /\ OneAtATime(swarm[m], swarm'[m])
<1>1. PICK wanted \in TasksWanted(n, swarm[n].spec) :
        swarm' = [swarm EXCEPT ![n].desiredTasks = wanted]
  BY DEF ChangeCount
<1>2. n \in DOMAIN swarm /\ swarm[n] \in Services(n)
  BY DEF ChangeCount, SwarmOK, ServiceOK
<1>3. wanted \in Nat /\ (swarm[n].spec.mode = "replicated" => wanted = swarm[n].spec.replicas)
  BY <1>2, WantedFacts DEF Services
<1> DEFINE service == [swarm[n] EXCEPT !.desiredTasks = wanted]
<1>4. /\ service \in Services(n)
      /\ service.spec = swarm[n].spec
      /\ service.desiredTasks = wanted
      /\ service.tasks = swarm[n].tasks
  BY <1>2, <1>3 DEF Services
<1>5. /\ DOMAIN swarm' = DOMAIN swarm \cup {n}
      /\ swarm'[n] = service
      /\ \A m \in DOMAIN swarm \ {n} : swarm'[m] = swarm[m]
  BY <1>1, <1>2
<1> HIDE DEF service
<1>6. ServiceOK(n, service) /\ OneAtATime(swarm[n], service)
  BY <1>3, <1>4 DEF ServiceOK, OneAtATime
<1> QED BY <1>2, <1>5, <1>6, OneChanges

LEMMA TaskChanges ==
    ASSUME SwarmOK(swarm), NEW n \in DOMAIN swarm, NEW tasks \in TaskLists(n),
           swarm' = [swarm EXCEPT ![n].tasks = tasks]
    PROVE  /\ SwarmOK(swarm')
           /\ \A m \in DOMAIN swarm : m \in DOMAIN swarm' /\ OneAtATime(swarm[m], swarm'[m])
<1> DEFINE service == [swarm[n] EXCEPT !.tasks = tasks]
<1>1. n \in Names /\ swarm[n] \in Services(n)
  BY DEF SwarmOK, ServiceOK
<1>2. /\ service \in Services(n)
      /\ service.spec = swarm[n].spec
      /\ service.desiredTasks = swarm[n].desiredTasks
  BY <1>1 DEF Services
<1>3. /\ DOMAIN swarm' = DOMAIN swarm \cup {n}
      /\ swarm'[n] = service
      /\ \A m \in DOMAIN swarm \ {n} : swarm'[m] = swarm[m]
  OBVIOUS
<1> HIDE DEF service
<1>4. ServiceOK(n, service) /\ OneAtATime(swarm[n], service)
  BY <1>2 DEF SwarmOK, ServiceOK, OneAtATime
<1> QED BY <1>1, <1>3, <1>4, OneChanges

LEMMA StartTaskFacts ==
    ASSUME SwarmOK(swarm), NEW n \in Names, StartTask(n)
    PROVE  /\ SwarmOK(swarm')
           /\ \A m \in DOMAIN swarm : m \in DOMAIN swarm' /\ OneAtATime(swarm[m], swarm'[m])
<1> DEFINE ts == swarm[n].tasks
           new == [state |-> "running", resources |-> swarm[n].spec.resources]
<1>1. PICK i \in FreeSlots(n, ts) :
        swarm' = [swarm EXCEPT ![n].tasks = [j \in DOMAIN ts \cup {i} |->
                                                IF j = i THEN new ELSE ts[j]]]
  BY DEF StartTask
<1>2. n \in DOMAIN swarm /\ swarm[n] \in Services(n)
  BY DEF StartTask, SwarmOK, ServiceOK
<1>3. new \in Tasks(n) /\ ts \in TaskLists(n) /\ i \in 1..MaxTasks[n]
  BY <1>2 DEF Services, Tasks, FreeSlots
<1>4. PICK D \in SUBSET (1..MaxTasks[n]) : ts \in [D -> Tasks(n)]
  BY <1>3 DEF TaskLists
<1> DEFINE tasks == [j \in DOMAIN ts \cup {i} |-> IF j = i THEN new ELSE ts[j]]
<1>5. tasks \in [D \cup {i} -> Tasks(n)] /\ D \cup {i} \in SUBSET (1..MaxTasks[n])
  BY <1>3, <1>4
<1>6. tasks \in TaskLists(n)
  BY <1>5 DEF TaskLists
<1> HIDE DEF tasks
<1>7. swarm' = [swarm EXCEPT ![n].tasks = tasks]
  BY <1>1 DEF tasks
<1> QED BY <1>2, <1>6, <1>7, TaskChanges

LEMMA EndTaskFacts ==
    ASSUME SwarmOK(swarm), NEW n \in Names, EndTask(n)
    PROVE  /\ SwarmOK(swarm')
           /\ \A m \in DOMAIN swarm : m \in DOMAIN swarm' /\ OneAtATime(swarm[m], swarm'[m])
<1> DEFINE ts == swarm[n].tasks
<1>1. PICK i \in DOMAIN ts : swarm' = [swarm EXCEPT ![n].tasks[i].state = "ended"]
  BY DEF EndTask
<1>2. n \in DOMAIN swarm /\ ts \in TaskLists(n)
  BY DEF EndTask, SwarmOK, ServiceOK, Services
<1>3. PICK D \in SUBSET (1..MaxTasks[n]) : ts \in [D -> Tasks(n)]
  BY <1>2 DEF TaskLists
<1> DEFINE tasks == [ts EXCEPT ![i].state = "ended"]
<1>4. tasks \in [D -> Tasks(n)]
  BY <1>1, <1>3 DEF Tasks
<1>5. tasks \in TaskLists(n)
  BY <1>4 DEF TaskLists
<1>6. swarm' = [swarm EXCEPT ![n].tasks = tasks]
  BY <1>1
<1> HIDE DEF tasks
<1> QED BY <1>2, <1>5, <1>6, TaskChanges

(* The step as a whole: a service stays what it is in all but one respect, *)
(* or is removed, which a collection that listed it remembers.             *)
LEMMA SwarmFacts ==
    ASSUME SwarmOK(swarm), NEW n \in Names, Swarm(n)
    PROVE  /\ SwarmOK(swarm')
           /\ \A m \in DOMAIN swarm \cap DOMAIN swarm' : OneAtATime(swarm[m], swarm'[m])
           /\ \A m \in DOMAIN swarm \ DOMAIN swarm' : m \in DOMAIN listed => m \in removed'
           /\ removed \subseteq removed'
           /\ \A m \in removed' \ removed : m \in DOMAIN listed /\ m \notin DOMAIN swarm'
           /\ Changed
<1>1. CASE RemoveService(n)
  <2>1. /\ n \in DOMAIN swarm
        /\ swarm' = [m \in DOMAIN swarm \ {n} |-> swarm[m]]
        /\ removed' = IF n \in DOMAIN listed THEN removed \cup {n} ELSE removed
        /\ Changed
    BY <1>1 DEF RemoveService
  <2>2. /\ DOMAIN swarm' = DOMAIN swarm \ {n}
        /\ \A m \in DOMAIN swarm \ {n} : swarm'[m] = swarm[m]
    BY <2>1
  <2> QED BY <2>1, <2>2 DEF SwarmOK, OneAtATime
<1>2. CASE ~ RemoveService(n)
  <2>1. UNCHANGED removed /\ Changed
    BY <1>2 DEF Swarm, Deploy, ChangeUpdate, ChangeCount, StartTask, EndTask
  <2>2. /\ SwarmOK(swarm')
        /\ \A m \in DOMAIN swarm : m \in DOMAIN swarm' /\ OneAtATime(swarm[m], swarm'[m])
    BY <1>2, DeployFacts, ChangeUpdateFacts, ChangeCountFacts, StartTaskFacts, EndTaskFacts
       DEF Swarm
  <2> QED BY <2>1, <2>2
<1> QED BY <1>1, <1>2

-----------------------------------------------------------------------------
(* The inductive invariant                                                 *)

(* The tasks of a service at some time; none, if it was not deployed then. *)
TasksIn(sw, n) == IF n \in DOMAIN sw THEN sw[n].tasks ELSE Empty

(* What a collection may hold of service n: the service as it was at one   *)
(* time since ServiceList, its tasks as they were at another.              *)
Seen(n, actual) ==
    \E v, w \in views :
        /\ n \in DOMAIN v
        /\ actual = ActualService(Listing(v[n]), SummarizeTasks(TasksIn(w, n)))

Absent(n) == \E v \in views : n \notin DOMAIN v

ViewsOK == SwarmOK(swarm) /\ \A v \in views : SwarmOK(v)

ComposeOK == compose \in Composes

IdleIsEmpty ==
    phase # "tasks" => listed = Empty /\ removed = {} /\ collected = Empty /\ changes = 0

(* What was listed was deployed then; if it is not now, the collection     *)
(* knows that its tasks are gone.                                          *)
ListingWasTrue ==
    phase = "tasks" =>
        /\ swarm \in views
        /\ removed \subseteq DOMAIN listed
        /\ \A n \in DOMAIN listed :
              \E v \in views : n \in DOMAIN v /\ listed[n] = Listing(v[n])
        /\ \A n : n \notin DOMAIN listed => Absent(n)
        /\ \A n \in removed : Absent(n)
        /\ \A n \in DOMAIN listed \ removed : n \in DOMAIN swarm

CollectedWasSeen == phase = "tasks" => \A n \in DOMAIN collected : Seen(n, collected[n])

(* The status of a declared service comes from what was seen of it.        *)
StatusWasSeen ==
    phase = "done" =>
        \A n \in DOMAIN compose :
            \/ result[n] = "FAILED" /\ Absent(n)
            \/ \E actual : /\ Seen(n, actual)
                           /\ result[n] = EvaluateService(Desired[n], actual)

(* Services that had the tasks Swarm wanted all the time had the same      *)
(* number of them all the time: the two never change together.             *)
Settled(n) ==
    \A v \in views : n \in DOMAIN v /\ Cardinality(Running(v, n)) = v[n].desiredTasks

SettledIsSteady ==
    \A n : Settled(n) =>
        \A v, w \in views : v[n].desiredTasks = w[n].desiredTasks

IInv ==
    /\ TypeOK
    /\ ViewsOK
    /\ ComposeOK
    /\ IdleIsEmpty
    /\ ListingWasTrue
    /\ CollectedWasSeen
    /\ StatusWasSeen
    /\ SettledIsSteady

LEMMA InitInv == Init => IInv
<1> SUFFICES ASSUME Init PROVE IInv
  OBVIOUS
<1>1. DOMAIN Empty = {}
  BY DEF Empty
<1>2. TypeOK
  BY <1>1, SwarmHealthAssumption DEF Init, TypeOK
<1> QED BY <1>1, <1>2
        DEF Init, IInv, ViewsOK, SwarmOK, ComposeOK, IdleIsEmpty, ListingWasTrue,
            CollectedWasSeen, StatusWasSeen, SettledIsSteady

(* A collection starts with the swarm as it is.                            *)
LEMMA ListInv == IInv /\ ListServices => IInv'
<1> SUFFICES ASSUME IInv, ListServices PROVE IInv'
  OBVIOUS
<1>1. /\ phase = "idle" /\ phase' = "tasks"
      /\ listed' = [n \in DOMAIN swarm |-> Listing(swarm[n])]
      /\ views' = {swarm}
      /\ UNCHANGED <<compose, swarm, removed, collected, result, changes>>
      /\ removed = {} /\ DOMAIN collected = {} /\ changes = 0
  BY DEF ListServices, IInv, IdleIsEmpty, Empty
<1>2. /\ DOMAIN listed' = DOMAIN swarm
      /\ \A n \in DOMAIN swarm : listed'[n] = Listing(swarm[n])
  BY <1>1
<1>3. TypeOK'
  BY <1>1, <1>2 DEF IInv, TypeOK
<1>4. ViewsOK' /\ ComposeOK' /\ IdleIsEmpty' /\ StatusWasSeen' /\ SettledIsSteady'
  BY <1>1 DEF IInv, ViewsOK, ComposeOK, IdleIsEmpty, StatusWasSeen, SettledIsSteady
<1>5. ListingWasTrue' /\ CollectedWasSeen'
  BY <1>1, <1>2 DEF ListingWasTrue, CollectedWasSeen, Absent
<1> QED BY <1>3, <1>4, <1>5 DEF IInv

(* The tasks of one service are asked for.                                 *)
LEMMA CollectInv ==
    ASSUME IInv, NEW n \in Names, CollectService(n)
    PROVE  IInv'
<1> DEFINE actual == ActualService(listed[n], SummarizeTasks(TasksOf(n)))
<1>1. /\ phase = "tasks" /\ n \in DOMAIN listed
      /\ collected' = [m \in DOMAIN collected \cup {n} |->
                          IF m = n THEN actual ELSE collected[m]]
      /\ UNCHANGED <<compose, swarm, phase, listed, removed, result, changes, views>>
  BY DEF CollectService
<1>2. Seen(n, actual)
  <2>1. PICK v \in views : n \in DOMAIN v /\ listed[n] = Listing(v[n])
    BY <1>1 DEF IInv, ListingWasTrue
  <2>2. \E w \in views : TasksOf(n) = TasksIn(w, n)
    BY <1>1 DEF IInv, ListingWasTrue, TasksOf, TasksIn, Absent
  <2> QED BY <2>1, <2>2 DEF Seen
<1> HIDE DEF actual
<1>3. /\ DOMAIN collected' = DOMAIN collected \cup {n}
      /\ \A m \in DOMAIN collected' : collected'[m] = IF m = n THEN actual ELSE collected[m]
  BY <1>1
<1>4. TypeOK'
  BY <1>1, <1>3 DEF IInv, TypeOK
<1>5. ViewsOK' /\ ComposeOK' /\ IdleIsEmpty' /\ ListingWasTrue' /\ StatusWasSeen'
        /\ SettledIsSteady'
  BY <1>1 DEF IInv, ViewsOK, ComposeOK, IdleIsEmpty, ListingWasTrue, StatusWasSeen,
              SettledIsSteady, Settled, Absent
<1>6. CollectedWasSeen'
  BY <1>1, <1>2, <1>3 DEF IInv, CollectedWasSeen, Seen
<1> QED BY <1>4, <1>5, <1>6 DEF IInv

(* The statuses are computed.                                              *)
LEMMA EvaluateInv == IInv /\ Evaluate => IInv'
<1> SUFFICES ASSUME IInv, Evaluate PROVE IInv'
  OBVIOUS
<1>1. /\ phase = "tasks" /\ phase' = "done"
      /\ DOMAIN collected = DOMAIN listed
      /\ result' = EvaluateStack(Desired, collected, StackScoped)
      /\ Forget
      /\ UNCHANGED <<compose, swarm, views>>
  BY DEF Evaluate
<1>2. /\ DOMAIN result' = DOMAIN compose \cup (IF StackScoped THEN DOMAIN collected ELSE {})
      /\ \A n \in DOMAIN result' :
            result'[n] = IF n \notin DOMAIN collected THEN "FAILED"
                         ELSE IF n \notin DOMAIN compose THEN "DEGRADED"
                         ELSE EvaluateService(Desired[n], collected[n])
  BY <1>1 DEF EvaluateStack, Desired
<1>3. TypeOK'
  <2>1. \A n \in DOMAIN result' : result'[n] \in {"OK", "DEGRADED", "FAILED"}
    BY <1>2 DEF EvaluateService
  <2>2. \A n \in DOMAIN result' \ DOMAIN compose : result'[n] = "DEGRADED"
    BY <1>2
  <2>3. DOMAIN Empty = {} /\ 0 \in 0..MaxChanges
    BY SwarmHealthAssumption DEF Empty
  <2>4. /\ {DOMAIN swarm', DOMAIN listed', removed'} \subseteq SUBSET Names
        /\ DOMAIN collected' \subseteq DOMAIN listed'
        /\ changes' \in 0..MaxChanges
    BY <1>1, <2>3 DEF IInv, TypeOK, Forget
  <2>5. /\ DOMAIN compose \subseteq DOMAIN result'
        /\ StackScoped \/ DOMAIN result' = DOMAIN compose
    BY <1>2
  <2> QED BY <1>1, <2>1, <2>2, <2>4, <2>5 DEF TypeOK
<1>4. ViewsOK' /\ ComposeOK' /\ IdleIsEmpty' /\ ListingWasTrue' /\ CollectedWasSeen'
        /\ SettledIsSteady'
  BY <1>1 DEF IInv, ViewsOK, ComposeOK, IdleIsEmpty, ListingWasTrue, CollectedWasSeen,
              SettledIsSteady, Settled, Forget
<1>5. StatusWasSeen'
  <2> SUFFICES ASSUME NEW n \in DOMAIN compose
               PROVE  \/ result'[n] = "FAILED" /\ Absent(n)
                      \/ \E actual : /\ Seen(n, actual)
                                     /\ result'[n] = EvaluateService(Desired[n], actual)
    BY <1>1 DEF StatusWasSeen, Absent, Seen, Desired
  <2>1. CASE n \in DOMAIN collected
    BY <1>1, <1>2, <2>1 DEF IInv, CollectedWasSeen
  <2>2. CASE n \notin DOMAIN collected
    BY <1>1, <1>2, <2>2 DEF IInv, ListingWasTrue
  <2> QED BY <2>1, <2>2
<1> QED BY <1>3, <1>4, <1>5 DEF IInv

LEMMA EndInv == IInv /\ (CollectionFails \/ NextCycle) => IInv'
<1> SUFFICES ASSUME IInv, CollectionFails \/ NextCycle PROVE IInv'
  OBVIOUS
<1>1. /\ phase' = "idle" /\ views' = {}
      /\ listed' = Empty /\ removed' = {} /\ collected' = Empty /\ changes' = 0
      /\ UNCHANGED <<compose, swarm>>
  BY DEF CollectionFails, NextCycle, Forget, IInv, IdleIsEmpty
<1>2. TypeOK'
  BY <1>1, SwarmHealthAssumption DEF IInv, TypeOK, Empty
<1> QED BY <1>1, <1>2
        DEF IInv, ViewsOK, ComposeOK, IdleIsEmpty, ListingWasTrue, CollectedWasSeen,
            StatusWasSeen, SettledIsSteady

(* The swarm changes while it is looked at.                                *)
LEMMA SwarmInv ==
    ASSUME IInv, NEW m \in Names, Swarm(m)
    PROVE  IInv'
<1>1. /\ SwarmOK(swarm')
      /\ \A n \in DOMAIN swarm \cap DOMAIN swarm' : OneAtATime(swarm[n], swarm'[n])
      /\ \A n \in DOMAIN swarm \ DOMAIN swarm' : n \in DOMAIN listed => n \in removed'
      /\ removed \subseteq removed'
      /\ \A n \in removed' \ removed : n \in DOMAIN listed /\ n \notin DOMAIN swarm'
      /\ Changed
  BY SwarmFacts DEF IInv, ViewsOK
<1>2. MayChange
  BY DEF Swarm, Deploy, ChangeUpdate, ChangeCount, StartTask, EndTask, RemoveService
<1>3. CASE phase = "idle"
  <2>1. /\ phase' = "idle" /\ changes' = 0 /\ views' = {}
        /\ UNCHANGED <<compose, listed, collected, result>>
        /\ listed = Empty /\ removed = {} /\ collected = Empty
    BY <1>1, <1>3 DEF Changed, IInv, IdleIsEmpty
  <2>2. DOMAIN listed = {} /\ DOMAIN collected = {}
    BY <2>1 DEF Empty
  <2>3. removed' = {}
    BY <1>1, <2>1, <2>2
  <2>4. TypeOK'
    BY <1>1, <2>1, <2>2, <2>3, SwarmHealthAssumption DEF TypeOK, SwarmOK
  <2> QED BY <1>1, <2>1, <2>3, <2>4
          DEF IInv, ViewsOK, ComposeOK, IdleIsEmpty, ListingWasTrue, CollectedWasSeen,
              StatusWasSeen, SettledIsSteady
<1>4. CASE phase = "tasks" /\ changes < MaxChanges
  <2>1. /\ phase' = "tasks" /\ changes' = changes + 1 /\ views' = views \cup {swarm'}
        /\ UNCHANGED <<compose, listed, collected, result>>
    BY <1>1, <1>4 DEF Changed
  <2>2. TypeOK'
    <3>1. changes' \in 0..MaxChanges
      BY <1>4, <2>1, SwarmHealthAssumption DEF IInv, TypeOK
    <3>2. removed' \subseteq DOMAIN listed
      BY <1>1, <1>4 DEF IInv, ListingWasTrue
    <3> QED BY <1>1, <2>1, <3>1, <3>2 DEF IInv, TypeOK, SwarmOK
  <2>3. ViewsOK' /\ ComposeOK' /\ IdleIsEmpty' /\ StatusWasSeen'
    BY <1>1, <2>1 DEF IInv, ViewsOK, ComposeOK, IdleIsEmpty, StatusWasSeen
  <2>4. ListingWasTrue'
    BY <1>1, <1>4, <2>1 DEF IInv, ListingWasTrue, Absent
  <2>5. CollectedWasSeen'
    BY <1>4, <2>1 DEF IInv, CollectedWasSeen, Seen
  <2>6. SettledIsSteady'
    <3> SUFFICES ASSUME NEW n, Settled(n)'
                 PROVE  \A v, w \in views' : v[n].desiredTasks = w[n].desiredTasks
      BY DEF SettledIsSteady
    <3>1. swarm \in views
      BY <1>4 DEF IInv, ListingWasTrue
    <3>2. \A v \in views : v[n].desiredTasks = swarm[n].desiredTasks
      BY <2>1, <3>1 DEF Settled, IInv, SettledIsSteady
    <3>3. /\ n \in DOMAIN swarm
          /\ Cardinality(Running(swarm, n)) = swarm[n].desiredTasks
          /\ n \in DOMAIN swarm'
          /\ Cardinality(Running(swarm', n)) = swarm'[n].desiredTasks
      BY <2>1, <3>1 DEF Settled
    <3>4. swarm'[n].tasks = swarm[n].tasks => Running(swarm', n) = Running(swarm, n)
      BY DEF Running
    <3>5. swarm'[n].desiredTasks = swarm[n].desiredTasks
      BY <1>1, <3>3, <3>4 DEF OneAtATime
    <3> QED BY <2>1, <3>2, <3>5
  <2> QED BY <2>2, <2>3, <2>4, <2>5, <2>6 DEF IInv
<1> QED BY <1>2, <1>3, <1>4 DEF MayChange

LEMMA NextInv == IInv /\ [Next]_vars => IInv'
<1> SUFFICES ASSUME IInv, [Next]_vars PROVE IInv'
  OBVIOUS
<1>1. CASE UNCHANGED vars
  BY <1>1 DEF vars, IInv, TypeOK, ViewsOK, ComposeOK, IdleIsEmpty, ListingWasTrue,
              CollectedWasSeen, StatusWasSeen, SettledIsSteady, Settled, Seen, Absent,
              Desired
<1> QED BY <1>1, ListInv, CollectInv, EvaluateInv, EndInv, SwarmInv DEF Next

(* The invariant holds in every reachable state.                           *)
THEOREM SwarmHealthInductive == Spec => []IInv
  BY InitInv, NextInv, PTL DEF Spec

-----------------------------------------------------------------------------
(* What was seen of a service, in the words of the properties              *)

LEMMA RunningIsFinite ==
    ASSUME NEW n, NEW sw, SwarmOK(sw), n \in DOMAIN sw
    PROVE  IsFiniteSet(Running(sw, n))
<1>1. sw[n].tasks \in TaskLists(n) /\ n \in Names
  BY DEF SwarmOK, ServiceOK, Services
<1>2. PICK D \in SUBSET (1..MaxTasks[n]) : sw[n].tasks \in [D -> Tasks(n)]
  BY <1>1 DEF TaskLists
<1>3. IsFiniteSet(1..MaxTasks[n])
  <2>1. MaxTasks[n] \in Int
    BY <1>1, SwarmHealthAssumption
  <2> QED BY <2>1, FS_Interval
<1>4. Running(sw, n) \subseteq 1..MaxTasks[n]
  BY <1>2 DEF Running
<1> QED BY <1>3, <1>4, FS_Subset

LEMMA DeclaredIsNat ==
    ASSUME ComposeOK, NEW n \in DOMAIN compose
    PROVE  DeclaredReplicas(compose[n]) \in Nat
  BY SwarmHealthAssumption DEF ComposeOK, DeclaredReplicas

(* An actual service that was collected when its tasks were those of w and *)
(* the service that of v: its replicas, its tasks and their resources.     *)
Describes(actual, n, v, w) ==
    /\ n \in DOMAIN v
    /\ NormalizeImage(actual.image) = v[n].spec.image.ref
    /\ NormalizeImage(Desired[n].image) = compose[n].image.ref
    /\ UpdateInProgress(actual) <=> v[n].update # ""
    /\ WantedReplicas(Desired[n], actual) = Wanted(v, n)
    /\ Wanted(v, n) \in Nat
    /\ Desired[n].resources = compose[n].resources
    /\ n \in DOMAIN w => /\ actual.running = Cardinality(Running(w, n))
                         /\ actual.resources = UNION TaskResources(w, n)
    /\ n \notin DOMAIN w => actual.running = 0

LEMMA SeenFacts ==
    ASSUME IInv, NEW n \in DOMAIN compose, NEW actual, Seen(n, actual)
    PROVE  \E v, w \in views : Describes(actual, n, v, w)
<1> PICK v \in views, w \in views :
        /\ n \in DOMAIN v
        /\ actual = ActualService(Listing(v[n]), SummarizeTasks(TasksIn(w, n)))
  BY DEF Seen
<1>1. /\ v[n].update \in Updates /\ v[n].desiredTasks \in Nat
      /\ v[n].spec.mode = "replicated" => v[n].desiredTasks = v[n].spec.replicas
  <2>1. ServiceOK(n, v[n])
    BY DEF IInv, ViewsOK, SwarmOK
  <2>2. v[n] \in Services(n) /\ v[n].desiredTasks \in TasksWanted(n, v[n].spec)
    BY <2>1 DEF ServiceOK
  <2>3. v[n].update \in Updates /\ v[n].desiredTasks \in Nat
    BY <2>2 DEF Services
  <2>4. v[n].spec.mode = "replicated" => v[n].desiredTasks = v[n].spec.replicas
    BY <2>2 DEF TasksWanted
  <2> QED BY <2>3, <2>4
<1>2. DeclaredReplicas(compose[n]) \in Nat
  BY DeclaredIsNat DEF IInv
<1>3. /\ actual.image = v[n].spec.image
      /\ actual.update = v[n].update
      /\ actual.desired = ServiceReplicas(v[n].spec.mode, v[n].spec.replicas,
                                          v[n].desiredTasks)
      /\ actual.running = SummarizeTasks(TasksIn(w, n)).running
      /\ actual.resources = SummarizeTasks(TasksIn(w, n)).resources
  BY DEF ActualService, Listing
<1>4. actual.desired = v[n].desiredTasks
  BY <1>1, <1>3, SwarmHealthAssumption DEF ServiceReplicas
<1>5. /\ Desired[n].image = compose[n].image
      /\ Desired[n].mode = "global" <=> compose[n].mode = "global"
      /\ Desired[n].replicas = DeclaredReplicas(compose[n])
      /\ Desired[n].resources = compose[n].resources
  BY SwarmHealthAssumption DEF Desired, ParseService, DeclaredMode
<1>6. WantedReplicas(Desired[n], actual) = Wanted(v, n) /\ Wanted(v, n) \in Nat
  BY <1>1, <1>2, <1>4, <1>5 DEF WantedReplicas, Wanted
<1>7. UpdateInProgress(actual) <=> v[n].update # ""
  BY <1>1, <1>3 DEF UpdateInProgress, Updates
<1>8. ASSUME n \in DOMAIN w
      PROVE  /\ actual.running = Cardinality(Running(w, n))
             /\ actual.resources = UNION TaskResources(w, n)
  BY <1>3, <1>8 DEF SummarizeTasks, TasksIn, Running, TaskResources
<1>9. ASSUME n \notin DOMAIN w PROVE actual.running = 0
  <2>1. {i \in DOMAIN Empty : Empty[i].state = "running"} = {}
    BY DEF Empty
  <2> QED BY <1>3, <1>9, <2>1, FS_EmptySet DEF SummarizeTasks, TasksIn
<1> QED BY <1>3, <1>5, <1>6, <1>7, <1>8, <1>9 DEF NormalizeImage, Describes

-----------------------------------------------------------------------------
(* The theorems                                                            *)

(* The state keeps its types, and every declared service has a status      *)
(* (evaluate.go:25-67).                                                    *)
THEOREM SwarmHealthTypeCorrect == Spec => []TypeOK
  BY SwarmHealthInductive, PTL DEF IInv

(* A service that is absent or has no task although it should, all the     *)
(* time, is FAILED, whatever is being updated (evaluate.go:95-101).        *)
THEOREM DownIsAlwaysFailed == Spec => []DownIsFailed
<1>1. IInv => DownIsFailed
  <2> SUFFICES ASSUME IInv, NEW n \in DOMAIN compose, \A sw \in views : Down(sw, n),
                      phase = "done"
               PROVE  result[n] = "FAILED"
    BY DEF DownIsFailed, Verdict
  <2>1. ASSUME NEW actual, Seen(n, actual),
               result[n] = EvaluateService(Desired[n], actual)
        PROVE  result[n] = "FAILED"
    <3>1. PICK v \in views, w \in views : Describes(actual, n, v, w)
      BY <2>1, SeenFacts
    <3>2. WantedReplicas(Desired[n], actual) > 0
      BY <3>1 DEF Down, Describes
    <3>3. actual.running = 0
      BY <3>1, FS_EmptySet DEF Down, Describes
    <3> QED BY <2>1, <3>2, <3>3 DEF EvaluateService, Failed, NoneRunning
  <2> QED BY <2>1 DEF IInv, StatusWasSeen
<1> QED BY <1>1, SwarmHealthInductive, PTL

(* A service that is being updated all the time and keeps a task is not    *)
(* complained about for the number of its tasks (evaluate.go:95-110).      *)
THEOREM RollingIsAlwaysOK == Spec => []RollingIsOK
<1>1. IInv => RollingIsOK
  <2> SUFFICES ASSUME IInv, NEW n \in DOMAIN compose, \A sw \in views : Rolling(sw, n),
                      phase = "done"
               PROVE  result[n] = "OK"
    BY DEF RollingIsOK, Verdict
  <2>1. ~ Absent(n)
    BY DEF Absent, Rolling, HasImage
  <2>2. PICK actual : Seen(n, actual) /\ result[n] = EvaluateService(Desired[n], actual)
    BY <2>1 DEF IInv, StatusWasSeen
  <2>3. PICK v \in views, w \in views : Describes(actual, n, v, w)
    BY <2>2, SeenFacts
  <2>4. n \in DOMAIN w
    BY DEF Rolling, HasImage
  <2>5. actual.running # 0
    <3>1. Running(w, n) # {}
      BY DEF Rolling, TaskResources
    <3>2. IsFiniteSet(Running(w, n))
      BY <2>4, RunningIsFinite DEF IInv, ViewsOK
    <3> QED BY <2>3, <2>4, <3>1, <3>2, FS_EmptySet DEF Describes
  <2>6. actual.resources = Desired[n].resources
    <3>1. actual.resources = UNION {compose[n].resources}
      BY <2>3, <2>4 DEF Rolling, Describes
    <3> QED BY <2>3, <3>1 DEF Describes
  <2>7. /\ NormalizeImage(Desired[n].image) = NormalizeImage(actual.image)
        /\ UpdateInProgress(actual)
    BY <2>3 DEF Rolling, HasImage, Describes
  <2> QED BY <2>2, <2>5, <2>6, <2>7
          DEF EvaluateService, Failed, NoneRunning, Missing, Degraded, Extra
<1> QED BY <1>1, SwarmHealthInductive, PTL

(* OK is said of a service only if at some time during the collection      *)
(* there was nothing to complain about, provided that only its tasks came  *)
(* and went meanwhile (docker_client.go:180-196).                          *)
THEOREM OKIsAlwaysEarned == Spec => []OKIsEarned
<1>1. IInv => OKIsEarned
  <2> SUFFICES ASSUME IInv, NEW n \in DOMAIN compose, phase = "done",
                      result[n] = "OK", Unchanged(n)
               PROVE  \E sw \in views : Acceptable(sw, n)
    BY DEF OKIsEarned
  <2>1. PICK actual : Seen(n, actual) /\ EvaluateService(Desired[n], actual) = "OK"
    BY DEF IInv, StatusWasSeen
  <2>2. PICK v \in views, w \in views : Describes(actual, n, v, w)
    BY <2>1, SeenFacts
  <2>3. /\ n \in DOMAIN w
        /\ w[n].spec = v[n].spec
        /\ w[n].update = v[n].update
        /\ w[n].desiredTasks = v[n].desiredTasks
    BY DEF Unchanged, Listing
  <2>4. ~ Failed(Desired[n], actual) /\ ~ Degraded(Desired[n], actual)
    BY <2>1 DEF EvaluateService
  <2>5. HasImage(w, n)
    BY <2>2, <2>3, <2>4 DEF Degraded, HasImage, Describes
  <2>6. UNION TaskResources(w, n) = compose[n].resources
    <3>1. actual.resources = Desired[n].resources
      BY <2>4 DEF Failed, Degraded, Missing, Extra
    <3> QED BY <2>2, <2>3, <3>1 DEF Describes
  <2>7. \/ Wanted(w, n) = 0
        \/ Cardinality(Running(w, n)) = Wanted(w, n)
        \/ w[n].update # "" /\ Running(w, n) # {}
    <3>1. /\ WantedReplicas(Desired[n], actual) = Wanted(w, n)
          /\ Wanted(w, n) \in Nat
          /\ actual.running = Cardinality(Running(w, n))
          /\ UpdateInProgress(actual) <=> w[n].update # ""
      BY <2>2, <2>3 DEF Wanted, Describes
    <3>2. CASE Wanted(w, n) # 0
      <4>1. WantedReplicas(Desired[n], actual) > 0
        <5>1. WantedReplicas(Desired[n], actual) \in Nat \ {0}
          BY <3>1, <3>2, Zenon
        <5> QED BY <5>1
      <4>2. Running(w, n) # {}
        BY <2>4, <3>1, <4>1, FS_EmptySet DEF Failed, NoneRunning
      <4> QED BY <2>4, <3>1, <4>1, <4>2 DEF Degraded, ReplicasDiffer
    <3> QED BY <3>2
  <2> QED BY <2>5, <2>6, <2>7 DEF Acceptable
<1> QED BY <1>1, SwarmHealthInductive, PTL

(* No service with configs or secrets is declared, or may be wanted by     *)
(* Swarm, without a task: of those the rules of evaluate.go:111-124 ask    *)
(* for what only a task could have.                                        *)
NothingParked ==
    \A c \in Composes : \A n \in DOMAIN c :
        \/ c[n].resources = {}
        \/ IF c[n].mode = "global"
             THEN n \in Names =>
                    /\ 0 \notin TaskCounts[n]
                    /\ \A spec \in Specs[n] : spec.mode = "replicated" => spec.replicas # 0
             ELSE DeclaredReplicas(c[n]) # 0

(* Then a service that is as declared all the time is not complained       *)
(* about, whatever happens to the others (evaluate.go:85-124).             *)
THEOREM AsDeclaredIsAlwaysOK ==
    ASSUME NothingParked
    PROVE  Spec => []AsDeclaredIsOK
<1>1. IInv => AsDeclaredIsOK
  <2> SUFFICES ASSUME IInv, NEW n \in DOMAIN compose, \A sw \in views : AsDeclared(sw, n),
                      phase = "done"
               PROVE  result[n] = "OK"
    BY DEF AsDeclaredIsOK, Verdict
  <2>1. ~ Absent(n)
    BY DEF Absent, AsDeclared, HasImage
  <2>2. PICK actual : Seen(n, actual) /\ result[n] = EvaluateService(Desired[n], actual)
    BY <2>1 DEF IInv, StatusWasSeen
  <2>3. PICK v \in views, w \in views : Describes(actual, n, v, w)
    BY <2>2, SeenFacts
  <2>4. n \in DOMAIN w
    BY DEF AsDeclared, HasImage
  <2>5. Wanted(v, n) = Wanted(w, n)
    <3>1. CASE compose[n].mode = "global"
      <4>1. Settled(n)
        BY <3>1 DEF Settled, AsDeclared, HasImage, Wanted
      <4> QED BY <3>1, <4>1 DEF IInv, SettledIsSteady, Wanted
    <3>2. CASE compose[n].mode # "global"
      BY <3>2 DEF Wanted
    <3> QED BY <3>1, <3>2
  <2>6. /\ actual.running = WantedReplicas(Desired[n], actual)
        /\ Wanted(w, n) = Cardinality(Running(w, n))
        /\ NormalizeImage(Desired[n].image) = NormalizeImage(actual.image)
    BY <2>3, <2>4, <2>5 DEF AsDeclared, HasImage, Describes
  <2>7. actual.resources = Desired[n].resources
    <3>1. TaskResources(w, n) \subseteq {compose[n].resources}
      BY DEF AsDeclared
    <3>2. CASE compose[n].resources = {}
      <4>1. UNION TaskResources(w, n) = {}
        BY <3>1, <3>2
      <4> QED BY <2>3, <2>4, <3>2, <4>1 DEF Describes
    <3>3. CASE compose[n].resources # {}
      <4>1. Wanted(w, n) # 0
        <5>1. /\ compose \in Composes
              /\ n \in Names
              /\ w[n].spec \in Specs[n]
              /\ w[n].desiredTasks \in TaskCounts[n] \/ w[n].spec.mode = "replicated"
              /\ w[n].spec.mode = "replicated" => w[n].desiredTasks = w[n].spec.replicas
          <6>1. ServiceOK(n, w[n]) /\ n \in Names /\ compose \in Composes
            BY <2>4 DEF IInv, ComposeOK, ViewsOK, SwarmOK
          <6>2. w[n] \in Services(n) /\ w[n].desiredTasks \in TasksWanted(n, w[n].spec)
            BY <6>1 DEF ServiceOK
          <6>3. w[n].spec \in Specs[n]
            BY <6>2 DEF Services
          <6>4. \/ w[n].desiredTasks \in TaskCounts[n]
                \/ w[n].spec.mode = "replicated"
            BY <6>2 DEF TasksWanted
          <6>5. w[n].spec.mode = "replicated" => w[n].desiredTasks = w[n].spec.replicas
            BY <6>2 DEF TasksWanted
          <6> QED BY <6>1, <6>3, <6>4, <6>5
        <5> QED BY <3>3, <5>1 DEF NothingParked, Wanted
      <4>2. Running(w, n) # {}
        BY <2>6, <4>1, FS_EmptySet
      <4>3. TaskResources(w, n) = {compose[n].resources}
        BY <3>1, <4>2 DEF TaskResources
      <4>4. UNION TaskResources(w, n) = compose[n].resources
        BY <4>3
      <4> QED BY <2>3, <2>4, <4>4 DEF Describes
    <3> QED BY <3>2, <3>3
  <2>8. WantedReplicas(Desired[n], actual) \in Nat
    BY <2>3 DEF Describes
  <2> QED BY <2>2, <2>6, <2>7, <2>8
          DEF EvaluateService, Failed, NoneRunning, Missing, Degraded, ReplicasDiffer, Extra
<1> QED BY <1>1, SwarmHealthInductive, PTL

=============================================================================
