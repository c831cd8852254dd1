------------------------------ MODULE SwarmHealth ------------------------------
(***************************************************************************)
(* One runner looks at a swarm that changes while it looks: GetActualState *)
(* lists the services in one API call and the tasks of each service in a   *)
(* call of its own, then the statuses are computed from what the calls     *)
(* returned. Operators deploy, update, roll back and remove services and   *)
(* tasks start and end between the calls.                                  *)
(*                                                                         *)
(* The swarm holds the services that the stack filter of GetActualState    *)
(* selects, by their normalized names; a service owns its tasks.           *)
(***************************************************************************)
EXTENDS HealthEvaluation

CONSTANTS
    Names,          \* of services
    Composes,       \* compose files: functions from names to declarations
    Specs,          \* what each service may be deployed as
    TaskCounts,     \* of each: what Swarm may want of it when it is global or
                    \* a job
    MaxTasks,       \* model bound: tasks Swarm keeps of each service
    MaxChanges,     \* model bound: steps of the swarm during one collection
    StackScoped     \* a stack name is configured

ASSUME SwarmHealthAssumption ==
    /\ MaxTasks \in [Names -> Nat \ {0}]
    /\ MaxChanges \in Nat
    /\ TaskCounts \in [Names -> SUBSET Nat]
    /\ StackScoped \in BOOLEAN
    /\ Unset \notin Nat \cup {"replicated", "global"}
    /\ \A c \in Composes : \A n \in DOMAIN c :
          {c[n].replicas, c[n].scale} \subseteq Nat \cup {Unset}
    /\ \A n \in Names : \A spec \in Specs[n] :
          spec.mode = "replicated" => spec.replicas \in Nat

VARIABLES
    compose,    \* the compose file of the stack
    swarm,      \* the deployed services and their tasks
    phase,      \* "idle", "tasks" during a collection, "done" after it
    listed,     \* the services that ServiceList returned
    removed,    \* those of them that were removed since
    collected,  \* ActualState.Services so far
    result,     \* the statuses, when the phase is "done"
    changes,    \* steps of the swarm since ServiceList
    views       \* history: the states of the swarm since ServiceList

vars == <<compose, swarm, phase, listed, removed, collected, result, changes,
          views>>

Empty == [n \in {} |-> Unset]

Updates == {"", "updating", "rollback_started"}

Desired == [n \in DOMAIN compose |-> ParseService(compose[n])]

Init ==
    /\ compose \in Composes
    /\ swarm = Empty
    /\ phase = "idle"
    /\ listed = Empty
    /\ removed = {}
    /\ collected = Empty
    /\ result = Empty
    /\ changes = 0
    /\ views = {}

-----------------------------------------------------------------------------
(* DockerClient.GetActualState and the evaluation that follows             *)

(* A service as ServiceList returns it: without its tasks.                 *)
Listing(service) == [spec |-> service.spec, update |-> service.update,
                     desiredTasks |-> service.desiredTasks]

ListServices ==
    /\ phase = "idle"
    /\ phase' = "tasks"
    /\ listed' = [n \in DOMAIN swarm |-> Listing(swarm[n])]
    /\ views' = {swarm}
    /\ UNCHANGED <<compose, swarm, removed, collected, result, changes>>

(* The tasks are asked for by service ID: those of a service that was      *)
(* removed are gone, though one of that name may have been deployed again. *)
TasksOf(n) == IF n \in removed THEN Empty ELSE swarm[n].tasks

ActualService(service, summary) ==
    [image |-> service.spec.image, update |-> service.update,
     desired |-> ServiceReplicas(service.spec.mode, service.spec.replicas,
                                 service.desiredTasks),
     running |-> summary.running, resources |-> summary.resources]

CollectService(n) ==
    /\ phase = "tasks"
    /\ n \in DOMAIN listed \ DOMAIN collected
    /\ collected' = [m \in DOMAIN collected \cup {n} |->
                        IF m = n
                          THEN ActualService(listed[n], SummarizeTasks(TasksOf(n)))
                          ELSE collected[m]]
    /\ UNCHANGED <<compose, swarm, phase, listed, removed, result, changes, views>>

Forget ==
    /\ listed' = Empty
    /\ removed' = {}
    /\ collected' = Empty
    /\ changes' = 0

(* A call fails for good: the whole collection is dropped.                 *)
CollectionFails ==
    /\ phase = "tasks"
    /\ phase' = "idle"
    /\ views' = {}
    /\ Forget
    /\ UNCHANGED <<compose, swarm, result>>

Evaluate ==
    /\ phase = "tasks"
    /\ DOMAIN collected = DOMAIN listed
    /\ phase' = "done"
    /\ result' = EvaluateStack(Desired, collected, StackScoped)
    /\ Forget
    /\ UNCHANGED <<compose, swarm, views>>

NextCycle ==
    /\ phase = "done"
    /\ phase' = "idle"
    /\ result' = Empty
    /\ views' = {}
    /\ UNCHANGED <<compose, swarm, listed, removed, collected, changes>>

-----------------------------------------------------------------------------
(* The swarm                                                               *)

MayChange == phase = "idle" \/ (phase = "tasks" /\ changes < MaxChanges)

Changed ==
    /\ changes' = IF phase = "idle" THEN 0 ELSE changes + 1
    /\ views' = IF phase = "idle" THEN {} ELSE views \cup {swarm'}
    /\ UNCHANGED <<compose, phase, listed, collected, result>>

(* Of a global service or a job Swarm counts the tasks it wants, by the    *)
(* nodes or by what is left to complete.                                   *)
TasksWanted(n, spec) == IF spec.mode = "replicated" THEN {spec.replicas}
                                                    ELSE TaskCounts[n]

Becomes(n, service) ==
    swarm' = [m \in DOMAIN swarm \cup {n} |-> IF m = n THEN service ELSE swarm[m]]

(* A new service, or a new specification; running tasks stay as they are.  *)
Deploy(n) ==
    /\ MayChange
    /\ \E spec \in Specs[n] : \E wanted \in TasksWanted(n, spec) :
         /\ n \in DOMAIN swarm => spec # swarm[n].spec
         /\ Becomes(n, [spec |-> spec, desiredTasks |-> wanted,
                        update |-> IF n \in DOMAIN swarm THEN swarm[n].update ELSE "",
                        tasks |-> IF n \in DOMAIN swarm THEN swarm[n].tasks ELSE Empty])
    /\ UNCHANGED removed
    /\ Changed

(* An update or a rollback starts, or ends.                                *)
ChangeUpdate(n) ==
    /\ MayChange
    /\ n \in DOMAIN swarm
    /\ \E update \in Updates \ {swarm[n].update} :
         swarm' = [swarm EXCEPT ![n].update = update]
    /\ UNCHANGED removed
    /\ Changed

(* Nodes join or leave, or a job makes progress.                           *)
ChangeCount(n) ==
    /\ MayChange
    /\ n \in DOMAIN swarm
    /\ \E wanted \in TasksWanted(n, swarm[n].spec) \ {swarm[n].desiredTasks} :
         swarm' = [swarm EXCEPT ![n].desiredTasks = wanted]
    /\ UNCHANGED removed
    /\ Changed

(* The first slot without a task, and those whose task has ended.          *)
FreeSlots(n, ts) ==
    {i \in 1..MaxTasks[n] :
        IF i \in DOMAIN ts THEN ts[i].state = "ended"
                           ELSE i - 1 \in DOMAIN ts \cup {0}}

StartTask(n) ==
    /\ MayChange
    /\ n \in DOMAIN swarm
    /\ LET ts == swarm[n].tasks
           new == [state |-> "running", resources |-> swarm[n].spec.resources]
       IN  \E i \in FreeSlots(n, ts) :
             swarm' = [swarm EXCEPT ![n].tasks =
                         [j \in DOMAIN ts \cup {i} |->
                             IF j = i THEN new ELSE ts[j]]]
    /\ UNCHANGED removed
    /\ Changed

(* A task fails, completes or is shut down; Swarm still lists it.          *)
EndTask(n) ==
    /\ MayChange
    /\ n \in DOMAIN swarm
    /\ \E i \in DOMAIN swarm[n].tasks :
         /\ swarm[n].tasks[i].state = "running"
         /\ swarm' = [swarm EXCEPT ![n].tasks[i].state = "ended"]
    /\ UNCHANGED removed
    /\ Changed

RemoveService(n) ==
    /\ MayChange
    /\ n \in DOMAIN swarm
    /\ swarm' = [m \in DOMAIN swarm \ {n} |-> swarm[m]]
    /\ removed' = IF n \in DOMAIN listed THEN removed \cup {n} ELSE removed
    /\ Changed

Swarm(n) == \/ Deploy(n) \/ ChangeUpdate(n) \/ ChangeCount(n)
            \/ StartTask(n) \/ EndTask(n) \/ RemoveService(n)

Next ==
    \/ ListServices
    \/ \E n \in Names : CollectService(n) \/ Swarm(n)
    \/ CollectionFails
    \/ Evaluate
    \/ NextCycle

Spec == Init /\ [][Next]_vars

-----------------------------------------------------------------------------
(* What is true of a declared service n when the swarm is sw               *)

HasImage(sw, n) ==
    n \in DOMAIN sw /\ sw[n].spec.image.ref = compose[n].image.ref

Running(sw, n) == {i \in DOMAIN sw[n].tasks : sw[n].tasks[i].state = "running"}

Wanted(sw, n) == IF compose[n].mode = "global"
                   THEN sw[n].desiredTasks
                   ELSE DeclaredReplicas(compose[n])

TaskResources(sw, n) == {sw[n].tasks[i].resources : i \in Running(sw, n)}

(* Deployed with the declared image and number of tasks, and all of them   *)
(* have the declared configs and secrets.                                  *)
AsDeclared(sw, n) ==
    /\ HasImage(sw, n)
    /\ Cardinality(Running(sw, n)) = Wanted(sw, n)
    /\ TaskResources(sw, n) \subseteq {compose[n].resources}

(* Being updated or rolled back, with some of its tasks left.              *)
Rolling(sw, n) ==
    /\ HasImage(sw, n)
    /\ sw[n].update # ""
    /\ TaskResources(sw, n) = {compose[n].resources}

Down(sw, n) == n \in DOMAIN sw => Wanted(sw, n) > 0 /\ Running(sw, n) = {}

(* Nothing to complain about. No number of tasks is held against a service *)
(* that should have none (evaluate.go:95), and during an update tasks with *)
(* and without a config are taken together (docker_client.go:435-439).     *)
Acceptable(sw, n) ==
    /\ HasImage(sw, n)
    /\ UNION TaskResources(sw, n) = compose[n].resources
    /\ \/ Wanted(sw, n) = 0
       \/ Cardinality(Running(sw, n)) = Wanted(sw, n)
       \/ sw[n].update # "" /\ Running(sw, n) # {}

Unchanged(n) ==
    /\ \A sw \in views : n \in DOMAIN sw
    /\ \A v, w \in views : Listing(v[n]) = Listing(w[n])

Verdict(n, status) ==
    phase = "done" /\ n \in DOMAIN compose => result[n] = status

-----------------------------------------------------------------------------
(* Types of the state, and what Sentinel assumes of an evaluation: every   *)
(* declared service has a status; others have one only if the stack is     *)
(* named, and then they are degraded (evaluate.go:25-67).                  *)
TypeOK ==
    /\ phase \in {"idle", "tasks", "done"}
    /\ {DOMAIN swarm, DOMAIN listed, removed} \subseteq SUBSET Names
    /\ DOMAIN collected \subseteq DOMAIN listed
    /\ changes \in 0..MaxChanges
    /\ phase = "done" =>
         /\ DOMAIN compose \subseteq DOMAIN result
         /\ StackScoped \/ DOMAIN result = DOMAIN compose
         /\ \A n \in DOMAIN result \ DOMAIN compose : result[n] = "DEGRADED"
         /\ \A n \in DOMAIN result : result[n] \in {"OK", "DEGRADED", "FAILED"}

(* A service that is as declared all the time is not complained about,     *)
(* whatever happens to the others and to the digest that Swarm appends to  *)
(* an image (ARCHITECTURE.md:137). Not so with no replicas but configs or  *)
(* secrets.                                                                *)
AsDeclaredIsOK ==
    \A n \in DOMAIN compose :
        (\A sw \in views : AsDeclared(sw, n)) => Verdict(n, "OK")

(* A service that is being updated all the time and keeps a task is not    *)
(* complained about for the number of its tasks (TASKS.md:218). It may be  *)
(* for an update that starts between ServiceList and TaskList.             *)
RollingIsOK ==
    \A n \in DOMAIN compose :
        (\A sw \in views : Rolling(sw, n)) => Verdict(n, "OK")

(* A service that is absent or has no task although it should, all the     *)
(* time, is FAILED, even during an update (ARCHITECTURE.md:139,            *)
(* TASKS.md:219). So is a job that has completed all its tasks.            *)
DownIsFailed ==
    \A n \in DOMAIN compose :
        (\A sw \in views : Down(sw, n)) => Verdict(n, "FAILED")

(* OK is said of a service only if at some time during the collection      *)
(* there was nothing to complain about, provided that only its tasks came  *)
(* and went meanwhile (docker_client.go:180-196 reads services first).     *)
OKIsEarned ==
    \A n \in DOMAIN compose :
        phase = "done" /\ result[n] = "OK" /\ Unchanged(n)
            => \E sw \in views : Acceptable(sw, n)

=============================================================================
