--------------------------- MODULE HealthEvaluation ---------------------------
(***************************************************************************)
(* The pure part of a cycle before stabilization: what a compose service   *)
(* declares (compose.ParseDesiredState), what a Docker service and its     *)
(* tasks amount to (swarm.serviceModeAndReplicas, summarizeTasks), and the *)
(* status that follows (health.EvaluateStackHealth).                       *)
(*                                                                         *)
(* An image is [ref, digest]; configs and secrets are handled alike and    *)
(* are one set of tagged names, resources. Reasons and drift details are   *)
(* left out. Job modes are treated by the code as any mode that is neither *)
(* replicated nor global.                                                  *)
(***************************************************************************)
EXTENDS Integers, FiniteSets

CONSTANT Unset      \* a field the compose file or the Docker API left out

-----------------------------------------------------------------------------
(* compose.ParseDesiredState, for one service                              *)

DeclaredMode(d) == IF d.mode = Unset THEN "replicated" ELSE d.mode

(* The replicas of a global service are only known to Swarm: 0 here.       *)
DeclaredReplicas(d) ==
    IF d.mode = "global" THEN 0
    ELSE IF d.replicas # Unset THEN d.replicas
    ELSE IF d.scale # Unset THEN d.scale
    ELSE 1

ParseService(d) ==
    [image |-> d.image, mode |-> DeclaredMode(d),
     replicas |-> DeclaredReplicas(d), resources |-> d.resources]

-----------------------------------------------------------------------------
(* swarm.DockerClient: what is kept of a service and of its tasks          *)

(* Mutated form: Swarm's resolved digest takes part in the comparison.     *)
KeepDigest(image) == image

NormalizeImage(image) == image.ref

(* A replicated service says how many it wants; for the others, and for a  *)
(* replicated one that does not, Swarm counts (0 if it did not report).    *)
ServiceReplicas(mode, replicas, desiredTasks) ==
    IF mode = "replicated" /\ replicas # Unset THEN replicas
    ELSE IF desiredTasks # Unset THEN desiredTasks
    ELSE 0

(* Mutated form: tasks that have ended count as running.                   *)
SummarizeAllTasks(tasks) ==
    [running   |-> Cardinality(DOMAIN tasks),
     resources |-> UNION {tasks[i].resources : i \in DOMAIN tasks}]

(* Only running tasks count; their configs and secrets are put together.   *)
SummarizeTasks(tasks) ==
    LET running == {i \in DOMAIN tasks : tasks[i].state = "running"}
    IN  [running   |-> Cardinality(running),
         resources |-> UNION {tasks[i].resources : i \in running}]

-----------------------------------------------------------------------------
(* health.EvaluateStackHealth                                              *)

(* Mutated form: a rollback is not an update.                              *)
UpdatingOnly(actual) == actual.update = "updating"

UpdateInProgress(actual) == actual.update \in {"updating", "rollback_started"}

(* A global service is compared with what Swarm wants.                     *)
WantedReplicas(want, actual) ==
    IF want.mode = "global" THEN actual.desired ELSE want.replicas

NoneRunning(want, actual) ==
    WantedReplicas(want, actual) > 0 /\ actual.running = 0

ReplicasDiffer(want, actual) ==
    /\ WantedReplicas(want, actual) > 0
    /\ actual.running # WantedReplicas(want, actual)

Missing(want, actual) == want.resources \ actual.resources

Extra(want, actual) == actual.resources \ want.resources

Failed(want, actual) ==
    NoneRunning(want, actual) \/ Missing(want, actual) # {}

(* Mutated form: more replicas than declared are not noticed.              *)
DegradedIfFewer(want, actual) ==
    \/ NormalizeImage(want.image) # NormalizeImage(actual.image)
    \/ /\ actual.running < WantedReplicas(want, actual)
       /\ ~UpdateInProgress(actual)
    \/ Extra(want, actual) # {}

Degraded(want, actual) ==
    \/ NormalizeImage(want.image) # NormalizeImage(actual.image)
    \/ ReplicasDiffer(want, actual) /\ ~UpdateInProgress(actual)
    \/ Extra(want, actual) # {}

(* The worst of the image, replica, config and secret rules.               *)
EvaluateService(want, actual) ==
    IF Failed(want, actual) THEN "FAILED"
    ELSE IF Degraded(want, actual) THEN "DEGRADED"
    ELSE "OK"

(* Mutated form: only services that are deployed are evaluated.            *)
EvaluateDeployed(desired, actual, stackScoped) ==
    [n \in (DOMAIN desired \cap DOMAIN actual)
               \cup (IF stackScoped THEN DOMAIN actual ELSE {}) |->
        IF n \notin DOMAIN desired THEN "DEGRADED"
        ELSE EvaluateService(desired[n], actual[n])]

(* Desired services that are missing fail; services of the stack that are  *)
(* not desired are degraded, or ignored when no stack was named.           *)
EvaluateStack(desired, actual, stackScoped) ==
    [n \in DOMAIN desired \cup (IF stackScoped THEN DOMAIN actual ELSE {}) |->
        IF n \notin DOMAIN actual THEN "FAILED"
        ELSE IF n \notin DOMAIN desired THEN "DEGRADED"
        ELSE EvaluateService(desired[n], actual[n])]

=============================================================================
