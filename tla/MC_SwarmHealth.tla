---------------------------- MODULE MC_SwarmHealth ----------------------------
(* Small instances of SwarmHealth: compose files and deployed specifications. *)
EXTENDS SwarmHealth

CONSTANTS web, db, v1, v2, plain, digest, cfg

(* Images as compose files name them and as Swarm resolves them.           *)
Named(ref) == [ref |-> ref, digest |-> plain]
Resolved(ref) == [ref |-> ref, digest |-> digest]

Declaration(mode, replicas, resources) ==
    [image |-> Named(v1), mode |-> mode, replicas |-> replicas,
     scale |-> Unset, resources |-> resources]

(* web replicated twice, global or by default; db, a job, may be undeclared. *)
WebAndDb ==
    LET web1 == Declaration("replicated", 2, {cfg})
        web2 == Declaration("global", Unset, {cfg})
        web3 == Declaration(Unset, Unset, {cfg})
        db1  == Declaration("replicated-job", 1, {})
    IN  {[n \in {web} |-> w] : w \in {web1, web2}} \cup
        {[n \in {web, db} |-> IF n = web THEN web3 ELSE db1]}

OneOrTwo == [n \in Names |-> IF n = web THEN {1, 2} ELSE {1}]

TwoAndOne == [n \in Names |-> IF n = web THEN 2 ELSE 1]

Parked == {[n \in {web} |-> Declaration("replicated", 0, {cfg})]}

Spec1(ref, mode, replicas, resources) ==
    [image |-> Resolved(ref), mode |-> mode, replicas |-> replicas,
     resources |-> resources]

(* web as some compose file declares it, and with one difference each.     *)
WebAndDbSpecs ==
    [n \in Names |->
        IF n = web THEN {Spec1(v1, "replicated", 2, {cfg}),
                         Spec1(v2, "replicated", 2, {cfg}),
                         Spec1(v1, "global", Unset, {cfg})}
                   ELSE {Spec1(v1, "replicated-job", Unset, {})}]

ParkedSpecs == [n \in Names |-> {Spec1(v1, "replicated", 0, {cfg}),
                                 Spec1(v1, "replicated", 1, {cfg})}]
=============================================================================
