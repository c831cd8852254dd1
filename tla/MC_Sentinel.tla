----------------------------- MODULE MC_Sentinel -----------------------------
(* Small instances of Sentinel: what each body of a compose source declares. *)
EXTENDS Sentinel

CONSTANTS web, s1, v1, bad

(* v1 declares a service; bad does not parse. The source of s1 changes and   *)
(* sends ETags, the others do neither.                                       *)
MCServed == [s \in Stacks |-> IF s = s1 THEN {v1, bad} ELSE {v1}]

MCETagChoices == [s \in Stacks |-> IF s = s1 THEN {TRUE} ELSE {FALSE}]

MCServicesIn == [c \in {v1, bad} |-> IF c = v1 THEN {web} ELSE {}]
=============================================================================
