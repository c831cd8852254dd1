--------------------------- MODULE MC_ComposeFetch ---------------------------
(* A small instance of ComposeFetch: what each body of the source declares. *)
EXTENDS ComposeFetch

CONSTANTS web, db, v1, v2, bad

MCETagChoices == [s \in Stacks |-> {TRUE}]

MCServed == [s \in Stacks |-> {v1, v2, bad}]

(* v1 and v2 differ in one service; bad does not parse.                    *)
MCServicesIn ==
    [c \in {v1, v2, bad} |-> IF c = v1 THEN {web}
                        ELSE IF c = v2 THEN {db}
                        ELSE {}]
=============================================================================
