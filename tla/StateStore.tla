------------------------------ MODULE StateStore ------------------------------
(***************************************************************************)
(* What the runners rely on in state.Store: a register whose Save replaces *)
(* the whole value or, when it reports an error, nothing, and whose value  *)
(* is never a mixture, whenever the process or the machine dies. A value   *)
(* is safe from a power loss once its Save has returned, if ackIsDurable.  *)
(***************************************************************************)
CONSTANTS
    Data,           \* the states the runners save
    Empty,          \* the state Load returns when there is nothing usable
    NoCall          \* no Save is in progress

VARIABLES
    stored,         \* what Load returns
    survivors,      \* what it may return after a power loss
    call,           \* the Save in progress, or NoCall
    ackIsDurable    \* a Save that returned no error survives a power loss

svars == <<stored, survivors, call, ackIsDurable>>

Init ==
    /\ stored \in Data \cup {Empty}
    /\ survivors = {stored}
    /\ call = NoCall
    /\ ackIsDurable \in BOOLEAN

Begin(d) ==
    /\ call = NoCall
    /\ call' = [data |-> d, taken |-> FALSE]
    /\ UNCHANGED <<stored, survivors, ackIsDurable>>

Take ==
    /\ call # NoCall /\ ~call.taken
    /\ stored' = call.data
    /\ survivors' = survivors \cup {call.data}
    /\ call' = [data |-> call.data, taken |-> TRUE]
    /\ UNCHANGED ackIsDurable

ReturnOk ==
    /\ call # NoCall /\ call.taken
    /\ call' = NoCall
    /\ \/ survivors' = {stored}
       \/ ~ackIsDurable /\ UNCHANGED survivors
    /\ UNCHANGED <<stored, ackIsDurable>>

ReturnError ==
    /\ call # NoCall /\ ~call.taken
    /\ call' = NoCall
    /\ UNCHANGED <<stored, survivors, ackIsDurable>>

Kill ==
    /\ call # NoCall
    /\ call' = NoCall
    /\ UNCHANGED <<stored, survivors, ackIsDurable>>

PowerLoss ==
    /\ stored' \in survivors
    /\ survivors' = {stored'}
    /\ call' = NoCall
    /\ UNCHANGED ackIsDurable

(* Outside the program: the file is removed, damaged or put back.          *)
Replace ==
    /\ call = NoCall
    /\ stored' \in Data \cup {Empty}
    /\ survivors' = {stored'}
    /\ UNCHANGED <<call, ackIsDurable>>

Next == (\E d \in Data : Begin(d)) \/ Take \/ ReturnOk \/ ReturnError \/ Kill
            \/ PowerLoss \/ Replace

Spec == Init /\ [][Next]_svars

=============================================================================
