---------------------------- MODULE HealthTracker ----------------------------
(***************************************************************************)
(* healthcheck.Tracker, shared by all runners, and its HTTP handlers.      *)
(* RecordCycle reads the clock before it takes the tracker's lock, and a   *)
(* handler decides and reads the snapshot under two separate locks, so     *)
(* each is two steps. Time is a counter, advanced up to a bound.           *)
(***************************************************************************)
EXTENDS Integers

CONSTANTS
    Runners,
    Probes,         \* concurrent requests to /healthz or /readyz
    PollInterval,   \* at least 1: config rejects other intervals
    MaxTime         \* model bound on the clock

VARIABLES
    clock,
    lastCycle,      \* Tracker.lastCycle; Never is the zero time
    ready,          \* Tracker.ready
    stamp,          \* the clock a runner has read in RecordCycle, or Never
    probe           \* per request: what it is doing and has decided

vars == <<clock, lastCycle, ready, stamp, probe>>

Never == 0

NoProbe == [at |-> "idle", kind |-> "none", ok |-> FALSE, asked |-> 0,
            shown |-> Never]

Init ==
    /\ clock = 1
    /\ lastCycle = Never
    /\ ready = FALSE
    /\ stamp = [r \in Runners |-> Never]
    /\ probe = [q \in Probes |-> NoProbe]

-----------------------------------------------------------------------------
(* Runner.RunOnce calls RecordCycle when a cycle ended without an error.   *)

ReadClock(r) ==
    /\ stamp[r] = Never
    /\ stamp' = [stamp EXCEPT ![r] = clock]
    /\ UNCHANGED <<clock, lastCycle, ready, probe>>

RecordCycle(r) ==
    /\ stamp[r] # Never
    /\ lastCycle' = stamp[r]
    /\ ready' = TRUE
    /\ stamp' = [stamp EXCEPT ![r] = Never]
    /\ UNCHANGED <<clock, probe>>

(* Mutated form: a tracker that was never told of a cycle is healthy.      *)
HealthyFromStart(now) == now - lastCycle <= 2 * PollInterval

Healthy(now) ==
    /\ lastCycle # Never
    /\ now - lastCycle <= 2 * PollInterval

-----------------------------------------------------------------------------
(* HealthHandler and ReadyHandler: the decision, then the snapshot.        *)

DecideHealth(q) ==
    /\ probe[q].at = "idle"
    /\ probe' = [probe EXCEPT ![q] =
                    [at |-> "decided", kind |-> "health", ok |-> Healthy(clock),
                     asked |-> clock, shown |-> Never]]
    /\ UNCHANGED <<clock, lastCycle, ready, stamp>>

DecideReady(q) ==
    /\ probe[q].at = "idle"
    /\ probe' = [probe EXCEPT ![q] =
                    [at |-> "decided", kind |-> "ready", ok |-> ready,
                     asked |-> clock, shown |-> Never]]
    /\ UNCHANGED <<clock, lastCycle, ready, stamp>>

Respond(q) ==
    /\ probe[q].at = "decided"
    /\ probe' = [probe EXCEPT ![q].at = "answered", ![q].shown = lastCycle]
    /\ UNCHANGED <<clock, lastCycle, ready, stamp>>

Forget(q) ==
    /\ probe[q].at = "answered"
    /\ probe' = [probe EXCEPT ![q] = NoProbe]
    /\ UNCHANGED <<clock, lastCycle, ready, stamp>>

Advance ==
    /\ clock < MaxTime
    /\ clock' = clock + 1
    /\ UNCHANGED <<lastCycle, ready, stamp, probe>>

Next ==
    \/ \E r \in Runners : ReadClock(r) \/ RecordCycle(r)
    \/ \E q \in Probes :
          DecideHealth(q) \/ DecideReady(q) \/ Respond(q) \/ Forget(q)
    \/ Advance

Spec == Init /\ [][Next]_vars

-----------------------------------------------------------------------------
(* Types of the state; the tracker is ready exactly if it has a cycle.     *)
TypeOK ==
    /\ clock \in 1..MaxTime
    /\ lastCycle \in Never..clock
    /\ ready = (lastCycle # Never)
    /\ stamp \in [Runners -> Never..clock]
    /\ probe \in [Probes -> [at    : {"idle", "decided", "answered"},
                             kind  : {"none", "health", "ready"},
                             ok    : BOOLEAN,
                             asked : 0..clock,
                             shown : Never..clock]]

Answered(q, kind) == probe[q].at = "answered" /\ probe[q].kind = kind

(* The body of a 200 from /healthz shows a cycle that justifies the 200,   *)
(* though it was read later than the decision (handlers.go:14-16). Holds   *)
(* for one runner: of two, the one that read the clock first may record    *)
(* last, and the tracker goes back in time (tracker.go:34).                *)
HealthyAnswerIsJustified ==
    \A q \in Probes : Answered(q, "health") /\ probe[q].ok =>
        /\ probe[q].shown # Never
        /\ probe[q].asked - probe[q].shown <= 2 * PollInterval

(* A 200 from /readyz shows a cycle: readiness and the time of the cycle   *)
(* are read under two locks but never contradict (handlers.go:29-31).      *)
ReadyAnswerIsJustified ==
    \A q \in Probes :
        Answered(q, "ready") /\ probe[q].ok => probe[q].shown # Never

=============================================================================
