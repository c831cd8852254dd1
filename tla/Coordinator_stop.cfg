\* Every mapping of up to three stacks, startable or not, and two concurrent Stops.
SPECIFICATION Spec
CONSTANTS
    Stacks = {s1, s2, s3}
    Stoppers = {p1, p2}
INVARIANT
    StopWaitsForRunners
PROPERTIES
    StopCompletes
\* Run and every Stop return; then nothing is left to do.
CHECK_DEADLOCK FALSE
