\* From every environment to the exit, with one edit of the mapping files on the
\* way, two stacks, one health request at a time, and time to go stale.
SPECIFICATION Spec
CONSTANTS
    s1 = s1
    s2 = s2
    Stacks = {s1, s2}
    Solo = solo
    Starts <- MCStarts
    Contents <- MCContents
    MaxAttempts = 4
    Probes = {q1}
    PollInterval = 1
    MaxTime = 4
INVARIANTS
    TypeOK
    NothingLeftBehind
    NormalExitIsShutdown
    RunsAsConfigured
    AnswersAreJustified
PROPERTIES
    EndsWhenTold
\* The process ends.
CHECK_DEADLOCK FALSE
