\* Two stacks over one file, every failure, shutdown, crash and loss of the file;
\* the source of one of them changes, also to a body that does not parse.
SPECIFICATION FairSpec
CONSTANTS
    web = web
    s1 = s1
    v1 = v1
    bad = bad
    Services = {web}
    AlertStabilizationCycles = 1
    CycleCap = 1
    Stacks = {s1, s2}
    Served <- MCServed
    NoCompose = none
    ServicesIn <- MCServicesIn
    ETagChoices <- MCETagChoices
    StackScoped = TRUE
INVARIANTS
    TypeOK
    PendingIsPersisted
PROPERTIES
    StacksIsolated
    CyclesAreAtomic
    WaitersProceed
    ShutdownCompletes
