\* A body that does not parse after one that does.
SPECIFICATION Spec
CONSTANTS
    web = web
    s1 = s1
    v1 = v1
    bad = bad
    Services = {web}
    AlertStabilizationCycles = 1
    CycleCap = 1
    Stacks = {s1}
    Served <- MCServed
    NoCompose = none
    ServicesIn <- MCServicesIn
    ETagChoices <- MCETagChoices
    StackScoped = FALSE
PROPERTIES
    FingerprintDescribesDesired
