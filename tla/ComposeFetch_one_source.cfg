\* One source, asked request by request, that changes between requests, also to
\* bodies that do not parse, always with an ETag: services appear, disappear and
\* are extra.
SPECIFICATION FetchSpec
CONSTANTS
    web = web
    db = db
    v1 = v1
    v2 = v2
    bad = bad
    Services = {web, db}
    AlertStabilizationCycles = 1
    CycleCap = 1
    Stacks = {s1}
    Served <- MCServed
    NoCompose = none
    ServicesIn <- MCServicesIn
    ETagChoices <- MCETagChoices
    StackScoped = TRUE
    MaxRetries = 3
INVARIANTS
    FetchTypeOK
PROPERTIES
    ImplementsSentinel
    AnswerBecomesDesired
    ServedIsEvaluated
    FetchEnds
