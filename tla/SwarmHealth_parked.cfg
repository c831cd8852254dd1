\* A service declared with no replicas and a config.
SPECIFICATION Spec
CONSTANTS
    web = web
    db = db
    v1 = v1
    v2 = v2
    plain = plain
    digest = digest
    cfg = cfg
    Unset = unset
    Names = {web}
    Composes <- Parked
    Specs <- ParkedSpecs
    TaskCounts <- OneOrTwo
    MaxTasks <- TwoAndOne
    MaxChanges = 1
    StackScoped = FALSE
INVARIANTS
    AsDeclaredIsOK
