\* One service in every mode and state and a second one, a job, that may be
\* undeclared; two changes during a collection.
SPECIFICATION Spec
CONSTANTS
    web = web
    db = db
    v1 = v1
    v2 = v2
    plain = plain
    digest = digest
    cfg = cfg
    Unset = unset
    Names = {web, db}
    Composes <- WebAndDb
    Specs <- WebAndDbSpecs
    TaskCounts <- OneOrTwo
    MaxTasks <- TwoAndOne
    MaxChanges = 2
    StackScoped = TRUE
INVARIANTS
    TypeOK
    AsDeclaredIsOK
    RollingIsOK
    DownIsFailed
    OKIsEarned
