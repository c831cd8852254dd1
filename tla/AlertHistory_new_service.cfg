\* The default threshold and a fresh file: a service that appears after the
\* first run, already broken.
SPECIFICATION HSpec
CONSTANTS
    Services = {web, db}
    AlertStabilizationCycles = 2
    CycleCap = 2
    UpgradedFile = FALSE
INVARIANTS
    StableFailureAlerted
