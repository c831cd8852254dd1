\* Two services, so that one can be new while the other is known, three cycles
\* of stabilization, a counter that saturates above the threshold, and files
\* written by an older version.
SPECIFICATION HFairSpec
CONSTANTS
    Services = {web, db}
    AlertStabilizationCycles = 3
    CycleCap = 4
    UpgradedFile = TRUE
INVARIANTS
    HTypeOK
    SettledWhenStable
PROPERTIES
    AlertsChain
    AlertNeedsStability
    BaselineMovesOnlyByAlert
    BaselineConverges
