SPECIFICATION MCSpec
CONSTANTS
    F1 = F1
    F2 = F2
    F3 = F3
    F4 = F4
    Checks = {"validate", "review"}
    Fingerprints <- FewFingerprints
    StepRepairCap = 3
    TaskRepairCap = 5
    WaitCap = 5
    HistoryLimit = 8
    MaxAttempts = 2
    MaxCrashes = 2
    MaxCommands = 3
    MaxForeign = 1
SYMMETRY FingerprintSymmetry
INVARIANTS
    
    RecordIsTrue
PROPERTIES
    UncertainNotRelaunched
    ForeignCommitKept
CHECK_DEADLOCK FALSE
