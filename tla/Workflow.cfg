SPECIFICATION MCSpec
CONSTANTS
    E1 = E1
    ResultKind = "change"
    Done = 8
    Commands <- ControlCommands
    Evidence <- OneEvidence
    MaxCommands = 4
    MaxCrashes = 1
    StepRepairCap = 1
    TaskRepairCap = 2
    WaitCap = 1
    HistoryLimit = 8
INVARIANTS
    
    NoStrandedRun
    ValidatedAfterCode
PROPERTIES
    ReportSettles
CHECK_DEADLOCK FALSE
