SPECIFICATION Spec
CONSTANTS
    ResultKind = "change"
    Done = 6
    Commands = {"pause", "resume", "retry", "revalidate", "rereview"}
    Evidence = {E1}
    MaxCommands = 2
    MaxCrashes = 0
    StepRepairCap = 1
    TaskRepairCap = 2
    WaitCap = 1
    HistoryLimit = 8
INVARIANTS
    ResumeIsLegal
CHECK_DEADLOCK FALSE
