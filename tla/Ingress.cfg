SPECIFICATION FairSpec
CONSTANTS
    Count = 2
    Runners = {r1, r2}
    MaxAttempts = 2
    MaxFaults = 2
INVARIANTS
    RowsAgree
    HandledOnce
PROPERTIES
    ModeNeverGoesBack
    
CHECK_DEADLOCK FALSE
