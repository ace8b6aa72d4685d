SPECIFICATION MCSpec
CONSTANTS
  Workers = {w1, w2}
  MaxHead = 2
  MaxVersion = 6
  MaxAttempts = 2
  CloseFaults = 2
  Items = 2
  MaxPresses = 2
  MaxEvents = 1
  MaxFaults = 1
INVARIANTS
    EndIsRecorded
    PackageIsCoherent
PROPERTIES
    ClosingIsOrderly
    
    
CHECK_DEADLOCK FALSE
