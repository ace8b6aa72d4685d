SPECIFICATION FairSpec
CONSTANTS
  Workers = {w1, w2}
  Messages = 2
  MaxAgents = 3
  MaxAttempts = 2
  MaxFaults = 2

    
PROPERTIES
    SummaryAdvances
    EveryMessageSettles
CHECK_DEADLOCK FALSE
