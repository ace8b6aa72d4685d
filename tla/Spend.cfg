SPECIFICATION FairSpec
CONSTANTS
  Workers = {w1, w2}
  MaxCalls = 3
  MaxEpoch = 1
  MaxFaults = 1
  Estimate = 1
  TaskCap = 1
  MoneyCap = 2
  GoalCap = 3
  ReviewAllowance = 1
  ProviderAttempts = 2

    
    
PROPERTIES
    EveryReservationCloses
CHECK_DEADLOCK FALSE
