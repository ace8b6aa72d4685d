SPECIFICATION MCSpec
CONSTANTS
  TotalJobs = 2
  LiveJobs = 2
  Concurrency = 1
  Runners = {r1, r2}
  MaxMoves = 2
  JobFaults = 2
  Workers = {1, 2}
  MaxMessages = 2
  MaxJobs = 1
  MaxFaults = 1
  MaxEvents = 2
  MaxDecisions = 1
  RepeatLimit = 1
INVARIANTS
    JobsAccounted
    
PROPERTIES
    StaleDecisionNeverActs
    LeadNeverStalls
CHECK_DEADLOCK FALSE
