SPECIFICATION MCSpec
CONSTANTS
  Chunks = 1
  MaxRuns = 2
  Keep = 1
  BackupFaults = 1
  MaxRestores = 1
  MaxNow = 2
  CompletedDays = 1
  FailedDays = 2
  ArtifactDays = 0
  MaxFaults = 1
  MaxDryRuns = 1
INVARIANTS
    RestoreIsSound
    
    FilesMatchRows

    
    
CHECK_DEADLOCK FALSE
