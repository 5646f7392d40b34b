SPECIFICATION SyncSpec
CONSTANTS
  j1 = j1
  j2 = j2
  r1 = r1
  r2 = r2
  Jobs = {j1}
  Runners = {r1, r2}
  LastPage = 3
  PagesPerRun = 2
  JobAttempts = 3
  MaxRuns = 4
  MaxDeaths = 1
  NoJob = NoJob
INVARIANTS
  SyncTypeOK
  CheckpointCovers
  SucceededComplete
  RedrivenBounded
CHECK_DEADLOCK FALSE
