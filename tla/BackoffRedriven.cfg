SPECIFICATION FairIntegrationsSpec
CONSTANTS
  e1 = e1
  s1 = s1
  w1 = w1
  j1 = j1
  j2 = j2
  r1 = r1
  Events = {e1}
  Subs = {s1}
  Workers = {w1}
  Wants <- MCWants
  MaxAttempts = 2
  MaxRetries = 0
  Jobs = {j1, j2}
  Runners = {r1}
  LastPage = 1
  PagesPerRun = 1
  JobAttempts = 2
  MaxRuns = 1
  MaxDeaths = 0
  NoJob = NoJob
PROPERTIES
  BackoffRedriven
CHECK_DEADLOCK FALSE
