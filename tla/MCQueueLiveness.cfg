SPECIFICATION FairSpec
CONSTANTS
  j1 = j1
  j2 = j2
  NoJob = NoJob
  Jobs <- TwoJobs
  JobType <- PerfAndTests
  Untimed = {}
  Unruly = {}
  ExitCodes = {"ok"}
  Cancellable = {}
  Policies <- OnePolicy
  MaxLaunches = 2
  MaxCrashes = 0
  MaxFaults = 0
  MaxLog = 0
PROPERTIES
  JobsSettle
CHECK_DEADLOCK FALSE
