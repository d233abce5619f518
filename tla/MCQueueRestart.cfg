SPECIFICATION FairSpec
CONSTANTS
  j1 = j1
  j2 = j2
  NoJob = NoJob
  Jobs <- OneJob
  JobType <- OnlyBackground
  Untimed = {}
  Unruly = {}
  ExitCodes = {"ok"}
  Cancellable <- OneJob
  Policies <- OnePolicy
  MaxLaunches = 3
  MaxCrashes = 1
  MaxFaults = 0
  MaxLog = 0
PROPERTIES
  JobsSettle
  
CHECK_DEADLOCK FALSE
