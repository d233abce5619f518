SPECIFICATION FairSpec
CONSTANTS
  j1 = j1
  j2 = j2
  NoJob = NoJob
  Jobs <- TwoJobs
  JobType <- TwoTests
  Untimed = {}
  Unruly = {}
  ExitCodes = {"ok"}
  Cancellable = {}
  Policies <- Single
  MaxLaunches = 2
  MaxCrashes = 0
  MaxFaults = 1
  MaxLog = 0
PROPERTIES
  FreeSlotIsUsed
CHECK_DEADLOCK FALSE
