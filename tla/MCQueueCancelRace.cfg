SPECIFICATION Spec
CONSTANTS
  j1 = j1
  j2 = j2
  NoJob = NoJob
  Jobs <- OneJob
  JobType <- OnlyBackground
  Untimed = {}
  Unruly = {}
  ExitCodes = {"ok"}
  Cancellable <- OneJob
  Policies <- OnePolicy
  MaxLaunches = 2
  MaxCrashes = 0
  MaxFaults = 0
  MaxLog = 0
INVARIANTS
  GroupAbsentWhenTerminal
CHECK_DEADLOCK FALSE
