SPECIFICATION Spec
CONSTANTS
  j1 = j1
  j2 = j2
  NoJob = NoJob
  Jobs <- TwoJobs
  JobType <- PerfAndBackground
  Untimed = {}
  Unruly = {}
  ExitCodes = {"ok"}
  Cancellable <- Second
  Policies <- PerfOnOrOff
  MaxLaunches = 2
  MaxCrashes = 0
  MaxFaults = 0
  MaxLog = 0
INVARIANTS
  TypeOK
  PerfRunsAlone
  OneLaunchPerServer
PROPERTIES
  CapacityRespected
  VerdictWaitsForGroup
CHECK_DEADLOCK FALSE
