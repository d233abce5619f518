SPECIFICATION Spec
CONSTANTS
  j1 = j1
  j2 = j2
  NoJob = NoJob
  Jobs <- OneJob
  JobType <- OnlyBackground
  Untimed = {}
  Unruly <- OneJob
  ExitCodes = {"ok", "bad"}
  Cancellable <- OneJob
  Policies <- OnePolicy
  MaxLaunches = 3
  MaxCrashes = 1
  MaxFaults = 1
  MaxLog = 1
INVARIANTS
  MessageMatchesRow
  StampMeansQueued
  Supervised
PROPERTIES
  TerminalIsFinal
  ImplementsLedger
CHECK_DEADLOCK FALSE
