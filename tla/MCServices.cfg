SPECIFICATION Spec
CONSTANTS
 Focus = {"seat","bind","launch","role","act","delivery","handoff","monitor","fork","pane","btw","ledger","report","mobile","desk","http"}
 Seats = {s1}
 Providers = {"claude","codex","codex-fork"}
 MaxLaunches = 2
 MaxRotations = 1
 MaxThreads = 2
 SeatCrashes = 1
 SeatFaults = 1
 Overlaps = FALSE
 SeatOwners = {"a","b"}
 OwnerKinds = {"claude","codex","codex-fork"}
 MaxFiles = 2
 MaxWall = 3
 AppendFaults = 2
 OwnerCrashes = 1
 Briefs = {"p","q"}
 LaunchCases = {"claude","codex-fork","main","topic","uncommitted","commit","custom","pr"}
 MaxChildren = 1
 MaxMeddling = 3
 MaxMoves = 2
 LaunchFaults = 1
 LaunchCrashes = 1
 Members = {"a","b"}
 Names = {"maintainer","x"}
 HumanNames = {"y"}
 MaxRegistry = 2
 MaxSubagents = 2
 MaxStops = 2
 ActCases = {"claude","remote","fork","undated"}
 RecentFor = 1
 FreshFor = 2
 FreshAwayFor = 3
 WindowLines = 4
 TailEvents = 2
 MaxForkEvents = 4
 MaxActTurns = 3
 Agents = {"a","b"}
 Notified = {"a"}
 Workloads = {{"sequential","delivery"},{"rename","important"},{"reminder","retire"},{"reparent"}}
 BatchSize = 2
 MaxRows = 3
 MaxReminders = 1
 MailCrashes = 1
 MailFaults = 1
 Overtaken = {"stop"}
 MaxTurns = 2
 MaxHandoffs = 1
 Disturbances = 1
 MonitorProviders = {"claude","codex-fork"}
 Thresholds = {1,2}
 MaxLevel = 2
 MaxSamples = 3
 MaxContexts = 1
 MaxSwitches = 1
 MonitorCrashes = 1
 Notes = {"p","q"}
 MaxEvents = 4
 MaxAsked = 2
 WatchFaults = 1
 ForkCrashes = 1
 AskWhileEnding = FALSE
 Handlers = {"h1","h2"}
 SendPlans = {"batch","all"}
 TypeFaults = 1
 PaneDeaths = 1
 Askers = {"x"}
 BtwProviders = {"claude","codex","codex-fork"}
 BtwCases = {{"crash","late","fault"},{"retire","late","fault"}}
 MaxQuestions = 2
 MaxBusy = 1
 LedgerCases = {{"claude","session","bind","crash"},{"codex","unknown","settings","session","model"},{"codex","unknown","rewrite","crash"},{"claude","weekly_scoped","rebuild"},{"codex","settings","session","switch"}}
 Accounts = {"p","q"}
 Replies <- MCReplies
 LedgerBatch = 1
 MaxLines = 2
 MaxTime = 2
 MaxWindows = 1
 MaxCuts = 1
 MeterCases = {{"statusline","cache","poll"},{"cache","poll","switch"},{"codex","poll"},{"cache","work"},{"cache","poll","plan"}}
 ClaudeAccounts = {"c","d"}
 Workers = {"u","v"}
 Spent = {0,240}
 Drift = {0}
 MaxClock = 3
 MaxMeters = 2
 MaxLogins = 1
 MaxWork = 2
 Devices = {"d1"}
 FirstDevices = {"d1"}
 AttachLimit = 1
 PairingAttempts = 1
 MaxPairings = 1
 MaxTickets = 2
 MaxRevokes = 1
 TerminalFaults = 1
 TerminalRestarts = 1
 DeskAgents = {"a","b"}
 DeskParts = {"mail","bugs","apps"}
 Builds = {"v1","v2"}
 KeptReports = 2
 MaxMails = 1
 MaxBugs = 3
 MaxDeploys = 3
 DeskFaults = 2
 HttpCases = {"shadow","events"}
 Rollout = {"codex-events"}
 MaxChanges = 1
 MaxHooks = 4
 Backlog = 2
 AtOnce = 2
INVARIANTS
 TypeOK
 
 
 
 
 TerminalsAreCut
 
 HistoryNamesOwner
 
 ReadsAreRight
 
 
 SendsAreWhole
PROPERTIES
 
 
 
 RolesAreKept
VIEW Looked
CHECK_DEADLOCK FALSE
