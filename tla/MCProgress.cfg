SPECIFICATION FairSpec
CONSTANTS
 Focus = {"seat","delivery","review","btw","launch","outbox","studio","pane"}
 Seats = {s1}
 Providers = {"claude","codex","codex-fork"}
 MaxLaunches = 2
 MaxRotations = 1
 MaxThreads = 1
 SeatCrashes = 1
 SeatFaults = 1
 Overlaps = FALSE
 Briefs = {"p","q"}
 LaunchCases = {"claude","codex-fork","main","topic","uncommitted","commit","custom","pr"}
 MaxChildren = 1
 MaxMeddling = 3
 MaxMoves = 2
 LaunchFaults = 1
 LaunchCrashes = 1
 Agents = {"a","b"}
 Notified = {"a"}
 Workloads = {{"completion","handoff"},{"sequential","completion"},{"rename","completion"},{"reminder","retire"},{"urgent","after"},{"watch","sequential"},{"sequential","stop","retire"}}
 BatchSize = 2
 MaxRows = 2
 MaxReminders = 1
 MailCrashes = 1
 MailFaults = 1
 Handlers = {"h1","h2"}
 SendPlans = {"all"}
 TypeFaults = 1
 PaneDeaths = 1
 Owners = {"a","b"}
 MaxHeads = 2
 MaxRequests = 2
 MaxPosts = 2
 MaxReviews = 2
 ReviewFaults = 1
 ReviewCrashes = 1
 Petitions = {"r1"}
 Approvers = {"a"}
 Initiator = "i"
 Reasons = {"e","f"}
 HumanToo = TRUE
 MaxRepairs = 1
 OutboxCrashes = 1
 Askers = {"x"}
 BtwProviders = {"claude","codex","codex-fork"}
 BtwCases = {{"crash"},{"retire","late","fault"}}
 MaxQuestions = 2
 MaxBusy = 0
 Togglers = {"t1","t2"}
 MaxToggles = 2
 LaunchctlFaults = 1
 StudioRestarts = 1
INVARIANTS
 NoticesAreRight
 

 
CHECK_DEADLOCK FALSE
