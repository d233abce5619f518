---------------------------- MODULE ChildLaunch ----------------------------
(***************************************************************************)
(* An agent starts a child with a brief, or a review at a Codex session,   *)
(* and may ask to be told when it is over.  The brief is kept as a file    *)
(* named for its content before anything is started; it is typed once, and *)
(* the child is handed out only when the provider shows that it took it.   *)
(* Monitors, steers and handlers live in memory; a crash ends them.        *)
(***************************************************************************)
EXTENDS Integers, SequencesExt, FiniteSetsExt

CONSTANTS
  Briefs,          \* the texts of briefs
  LaunchCases,     \* what to look at: providers whose child gets a brief, and kinds of review
  MaxChildren,     \* bound: children
  MaxMeddling,     \* bound: things a person does at a child's terminal
  MaxMoves,        \* bound: times a child shows activity
  LaunchFaults,    \* bound: tmux commands and deadlines that fail
  LaunchCrashes    \* bound: server crashes and losses of power

ASSUME LaunchAssumption ==
  /\ LaunchCases \subseteq {"claude", "codex-fork", "main", "topic", "uncommitted", "commit", "custom", "pr"}
  /\ {MaxChildren, MaxMeddling, MaxMoves, LaunchFaults, LaunchCrashes} \subseteq Nat
  /\ "mixed" \notin Briefs /\ "human" \notin Briefs

VARIABLES
  launchCase,   \* the case of this behaviour
  library,      \* [kept, synced, intents]: brief files, the ones a power loss spares, and the intents
  launcher,     \* per child: the handler
  child,        \* per child: "none", "up", "exited", "stopped", "retired", "failed"
  term,         \* per child: the terminal
  review,       \* per child: review_config and what Codex was asked to review
  monitor,      \* per child: the task that waits for it
  moved,        \* per child: has it shown activity since the monitor looked?
  tellings,         \* per child: notices of its end queued for the parent
  launchSpent   \* what the bounds count

launchVars == <<launchCase, library, launcher, child, term, review, monitor, moved, tellings, launchSpent>>

Children == 1..MaxChildren
CaseOf(x) == IF x \in {"claude", "codex-fork"} THEN [part |-> "brief", provider |-> x, mode |-> "none"]
             ELSE [part |-> IF x = "pr" THEN "pr" ELSE "review", provider |-> "codex", mode |-> x]
NoLauncher == [pc |-> "none", text |-> "none", from |-> 0, keys |-> <<>>]
NoTerm == [ready |-> FALSE, trust |-> FALSE, attached |-> FALSE, draft |-> <<>>, took |-> <<>>, shown |-> 0]
NoReview == [dispatching |-> FALSE, steer |-> "none", menu |-> "closed", at |-> 0, started |-> "none"]

MovesOn(c, pc) == launcher' = [launcher EXCEPT ![c].pc = pc]

Spends(what) == launchSpent' = [launchSpent EXCEPT ![what] = @ + 1]

LaunchFault == launchSpent.faults < LaunchFaults /\ Spends("faults")

-----------------------------------------------------------------------------
(* The brief is accepted *)

\* Publishing writes and syncs a temporary file and links it to the name of its
\* content; a file already there is compared
Published(lib, text) == [lib EXCEPT !.kept = @ \union {text}]

\* The handler of a spawn: the parent is there, and the brief is published
SpawnSession(c, text) ==
  /\ launchCase.part = "brief" /\ launcher[c].pc = "none"
  /\ library' = Published(library, text)
  /\ launcher' = [launcher EXCEPT ![c] = [NoLauncher EXCEPT !.pc = "sync", !.text = text]]
  /\ UNCHANGED <<launchCase, child, term, review, monitor, moved, tellings, launchSpent>>

\* The directory is synced before the path is recorded
SyncDirectory(lib, text) == [lib EXCEPT !.synced = @ \union {text}]

\* The intent is recorded in the session state, after the barrier
RecordIntent(c) ==
  /\ launcher[c].pc = "sync"
  /\ library' = [SyncDirectory(library, launcher[c].text) EXCEPT !.intents =
                   @ \union {[brief |-> launcher[c].text, of |-> c, bound |-> FALSE]}]
  /\ MovesOn(c, "read")
  /\ UNCHANGED <<launchCase, child, term, review, monitor, moved, tellings, launchSpent>>

\* The text to be typed is read back from the file and verified
ReadSpawnBrief(c) ==
  /\ launcher[c].pc = "read"
  /\ MovesOn(c, IF launcher[c].text \in library.kept THEN "create" ELSE "failed")
  /\ UNCHANGED <<launchCase, library, child, term, review, monitor, moved, tellings, launchSpent>>

\* The intent is bound to the session that is created
BindIntent(lib, c) ==
  [lib EXCEPT !.intents = {IF i.of = c THEN [i EXCEPT !.bound = TRUE] ELSE i : i \in @}]

\* The session is recorded and its runtime is started; its input is locked from here
CreateChild(c) ==
  /\ launcher[c].pc = "create"
  /\ library' = BindIntent(library, c)
  /\ child' = [child EXCEPT ![c] = "up"]
  /\ term' = [term EXCEPT ![c] = [NoTerm EXCEPT !.trust = launchCase.provider = "codex-fork"]]
  /\ MovesOn(c, IF launchCase.part = "review" THEN "settle"
             ELSE IF launchCase.provider = "claude" THEN "client" ELSE "ready")
  /\ UNCHANGED <<launchCase, review, monitor, moved, tellings, launchSpent>>

-----------------------------------------------------------------------------
(* The brief is delivered.  A delivery that fails is never repeated: the    *)
(* seat is dropped and the caller told where the brief is kept.             *)

BriefFails(c) ==
  /\ MovesOn(c, "failed") /\ child' = [child EXCEPT ![c] = "failed"]

\* A pane that is gone and a deadline end each of the waits
WaitEnds(c) ==
  /\ BriefFails(c)
  /\ (child[c] = "exited" /\ UNCHANGED launchSpent) \/ LaunchFault

\* Claude: no client may be attached
FirstClientCheck(c) ==
  /\ launcher[c].pc = "client"
  /\ IF term[c].attached THEN BriefFails(c) ELSE MovesOn(c, "transcript") /\ UNCHANGED child
  /\ UNCHANGED <<launchCase, library, term, review, monitor, moved, tellings, launchSpent>>

\* Claude: the transcript that declares the provider session, and its length
AwaitTranscript(c) ==
  /\ launcher[c].pc = "transcript"
  /\ \/ /\ child[c] = "up" /\ term[c].ready
        /\ launcher' = [launcher EXCEPT ![c].pc = "composer", ![c].from = term[c].shown]
        /\ UNCHANGED <<child, launchSpent>>
     \/ WaitEnds(c)
  /\ UNCHANGED <<launchCase, library, term, review, monitor, moved, tellings>>

\* The composer is empty: its line is the live one and the cursor is at its start
EmptyComposer(c) == term[c].ready /\ ~term[c].trust /\ term[c].draft = <<>>

\* Claude: an empty composer at the live cursor
AwaitComposer(c) ==
  /\ launcher[c].pc = "composer"
  /\ \/ child[c] = "up" /\ EmptyComposer(c) /\ MovesOn(c, "recheck") /\ UNCHANGED <<child, launchSpent>>
     \/ WaitEnds(c)
  /\ UNCHANGED <<launchCase, library, term, review, monitor, moved, tellings>>

\* Claude: the clients are looked at again
SecondClientCheck(c) ==
  /\ launcher[c].pc = "recheck"
  /\ IF term[c].attached THEN BriefFails(c) ELSE MovesOn(c, "text") /\ UNCHANGED child
  /\ UNCHANGED <<launchCase, library, term, review, monitor, moved, tellings, launchSpent>>

\* codex-fork: the question whether the directory is trusted is answered, once
AcceptTrust(c) ==
  /\ launcher[c].pc = "ready" /\ child[c] = "up" /\ term[c].ready /\ term[c].trust
  /\ term' = [term EXCEPT ![c].trust = FALSE]
  /\ UNCHANGED <<launchCase, library, launcher, child, review, monitor, moved, tellings, launchSpent>>

\* codex-fork: the composer is at the cursor, and the stream's length is noted
AwaitReadiness(c) ==
  /\ launcher[c].pc = "ready"
  /\ \/ /\ child[c] = "up" /\ term[c].ready /\ ~term[c].trust
        /\ launcher' = [launcher EXCEPT ![c].pc = "text", ![c].from = term[c].shown]
        /\ UNCHANGED <<child, launchSpent>>
     \/ WaitEnds(c)
  /\ UNCHANGED <<launchCase, library, term, review, monitor, moved, tellings>>

\* The text is typed
TypeBrief(c) ==
  /\ launcher[c].pc = "text"
  /\ IF child[c] = "up"
       THEN /\ term' = [term EXCEPT ![c].draft = Append(@, launcher[c].text)]
            /\ MovesOn(c, "enter") /\ UNCHANGED child
       ELSE BriefFails(c) /\ UNCHANGED term
  /\ UNCHANGED <<launchCase, library, review, monitor, moved, tellings, launchSpent>>

\* What the composer holds becomes a turn
Submitted(t) ==
  IF t.draft = <<>> THEN t
  ELSE [t EXCEPT !.draft = <<>>, !.took = Append(@, IF Len(t.draft) = 1 THEN t.draft[1] ELSE "mixed")]

\* and after a settling delay it is submitted
SubmitBrief(c) ==
  /\ launcher[c].pc = "enter"
  /\ IF child[c] = "up"
       THEN /\ term' = [term EXCEPT ![c] = Submitted(@)]
            /\ MovesOn(c, "await") /\ UNCHANGED child
       ELSE BriefFails(c) /\ UNCHANGED term
  /\ UNCHANGED <<launchCase, library, review, monitor, moved, tellings, launchSpent>>

\* The brief is among the turns shown after the noted place
Acknowledged(c) ==
  \E n \in (launcher[c].from + 1)..term[c].shown : term[c].took[n] = launcher[c].text

\* Mutant: a brief that is not seen in time is typed again.
AwaitOrRetype(c) ==
  /\ launcher[c].pc = "await"
  /\ \/ Acknowledged(c) /\ MovesOn(c, "made") /\ UNCHANGED <<child, launchSpent>>
     \/ MovesOn(c, "text") /\ UNCHANGED child /\ LaunchFault
  /\ UNCHANGED <<launchCase, library, term, review, monitor, moved, tellings>>

\* The acknowledgement is awaited; without it the brief is not typed again
AwaitAcceptance(c) ==
  /\ launcher[c].pc = "await"
  /\ \/ Acknowledged(c) /\ MovesOn(c, "made") /\ UNCHANGED <<child, launchSpent>>
     \/ ~Acknowledged(c) /\ WaitEnds(c)
  /\ UNCHANGED <<launchCase, library, term, review, monitor, moved, tellings>>

\* The child is handed out; a parent that waits gets a monitor
HandOut(c) ==
  /\ launcher[c].pc = "made"
  /\ MovesOn(c, "done")
  /\ monitor' = [monitor EXCEPT ![c] = "child"] /\ moved' = [moved EXCEPT ![c] = FALSE]
  /\ UNCHANGED <<launchCase, library, child, term, review, tellings, launchSpent>>

BriefStep(c) ==
  \/ RecordIntent(c) \/ ReadSpawnBrief(c) \/ FirstClientCheck(c) \/ AwaitTranscript(c)
  \/ AwaitComposer(c) \/ SecondClientCheck(c) \/ AcceptTrust(c) \/ AwaitReadiness(c)
  \/ TypeBrief(c) \/ SubmitBrief(c) \/ AwaitAcceptance(c) \/ HandOut(c)

-----------------------------------------------------------------------------
(* Reviews *)

\* A review at a new Codex child: it is created and left to settle
SpawnReviewSession(c) ==
  /\ launchCase.part = "review" /\ launcher[c].pc = "none"
  /\ launcher' = [launcher EXCEPT ![c].pc = "create"]
  /\ UNCHANGED <<launchCase, library, child, term, review, monitor, moved, tellings, launchSpent>>

\* Codex offers the local branches in the order of git branch --list
BranchList == <<"main", "topic">>

\* The position of a branch in the menu
BranchPosition(branch) == (CHOOSE n \in 1..Len(BranchList) : BranchList[n] = branch) - 1

\* The keys that start a review
ReviewKeys(mode) ==
  CASE mode = "custom" -> <<"/review prompt">>
    [] mode = "uncommitted" -> <<"/review", "Down", "Enter">>
    [] mode = "commit" -> <<"/review", "Down", "Down", "Enter", "sha", "Enter">>
    [] OTHER -> <<"/review", "Enter">> \o [n \in 1..BranchPosition(mode) |-> "Down"] \o <<"Enter">>

\* A review in progress of being started keeps others out
ReviewBusy(c) == review[c].dispatching

\* The checks: the session is live, a Codex one, not busy and in a repository that has
\* what is to be reviewed; then the configuration is recorded
StartReview(c) ==
  /\ launcher[c].pc = "settle"
  /\ \/ /\ child[c] = "up" /\ ~ReviewBusy(c)
        /\ review' = [review EXCEPT ![c].dispatching = TRUE, ![c].steer = "queued"]
        /\ launcher' = [launcher EXCEPT ![c].pc = "keys", ![c].keys = ReviewKeys(launchCase.mode)]
        /\ UNCHANGED launchSpent
     \/ (child[c] # "up" \/ ReviewBusy(c)) /\ MovesOn(c, "refused") /\ UNCHANGED <<review, launchSpent>>
     \/ LaunchFault /\ MovesOn(c, "refused") /\ UNCHANGED review
  /\ UNCHANGED <<launchCase, library, child, term, monitor, moved, tellings>>

\* Enter chooses where the cursor is
MenuEntered(r) ==
  CASE r.menu = "modes" /\ r.at = 0 -> [r EXCEPT !.menu = "branches"]
    [] r.menu = "modes" /\ r.at = 1 -> [r EXCEPT !.menu = "closed", !.started = "uncommitted"]
    [] r.menu = "modes" /\ r.at = 2 -> [r EXCEPT !.menu = "commits"]
    [] r.menu = "branches" ->
         [r EXCEPT !.menu = "closed", !.started = IF r.at < Len(BranchList) THEN BranchList[r.at + 1] ELSE "none"]
    [] r.menu = "commits" -> [r EXCEPT !.menu = "closed", !.started = "commit"]
    [] OTHER -> r

\* What a key does to Codex's menus; the name of a commit only narrows its list
Pressed(r, key) ==
  CASE key = "/review" -> [r EXCEPT !.menu = "modes", !.at = 0]
    [] key = "/review prompt" -> [r EXCEPT !.started = "custom"]
    [] key = "Down" -> [r EXCEPT !.at = @ + 1]
    [] key = "Enter" -> MenuEntered(r)
    [] OTHER -> r

\* The keys are sent one by one, under the lock of the input and of the session state;
\* whether they arrive or not, the dispatch is marked as over
SendReviewKey(c) ==
  /\ launcher[c].pc = "keys"
  /\ \/ /\ child[c] = "up" /\ launcher[c].keys # <<>>
        /\ review' = [review EXCEPT ![c] = Pressed(@, Head(launcher[c].keys))]
        /\ launcher' = [launcher EXCEPT ![c].keys = Tail(@)] /\ UNCHANGED launchSpent
     \/ /\ launcher[c].keys = <<>>
        /\ review' = [review EXCEPT ![c].dispatching = FALSE] /\ MovesOn(c, "started") /\ UNCHANGED launchSpent
     \/ /\ launcher[c].keys # <<>>
        /\ (child[c] # "up" /\ UNCHANGED launchSpent) \/ LaunchFault
        /\ review' = [review EXCEPT ![c].dispatching = FALSE] /\ MovesOn(c, "refused")
  /\ UNCHANGED <<launchCase, library, child, term, monitor, moved, tellings>>

\* The review is under way; the steer's timer and a monitor are started
AnswerReview(c) ==
  /\ launcher[c].pc = "started"
  /\ MovesOn(c, "done")
  /\ review' = [review EXCEPT ![c].steer = "timed"]
  /\ \E kind \in {"child", "session"} : monitor' = [monitor EXCEPT ![c] = kind]
  /\ moved' = [moved EXCEPT ![c] = FALSE]
  /\ UNCHANGED <<launchCase, library, child, term, tellings, launchSpent>>

\* The child of a review that was refused is retired, if it can be
RetireReviewChild(c) ==
  \/ child' = [child EXCEPT ![c] = "retired"] /\ UNCHANGED launchSpent
  \/ LaunchFault /\ UNCHANGED child

\* and the caller is given the error
RefuseReview(c) ==
  /\ launcher[c].pc = "refused"
  /\ MovesOn(c, "answered") /\ RetireReviewChild(c)
  /\ UNCHANGED <<launchCase, library, term, review, monitor, moved, tellings>>

\* The steer is typed some time after the start, and marked when it was
SendSteer(c) ==
  /\ review[c].steer = "timed"
  /\ \/ child[c] = "up" /\ review' = [review EXCEPT ![c].steer = "delivered"] /\ UNCHANGED launchSpent
     \/ child[c] # "up" /\ review' = [review EXCEPT ![c].steer = "dropped"] /\ UNCHANGED launchSpent
     \/ LaunchFault /\ review' = [review EXCEPT ![c].steer = "dropped"]
  /\ UNCHANGED <<launchCase, library, launcher, child, term, monitor, moved, tellings>>

\* A review of a pull request is asked for by a comment; its repository is named or found
\* in the caller's directory
StartPrReview(c) ==
  /\ launchCase.part = "pr" /\ launcher[c].pc = "none"
  /\ \/ MovesOn(c, "done") /\ monitor' = [monitor EXCEPT ![c] = "pr"] /\ UNCHANGED launchSpent
     \/ LaunchFault /\ MovesOn(c, "answered") /\ UNCHANGED monitor
  /\ UNCHANGED <<launchCase, library, child, term, review, moved, tellings>>

\* Codex submits a review of the pull request
PrReviewLands(c) ==
  /\ launchCase.part = "pr" /\ review[c].started = "none"
  /\ review' = [review EXCEPT ![c].started = "pr"]
  /\ UNCHANGED <<launchCase, library, launcher, child, term, monitor, moved, tellings, launchSpent>>

\* The notifier looks for a review, not minding errors, until its deadline; either way
\* it tells the caller once
PrNotifierFires(c) ==
  /\ monitor[c] = "pr"
  /\ monitor' = [monitor EXCEPT ![c] = "none"] /\ tellings' = [tellings EXCEPT ![c] = @ + 1]
  /\ UNCHANGED <<launchCase, library, launcher, child, term, review, moved, launchSpent>>

ReviewStep(c) == StartReview(c) \/ SendReviewKey(c) \/ AnswerReview(c) \/ RefuseReview(c) \/ SendSteer(c)

-----------------------------------------------------------------------------
(* Waiting for the end *)

\* The session is stopped, or its runtime is gone
Ended(c) == child[c] \in {"stopped", "retired", "exited"}

\* Ended, or without activity for as long as was asked
OverOrQuiet(c) == Ended(c) \/ ~moved[c]

\* A monitor that finds the session over, or idle long enough, or out of time, says so
\* once; a child's has no deadline
MonitorFires(c) ==
  /\ monitor[c] \in {"child", "session"}
  /\ OverOrQuiet(c) \/ monitor[c] = "session"
  /\ monitor' = [monitor EXCEPT ![c] = "none"] /\ tellings' = [tellings EXCEPT ![c] = @ + 1]
  /\ UNCHANGED <<launchCase, library, launcher, child, term, review, moved, launchSpent>>

\* A monitor that finds activity starts the count again
MonitorLooks(c) ==
  /\ monitor[c] \in {"child", "session"} /\ moved[c] /\ ~Ended(c)
  /\ moved' = [moved EXCEPT ![c] = FALSE]
  /\ UNCHANGED <<launchCase, library, launcher, child, term, review, monitor, tellings, launchSpent>>

-----------------------------------------------------------------------------
(* The providers, people, and crashes *)

\* The provider comes up
ProviderReady(c) ==
  /\ child[c] = "up" /\ ~term[c].ready
  /\ term' = [term EXCEPT ![c].ready = TRUE]
  /\ UNCHANGED <<launchCase, library, launcher, child, review, monitor, moved, tellings, launchSpent>>

\* A turn that was taken appears in the transcript or the event stream
ProviderShows(c) ==
  /\ term[c].shown < Len(term[c].took)
  /\ term' = [term EXCEPT ![c].shown = @ + 1]
  /\ UNCHANGED <<launchCase, library, launcher, child, review, monitor, moved, tellings, launchSpent>>

\* A person attaches, types, submits or leaves
Meddle(c) ==
  /\ launchCase.part = "brief" /\ child[c] = "up" /\ term[c].ready /\ launchSpent.meddling < MaxMeddling
  /\ launcher[c].pc # "done"
  /\ \/ ~term[c].attached /\ term' = [term EXCEPT ![c].attached = TRUE]
     \/ term[c].attached /\ term' = [term EXCEPT ![c].draft = Append(@, "human")]
     \/ term[c].attached /\ term' = [term EXCEPT ![c] = Submitted(@)] /\ term[c].draft # <<>>
     \/ term[c].attached /\ term' = [term EXCEPT ![c].attached = FALSE]
  /\ Spends("meddling")
  /\ UNCHANGED <<launchCase, library, launcher, child, review, monitor, moved, tellings>>

\* The child shows activity
Moves(c) ==
  /\ monitor[c] # "none" /\ child[c] = "up" /\ launchSpent.moves < MaxMoves
  /\ moved' = [moved EXCEPT ![c] = TRUE] /\ Spends("moves")
  /\ UNCHANGED <<launchCase, library, launcher, child, term, review, monitor, tellings>>

\* The runtime dies, or the session is retired by somebody
ChildEnds(c) ==
  /\ child[c] = "up"
  /\ \/ child' = [child EXCEPT ![c] = "exited"]
     \/ launcher[c].pc = "done" /\ child' = [child EXCEPT ![c] = "retired"]
  /\ UNCHANGED <<launchCase, library, launcher, term, review, monitor, moved, tellings, launchSpent>>

\* The server dies, alone or with the machine: handlers, timers and monitors are gone;
\* the recovery of launches drops a seat whose brief was not acknowledged
LaunchCrash ==
  /\ launchSpent.crashes < LaunchCrashes /\ Spends("crashes")
  /\ launcher' = [c \in Children |-> IF launcher[c].pc \in {"none", "done", "answered", "failed"}
                                       THEN launcher[c] ELSE [launcher[c] EXCEPT !.pc = "lost"]]
  /\ monitor' = [c \in Children |-> "none"]
  /\ review' = [c \in Children |-> [review[c] EXCEPT !.steer = IF @ = "timed" THEN "dropped" ELSE @]]
  /\ \E power \in BOOLEAN :
       /\ library' = IF power THEN [library EXCEPT !.kept = library.synced] ELSE library
       /\ child' = [c \in Children |->
                      IF child[c] = "up" /\ launchCase.part = "brief" /\ launcher[c].pc # "done" THEN "failed"
                      ELSE IF power /\ child[c] = "up" THEN "exited" ELSE child[c]]
  /\ UNCHANGED <<launchCase, term, moved, tellings>>

-----------------------------------------------------------------------------
LaunchInit ==
  /\ launchCase \in {CaseOf(x) : x \in LaunchCases}
  /\ library = [kept |-> {}, synced |-> {}, intents |-> {}]
  /\ launcher = [c \in Children |-> NoLauncher] /\ child = [c \in Children |-> "none"]
  /\ term = [c \in Children |-> NoTerm] /\ review = [c \in Children |-> NoReview]
  /\ monitor = [c \in Children |-> "none"] /\ moved = [c \in Children |-> FALSE]
  /\ tellings = [c \in Children |-> 0]
  /\ launchSpent = [meddling |-> 0, moves |-> 0, faults |-> 0, crashes |-> 0]

LaunchNext ==
  \/ LaunchCrash
  \/ \E c \in Children :
       \/ \E text \in Briefs : SpawnSession(c, text)
       \/ SpawnReviewSession(c) \/ StartPrReview(c) \/ PrReviewLands(c) \/ PrNotifierFires(c)
       \/ CreateChild(c) \/ BriefStep(c) \/ ReviewStep(c)
       \/ MonitorFires(c) \/ MonitorLooks(c) \/ ProviderReady(c) \/ ProviderShows(c)
       \/ Meddle(c) \/ Moves(c) \/ ChildEnds(c)

\* Monitors poll; a child that stays quiet is found quiet long enough
LaunchFairness ==
  \A c \in Children : WF_launchVars(MonitorFires(c)) /\ WF_launchVars(MonitorLooks(c))
                         /\ WF_launchVars(PrNotifierFires(c))

LaunchSpec == LaunchInit /\ [][LaunchNext]_launchVars /\ LaunchFairness

-----------------------------------------------------------------------------
\* The types of the variables
LaunchTypeOK ==
  /\ launchCase \in {CaseOf(x) : x \in LaunchCases}
  /\ library.kept \subseteq Briefs /\ library.synced \subseteq Briefs
  /\ library.intents \subseteq [brief : Briefs, of : Children, bound : BOOLEAN]
  /\ \A c \in Children :
       /\ child[c] \in {"none", "up", "exited", "stopped", "retired", "failed"}
       /\ term[c].shown \in 0..Len(term[c].took) /\ monitor[c] \in {"none", "child", "session", "pr"}
       /\ moved[c] \in BOOLEAN /\ tellings[c] \in Nat /\ review[c].dispatching \in BOOLEAN

\* An intent that is recorded has its brief in the library, whatever the machine went
\* through since: the file and its name are on disk before the session state names them
IntentHasBrief == \A i \in library.intents : i.brief \in library.kept

\* A brief is never run twice, whatever the provider showed or did not show in time, and a
\* child that is handed out has taken its brief whole
BriefTakenOnce ==
  \A c \in Children :
    LET n == Cardinality({i \in 1..Len(term[c].took) : term[c].took[i] = launcher[c].text})
    IN n <= 1 /\ (launchCase.part = "brief" /\ launcher[c].pc \in {"made", "done"} => n = 1)

\* A review that is reported as started is the one that was asked for: the keys lead
\* through Codex's menus to the branch, commit or mode of the request
ReviewAsAsked ==
  \A c \in Children : launchCase.part = "review" /\ launcher[c].pc \in {"started", "done"} =>
    review[c].started = launchCase.mode

WaitedFor(c) == monitor[c] # "none"
WaitOver(c) == tellings[c] > 0 \/ launchSpent.crashes > 0

\* Whoever waits for a child is told once it ended or is quiet, unless the server went down
WaitAnswered == \A c \in Children : WaitedFor(c) ~> WaitOver(c)

\* A child does what it was launched for: its brief is on disk before it is named, is taken once,
\* and a review is the one that was asked for.
LaunchIsRight == IntentHasBrief /\ BriefTakenOnce /\ ReviewAsAsked
=============================================================================
