---------------------------- MODULE SideQuestion ----------------------------
(***************************************************************************)
(* "sm what" (btw.rs, http.rs 7258-7896): one agent or a person asks another *)
(* agent a side question with the provider's own /btw.  The record is in     *)
(* SQLite, the work is done by a thread that types into the target's pane    *)
(* under its input lock, and the answer goes back through the message queue. *)
(* A restart finds the records and the pane, and nothing else.               *)
(***************************************************************************)
EXTENDS Integers, FiniteSets

CONSTANTS
  Askers,           \* the agents that ask; "poll" asks without a session
  BtwProviders,     \* the providers of the target to look at
  BtwCases,         \* what may go wrong: subsets of {"crash", "retire", "late", "fault"}
  MaxQuestions,     \* bound: questions
  MaxBusy           \* bound: turns and interventions at the target

ASSUME SideQuestionAssumption ==
  /\ "poll" \notin Askers /\ "target" \notin Askers /\ {MaxQuestions, MaxBusy} \subseteq Nat

VARIABLES
  btwCase,      \* the provider of the target and what may go wrong
  questions,    \* btw_requests
  answerer,     \* the thread of each question: where it is and what it found
  screen,         \* what the target shows, and of which question
  paneHeld,     \* the question whose thread holds the input lock of the target, or 0
  typedFor,     \* how often /btw was typed for a question
  present,      \* the sessions that are live
  replies,      \* the questions whose answer is in the message queue, by its key
  cleaner,      \* the handler that retires a session
  busyTurns,    \* turns taken so far
  btwCrashed    \* the server has been restarted

btwVars == <<btwCase, questions, answerer, screen, paneHeld, typedFor, present, replies, cleaner, busyTurns, btwCrashed>>

Questions == 1..MaxQuestions
ActiveStatus == {"pending", "running"}
EndStatus == {"completed", "failed", "timed_out"}
Provider == btwCase.provider
May(what) == what \in btwCase.may

NoQuestion == [status |-> "none", asker |-> "poll", mark |-> "none", answer |-> 0, delivered |-> FALSE, lost |-> FALSE]
NoCleaner == [pc |-> "none", who |-> "nobody", left |-> {}]

NoAnswerer(q) == [pc |-> "none", found |-> 0]
\* A thread that watches the pane for the answer: its own, or one that recovers a question
Capturing == {"capture", "recapture"}
At(q, pc) == [answerer EXCEPT ![q].pc = pc]
\* What run_*_btw returns: a question whose answer it is, or a failure (0) or a time out (-1)
Found(q, what) == [answerer EXCEPT ![q] = [pc |-> "finish", found |-> what]]

\* The deadline passes: no answer is coming, or it comes too late
OutOfTime == screen.shows \in {"idle", "busy"} \/ (screen.shows = "thinking" /\ May("late"))

\* set_provider_correlation: only of a question that runs
Marked(q, mark) == [questions EXCEPT ![q].mark = IF questions[q].status = "running" THEN mark ELSE @]

\* BtwStore::create and the unique index: one active question per target
NoActive == \A q \in Questions : questions[q].status \notin ActiveStatus

\* create_btw_request
Ask(q, asker) ==
  /\ questions[q].status = "none" /\ \A p \in 1..(q - 1) : questions[p].status # "none"
  /\ "target" \in present /\ asker \in present \union {"poll"} /\ NoActive
  /\ questions' = [questions EXCEPT ![q] = [NoQuestion EXCEPT !.status = "pending", !.asker = asker]]
  /\ answerer' = At(q, "begin")
  /\ UNCHANGED <<btwCase, screen, paneHeld, typedFor, present, replies, cleaner, busyTurns, btwCrashed>>

\* run_btw_request: mark_running, whatever happened to the question meanwhile
BtwBegin(q) ==
  /\ answerer[q].pc = "begin"
  /\ questions' = [questions EXCEPT ![q].status = IF @ = "pending" THEN "running" ELSE @]
  /\ answerer' = At(q, "start")
  /\ UNCHANGED <<btwCase, screen, paneHeld, typedFor, present, replies, cleaner, busyTurns, btwCrashed>>

-----------------------------------------------------------------------------
(* Claude *)

\* run_claude_btw begins to wait
ClaudeWaits(q) ==
  /\ answerer[q].pc = "start" /\ Provider = "claude"
  /\ questions' = Marked(q, "waiting") /\ answerer' = At(q, "wait")
  /\ UNCHANGED <<btwCase, screen, paneHeld, typedFor, present, replies, cleaner, busyTurns, btwCrashed>>

\* A composer that takes input, seen again under the input lock: the question is about to be typed.
\* An answer on the screen, a pane that is gone or the deadline ends the wait
ClaudeLooks(q) ==
  /\ answerer[q].pc = "wait"
  /\ \/ /\ "target" \in present /\ screen.shows = "idle" /\ paneHeld = 0
        /\ paneHeld' = q /\ questions' = Marked(q, "submitting") /\ answerer' = At(q, "type")
     \/ /\ "target" \notin present \/ screen.shows = "answer"
        /\ answerer' = Found(q, 0) /\ UNCHANGED <<questions, paneHeld>>
     \/ /\ screen.shows # "idle" \/ paneHeld # 0
        /\ answerer' = Found(q, -1) /\ UNCHANGED <<questions, paneHeld>>
  /\ UNCHANGED <<btwCase, screen, typedFor, present, replies, cleaner, busyTurns, btwCrashed>>

\* send_input_while_locked
ClaudeTypes(q) ==
  /\ answerer[q].pc = "type"
  /\ IF "target" \in present
       THEN /\ typedFor' = [typedFor EXCEPT ![q] = @ + 1] /\ screen' = [shows |-> "thinking", of |-> q]
            /\ answerer' = At(q, "mark") /\ UNCHANGED paneHeld
       ELSE answerer' = Found(q, 0) /\ paneHeld' = 0 /\ UNCHANGED <<typedFor, screen>>
  /\ UNCHANGED <<btwCase, questions, present, replies, cleaner, busyTurns, btwCrashed>>

\* The question is marked as typed; the lock is kept
ClaudeMarks(q) ==
  /\ answerer[q].pc = "mark"
  /\ questions' = Marked(q, "submitted") /\ answerer' = At(q, "capture")
  /\ UNCHANGED <<btwCase, screen, paneHeld, typedFor, present, replies, cleaner, busyTurns, btwCrashed>>

\* capture_claude_btw_result: the answer is copied out and closed; it may not copy; when it does
\* not come in time the function leaves at once and closes nothing
ClaudeCaptures(q) ==
  /\ answerer[q].pc \in Capturing /\ Provider = "claude"
  /\ paneHeld' = 0
  /\ \/ /\ screen.shows = "answer" /\ "target" \in present
        /\ screen' = [shows |-> "idle", of |-> 0]
        /\ answerer' \in {Found(q, screen.of)} \union (IF May("fault") THEN {Found(q, 0)} ELSE {})
     \/ /\ "target" \notin present \/ OutOfTime
        /\ answerer' = Found(q, 0) /\ UNCHANGED screen
  /\ UNCHANGED <<btwCase, questions, typedFor, present, replies, cleaner, busyTurns, btwCrashed>>

-----------------------------------------------------------------------------
(* Stock Codex, and the Codex fork *)

\* run_stock_codex_btw types without looking
CodexTypes(q) ==
  /\ answerer[q].pc = "start" /\ Provider = "codex" /\ paneHeld = 0
  /\ questions' = Marked(q, "tmux")
  /\ IF "target" \in present
       THEN /\ paneHeld' = q /\ typedFor' = [typedFor EXCEPT ![q] = @ + 1]
            /\ screen' = [shows |-> "thinking", of |-> q] /\ answerer' = At(q, "capture")
       ELSE answerer' = Found(q, 0) /\ UNCHANGED <<paneHeld, typedFor, screen>>
  /\ UNCHANGED <<btwCase, present, replies, cleaner, busyTurns, btwCrashed>>

\* capture_stock_codex_btw_result: extract_stock_codex_answer finds the question above the answer or
\* returns nothing, a recovery that runs out of time has failed, and C-c is sent in any case
CodexCaptures(q) ==
  /\ answerer[q].pc \in Capturing /\ Provider = "codex"
  /\ paneHeld' = 0
  /\ \/ /\ screen.shows = "answer" /\ "target" \in present
        /\ answerer' = Found(q, IF screen.of = q THEN q ELSE 0)
     \/ "target" \notin present /\ answerer' = Found(q, 0)
     \/ OutOfTime /\ answerer' = Found(q, IF answerer[q].pc = "capture" THEN -1 ELSE 0)
  /\ screen' = [shows |-> "idle", of |-> 0]
  /\ UNCHANGED <<btwCase, questions, typedFor, present, replies, cleaner, busyTurns, btwCrashed>>

\* submit_codex_fork_btw: the fork takes a question once, by its id
ForkSubmits(q) ==
  /\ answerer[q].pc = "start" /\ Provider = "codex-fork"
  /\ IF "target" \in present
       THEN typedFor' = [typedFor EXCEPT ![q] = 1] /\ answerer' = At(q, "events") /\ questions' = Marked(q, "stream")
       ELSE answerer' = Found(q, 0) /\ UNCHANGED <<typedFor, questions>>
  /\ UNCHANGED <<btwCase, screen, paneHeld, present, replies, cleaner, busyTurns, btwCrashed>>

\* run_codex_fork_btw reads the event of its question, a failure, or runs out of time
ForkEvents(q) ==
  /\ answerer[q].pc = "events"
  /\ answerer' \in {Found(q, what) : what \in {q, 0} \union (IF May("late") THEN {-1} ELSE {})}
  /\ UNCHANGED <<btwCase, questions, screen, paneHeld, typedFor, present, replies, cleaner, busyTurns, btwCrashed>>

-----------------------------------------------------------------------------
(* The answer *)

\* finish_btw_request: complete, fail or time_out, of a question that is still active
BtwFinish(q) ==
  /\ answerer[q].pc = "finish"
  /\ LET found == answerer[q].found
         status == IF found > 0 THEN "completed" ELSE IF found = 0 THEN "failed" ELSE "timed_out"
     IN questions' = IF questions[q].status \in ActiveStatus
                       THEN [questions EXCEPT ![q].status = status, ![q].answer = IF found > 0 THEN found ELSE 0]
                       ELSE questions
  /\ answerer' = At(q, "deliver")
  /\ UNCHANGED <<btwCase, screen, paneHeld, typedFor, present, replies, cleaner, busyTurns, btwCrashed>>

Undelivered(q) == questions[q].asker # "poll" /\ ~questions[q].delivered /\ ~questions[q].lost

\* deliver_btw_response looks for whom the answer is
BtwDeliver(q) ==
  /\ answerer[q].pc = "deliver"
  /\ \/ ~Undelivered(q) /\ answerer' = [answerer EXCEPT ![q] = NoAnswerer(q)] /\ UNCHANGED <<questions, replies>>
     \/ /\ Undelivered(q) /\ questions[q].asker \notin present
        /\ questions' = [questions EXCEPT ![q].lost = TRUE]
        /\ answerer' = [answerer EXCEPT ![q] = NoAnswerer(q)] /\ UNCHANGED replies
     \/ /\ Undelivered(q) /\ questions[q].asker \in present
        /\ replies' = replies \union {q} /\ answerer' = At(q, "stamp") /\ UNCHANGED questions
  /\ UNCHANGED <<btwCase, screen, paneHeld, typedFor, present, cleaner, busyTurns, btwCrashed>>

\* mark_response_delivered, after the message is in the queue; draining it is the queue's part
BtwStamp(q) ==
  /\ answerer[q].pc = "stamp"
  /\ questions' = [questions EXCEPT ![q].delivered = TRUE]
  /\ answerer' = [answerer EXCEPT ![q] = NoAnswerer(q)]
  /\ UNCHANGED <<btwCase, screen, paneHeld, typedFor, present, replies, cleaner, busyTurns, btwCrashed>>

-----------------------------------------------------------------------------
(* The target, retirement, restarts *)

\* The provider answers on the screen of the target
PaneAnswers ==
  /\ screen.shows = "thinking" /\ screen' = [screen EXCEPT !.shows = "answer"]
  /\ UNCHANGED <<btwCase, questions, answerer, paneHeld, typedFor, present, replies, cleaner, busyTurns, btwCrashed>>

\* Somebody at the terminal of the target closes the answer before it is read
PaneCloses ==
  /\ screen.shows = "answer" /\ busyTurns < MaxBusy /\ busyTurns' = busyTurns + 1
  /\ screen' = [shows |-> "idle", of |-> 0]
  /\ UNCHANGED <<btwCase, questions, answerer, paneHeld, typedFor, present, replies, cleaner, btwCrashed>>

\* The main conversation of the target takes a turn, and ends it
PaneTurns ==
  /\ \/ /\ screen.shows = "idle" /\ busyTurns < MaxBusy
        /\ busyTurns' = busyTurns + 1 /\ screen' = [screen EXCEPT !.shows = "busy"]
     \/ screen.shows = "busy" /\ screen' = [screen EXCEPT !.shows = "idle"] /\ UNCHANGED busyTurns
  /\ UNCHANGED <<btwCase, questions, answerer, paneHeld, typedFor, present, replies, cleaner, btwCrashed>>

Concerns(q, who) == questions[q].status \in ActiveStatus /\ (who = "target" \/ questions[q].asker = who)

\* A session is retired, and teardown_btw_requests_for_session follows
RetireSession(who) ==
  /\ May("retire") /\ cleaner.pc = "none" /\ present = Askers \union {"target"}
  /\ present' = present \ {who}
  /\ cleaner' = [pc |-> "fail", who |-> who, left |-> {}]
  /\ UNCHANGED <<btwCase, questions, answerer, screen, paneHeld, typedFor, replies, busyTurns, btwCrashed>>

\* fail_for_session, in one transaction
CleanFail ==
  /\ cleaner.pc = "fail"
  /\ LET hit == {q \in Questions : Concerns(q, cleaner.who)} IN
       /\ questions' = [q \in Questions |-> IF q \in hit
                          THEN [questions[q] EXCEPT !.status = "failed", !.lost = @ \/ questions[q].asker = cleaner.who]
                          ELSE questions[q]]
       /\ cleaner' = IF hit = {} THEN NoCleaner ELSE [cleaner EXCEPT !.pc = "key", !.left = hit]
  /\ UNCHANGED <<btwCase, answerer, screen, paneHeld, typedFor, present, replies, busyTurns, btwCrashed>>

\* The target gets the key that leaves /btw once its input lock is free, then the asker is told
CleanKey ==
  /\ cleaner.pc = "key" /\ (paneHeld = 0 \/ Provider = "codex-fork")
  /\ screen' = IF "target" \in present /\ Provider # "codex-fork" /\ screen.shows \in {"thinking", "answer"}
               THEN [shows |-> "idle", of |-> 0] ELSE screen
  /\ LET told == {q \in cleaner.left : Undelivered(q)} IN
       /\ replies' = replies \union {q \in told : questions[q].asker \in present}
       /\ questions' = [q \in Questions |-> IF q \notin told THEN questions[q]
                          ELSE IF questions[q].asker \in present THEN [questions[q] EXCEPT !.delivered = TRUE]
                          ELSE [questions[q] EXCEPT !.lost = TRUE]]
  /\ cleaner' = NoCleaner
  /\ UNCHANGED <<btwCase, answerer, paneHeld, typedFor, present, busyTurns, btwCrashed>>

\* Mutant: an ended question needs nothing more
ToRecoverActive(q) == questions[q].status \in ActiveStatus

\* list_recoverable
ToRecover(q) == questions[q].status \in ActiveStatus \/ (questions[q].status \in EndStatus /\ Undelivered(q))

\* The server is restarted: the threads and the lock are gone, the pane is not
BtwCrash ==
  /\ May("crash") /\ ~btwCrashed /\ btwCrashed' = TRUE
  /\ answerer' = [q \in Questions |-> [pc |-> IF ToRecover(q) THEN "recover" ELSE "none", found |-> 0]]
  /\ paneHeld' = 0 /\ cleaner' = NoCleaner
  /\ UNCHANGED <<btwCase, questions, screen, typedFor, present, replies, busyTurns>>

\* Mutant: only a question known to be typed is left alone
SafeUnlessSubmitted(q) == questions[q].status = "pending" \/ questions[q].mark # "submitted"

\* claude_btw_is_safe_to_retry_after_restart
SafeToRetry(q) == questions[q].status = "pending" \/ questions[q].mark = "waiting"

\* An answer to the question may be on the screen
SideVisible == "target" \in present /\ (screen.shows = "answer" \/ (Provider = "codex" /\ screen.shows = "thinking"))

\* Where recover_btw_requests goes on with a question
RecoverTo(q) ==
  CASE questions[q].status \notin ActiveStatus -> "deliver"
    [] questions[q].status \in ActiveStatus /\ Provider = "codex-fork" -> "begin"
    [] questions[q].status \in ActiveStatus /\ Provider # "codex-fork" /\ SideVisible -> "recapture"
    [] questions[q].status \in ActiveStatus /\ Provider = "claude" /\ ~SideVisible /\ SafeToRetry(q) -> "begin"
    [] OTHER -> "finish"

\* recover_btw_requests, in a thread per question: a question that cannot be settled has failed,
\* and stock Codex is sent a C-c
BtwRecover(q) ==
  /\ answerer[q].pc = "recover" /\ (RecoverTo(q) = "recapture" => paneHeld = 0)
  /\ paneHeld' = IF RecoverTo(q) = "recapture" THEN q ELSE paneHeld
  /\ screen' = IF RecoverTo(q) = "finish" /\ Provider = "codex" /\ screen.shows \in {"thinking", "answer"}
               THEN [shows |-> "idle", of |-> 0] ELSE screen
  /\ answerer' = At(q, RecoverTo(q))
  /\ UNCHANGED <<btwCase, questions, typedFor, present, replies, cleaner, busyTurns, btwCrashed>>

-----------------------------------------------------------------------------
BtwInit ==
  /\ btwCase \in [provider : BtwProviders, may : BtwCases]
  /\ questions = [q \in Questions |-> NoQuestion] /\ answerer = [q \in Questions |-> NoAnswerer(q)]
  /\ screen = [shows |-> "idle", of |-> 0] /\ paneHeld = 0 /\ typedFor = [q \in Questions |-> 0]
  /\ present = Askers \union {"target"} /\ replies = {} /\ cleaner = NoCleaner /\ busyTurns = 0 /\ btwCrashed = FALSE

\* A step of the thread of a question
BtwStep(q) ==
  \/ BtwBegin(q)
  \/ ClaudeWaits(q) \/ ClaudeLooks(q) \/ ClaudeTypes(q) \/ ClaudeMarks(q) \/ ClaudeCaptures(q)
  \/ CodexTypes(q) \/ CodexCaptures(q) \/ ForkSubmits(q) \/ ForkEvents(q)
  \/ BtwFinish(q) \/ BtwDeliver(q) \/ BtwStamp(q) \/ BtwRecover(q)

BtwNext ==
  \/ \E q \in Questions : BtwStep(q) \/ \E asker \in Askers \union {"poll"} : Ask(q, asker)
  \/ PaneAnswers \/ PaneCloses \/ PaneTurns \/ CleanFail \/ CleanKey \/ BtwCrash
  \/ \E who \in Askers \union {"target"} : RetireSession(who)

\* The threads and the retirement go on, the provider answers what it was asked and turns end
BtwFairness ==
  /\ \A q \in Questions : WF_btwVars(BtwStep(q))
  /\ WF_btwVars(PaneAnswers) /\ WF_btwVars(CleanFail \/ CleanKey)

BtwSpec == BtwInit /\ [][BtwNext]_btwVars /\ BtwFairness

-----------------------------------------------------------------------------
(* Properties *)

\* The types of the side questions' state
BtwTypeOK ==
  /\ \A q \in Questions :
       /\ questions[q].status \in {"none"} \union ActiveStatus \union EndStatus
       /\ questions[q].mark \in {"none", "waiting", "submitting", "submitted", "tmux", "stream"}
       /\ answerer[q].found \in -1..MaxQuestions
  /\ screen.shows \in {"idle", "busy", "thinking", "answer"} /\ paneHeld \in 0..MaxQuestions
  /\ replies \subseteq Questions /\ busyTurns \in 0..MaxBusy

\* A question is typed into the target's conversation at most once, however a restart falls
\* between the marks of run_claude_btw and the typing: a second /btw could become an ordinary
\* turn of the main thread (the comment in recover_btw_requests)
QuestionTypedOnce == \A q \in Questions : typedFor[q] <= 1

\* The answer recorded for a question is the answer to that question, also when the thread of an
\* earlier question, failed meanwhile by a retirement or out of time, is still at the pane.  Only
\* recover_claude_btw takes what the pane shows: after a restart a question put to Claude can be given
\* the answer that an earlier question, over without one, left open there
AnswerIsOwn ==
  \A q \in Questions : LET from == questions[q].answer IN
    \/ from \in {0, q}
    \/ Provider = "claude" /\ btwCrashed /\ from \in 1..(q - 1) /\ questions[from].status \in {"failed", "timed_out"}

Asked(q) == questions[q].status # "none"
Answered(q) ==
  /\ questions[q].status \in EndStatus
  /\ questions[q].asker = "poll" \/ questions[q].delivered \/ questions[q].lost

\* Every question of an agent ends, and its asker is told or is known to be gone, through
\* retirements, late providers and a restart
QuestionAnswered == \A q \in Questions : Asked(q) ~> Answered(q)

\* A question is put to the agent once and gets its own answer or none, but for what a restart finds
\* open at a Claude
BtwIsSafe == QuestionTypedOnce /\ AnswerIsOwn
=============================================================================
