------------------------------ MODULE Activity ------------------------------
(***************************************************************************)
(* The activity a session is shown with (http.rs live_activity_state,      *)
(* sessions.rs projected_activity_state). Nothing says it outright: it is  *)
(* derived from lifecycle hooks that can be lost, from what the agent last *)
(* drew on its terminal, from the tail of an event stream that several     *)
(* threads write, and from how long ago something happened. The state      *)
(* holds what the agent really does next to what the server has seen of it.*)
(* Hooks that arrive late are the subject of Handoff; here one arrives or  *)
(* is lost. The agents, their terminals and streams are external.          *)
(***************************************************************************)
EXTENDS Integers, Sequences, SequencesExt, FiniteSetsExt

CONSTANTS
  ActCases,      \* {"claude", "remote", "fork", "undated"}: the seat of a behaviour
  RecentFor,     \* how long a running session counts as working by its last activity (30 s)
  FreshFor,      \* how long a hook is trusted (180 s)
  FreshAwayFor,  \* and on another node, whose terminal cannot be read (900 s)
  WindowLines,   \* the terminal lines that are looked at (30)
  TailEvents,    \* the events the tail of the stream holds (256 KB)
  MaxForkEvents, \* bound: events of the stream
  MaxActTurns    \* bound: turns of a Claude agent

ASSUME ActivityAssumption ==
  /\ ActCases \subseteq {"claude", "remote", "fork", "undated"}
  /\ {RecentFor, FreshFor, FreshAwayFor, MaxForkEvents, MaxActTurns} \subseteq Nat
  /\ RecentFor < FreshFor /\ FreshFor < FreshAwayFor
  /\ {WindowLines, TailEvents} \subseteq Nat \ {0}

VARIABLES
  actCase,     \* the kind of seat
  actTurn,     \* what the agent does: "none", "running", "over", "interrupted", "gone"
  actTurns,    \* turns begun
  shells,      \* background shells are running
  lineShells,  \* the newest completion line speaks of shells
  paneLines,   \* the terminal, without the footer and the lines above the window
  actStatus,   \* the session's status
  hookAge,     \* the time since activity_hook_at
  startWired,  \* activity_turn_start_hook_at is set
  touchAge,    \* the time since last_activity
  taskMark,    \* agent_task_completed_at: 0, or the number of the next event
  forkEvents,  \* the event stream of a codex-fork
  forkSeen     \* the events its monitor has applied

actVars == <<actCase, actTurn, actTurns, shells, lineShells, paneLines, actStatus, hookAge, startWired,
             touchAge, taskMark, forkEvents, forkSeen>>

IsFork == actCase \in {"fork", "undated"}
Unhooked == 99
RootKinds == {"start", "delta", "message", "complete", "error", "retry", "interrupted", "shutdown", "noise"}
ForkEvent == [kind : RootKinds \union {"thread"}, root : BOOLEAN]

-----------------------------------------------------------------------------
(* Reading a Claude terminal *)

\* claude_line_indicates_completed: glyph, verb, "for", a duration
IndicatesCompleted(line) == line \in {"done", "doneShells"}

\* claude_line_indicates_working: a spinner with its ellipsis
IndicatesWorking(line) == line = "spinner"

\* claude_line_indicates_background_work: a count of shells or monitors that is not 0
IndicatesBackground(line) == line = "doneShells"

PaneWindow == LET n == Len(paneLines) IN
  SubSeq(paneLines, Max({1, n - (WindowLines - 2)}), n)

\* Background work is read at the newest status line and below it
BackgroundFrom(lines, newest) == Max({1, newest})..Len(lines)

\* claude_pane_observation: the newest status line decides; the footer below it is live
PaneObservation ==
  LET lines  == PaneWindow
      status == {i \in DOMAIN lines : IndicatesCompleted(lines[i]) \/ IndicatesWorking(lines[i])}
      newest == IF status = {} THEN 0 ELSE Max(status)
  IN [turn |-> IF newest = 0 THEN "none" ELSE IF lines[newest] = "spinner" THEN "working" ELSE "completed",
      background |-> shells \/ \E i \in BackgroundFrom(lines, newest) : IndicatesBackground(lines[i])]

\* claude_live_activity_from_pane
FromPane ==
  LET o == PaneObservation IN
  CASE o.turn = "working" -> "working"
    [] o.turn # "working" /\ o.background -> "waiting"
    [] OTHER -> IF o.turn = "completed" THEN "idle" ELSE "none"

-----------------------------------------------------------------------------
(* Hooks *)

\* timestamp_is_within
Within(age, window) == age < window

HookFresh == Within(hookAge, IF actCase = "remote" THEN FreshAwayFor ELSE FreshFor)

\* Mutant: a Stop is conclusive for ever
GateForever ==
  CASE hookAge = Unhooked -> "untracked"
    [] actStatus = "idle" /\ startWired /\ hookAge # Unhooked -> "stopped"
    [] actStatus = "running" /\ HookFresh -> "running"
    [] OTHER -> "stale"

\* claude_hook_gate
HookGate ==
  CASE hookAge = Unhooked -> "untracked"
    [] actStatus = "idle" /\ startWired /\ HookFresh -> "stopped"
    [] actStatus = "running" /\ HookFresh -> "running"
    [] OTHER -> "stale"

\* claude_live_activity_state: "none" leaves the answer to the projection
ClaudeLive ==
  CASE HookGate = "running" -> "working"
    [] HookGate # "running" /\ actCase = "remote" -> "none"
    [] HookGate = "stopped" /\ actCase # "remote" ->
         IF PaneObservation.background THEN "waiting" ELSE "none"
    [] OTHER -> FromPane

-----------------------------------------------------------------------------
(* Reading the event stream of a codex-fork *)

\* codex_fork_status_for_event
StatusForEvent(e) ==
  CASE e.kind \in {"start", "delta", "retry", "interrupted"} -> "running"
    [] e.kind \in {"message", "complete", "error"} -> "idle"
    [] e.kind = "shutdown" -> "stopped"
    [] OTHER -> "none"

\* codex_fork_event_starts_turn
StartsTurn(e) == e.kind = "start"

\* codex_fork_event_matches_root_thread: before the root is known every event matches
MatchesRoot(e) == e.root \/ forkSeen = 0

\* codex_fork_activity_for_status
ActivityFor(status) == IF status = "running" THEN "working" ELSE status

NoSignal == [activity |-> "none", at |-> 0, latest |-> FALSE]

\* The loop of codex_fork_event_stream_signal_from_path: only the start of a turn ends idleness
NextSignal(s, i) ==
  LET e == forkEvents[i]
      a == ActivityFor(StatusForEvent(e))
  IN IF \/ a = "none" \/ ~MatchesRoot(e)
        \/ (a = "working" /\ s.activity \in {"idle", "stopped"} /\ ~StartsTurn(e))
     THEN [s EXCEPT !.latest = FALSE]
     ELSE [activity |-> a, at |-> i, latest |-> TRUE]

TailStart == Max({1, Len(forkEvents) - TailEvents + 1})

\* codex_fork_event_stream_activity: what the monitor stored stands for the events before the tail
StreamSignal ==
  LET seed == IF actStatus \in {"idle", "stopped"}
              THEN [NoSignal EXCEPT !.activity = actStatus] ELSE NoSignal
  IN FoldLeft(NextSignal, seed, [i \in 1..(Len(forkEvents) - TailStart + 1) |-> TailStart + i - 1])

\* codex_fork_signal_is_newer_than_task_complete: an undated one only when nothing follows it
NewerThanTask(s) ==
  \/ taskMark = 0
  \/ IF actCase = "fork" /\ s.at > 0 THEN s.at >= taskMark ELSE s.latest

\* codex_fork_pane_title_indicates_working
TitleSpins == actTurn = "running"

\* codex_fork_live_activity_from_signals and its caller
ForkLive ==
  LET s        == StreamSignal
      activity == IF NewerThanTask(s) THEN s.activity ELSE "none"
  IN IF activity \in {"working", "stopped"} \/ taskMark # 0 \/ ~TitleSpins THEN activity ELSE "working"

-----------------------------------------------------------------------------
(* What is shown *)

\* projected_activity_state
ProjectedActivity ==
  CASE actStatus = "stopped" -> "stopped"
    [] actStatus = "running" /\ taskMark = 0 /\ Within(touchAge, RecentFor) -> "working"
    [] OTHER -> "idle"

\* live_activity_state
LiveActivity == IF actStatus = "stopped" THEN "none" ELSE IF IsFork THEN ForkLive ELSE ClaudeLive

\* session_response_with_live_activity and the client and child responses
Shown == IF LiveActivity = "none" THEN ProjectedActivity ELSE LiveActivity

-----------------------------------------------------------------------------
ActInit ==
  /\ actCase \in ActCases
  /\ actTurn = "none" /\ actTurns = 0
  /\ shells = FALSE /\ lineShells = FALSE
  /\ paneLines = <<>>
  /\ actStatus = "running"
  /\ hookAge = Unhooked
  /\ startWired = FALSE
  /\ touchAge = 0
  /\ taskMark = 0
  /\ forkEvents = IF IsFork THEN <<[kind |-> "thread", root |-> TRUE]>> ELSE <<>>
  /\ forkSeen = 0

ForkVars == <<forkEvents, forkSeen>>
ClaudeVars == <<shells, lineShells, paneLines, hookAge, startWired>>

KeepLines(lines) == LET n == Len(lines) IN SubSeq(lines, Max({1, n - WindowLines + 1}), n)

\* apply_claude_user_prompt_submit_hook, or nothing when the hook was lost
SubmitHook(arrives, typed) ==
  IF arrives
  THEN actStatus' = "running" /\ hookAge' = 0 /\ startWired' = TRUE /\ touchAge' = 0 /\ taskMark' = 0
  ELSE /\ touchAge' = (IF typed THEN 0 ELSE touchAge)
       /\ taskMark' = (IF typed THEN 0 ELSE taskMark)
       /\ UNCHANGED <<actStatus, hookAge, startWired>>

\* A prompt, typed by the server (mark_session_followup_activity) or by a person
ClaudeTurnStarts(typed, arrives) ==
  /\ ~IsFork /\ actTurn # "running" /\ actTurns < MaxActTurns
  /\ actTurn' = "running" /\ actTurns' = actTurns + 1
  /\ paneLines' = KeepLines(Append(paneLines, "spinner"))
  /\ SubmitHook(arrives, typed)
  /\ UNCHANGED <<actCase, shells, lineShells>> /\ UNCHANGED ForkVars

\* apply_claude_pre_tool_use_hook
ToolUse ==
  /\ ~IsFork /\ actTurn = "running"
  /\ actStatus' = "running" /\ hookAge' = 0 /\ touchAge' = 0 /\ taskMark' = 0
  /\ UNCHANGED <<actCase, actTurn, actTurns, shells, lineShells, paneLines, startWired>> /\ UNCHANGED ForkVars

\* The agent writes; the spinner stays the last line
Prints ==
  /\ ~IsFork
  /\ paneLines' = KeepLines(IF actTurn = "running" THEN Front(paneLines) \o <<"text", "spinner">>
                            ELSE Append(paneLines, "text"))
  /\ UNCHANGED <<actCase, actTurn, actTurns, shells, lineShells, actStatus, hookAge, startWired, touchAge, taskMark>>
  /\ UNCHANGED ForkVars

\* A background shell starts in a turn and ends at any time
Shell ==
  /\ ~IsFork /\ (~shells => actTurn = "running")
  /\ shells' = ~shells
  /\ UNCHANGED <<actCase, actTurn, actTurns, lineShells, paneLines, actStatus, hookAge, startWired, touchAge, taskMark>>
  /\ UNCHANGED ForkVars

\* The turn of apply_claude_stop_hook
ClaudeTurnEnds(arrives) ==
  /\ ~IsFork /\ actTurn = "running"
  /\ actTurn' = "over"
  /\ lineShells' = shells
  /\ paneLines' = Append(Front(paneLines), IF shells THEN "doneShells" ELSE "done")
  /\ IF arrives THEN actStatus' = "idle" /\ hookAge' = 0 /\ touchAge' = 0
     ELSE UNCHANGED <<actStatus, hookAge, touchAge>>
  /\ UNCHANGED <<actCase, actTurns, shells, startWired, taskMark>> /\ UNCHANGED ForkVars

\* Escape: no Stop hook and no completion line
Escape ==
  /\ ~IsFork /\ actTurn = "running"
  /\ actTurn' = "over"
  /\ paneLines' = Front(paneLines)
  /\ UNCHANGED <<actCase, actTurns, shells, lineShells, actStatus, hookAge, startWired, touchAge, taskMark>>
  /\ UNCHANGED ForkVars

\* The task is reported complete, from within a turn
ReportTask ==
  /\ actTurn = "running"
  /\ taskMark' = Len(forkEvents) + 1
  /\ UNCHANGED <<actCase, actTurn, actTurns, actStatus, touchAge>> /\ UNCHANGED ClaudeVars /\ UNCHANGED ForkVars

Elapse ==
  /\ touchAge' = Min({touchAge + 1, FreshAwayFor})
  /\ hookAge' = IF hookAge = Unhooked THEN Unhooked ELSE Min({hookAge + 1, FreshAwayFor})
  /\ UNCHANGED <<actCase, actTurn, actTurns, shells, lineShells, paneLines, actStatus, startWired, taskMark>>
  /\ UNCHANGED ForkVars

TurnAfter(kind) ==
  CASE kind = "start" -> "running"
    [] kind \in {"complete", "error"} -> "over"
    [] kind = "interrupted" -> "interrupted"
    [] kind = "shutdown" -> "gone"
    [] OTHER -> actTurn

\* The root thread: items of a turn may be reported after it
RootEvent(kind) ==
  /\ IsFork /\ Len(forkEvents) < MaxForkEvents /\ actTurn # "gone"
  /\ kind \in {"delta", "noise"} => actTurn # "none"
  /\ kind \in {"message", "complete", "error", "retry", "interrupted"} => actTurn = "running"
  /\ kind = "start" => actTurn # "running"
  /\ actTurn' = TurnAfter(kind)
  /\ forkEvents' = Append(forkEvents, [kind |-> kind, root |-> TRUE])
  /\ UNCHANGED <<actCase, actTurns, actStatus, touchAge, taskMark, forkSeen>> /\ UNCHANGED ClaudeVars

\* A thread the root started writes to the same stream
ChildEvent(kind) ==
  /\ IsFork /\ Len(forkEvents) < MaxForkEvents /\ actTurn \notin {"none", "gone"}
  /\ forkEvents' = Append(forkEvents, [kind |-> kind, root |-> FALSE])
  /\ UNCHANGED <<actCase, actTurn, actTurns, actStatus, touchAge, taskMark, forkSeen>> /\ UNCHANGED ClaudeVars

\* The server types into the fork
ForkTyped ==
  /\ IsFork /\ actTurn # "gone" /\ taskMark # 0
  /\ taskMark' = 0 /\ touchAge' = 0
  /\ UNCHANGED <<actCase, actTurn, actTurns, actStatus>> /\ UNCHANGED ClaudeVars /\ UNCHANGED ForkVars

\* The status part of apply_codex_fork_event_line
MonitorApplies ==
  /\ IsFork /\ forkSeen < Len(forkEvents)
  /\ LET e    == forkEvents[forkSeen + 1]
         next == StatusForEvent(e)
         take == /\ next # "none" /\ e.root
                 /\ actStatus = "idle" /\ next = "running" => StartsTurn(e)
     IN /\ actStatus' = IF take /\ actStatus # "stopped" THEN next ELSE actStatus
        /\ touchAge' = IF take /\ actStatus # "stopped" THEN 0 ELSE touchAge
  /\ forkSeen' = forkSeen + 1
  /\ UNCHANGED <<actCase, actTurn, actTurns, taskMark, forkEvents>> /\ UNCHANGED ClaudeVars

ActNext ==
  \/ \E typed, arrives \in BOOLEAN : ClaudeTurnStarts(typed, arrives)
  \/ \E arrives \in BOOLEAN : ClaudeTurnEnds(arrives)
  \/ ToolUse \/ Prints \/ Shell \/ Escape \/ ReportTask \/ Elapse
  \/ \E kind \in RootKinds : RootEvent(kind)
  \/ \E kind \in {"start", "delta", "complete"} : ChildEvent(kind)
  \/ ForkTyped \/ MonitorApplies

ActSpec == ActInit /\ [][ActNext]_actVars

-----------------------------------------------------------------------------
ActTypeOK ==
  /\ actCase \in ActCases
  /\ actTurn \in {"none", "running", "over", "interrupted", "gone"}
  /\ actTurns \in 0..MaxActTurns
  /\ {shells, lineShells, startWired} \subseteq BOOLEAN
  /\ \A i \in DOMAIN paneLines : paneLines[i] \in {"text", "spinner", "done", "doneShells"}
  /\ Len(paneLines) <= WindowLines
  /\ actStatus \in {"running", "idle", "stopped"}
  /\ hookAge \in (0..FreshAwayFor) \union {Unhooked}
  /\ touchAge \in 0..FreshAwayFor
  /\ taskMark \in 0..(MaxForkEvents + 1)
  /\ \A i \in DOMAIN forkEvents : forkEvents[i] \in ForkEvent
  /\ Len(forkEvents) <= Max({1, MaxForkEvents}) /\ forkSeen \in 0..Len(forkEvents)

HookIsRight == actStatus = "running" <=> actTurn = "running"
Trusted == HookFresh /\ (actStatus = "running" \/ startWired)
Settled == LiveActivity # "none" \/ ~Within(touchAge, RecentFor)

\* A Claude session is shown working exactly when its agent works, and waiting while shells it left
\* behind run: a hook that was lost misleads only as long as it would have been trusted, and the
\* shells an older completion line speaks of are not counted. On another node, where the terminal
\* cannot be read, a session that does nothing is not shown working once the hooks are stale.
ClaudeShown ==
  ~IsFork /\ Settled /\ (Trusted => HookIsRight) =>
    /\ Shown = "working" => actTurn = "running"
    /\ actCase = "claude" /\ actTurn = "running" => Shown = "working"
    /\ actCase = "claude" /\ actTurn # "running" =>
         (shells => Shown = "waiting") /\ (Shown = "waiting" => shells \/ lineShells)

TurnEndKnown ==
  \/ \E i \in TailStart..Len(forkEvents) : forkEvents[i].root /\ forkEvents[i].kind \in {"complete", "error"}
  \/ actStatus = "idle"

\* A codex-fork is not shown working after its root thread's turn ended, whatever items of that turn
\* and turns of other threads the stream reports afterwards; it is shown working during a turn unless
\* its task was reported complete, and stopped once it shut down.
ForkShown ==
  IsFork /\ forkSeen > 0 /\ Settled =>
    /\ actTurn = "over" /\ TurnEndKnown => Shown # "working"
    /\ actTurn = "running" /\ taskMark = 0 => Shown = "working"
    /\ actTurn = "gone" => Shown = "stopped"

\* The activity a session is shown with is what its agent does, for every provider.
ShownAsItIs == ClaudeShown /\ ForkShown
=============================================================================
