---------------------------- MODULE ForkHandoff -----------------------------
(***************************************************************************)
(* The handoff of a codex-fork seat (sessions.rs, runtime.rs): a request   *)
(* is written down with the length of the seat's event stream, and a       *)
(* monitor thread waits for the end of the agent's turn, starts a new      *)
(* conversation with the prompt, and takes the request back.  Requests,    *)
(* retirement, restore and the server's death come between its steps.      *)
(***************************************************************************)
EXTENDS Integers, Sequences, FiniteSets

CONSTANTS
  Notes,         \* the handoff files
  MaxEvents,     \* bound: events of the stream
  MaxAsked,      \* bound: requests
  WatchFaults,   \* bound: failures of a step
  ForkCrashes,   \* bound: server crashes
  AskWhileEnding \* requests may come while a monitor is ending

ASSUME ForkHandoffAssumption ==
  /\ {MaxEvents, MaxAsked, WatchFaults, ForkCrashes} \subseteq Nat /\ AskWhileEnding \in BOOLEAN
  /\ "none" \notin Notes

VARIABLES
  asked,       \* pending_handoff_path and pending_handoff_event_offset
  ended,       \* the seat is stopped
  forkStream,      \* the event stream: turns that ended, conversations that started
  watching,    \* codex_fork_handoff_monitors holds the seat
  forkWatch,       \* the monitor thread, or what is left of it
  prompted,    \* the file of the prompt of the running conversation
  requests,    \* the files of the requests so far
  forkFaults,  \* the failures so far
  forkFalls    \* the crashes so far

forkVars == <<asked, ended, forkStream, watching, forkWatch, prompted, requests, forkFaults, forkFalls>>

NoNote == "none"
NothingAsked == [path |-> NoNote, offset |-> 0]
NoWatch == [pc |-> "none", offset |-> 0, turns |-> 0, path |-> NoNote, since |-> 0, ok |-> FALSE]
Up == forkWatch.pc # "down"

Fault1 == forkFaults < WatchFaults /\ forkFaults' = forkFaults + 1

-----------------------------------------------------------------------------
(* Requests *)

\* start_codex_fork_handoff_monitor: one monitor at a time
StartMonitor(offset) ==
  IF watching THEN UNCHANGED <<watching, forkWatch>>
  ELSE watching' = TRUE /\ forkWatch' = [NoWatch EXCEPT !.pc = "check", !.offset = offset]

\* schedule_handoff of a codex-fork seat
AskHandoff(p) ==
  /\ Up /\ ~ended /\ Len(requests) < MaxAsked
  /\ AskWhileEnding \/ forkWatch.pc # "ending"
  /\ requests' = Append(requests, p)
  /\ asked' = [path |-> p, offset |-> Len(forkStream)]
  /\ StartMonitor(Len(forkStream))
  /\ UNCHANGED <<ended, forkStream, prompted, forkFaults, forkFalls>>

\* The agent ends a turn
ForkTurnEnds ==
  /\ ~ended /\ Len(forkStream) < MaxEvents
  /\ forkStream' = Append(forkStream, "turn")
  /\ UNCHANGED <<asked, ended, watching, forkWatch, prompted, requests, forkFaults, forkFalls>>

-----------------------------------------------------------------------------
(* The monitor *)

\* codex_fork_handoff_is_pending; a registry that cannot be read ends the monitor too
CheckPending ==
  /\ forkWatch.pc = "check"
  /\ \/ forkWatch' = [forkWatch EXCEPT !.pc = IF asked = NothingAsked THEN "ending" ELSE "read"]
        /\ UNCHANGED forkFaults
     \/ Fault1 /\ forkWatch' = [forkWatch EXCEPT !.pc = "failing"]
  /\ UNCHANGED <<asked, ended, forkStream, watching, prompted, requests, forkFalls>>

\* split_complete_event_lines and codex_fork_event_is_turn_complete
TurnsIn(from) == Cardinality({i \in (from + 1)..Len(forkStream) : forkStream[i] = "turn"})

\* monitor_codex_fork_handoff: every turn that ended since the last look is a try
ReadStream ==
  /\ forkWatch.pc = "read"
  /\ LET turns == TurnsIn(forkWatch.offset) IN
       forkWatch' = [forkWatch EXCEPT !.pc = IF turns = 0 THEN "check" ELSE "begin", !.turns = turns,
                              !.offset = Len(forkStream)]
  /\ forkWatch' # forkWatch
  /\ UNCHANGED <<asked, ended, forkStream, watching, prompted, requests, forkFaults, forkFalls>>

\* After a try that did not take the request back
NextTry(w) == [w EXCEPT !.turns = w.turns - 1, !.pc = IF w.turns > 1 THEN "begin" ELSE "check",
                        !.path = NoNote, !.ok = FALSE]

\* execute_pending_codex_fork_handoff reads the request and the length of the stream
BeginHandoff ==
  /\ forkWatch.pc = "begin"
  /\ forkWatch' = IF asked = NothingAsked THEN NextTry(forkWatch)
              ELSE [forkWatch EXCEPT !.pc = "clear", !.path = asked.path, !.since = Len(forkStream)]
  /\ UNCHANGED <<asked, ended, forkStream, watching, prompted, requests, forkFaults, forkFalls>>

\* clear_codex_session_confirming_prompt: "/new", the composer, the prompt, and its user turn
ClearAndPrompt ==
  /\ forkWatch.pc = "clear"
  /\ \/ /\ ~ended /\ Len(forkStream) < MaxEvents
        /\ forkStream' = Append(forkStream, "thread") /\ prompted' = forkWatch.path
        /\ \/ forkWatch' = [forkWatch EXCEPT !.pc = "wait"] /\ UNCHANGED forkFaults
           \/ Fault1 /\ forkWatch' = [forkWatch EXCEPT !.pc = "commit", !.ok = FALSE]
     \/ /\ ended \/ Len(forkStream) >= MaxEvents
        /\ forkWatch' = [forkWatch EXCEPT !.pc = "commit", !.ok = FALSE]
        /\ UNCHANGED <<forkStream, prompted, forkFaults>>
  /\ UNCHANGED <<asked, ended, watching, requests, forkFalls>>

\* wait_for_codex_fork_provider_resume_id_after_offset
AwaitThread ==
  /\ forkWatch.pc = "wait"
  /\ \/ forkWatch' = [forkWatch EXCEPT !.pc = "commit", !.ok = "thread" \in
                    {forkStream[i] : i \in (forkWatch.since + 1)..Len(forkStream)}] /\ UNCHANGED forkFaults
     \/ Fault1 /\ forkWatch' = [forkWatch EXCEPT !.pc = "commit", !.ok = FALSE]
  /\ UNCHANGED <<asked, ended, forkStream, watching, prompted, requests, forkFalls>>

\* Mutant: whatever is asked counts as done
TakenBack(w) == w.ok

\* The request that was carried out is the one that stands
Carried(w) == w.ok /\ asked.path = w.path

\* The outcome: a carried request is taken back, another one stays for the next turn
CommitHandoff ==
  /\ forkWatch.pc = "commit"
  /\ IF ~ended /\ Carried(forkWatch)
     THEN asked' = NothingAsked /\ forkWatch' = [forkWatch EXCEPT !.pc = "ending"]
     ELSE forkWatch' = NextTry(forkWatch) /\ UNCHANGED asked
  /\ UNCHANGED <<ended, forkStream, watching, prompted, requests, forkFaults, forkFalls>>

\* The thread ends, and only then leaves the set of monitors
EndMonitor ==
  /\ forkWatch.pc \in {"ending", "failing"}
  /\ watching' = FALSE
  /\ forkWatch' = IF forkWatch.pc = "failing" THEN [NoWatch EXCEPT !.pc = "failed"] ELSE NoWatch
  /\ UNCHANGED <<asked, ended, forkStream, prompted, requests, forkFaults, forkFalls>>

-----------------------------------------------------------------------------
(* The seat and the server *)

EndSeat ==
  /\ Up /\ ~ended /\ ended' = TRUE
  /\ UNCHANGED <<asked, forkStream, watching, forkWatch, prompted, requests, forkFaults, forkFalls>>

ReviveSeat ==
  /\ Up /\ ended /\ ended' = FALSE
  /\ UNCHANGED <<asked, forkStream, watching, forkWatch, prompted, requests, forkFaults, forkFalls>>

ServerFalls ==
  /\ Up /\ forkFalls < ForkCrashes /\ forkFalls' = forkFalls + 1
  /\ watching' = FALSE /\ forkWatch' = [NoWatch EXCEPT !.pc = "down"]
  /\ UNCHANGED <<asked, ended, forkStream, prompted, requests, forkFaults>>

\* The seats whose handoffs are taken up again
ToTakeUp == asked # NothingAsked

\* recover_pending_codex_fork_handoffs: from the offset that was written down
RecoverHandoffs ==
  /\ forkWatch.pc = "down"
  /\ watching' = ToTakeUp
  /\ forkWatch' = IF ToTakeUp THEN [NoWatch EXCEPT !.pc = "check", !.offset = asked.offset] ELSE NoWatch
  /\ UNCHANGED <<asked, ended, forkStream, prompted, requests, forkFaults, forkFalls>>

-----------------------------------------------------------------------------
ForkInit ==
  /\ asked = NothingAsked /\ ended = FALSE /\ forkStream = <<>> /\ watching = FALSE
  /\ forkWatch = NoWatch /\ prompted = NoNote /\ requests = <<>> /\ forkFaults = 0 /\ forkFalls = 0

ForkNext ==
  \/ \E p \in Notes : AskHandoff(p)
  \/ ForkTurnEnds \/ CheckPending \/ ReadStream \/ BeginHandoff \/ ClearAndPrompt \/ AwaitThread
  \/ CommitHandoff \/ EndMonitor \/ EndSeat \/ ReviveSeat \/ ServerFalls \/ RecoverHandoffs

ForkSpec == ForkInit /\ [][ForkNext]_forkVars

-----------------------------------------------------------------------------
ForkTypeOK ==
  /\ asked.path \in Notes \union {NoNote} /\ asked.offset \in 0..Len(forkStream)
  /\ prompted \in Notes \union {NoNote} /\ {ended, watching, forkWatch.ok} \subseteq BOOLEAN
  /\ forkWatch.pc \in {"none", "down", "check", "read", "begin", "clear", "wait", "commit",
                   "ending", "failing", "failed"}

\* A handoff that was asked for is never without a monitor while the server is up, through
\* stops, restores and restarts, unless the registry could not be read
AskedIsWatched ==
  asked # NothingAsked /\ forkWatch.pc \notin {"down", "failing", "failed"} =>
    watching /\ forkWatch.pc \notin {"none", "ending"}

\* When no handoff stands, the last one that was asked for was carried out
\* (execute_pending_codex_fork_handoff compares the path before it takes it back)
LastIsCarriedOut == asked = NothingAsked /\ requests # <<>> => prompted = requests[Len(requests)]

\* No request for a handoff is forgotten: it is watched until it is carried out
HandoffWatched == AskedIsWatched /\ LastIsCarriedOut
=============================================================================
