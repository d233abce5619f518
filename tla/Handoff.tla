------------------------------- MODULE Handoff -------------------------------
(***************************************************************************)
(* A Claude seat, the hooks that tell sm-server of its turns, and the      *)
(* handoff it asks for: at the end of the turn the server clears the       *)
(* conversation and tells the agent to read the handoff file (sessions.rs, *)
(* http.rs, runtime.rs).                                                   *)
(*                                                                         *)
(* Every hook is sent by a detached curl, so hooks may overtake each       *)
(* other; a Stop hook may wait for the transcript before it is applied.    *)
(* The handoff runs in a worker that takes the write guard for one step at *)
(* a time and proves at each that its reservation is still the current     *)
(* one.  A step is one of these guarded sections, or one of the agent.     *)
(***************************************************************************)
EXTENDS Integers, FiniteSetsExt, SequencesExt

CONSTANTS
  Overtaken,     \* the kinds of hooks that later ones may overtake
  MaxTurns,      \* bound: turns somebody starts by hand, and crashes before them
  MaxHandoffs,   \* bound: handoffs asked for
  Disturbances   \* bound: tool calls, server crashes, time-outs and failed tmux commands together

ASSUME HandoffAssumption ==
  /\ Overtaken \subseteq {"prompt", "tool", "stop", "reset"}
  /\ MaxTurns \in Nat /\ MaxHandoffs \in Nat /\ Disturbances \in Nat

VARIABLES
  clock,      \* stamps given so far
  turn,       \* agent: idle, running or clearing
  composer,   \* agent: texts typed and not yet taken up
  flight,     \* hooks on their way, in the order they were sent
  waiting,    \* Stop hooks received and not yet applied
  status,     \* registry: status
  hookAt,     \* registry: activity_hook_at
  hookEmit,   \* registry: activity_hook_emitted_at, 0 if none
  pend,       \* registry: pending_handoff_path and its recorded_at, 0 if none
  resv,       \* registry: claude_handoff_in_progress_at, 0 if none
  resetEmit,  \* registry: context_cycle_reset_emitted_at
  starting,   \* handlers about to call start_pending_claude_handoff
  hworker,    \* the handoff worker
  cleared,    \* history: clears that began and that the server did not see through
  prompts,    \* how often the prompt of each handoff was typed
  turns, tools, handoffCrashes, handoffFaults

agentVars == <<turn, composer>>
recordVars == <<status, hookAt, hookEmit, pend, resv, resetEmit>>
handoffVars == <<clock, turn, composer, flight, waiting, status, hookAt, hookEmit, pend, resv,
                 resetEmit, starting, hworker, cleared, prompts, turns, tools,
                 handoffCrashes, handoffFaults>>

NoWorker == [pc |-> "none", pend |-> 0, resv |-> 0, reset |-> 0]
Goes(pc) == hworker' = [hworker EXCEPT !.pc = pc]

Disturbed == tools + handoffCrashes + handoffFaults < Disturbances
HandoffFault == Disturbed /\ handoffFaults' = handoffFaults + 1

\* notify_server.sh stamps the hook and detaches its curl
Emit(kind) == /\ clock' = clock + 1
              /\ flight' = Append(flight, [kind |-> kind, at |-> clock + 1])

-----------------------------------------------------------------------------
(* The agent *)

\* Somebody types a prompt
UserPrompt ==
  /\ turn = "idle" /\ composer = <<>> /\ turns + handoffCrashes < MaxTurns
  /\ turn' = "running" /\ turns' = turns + 1
  /\ Emit("prompt")
  /\ UNCHANGED <<composer, waiting, recordVars, starting, hworker, cleared, prompts, tools,
                 handoffCrashes, handoffFaults>>

UseTool ==
  /\ turn = "running" /\ Disturbed
  /\ tools' = tools + 1
  /\ Emit("tool")
  /\ UNCHANGED <<agentVars, waiting, recordVars, starting, hworker, cleared, prompts, turns,
                 handoffCrashes, handoffFaults>>

EndTurn ==
  /\ turn = "running"
  /\ turn' = "idle"
  /\ Emit("stop")
  /\ UNCHANGED <<composer, waiting, recordVars, starting, hworker, cleared, prompts, turns,
                 tools, handoffCrashes, handoffFaults>>

\* An idle agent takes up what was typed
TakeUp ==
  /\ turn = "idle" /\ composer # <<>>
  /\ composer' = Tail(composer)
  /\ IF Head(composer) = "clear"
       THEN turn' = "clearing" /\ UNCHANGED <<clock, flight>>
       ELSE turn' = "running" /\ Emit("prompt")
  /\ UNCHANGED <<waiting, recordVars, starting, hworker, cleared, prompts, turns, tools,
                 handoffCrashes, handoffFaults>>

\* SessionStart(clear) reports the new conversation
FinishClear ==
  /\ turn = "clearing"
  /\ turn' = "idle"
  /\ Emit("reset")
  /\ UNCHANGED <<composer, waiting, recordVars, starting, hworker, cleared, prompts, turns,
                 tools, handoffCrashes, handoffFaults>>

\* schedule_handoff: sm handoff, run by the agent in its turn
ScheduleHandoff ==
  /\ turn = "running" /\ Cardinality(DOMAIN prompts) < MaxHandoffs
  /\ clock' = clock + 1
  /\ pend' = clock + 1 /\ resv' = 0
  /\ prompts' = [h \in DOMAIN prompts \union {clock + 1} |-> IF h \in DOMAIN prompts THEN prompts[h] ELSE 0]
  /\ UNCHANGED <<agentVars, flight, waiting, status, hookAt, hookEmit, resetEmit, starting,
                 hworker, cleared, turns, tools, handoffCrashes, handoffFaults>>

-----------------------------------------------------------------------------
(* Hooks *)

\* A hook arrives when no earlier one is left that cannot be overtaken
Arrives(i) ==
  /\ \A j \in 1 .. (i - 1) : flight[j].kind \in Overtaken
  /\ flight' = RemoveAt(flight, i)

\* apply_claude_user_prompt_submit_hook
PromptHook(i) ==
  /\ flight[i].kind = "prompt" /\ Arrives(i)
  /\ IF hookEmit # 0 /\ hookEmit > flight[i].at
       THEN UNCHANGED <<clock, status, hookAt, hookEmit, resv>>
       ELSE /\ clock' = clock + 1
            /\ status' = "running" /\ hookAt' = clock + 1 /\ hookEmit' = flight[i].at
            /\ resv' = 0
  /\ UNCHANGED <<agentVars, waiting, pend, resetEmit, starting, hworker, cleared, prompts,
                 turns, tools, handoffCrashes, handoffFaults>>

\* apply_claude_pre_tool_use_hook: applied whenever it arrives
ToolHook(i) ==
  /\ flight[i].kind = "tool" /\ Arrives(i)
  /\ clock' = clock + 1
  /\ status' = "running" /\ hookAt' = clock + 1 /\ resv' = 0
  /\ UNCHANGED <<agentVars, waiting, hookEmit, pend, resetEmit, starting, hworker, cleared,
                 prompts, turns, tools, handoffCrashes, handoffFaults>>

\* claude_hook stamps a Stop hook when it arrives; it may then wait for the transcript
StopHook(i) ==
  /\ flight[i].kind = "stop" /\ Arrives(i)
  /\ clock' = clock + 1
  /\ waiting' = waiting \union {[at |-> flight[i].at, received |-> clock + 1]}
  /\ UNCHANGED <<agentVars, recordVars, starting, hworker, cleared, prompts, turns, tools,
                 handoffCrashes, handoffFaults>>

\* Mutant: a Stop hook that was overtaken on its way is applied
SupersededByArrival(w) == hookAt > w.received

\* A newer hook has decided the state
Superseded(w) == (hookEmit # 0 /\ hookEmit > w.at) \/ hookAt > w.received

\* apply_claude_stop_hook: a pending handoff is reserved in the step that ends the turn, and
\* then started
ApplyStop(w) ==
  /\ waiting' = waiting \ {w}
  /\ IF Superseded(w)
       THEN UNCHANGED <<clock, status, hookAt, hookEmit, resv, starting>>
       ELSE /\ clock' = clock + 1
            /\ hookAt' = clock + 1 /\ hookEmit' = w.at
            /\ resv' = IF pend # 0 THEN clock + 1 ELSE 0
            /\ status' = IF pend # 0 THEN "running" ELSE "idle"
            /\ starting' = starting + 1
  /\ UNCHANGED <<agentVars, flight, pend, resetEmit, hworker, cleared, prompts, turns, tools,
                 handoffCrashes, handoffFaults>>

\* apply_context_reset_event
ResetHook(i) ==
  /\ flight[i].kind = "reset" /\ Arrives(i)
  /\ resetEmit' = flight[i].at
  /\ UNCHANGED <<clock, agentVars, waiting, status, hookAt, hookEmit, pend, resv, starting,
                 hworker, cleared, prompts, turns, tools, handoffCrashes, handoffFaults>>

-----------------------------------------------------------------------------
(* The handoff *)

\* What start_pending_claude_handoff does under the guard: an idle agent is reserved if no
\* hook has done so, and a worker starts unless one is registered
Started ==
  /\ IF pend # 0 /\ resv = 0 /\ status = "idle"
       THEN clock' = clock + 1 /\ resv' = clock + 1 /\ status' = "running"
       ELSE UNCHANGED <<clock, resv, status>>
  /\ hworker' = IF pend # 0 /\ resv' # 0 /\ hworker.pc = "none"
                  THEN [pc |-> "read", pend |-> pend, resv |-> resv', reset |-> 0] ELSE hworker

StartPending ==
  /\ starting > 0 /\ starting' = starting - 1
  /\ Started
  /\ UNCHANGED <<agentVars, flight, waiting, hookAt, hookEmit, pend, resetEmit, cleared,
                 prompts, turns, tools, handoffCrashes, handoffFaults>>

\* Is the reservation of the worker the current one?
Current == pend = hworker.pend /\ resv = hworker.resv

\* execute_pending_claude_handoff reads what it is to do
WorkerRead ==
  /\ hworker.pc = "read"
  /\ IF pend = 0 \/ resv = 0
       THEN Goes("leave")
       ELSE hworker' = [pc |-> "ready", pend |-> pend, resv |-> resv, reset |-> resetEmit]
  /\ UNCHANGED <<clock, agentVars, flight, waiting, recordVars, starting, cleared, prompts,
                 turns, tools, handoffCrashes, handoffFaults>>

\* The precondition, and the wait for an empty composer.  A missing file or a tmux error
\* ends the attempt before the clear.
WorkerReady ==
  /\ hworker.pc = "ready"
  /\ \/ ~Current /\ Goes("released") /\ UNCHANGED handoffFaults
     \/ Current /\ turn # "running" /\ composer = <<>> /\ Goes("clear") /\ UNCHANGED handoffFaults
     \/ Current /\ turn = "running" /\ Goes("notready") /\ UNCHANGED handoffFaults
     \/ Current /\ HandoffFault /\ Goes("notready")
  /\ UNCHANGED <<clock, agentVars, flight, waiting, recordVars, starting, cleared, prompts,
                 turns, tools, handoffCrashes>>

\* /clear is typed under the guard, if the reservation is still the current one
WorkerClear ==
  /\ hworker.pc = "clear"
  /\ IF Current
       THEN composer' = Append(composer, "clear") /\ cleared' = cleared + 1 /\ Goes("confirm")
       ELSE Goes("released") /\ UNCHANGED <<composer, cleared>>
  /\ UNCHANGED <<clock, turn, flight, waiting, recordVars, starting, prompts, turns, tools,
                 handoffCrashes, handoffFaults>>

\* current_claude_handoff_clear_was_observed: a reset newer than the one known before and
\* than the reservation
ClearObserved == Current /\ resetEmit # hworker.reset /\ resetEmit > hworker.resv

\* wait_for_confirmed_claude_clear: the reset is observed and the composer is empty, or the
\* wait times out
WorkerConfirm ==
  /\ hworker.pc = "confirm"
  /\ \/ ClearObserved /\ turn # "running" /\ composer = <<>> /\ Goes("prompt") /\ UNCHANGED handoffFaults
     \/ HandoffFault /\ Goes("failed")
     \/ ~Current /\ Goes("failed") /\ UNCHANGED handoffFaults
  /\ UNCHANGED <<clock, agentVars, flight, waiting, recordVars, starting, cleared, prompts,
                 turns, tools, handoffCrashes>>

\* The prompt is typed under the guard, if the reservation is still the current one
WorkerPrompt ==
  /\ hworker.pc = "prompt"
  /\ IF Current
       THEN /\ composer' = Append(composer, "prompt")
            /\ prompts' = [prompts EXCEPT ![hworker.pend] = @ + 1]
            /\ Goes("done")
       ELSE Goes("leave") /\ UNCHANGED <<composer, prompts>>
  /\ UNCHANGED <<clock, turn, flight, waiting, recordVars, starting, cleared, turns, tools,
                 handoffCrashes, handoffFaults>>

\* consume_completed_claude_handoff_raw: the Stop hook of the handoff's own turn may have
\* reserved it anew
Consume(p, r) ==
  /\ pend' = IF pend = p THEN 0 ELSE pend
  /\ resv' = IF pend = p \/ resv = r THEN 0 ELSE resv

\* How an attempt ends, under the guard: done, given up before the clear because the
\* reservation was lost or the composer not empty, or failed after it began
WorkerFinish ==
  /\ hworker.pc \in {"done", "released", "notready", "failed"}
  /\ LET w == hworker IN
       \/ /\ w.pc = "done"
          /\ Consume(w.pend, w.resv)
          /\ status' = IF pend = w.pend /\ resv # 0 /\ resv # w.resv THEN "idle" ELSE "running"
          /\ cleared' = 0
       \/ /\ w.pc = "released"
          /\ resv' = IF resv = w.resv THEN 0 ELSE resv
          /\ UNCHANGED <<pend, status, cleared>>
       \/ /\ w.pc = "notready"
          /\ status' = IF Current THEN "idle" ELSE status
          /\ resv' = IF Current THEN 0 ELSE resv
          /\ UNCHANGED <<pend, cleared>>
       \/ /\ w.pc = "failed"
          /\ status' = IF Current THEN "idle" ELSE status
          /\ UNCHANGED <<pend, resv, cleared>>
  /\ Goes("leave")
  /\ UNCHANGED <<clock, agentVars, flight, waiting, hookAt, hookEmit, resetEmit, starting,
                 prompts, turns, tools, handoffCrashes, handoffFaults>>

\* The thread leaves claude_handoff_workers ...
WorkerLeave ==
  /\ hworker.pc = "leave"
  /\ Goes("check")
  /\ UNCHANGED <<clock, agentVars, flight, waiting, recordVars, starting, cleared, prompts,
                 turns, tools, handoffCrashes, handoffFaults>>

\* claude_handoff_reservation_was_replaced
Replaced == pend # 0 /\ resv # 0 /\ (pend # hworker.pend \/ resv # hworker.resv)

\* ... and starts again when its reservation has been replaced
WorkerCheck ==
  /\ hworker.pc = "check"
  /\ starting' = IF Replaced THEN starting + 1 ELSE starting
  /\ hworker' = NoWorker
  /\ UNCHANGED <<clock, agentVars, flight, waiting, recordVars, cleared, prompts, turns, tools,
                 handoffCrashes, handoffFaults>>

\* The server stops and comes back: hooks it had received are gone, the agent goes on.
\* recover_pending_claude_handoffs starts what was reserved, or pending and idle.
HandoffCrash ==
  /\ Disturbed
  /\ handoffCrashes' = handoffCrashes + 1
  /\ waiting' = {} /\ hworker' = NoWorker
  /\ starting' = IF pend # 0 /\ (resv # 0 \/ status = "idle") THEN 1 ELSE 0
  /\ UNCHANGED <<clock, agentVars, flight, recordVars, cleared, prompts, turns, tools,
                 handoffFaults>>

-----------------------------------------------------------------------------

HandoffInit ==
  /\ clock = 0 /\ turn = "idle" /\ composer = <<>> /\ flight = <<>> /\ waiting = {}
  /\ status = "idle" /\ hookAt = 0 /\ hookEmit = 0 /\ pend = 0 /\ resv = 0 /\ resetEmit = 0
  /\ starting = 0 /\ hworker = NoWorker /\ cleared = 0 /\ prompts = <<>>
  /\ turns = 0 /\ tools = 0 /\ handoffCrashes = 0 /\ handoffFaults = 0

HookArrives ==
  \E i \in DOMAIN flight : PromptHook(i) \/ ToolHook(i) \/ StopHook(i) \/ ResetHook(i)

HandoffWorker ==
  \/ WorkerRead \/ WorkerReady \/ WorkerClear \/ WorkerConfirm \/ WorkerPrompt \/ WorkerFinish
  \/ WorkerLeave \/ WorkerCheck

AgentActs == UserPrompt \/ UseTool \/ EndTurn \/ TakeUp \/ FinishClear \/ ScheduleHandoff

HandoffNext ==
  \/ AgentActs
  \/ HookArrives
  \/ \E w \in waiting : ApplyStop(w)
  \/ StartPending
  \/ HandoffWorker
  \/ HandoffCrash

HandoffSpec == HandoffInit /\ [][HandoffNext]_handoffVars

-----------------------------------------------------------------------------
(* Properties *)

HandoffTypeOK ==
  /\ turn \in {"idle", "running", "clearing"} /\ composer \in Seq({"clear", "prompt"})
  /\ flight \in Seq([kind : {"prompt", "tool", "stop", "reset"}, at : 1 .. clock])
  /\ status \in {"idle", "running"}
  /\ {pend, resv, hookAt, hookEmit, resetEmit} \subseteq 0 .. clock
  /\ hworker.pc \in {"none", "read", "ready", "clear", "confirm", "prompt", "done", "released",
                     "notready", "failed", "leave", "check"}
  /\ starting \in Nat

\* Once every hook has been applied and no handoff is at work, the status of the agent is
\* the one of its turn, however long Stop hooks were on their way or waited for the
\* transcript.
StatusAgrees ==
  flight = <<>> /\ waiting = {} /\ starting = 0 /\ hworker = NoWorker /\ composer = <<>>
    /\ pend = 0 /\ resv = 0 /\ handoffCrashes = 0
  => (status = "running" <=> turn = "running")

\* The prompt of a handoff is typed only when the clear before it has been carried out: the
\* reset that confirms it is not one of an earlier conversation.  (When an
\* earlier clear was begun and given up, its late reset may be taken for the one waited for.)
PromptAfterClear ==
  [][hworker.pc = "prompt" /\ hworker'.pc = "done" /\ cleared = 1
       => turn # "clearing"]_handoffVars

\* A handoff is carried out at most once, unless the server stops in the middle of it:
\* neither the Stop hook of its own turn nor a replaced reservation repeats it.
HandoffOnce == \A h \in DOMAIN prompts : prompts[h] <= 1 + handoffCrashes

\* A reservation, which keeps every message away from the agent, always has somebody who
\* will end it, unless a clear was begun and not seen through.
ReservationOwned ==
  resv # 0 => hworker # NoWorker \/ starting > 0 \/ cleared > 0

\* Hooks that arrive late, replaced reservations and crashes leave no agent shown in the wrong
\* turn, no handoff carried out twice or before its clear, and no mailbox closed by a reservation
\* nobody will end.
HandoffIsSafe == PromptAfterClear /\ [](StatusAgrees /\ HandoffOnce /\ ReservationOwned)
=============================================================================
