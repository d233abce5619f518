------------------------------- MODULE Delivery -------------------------------
(***************************************************************************)
(* The retained message queue of sm-server and its delivery into the       *)
(* runtimes of agents (queue.rs, sessions.rs, http.rs): what sm send,      *)
(* renames, completed jobs, stop notices and scheduled reminders queue, in *)
(* which order it is typed, and what a crash in between leaves behind.     *)
(*                                                                         *)
(* message_queue, the stop watches and the reminders are SQLite tables;    *)
(* one step is one transaction on them or one text typed.  A drain runs    *)
(* under the write guard of the session store, on a copy of the registry   *)
(* that is saved when it ends, and delivering a message may drain the      *)
(* queue of its sender: frames is the stack of drains.  Renames, finished  *)
(* jobs, reminders and notices of reparenting need no guard.               *)
(***************************************************************************)
EXTENDS Integers, FiniteSetsExt, SequencesExt

CONSTANTS
  Agents,        \* session ids
  Notified,      \* agents that ask for a notice when a message of theirs is delivered
  Workloads,     \* sets of things that happen together; a behaviour has one of them
  BatchSize,     \* rows a drain reads at a time
  MaxRows,       \* bound: rows ever queued
  MaxReminders,  \* bound: reminders ever scheduled
  MailCrashes,   \* bound: server crashes
  MailFaults     \* bound: deliveries that fail, and runtimes that die

ASSUME DeliveryAssumption ==
  /\ Notified \subseteq Agents /\ BatchSize \in Nat \ {0}
  /\ MaxRows \in Nat /\ MaxReminders \in Nat /\ MailCrashes \in Nat /\ MailFaults \in Nat

VARIABLES
  workload,   \* what happens in this behaviour
  mail,       \* message_queue, in queued order
  live,       \* registry: the agent is not stopped
  handoff,    \* registry: the handoff of the agent: none, pending or reserved
  running,    \* tmux: the agent has a runtime
  ready,      \* tmux: its composer is empty
  watch,      \* rust_stop_notify_states: who is told when the agent stops
  remind,     \* scheduled_reminders
  frames,     \* the drains of the handler that holds the guard, innermost last
  draft,      \* the copy of live this handler works on
  typing,     \* is the head of the innermost batch typed and not yet marked?
  retiring,   \* the retire that holds the guard
  timers,     \* notices due later, in memory
  dispatch,   \* the scheduled reminder dispatcher
  relay,      \* drains of reparent notices, which type without the guard
  mailCrashes, mailFaults

mailVars == <<mail, live, handoff, running, ready, watch, remind, frames, draft, typing,
              retiring, timers, dispatch, relay, mailCrashes, mailFaults>>
deliveryVars == <<workload, mailVars>>

-----------------------------------------------------------------------------
(* Rows and drains *)

Nobody == "nobody"
Idle == [pc |-> "idle", list |-> <<>>]
NoRelay == [pc |-> "none", row |-> 0]
NotRetiring == [pc |-> "none", agent |-> Nobody, notify |-> Nobody]

\* A message_queue row.  about: the row a delivery notice reports, the reminder a row
\* comes from; typed counts how often a drain typed it.
Row(to, from, mode, category, ask, about) ==
  [to |-> to, from |-> from, mode |-> mode, category |-> category, ask |-> ask,
   about |-> about, state |-> "pending", typed |-> 0]

Pending(r) == mail[r].state = "pending"

\* pending_messages_for_target, _by_mode and _by_category
Matches(f, r) ==
  /\ Pending(r) /\ mail[r].to = f.to
  /\ CASE f.want \in {"important", "sequential"} -> mail[r].mode = f.want
       [] f.want = "scheduled_reminder" -> mail[r].category = f.want
       [] OTHER -> TRUE

\* until: the message the drain stops after; last: this batch ends the drain
Frame(to, want, fence, until) ==
  [to |-> to, want |-> want, fence |-> fence, until |-> until, batch |-> <<>>, last |-> FALSE]

NoGuard == frames = <<>> /\ retiring = NotRetiring
Top == Last(frames)
Pop == Front(frames)
Replace(f) == Append(Front(frames), f)

\* A handler takes the guard, loads the registry and starts a drain
Start(f) ==
  /\ frames' = <<f>>
  /\ draft' = live
  /\ typing' = FALSE

\* The innermost drain returns; the outermost one's handler saves the registry
Return(alive) ==
  /\ frames' = Pop
  /\ typing' = FALSE
  /\ draft' = alive
  /\ live' = IF Len(frames) = 1 THEN alive ELSE live
  /\ retiring' = IF Len(frames) = 1 THEN NotRetiring ELSE retiring

MailFault == mailFaults < MailFaults /\ mailFaults' = mailFaults + 1

Room == Len(mail) < MaxRows

-----------------------------------------------------------------------------
(* Queueing *)

\* send_core_input_with_runtime: a stopped agent gets nothing; an urgent message is
\* delivered by itself, an important one after the important ones before it, a
\* sequential one after everything before it
SendInput(a, b, mode, ask) ==
  /\ NoGuard /\ Room /\ live[b]
  /\ mail' = Append(mail, Row(b, a, mode, "none", ask, 0))
  /\ LET r == Len(mail) + 1 IN
       Start(CASE mode = "urgent" -> [Frame(b, "one", FALSE, r) EXCEPT !.batch = <<r>>, !.last = TRUE]
               [] mode = "important" -> Frame(b, "important", FALSE, r)
               [] OTHER -> Frame(b, "all", FALSE, r))
  /\ UNCHANGED <<live, handoff, running, ready, watch, remind, retiring, timers, dispatch, relay,
                 mailCrashes, mailFaults>>

\* queue_provider_native_rename: without the guard, drop the pending renames and queue
\* the new one
QueueRename(b) ==
  /\ Room /\ live[b]
  /\ mail' = Append([r \in DOMAIN mail |->
                       IF Pending(r) /\ mail[r].to = b /\ mail[r].category = "native_rename"
                         THEN [mail[r] EXCEPT !.state = "dropped"] ELSE mail[r]],
                    Row(b, Nobody, "sequential", "native_rename", "none", 0))
  /\ UNCHANGED <<live, handoff, running, ready, watch, remind, frames, draft, typing, retiring,
                 timers, dispatch, relay, mailCrashes, mailFaults>>

\* The queue runner queues the completion wake of a job, the reparent outbox a notice
QueueRow(b, category) ==
  /\ Room
  /\ mail' = Append(mail, Row(b, Nobody, "sequential", category, "none", 0))
  /\ UNCHANGED <<live, handoff, running, ready, watch, remind, frames, draft, typing, retiring,
                 timers, dispatch, relay, mailCrashes, mailFaults>>

\* runtime_session_accepts_background_delivery_raw
AcceptsBackground(b) ==
  live[b] /\ handoff[b] = "none" /\ running[b] /\ ready[b]

\* drain_runtime_pending_message_targets_by_category, every tick of the worker: drain
\* everything an agent with a completion wake has, behind a fence of readiness
DrainCompletionWakes(b) ==
  /\ NoGuard
  /\ \E r \in DOMAIN mail : Pending(r) /\ mail[r].to = b /\ mail[r].category = "completion"
  /\ AcceptsBackground(b)
  /\ Start(Frame(b, "all", TRUE, 0))
  /\ UNCHANGED <<mail, live, handoff, running, ready, watch, remind, retiring, timers, dispatch,
                 relay, mailCrashes, mailFaults>>

\* drain_runtime_pending_messages_for_session: when a handoff or a clear is over
DrainPending(b) ==
  /\ NoGuard /\ \E r \in DOMAIN mail : Pending(r) /\ mail[r].to = b
  /\ Start(Frame(b, "all", FALSE, 0))
  /\ UNCHANGED <<mail, live, handoff, running, ready, watch, remind, retiring, timers, dispatch,
                 relay, mailCrashes, mailFaults>>

-----------------------------------------------------------------------------
(* A drain *)

\* ORDER BY queued_at ASC, id ASC
Oldest(rows) == SetToSortSeq(rows, <)

\* The next batch; E are the sent messages whose timeout has passed, which
\* expire_pending_messages_for_target deletes first
DrainFetch ==
  /\ frames # <<>> /\ Top.batch = <<>> /\ ~Top.last
  /\ \E E \in SUBSET {r \in DOMAIN mail : Pending(r) /\ mail[r].to = Top.to
                                           /\ mail[r].category = "none" /\ mail[r].about = 0} :
       LET rows == {r \in DOMAIN mail : Matches(Top, r)} \ E
           all == Oldest(rows)
       IN
         /\ mail' = [r \in DOMAIN mail |-> IF r \in E THEN [mail[r] EXCEPT !.state = "dropped"]
                                                      ELSE mail[r]]
         /\ IF rows = {}
              THEN Return(draft)
              ELSE /\ frames' = Replace([Top EXCEPT
                                  !.batch = SubSeq(all, 1, Min({Len(all), BatchSize}))])
                   /\ UNCHANGED <<live, draft, typing, retiring>>
  /\ UNCHANGED <<handoff, running, ready, watch, remind, timers, dispatch, relay, mailCrashes,
                 mailFaults>>

\* The batch was the last one of its drain
DrainEnd ==
  /\ frames # <<>> /\ Top.batch = <<>> /\ Top.last
  /\ Return(draft)
  /\ UNCHANGED <<mail, handoff, running, ready, watch, remind, timers, dispatch, relay,
                 mailCrashes, mailFaults>>

\* A delivery is held back: the agent is stopped, a handoff has reserved it or, behind
\* the fence, is pending, or the composer is not ready
HeldBack(f, r) ==
  \/ ~draft[f.to]
  \/ handoff[f.to] = "reserved"
  \/ /\ f.fence /\ mail[r].mode # "urgent" /\ mail[r].category # "native_rename"
     /\ handoff[f.to] # "none" \/ ~ready[f.to]

\* deliver_*_to_session_raw: what is typed, or why the drain ends here.  A missing
\* runtime stops the agent (not for a rename); a control socket may refuse; a tmux
\* command that fails ends the handler, and the registry is not saved.
DrainType ==
  /\ frames # <<>> /\ Top.batch # <<>> /\ ~typing
  /\ LET f == Top
         r == Head(f.batch)
     IN
       \/ /\ HeldBack(f, r)
          /\ Return(draft)
          /\ UNCHANGED <<mail, ready, mailFaults>>
       \/ /\ ~HeldBack(f, r) /\ running[f.to]
          /\ mail' = [mail EXCEPT ![r].typed = @ + 1]
          /\ ready' = [ready EXCEPT ![f.to] = FALSE]
          /\ typing' = TRUE
          /\ UNCHANGED <<live, draft, frames, retiring, mailFaults>>
       \/ /\ ~HeldBack(f, r) /\ ~running[f.to]
          /\ Return([draft EXCEPT ![f.to] = mail[r].category = "native_rename"])
          /\ UNCHANGED <<mail, ready, mailFaults>>
       \/ /\ ~HeldBack(f, r) /\ MailFault
          /\ Return(draft)
          /\ UNCHANGED <<mail, ready>>
       \/ /\ ~HeldBack(f, r) /\ MailFault
          /\ frames' = <<>> /\ retiring' = NotRetiring /\ draft' = live
          /\ UNCHANGED <<mail, ready, live, typing>>
  /\ UNCHANGED <<handoff, running, watch, remind, timers, dispatch, relay, mailCrashes>>

\* Mutant: the row is left as it was
MarkNothing(r, rows) == rows

\* mark_delivered_conn
MarkDelivered(r, rows) ==
  [rows EXCEPT ![r].state = IF @ = "pending" THEN "delivered" ELSE @]

\* The notice of delivery, queued in the transaction that marks the row
WithNotice(r, rows) ==
  IF mail[r].ask = "delivery" /\ Pending(r)
    THEN Append(rows, Row(mail[r].from, Nobody, "sequential", "none", "none", r))
    ELSE rows

\* complete_runtime_message_delivery_raw: mark the row and, if it was pending, apply its
\* effects in the same transaction; then drain what the sender of a message with a
\* notice has waiting.  The drain ends behind a rename or an urgent message when it
\* fences, and behind the message it was for.
DrainComplete ==
  /\ typing
  /\ LET f == Top
         r == Head(f.batch)
         m == mail[r]
         ends == \/ f.fence /\ (m.category = "native_rename" \/ m.mode = "urgent")
                 \/ f.until = r
         rest == [f EXCEPT !.batch = IF ends THEN <<>> ELSE Tail(@), !.last = @ \/ ends]
         notices == IF m.ask = "delivery" THEN <<Frame(m.from, "sequential", FALSE, 0)>> ELSE <<>>
     IN
       /\ mail' = WithNotice(r, MarkDelivered(r, mail))
       /\ watch' = IF m.ask = "stop" /\ Pending(r) THEN [watch EXCEPT ![m.to] = m.from] ELSE watch
       /\ timers' = IF m.ask = "after" THEN timers \union {<<m.from, "sequential">>} ELSE timers
       /\ frames' = Replace(rest) \o notices
  /\ typing' = FALSE
  /\ UNCHANGED <<live, handoff, running, ready, remind, draft, retiring, dispatch, relay,
                 mailCrashes, mailFaults>>

\* schedule_runtime_followup_notification and schedule_stop_notification: the timer
\* queues its notice and drains
TimerFires(b, mode) ==
  /\ <<b, mode>> \in timers /\ NoGuard
  /\ timers' = timers \ {<<b, mode>>}
  /\ mail' = Append(mail, Row(b, Nobody, mode, IF mode = "important" THEN "stop_notify" ELSE "none",
                              "none", 0))
  /\ Start(Frame(b, IF mode = "important" THEN "important" ELSE "all", FALSE, 0))
  /\ UNCHANGED <<live, handoff, running, ready, watch, remind, retiring, dispatch, relay,
                 mailCrashes, mailFaults>>

-----------------------------------------------------------------------------
(* Stop notices *)

\* arm_stop_notify
ArmStopNotify(b, a) ==
  /\ NoGuard /\ a # b
  /\ watch' = [watch EXCEPT ![b] = a]
  /\ UNCHANGED <<mail, live, handoff, running, ready, remind, frames, draft, typing, retiring,
                 timers, dispatch, relay, mailCrashes, mailFaults>>

\* retire_core_session_with_runtime: the runtime is killed under the guard
Retire(b) ==
  /\ NoGuard /\ live[b] /\ Room
  /\ running' = [running EXCEPT ![b] = FALSE]
  /\ draft' = [live EXCEPT ![b] = FALSE]
  /\ retiring' = [pc |-> "unwatch", agent |-> b, notify |-> Nobody]
  /\ UNCHANGED <<mail, live, handoff, ready, watch, remind, frames, typing, timers, dispatch,
                 relay, mailCrashes, mailFaults>>

\* complete_stop_notify_after_stop_raw: the watch is taken out first
RetireUnwatch ==
  /\ retiring.pc = "unwatch"
  /\ LET w == watch[retiring.agent] IN
       /\ watch' = [watch EXCEPT ![retiring.agent] = Nobody]
       /\ \/ /\ w = Nobody
             /\ retiring' = NotRetiring /\ live' = draft
             /\ UNCHANGED timers
          \/ /\ w # Nobody
             /\ retiring' = [retiring EXCEPT !.pc = "notice", !.notify = w]
             /\ UNCHANGED <<live, timers>>
          \/ /\ w # Nobody   \* the watch has a delay
             /\ retiring' = NotRetiring /\ live' = draft
             /\ timers' = timers \union {<<w, "important">>}
  /\ UNCHANGED <<mail, handoff, running, ready, remind, frames, draft, typing, dispatch, relay,
                 mailCrashes, mailFaults>>

\* enqueue_stop_notification_raw
RetireNotice ==
  /\ retiring.pc = "notice"
  /\ mail' = Append(mail, Row(retiring.notify, Nobody, "important", "stop_notify", "none", 0))
  /\ frames' = <<Frame(retiring.notify, "important", FALSE, 0)>>
  /\ retiring' = [retiring EXCEPT !.pc = "draining"]
  /\ UNCHANGED <<live, handoff, running, ready, watch, remind, draft, typing, timers, dispatch,
                 relay, mailCrashes, mailFaults>>

-----------------------------------------------------------------------------
(* Notices of reparenting *)

ReparentRows(b) ==
  {r \in DOMAIN mail : Pending(r) /\ mail[r].to = b /\ mail[r].category = "reparent"}

\* drain_reparent_runtime_messages: take the oldest notice, look at the target under the
\* guard ...
RelayLook(b) ==
  /\ relay[b].pc = "none" /\ ReparentRows(b) # {} /\ NoGuard
  /\ live[b] /\ handoff[b] # "reserved"
  /\ relay' = [relay EXCEPT ![b] = [pc |-> "type", row |-> Min(ReparentRows(b))]]
  /\ UNCHANGED <<mail, live, handoff, running, ready, watch, remind, frames, draft, typing,
                 retiring, timers, dispatch, mailCrashes, mailFaults>>

\* ... type it without the guard, if there is a runtime ...
RelayType(b) ==
  /\ relay[b].pc = "type"
  /\ IF running[b]
       THEN /\ relay' = [relay EXCEPT ![b].pc = "mark"]
            /\ ready' = [ready EXCEPT ![b] = FALSE]
       ELSE /\ relay' = [relay EXCEPT ![b] = NoRelay]
            /\ UNCHANGED ready
  /\ UNCHANGED <<mail, live, handoff, running, watch, remind, frames, draft, typing, retiring, timers,
                 dispatch, mailCrashes, mailFaults>>

\* ... and mark it under the guard, if the target may still be typed to
RelayComplete(b) ==
  /\ relay[b].pc = "mark" /\ NoGuard
  /\ mail' = IF live[b] /\ handoff[b] # "reserved" THEN MarkDelivered(relay[b].row, mail) ELSE mail
  /\ relay' = [relay EXCEPT ![b] = NoRelay]
  /\ UNCHANGED <<live, handoff, running, ready, watch, remind, frames, draft, typing, retiring,
                 timers, dispatch, mailCrashes, mailFaults>>

-----------------------------------------------------------------------------
(* Scheduled reminders *)

\* schedule_reminder
ScheduleReminder(b, recurring) ==
  /\ Len(remind) < MaxReminders /\ live[b]
  /\ remind' = Append(remind, [to |-> b, recurring |-> recurring, due |-> FALSE, active |-> TRUE,
                               fired |-> FALSE, waited |-> FALSE])
  /\ UNCHANGED <<mail, live, handoff, running, ready, watch, frames, draft, typing, retiring,
                 timers, dispatch, relay, mailCrashes, mailFaults>>

\* cancel_scheduled_reminder
CancelReminder(m) ==
  /\ remind[m].active
  /\ remind' = [remind EXCEPT ![m].active = FALSE]
  /\ UNCHANGED <<mail, live, handoff, running, ready, watch, frames, draft, typing, retiring,
                 timers, dispatch, relay, mailCrashes, mailFaults>>

FallsDue(m) ==
  /\ remind[m].active /\ ~remind[m].due /\ Room
  /\ remind' = [remind EXCEPT ![m].due = TRUE]
  /\ UNCHANGED <<mail, live, handoff, running, ready, watch, frames, draft, typing, retiring,
                 timers, dispatch, relay, mailCrashes, mailFaults>>

\* WHERE is_active = 1 AND (fired = 0 OR recurring) and due
IsDue(m) == remind[m].active /\ (~remind[m].fired \/ remind[m].recurring) /\ remind[m].due

\* dispatch_due_scheduled_reminders: read what is due
DispatchDue ==
  /\ dispatch.pc = "idle" /\ \E m \in DOMAIN remind : IsDue(m)
  /\ dispatch' = [pc |-> "check", list |-> SetToSortSeq({m \in DOMAIN remind : IsDue(m)}, <)]
  /\ UNCHANGED <<mail, live, handoff, running, ready, watch, remind, frames, draft, typing,
                 retiring, timers, relay, mailCrashes, mailFaults>>

NextDue == IF Len(dispatch.list) = 1 THEN Idle
                                     ELSE [pc |-> "check", list |-> Tail(dispatch.list)]

\* A stopped target ends the reminder; a compaction may put it off, for a bounded time
DispatchCheck ==
  /\ dispatch.pc = "check"
  /\ LET m == Head(dispatch.list) IN
       \/ /\ ~live[remind[m].to]
          /\ remind' = [remind EXCEPT ![m].active = FALSE]
          /\ dispatch' = NextDue
       \/ /\ live[remind[m].to] /\ ~remind[m].waited
          /\ remind' = [remind EXCEPT ![m].waited = TRUE]
          /\ dispatch' = NextDue
       \/ /\ live[remind[m].to]
          /\ dispatch' = [dispatch EXCEPT !.pc = "claim"]
          /\ UNCHANGED remind
  /\ UNCHANGED <<mail, live, handoff, running, ready, watch, frames, draft, typing, retiring,
                 timers, relay, mailCrashes, mailFaults>>

\* claim_due_scheduled_reminder reads the reminder again
StillDue(m) == IsDue(m)

\* ... and queues the row and moves the reminder on in one transaction
DispatchClaim ==
  /\ dispatch.pc = "claim"
  /\ LET m == Head(dispatch.list) IN
       \/ /\ ~StillDue(m)
          /\ dispatch' = NextDue
          /\ UNCHANGED <<mail, remind>>
       \/ /\ StillDue(m)
          /\ mail' = Append(mail, Row(remind[m].to, Nobody, "urgent", "scheduled_reminder", "none", m))
          /\ remind' = [remind EXCEPT ![m].fired = ~remind[m].recurring, ![m].active = remind[m].recurring,
                                      ![m].due = FALSE, ![m].waited = FALSE]
          /\ dispatch' = [dispatch EXCEPT !.pc = "drain"]
  /\ UNCHANGED <<live, handoff, running, ready, watch, frames, draft, typing, retiring, timers,
                 relay, mailCrashes, mailFaults>>

\* drain_runtime_pending_messages_for_session_category
DispatchDrain ==
  /\ dispatch.pc = "drain" /\ NoGuard
  /\ Start(Frame(remind[Head(dispatch.list)].to, "scheduled_reminder", FALSE, 0))
  /\ dispatch' = NextDue
  /\ UNCHANGED <<mail, live, handoff, running, ready, watch, remind, retiring, timers, relay,
                 mailCrashes, mailFaults>>

-----------------------------------------------------------------------------
(* Agents, their runtimes and the server *)

\* A turn ends: the composer is empty again
AgentReady(b) ==
  /\ running[b] /\ ~ready[b]
  /\ ready' = [ready EXCEPT ![b] = TRUE]
  /\ UNCHANGED <<mail, live, handoff, running, watch, remind, frames, draft, typing, retiring,
                 timers, dispatch, relay, mailCrashes, mailFaults>>

\* A handoff is asked for, reserves the agent, and is over
HandoffMoves(b) ==
  /\ NoGuard /\ live[b]
  /\ handoff' = [handoff EXCEPT ![b] = CASE @ = "none" -> "pending" [] @ = "pending" -> "reserved"
                                         [] OTHER -> "none"]
  /\ UNCHANGED <<mail, live, running, ready, watch, remind, frames, draft, typing, retiring,
                 timers, dispatch, relay, mailCrashes, mailFaults>>

RuntimeDies(b) ==
  /\ running[b] /\ MailFault
  /\ running' = [running EXCEPT ![b] = FALSE]
  /\ UNCHANGED <<mail, live, handoff, ready, watch, remind, frames, draft, typing, retiring,
                 timers, dispatch, relay, mailCrashes>>

\* restore_core_session_with_runtime
RestoreAgent(b) ==
  /\ NoGuard /\ ~live[b]
  /\ live' = [live EXCEPT ![b] = TRUE] /\ draft' = live'
  /\ running' = [running EXCEPT ![b] = TRUE] /\ ready' = [ready EXCEPT ![b] = TRUE]
  /\ UNCHANGED <<mail, handoff, watch, remind, frames, typing, retiring, timers, dispatch, relay,
                 mailCrashes, mailFaults>>

\* The tables, the registry and tmux stay
ServerCrash ==
  /\ mailCrashes < MailCrashes
  /\ mailCrashes' = mailCrashes + 1
  /\ frames' = <<>> /\ typing' = FALSE /\ draft' = live /\ retiring' = NotRetiring
  /\ timers' = {} /\ dispatch' = Idle /\ relay' = [b \in Agents |-> NoRelay]
  /\ remind' = [m \in DOMAIN remind |-> [remind[m] EXCEPT !.waited = FALSE]]
  /\ UNCHANGED <<mail, live, handoff, running, ready, watch, mailFaults>>

-----------------------------------------------------------------------------

DeliveryInit ==
  /\ workload \in Workloads
  /\ mail = <<>> /\ remind = <<>> /\ frames = <<>> /\ typing = FALSE
  /\ live = [b \in Agents |-> TRUE] /\ draft = live
  /\ handoff = [b \in Agents |-> "none"]
  /\ running = [b \in Agents |-> TRUE] /\ ready = [b \in Agents |-> TRUE]
  /\ watch = [b \in Agents |-> Nobody]
  /\ retiring = NotRetiring /\ timers = {} /\ dispatch = Idle
  /\ relay = [b \in Agents |-> NoRelay]
  /\ mailCrashes = 0 /\ mailFaults = 0

Asks(a) == workload \intersect ({"stop", "after"} \union
                                 (IF a \in Notified THEN {"delivery"} ELSE {}))
Modes == workload \intersect {"urgent", "important", "sequential"}
Happens(event) == event \in workload

Drain == DrainFetch \/ DrainEnd \/ DrainType \/ DrainComplete
RetireSteps == RetireUnwatch \/ RetireNotice
Dispatcher == DispatchDue \/ DispatchCheck \/ DispatchClaim \/ DispatchDrain

Queueing ==
  \/ \E a, b \in Agents, mode \in Modes :
       \E ask \in {"none"} \union Asks(a) : a # b /\ SendInput(a, b, mode, ask)
  \/ \E b \in Agents : Happens("rename") /\ QueueRename(b)
  \/ \E b \in Agents, category \in workload \intersect {"completion", "reparent"} :
       QueueRow(b, category)
  \/ \E b \in Agents, recurring \in BOOLEAN :
       Happens("reminder") /\ ScheduleReminder(b, recurring)
  \/ \E m \in DOMAIN remind : CancelReminder(m) \/ FallsDue(m)
  \/ \E a, b \in Agents : Happens("watch") /\ ArmStopNotify(b, a)

Agent ==
  \E b \in Agents :
    \/ AgentReady(b)
    \/ Happens("handoff") /\ HandoffMoves(b)
    \/ Happens("retire") /\ Retire(b)
    \/ RuntimeDies(b)
    \/ RestoreAgent(b)

DeliveryNext ==
  /\ \/ Queueing
     \/ \E b \in Agents : DrainCompletionWakes(b)
     \/ \E b \in Agents : Happens("handoff") /\ DrainPending(b)
     \/ Drain
     \/ \E b \in Agents, mode \in {"sequential", "important"} : TimerFires(b, mode)
     \/ RetireSteps
     \/ \E b \in Agents : RelayLook(b) \/ RelayType(b) \/ RelayComplete(b)
     \/ Dispatcher
     \/ Agent
     \/ ServerCrash
  /\ UNCHANGED workload

\* The handler that holds the guard goes on; the worker and the dispatcher tick
DeliveryFairness ==
  /\ WF_mailVars(Drain) /\ WF_mailVars(RetireSteps) /\ WF_mailVars(Dispatcher)
  /\ SF_mailVars(DispatchDrain)
  /\ \A b \in Agents : SF_mailVars(DrainCompletionWakes(b))

DeliverySpec == DeliveryInit /\ [][DeliveryNext]_deliveryVars /\ DeliveryFairness

-----------------------------------------------------------------------------
(* Properties *)

DeliveryTypeOK ==
  /\ mail \in Seq([to : Agents, from : Agents \union {Nobody},
                   mode : {"urgent", "important", "sequential"},
                   category : {"none", "native_rename", "completion", "reparent", "stop_notify",
                               "scheduled_reminder"},
                   ask : {"none", "delivery", "stop", "after"}, about : Nat,
                   state : {"pending", "delivered", "dropped"}, typed : Nat])
  /\ live \in [Agents -> BOOLEAN] /\ draft \in [Agents -> BOOLEAN]
  /\ running \in [Agents -> BOOLEAN] /\ ready \in [Agents -> BOOLEAN]
  /\ handoff \in [Agents -> {"none", "pending", "reserved"}]
  /\ watch \in [Agents -> Agents \union {Nobody}]
  /\ typing => frames # <<>> /\ Top.batch # <<>>
  /\ \A i \in DOMAIN frames : frames[i].to \in Agents /\ Range(frames[i].batch) \subseteq DOMAIN mail

\* A message is typed at most once, unless the server stops between typing it and marking
\* it delivered: the drains of senders, the worker and the dispatcher never type a row
\* that another drain has typed.  (A notice of reparenting is typed without the guard and
\* may be typed twice.)
TypedOnce ==
  \A r \in DOMAIN mail : mail[r].category # "reparent" => mail[r].typed <= 1 + mailCrashes

\* Messages of one mode reach an agent in the order they were queued, however many
\* handlers drain its queue: nothing sequential, or important, is typed while an earlier
\* one of the same mode is pending, whatever its category.
TypedInOrder ==
  [][\A r \in DOMAIN mail :
       /\ mail'[r].typed > mail[r].typed
       /\ mail[r].mode # "urgent" /\ mail[r].category # "reparent" /\ Pending(r)
       => \A q \in 1 .. (r - 1) :
            mail[q].to = mail[r].to /\ mail[q].mode = mail[r].mode => ~Pending(q)]_mailVars

Notices(r) == {q \in DOMAIN mail : mail[q].category = "none" /\ mail[q].about = r}

\* The sender of a message that asked for a notice gets exactly one once the message is
\* delivered, and none before, also when the message is typed again after a crash.
OneNoticePerDelivery ==
  \A r \in DOMAIN mail : mail[r].ask = "delivery" =>
    Cardinality(Notices(r)) = IF mail[r].state = "delivered" THEN 1 ELSE 0

ReminderRows(m) ==
  {q \in DOMAIN mail : mail[q].category = "scheduled_reminder" /\ mail[q].about = m}

\* A reminder is queued only while it is active, and a one-shot one only once, although it
\* is cancelled, and its agent stops, between the dispatcher's look and its claim.
ReminderFiresWhileActive ==
  [][\A m \in DOMAIN remind :
       Cardinality(ReminderRows(m))' > Cardinality(ReminderRows(m)) =>
         /\ remind[m].active
         /\ ~remind[m].recurring => ReminderRows(m) = {}]_mailVars

\* A completion wake that is queued for an agent whose composer is empty
WakeWaits(r) ==
  /\ r \in DOMAIN mail /\ mail[r].category = "completion" /\ Pending(r)
  /\ LET b == mail[r].to IN live[b] /\ handoff[b] = "none" /\ running[b] /\ ready[b]

\* The completion wake of a job does not stay queued for an agent whose composer stays
\* empty: the worker gets to it, whatever is queued before it.
WakeNotStuck == \A r \in 1 .. MaxRows : WakeWaits(r) ~> ~WakeWaits(r)

ReminderOpen(m) == m \in DOMAIN remind /\ remind[m].active /\ remind[m].due

\* A reminder that is due is queued, or ends.
DueReminderSettled == \A m \in 1 .. MaxReminders : ReminderOpen(m) ~> ~ReminderOpen(m)

\* Whichever drains, failures and crashes compete for the rows: each is typed, and its notice queued,
\* once; no step of a drain overtakes an earlier row, and no step of the dispatcher fires a reminder
\* that ended since it was listed.
MailIsRight ==
  TypedInOrder /\ ReminderFiresWhileActive /\ [](TypedOnce /\ OneNoticePerDelivery)
=============================================================================
