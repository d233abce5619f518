---------------------------- MODULE ContextMonitor ----------------------------
(***************************************************************************)
(* The context monitor (sessions.rs): a seat reports how full its context  *)
(* is, and the monitor tells somebody once, in each life of a context,     *)
(* that a threshold was reached.                                           *)
(*                                                                         *)
(* Claude posts samples from its status line with detached curls, which    *)
(* overtake each other and everything else; its PreCompact and             *)
(* SessionStart hooks are waited for.  Codex writes events to a stream the *)
(* server reads in order, and starts again at its end after a restart.     *)
(* Every handler runs under the write guard, and is one step here.         *)
(***************************************************************************)
EXTENDS Integers, FiniteSetsExt, SequencesExt

CONSTANTS
  MonitorProviders,        \* the providers a run looks at
  Thresholds,       \* the levels to be told of
  MaxLevel,         \* bound: how full a context gets
  MaxSamples,       \* bound: samples the agent sends
  MaxContexts,      \* bound: compactions and clears
  MaxSwitches,      \* bound: times the monitor is switched
  MonitorCrashes    \* bound: server crashes

ASSUME MonitorAssumption ==
  /\ MonitorProviders \subseteq {"claude", "codex-fork"}
  /\ MaxLevel \in Nat \ {0} /\ Thresholds \subseteq 1 .. MaxLevel
  /\ {MaxSamples, MaxContexts, MaxSwitches, MonitorCrashes} \subseteq Nat

VARIABLES
  gauge,      \* agent: its provider, the level of its context, and which context it is
  hook,       \* agent: the lifecycle hook it waits for, if any
  samples,    \* Claude: samples on their way
  stream,     \* Codex: events written and not yet read
  mon,        \* registry: the monitor of the seat
  alertRows,  \* message_queue: undelivered context_monitor alerts
  told,       \* alerts delivered
  sample,     \* history: the last sample sent
  blind,      \* history: did the server miss that a context was replaced?
  stamp, switches, monitorCrashes

monitorVars == <<gauge, hook, samples, stream, mon, alertRows, told, sample, blind, stamp,
                 switches, monitorCrashes>>

NoHook == [kind |-> "none", at |-> 0]
NoSample == [level |-> 0, at |-> 0, context |-> 0]

-----------------------------------------------------------------------------
(* The agent *)

Fills ==
  /\ hook = NoHook /\ gauge.level < MaxLevel
  /\ gauge' = [gauge EXCEPT !.level = @ + 1]
  /\ UNCHANGED <<hook, samples, stream, mon, alertRows, told, sample, blind, stamp, switches,
                 monitorCrashes>>

\* The status line is rendered, or the token usage of a turn is written to the stream
Reports ==
  /\ hook = NoHook /\ stamp < MaxSamples
  /\ stamp' = stamp + 1
  /\ sample' = [level |-> gauge.level, at |-> stamp + 1, context |-> gauge.context]
  /\ IF gauge.provider = "claude"
       THEN samples' = samples \union {sample'} /\ UNCHANGED stream
       ELSE stream' = Append(stream, sample') /\ UNCHANGED samples
  /\ UNCHANGED <<gauge, hook, mon, alertRows, told, blind, switches, monitorCrashes>>

\* Claude is about to compact, or has cleared: the hook is sent and waited for
Announces(kind) ==
  /\ gauge.provider = "claude" /\ hook = NoHook /\ gauge.context < MaxContexts
  /\ stamp' = stamp + 1
  /\ hook' = [kind |-> kind, at |-> stamp + 1]
  /\ gauge' = IF kind = "reset"
                THEN [gauge EXCEPT !.level = 0, !.context = @ + 1] ELSE gauge
  /\ UNCHANGED <<samples, stream, mon, alertRows, told, sample, blind, switches, monitorCrashes>>

\* Claude has compacted, and reports that too
Compacts ==
  /\ hook.kind = "compact"
  /\ hook' = [kind |-> "complete", at |-> hook.at]
  /\ \E l \in 0 .. gauge.level : gauge' = [gauge EXCEPT !.level = l, !.context = @ + 1]
  /\ UNCHANGED <<samples, stream, mon, alertRows, told, sample, blind, stamp, switches,
                 monitorCrashes>>

\* Codex compacts without telling anybody, and the usage it writes next is smaller
Shrinks ==
  /\ gauge.provider = "codex-fork" /\ gauge.level > 0 /\ gauge.context < MaxContexts
  /\ stamp < MaxSamples /\ sample.context = gauge.context /\ sample.level = gauge.level
  /\ gauge' = [gauge EXCEPT !.level = 0, !.context = @ + 1]
  /\ stamp' = stamp + 1
  /\ sample' = [level |-> 0, at |-> stamp + 1, context |-> gauge.context + 1]
  /\ stream' = Append(stream, sample')
  /\ UNCHANGED <<hook, samples, mon, alertRows, told, blind, switches, monitorCrashes>>

-----------------------------------------------------------------------------
(* The server *)

\* reset_context_oneshot_flags
Rearmed(m) == [m EXCEPT !.reported = {}, !.boundary = 0]

\* clear_context_snapshot
Forgotten(m) == [m EXCEPT !.level = -1, !.at = 0]

\* The thresholds a sample reaches that were not reported
Crossed(m, level) == {t \in Thresholds : t <= level} \ m.reported

\* latch_context_alert and queue_context_monitor_message: one alert for all the thresholds
\* reached.  The message is in SQLite before the latches are saved.
Latch(m, rows, s) ==
  LET crossed == IF m.enabled THEN Crossed(m, s.level) ELSE {} IN
    /\ alertRows' = IF crossed = {} THEN rows ELSE rows \union {s}
    /\ mon' = [m EXCEPT !.reported = @ \union crossed]

\* Mutant: samples are compared with the last one only
StaleBySample(s) == s.at <= mon.at

\* A sample emitted before the current context began, or before the stored one
Stale(s) == (mon.boundary # 0 /\ s.at <= mon.boundary) \/ (mon.at # 0 /\ s.at <= mon.at)

\* apply_context_usage_update
SampleArrives(s) ==
  /\ samples' = samples \ {s}
  /\ IF Stale(s) THEN UNCHANGED <<mon, alertRows>>
     ELSE Latch([mon EXCEPT !.level = s.level, !.at = s.at, !.compacting = FALSE], alertRows, s)
  /\ UNCHANGED <<gauge, hook, stream, told, sample, blind, stamp, switches, monitorCrashes>>

SampleLost(s) ==
  /\ samples' = samples \ {s}
  /\ sample' = IF s = sample THEN NoSample ELSE sample
  /\ UNCHANGED <<gauge, hook, stream, mon, alertRows, told, blind, stamp, switches, monitorCrashes>>

\* apply_compaction_event: PreCompact opens the next cycle.  The notice of the compaction
\* itself is not an alert about a level and is left out.
CompactionHook ==
  /\ hook.kind = "compaction"
  /\ mon' = [Rearmed(mon) EXCEPT !.boundary = hook.at, !.compacting = TRUE]
  /\ hook' = [hook EXCEPT !.kind = "compact"]
  /\ UNCHANGED <<gauge, samples, stream, alertRows, told, sample, blind, stamp, switches,
                 monitorCrashes>>

\* apply_context_usage_event, compaction_complete
CompleteHook ==
  /\ hook.kind = "complete"
  /\ mon' = Forgotten([mon EXCEPT !.compacting = FALSE])
  /\ hook' = NoHook
  /\ UNCHANGED <<gauge, samples, stream, alertRows, told, sample, blind, stamp, switches,
                 monitorCrashes>>

\* apply_context_reset_event and cancel_context_monitor_alerts
ContextResetHook ==
  /\ hook.kind = "reset"
  /\ mon' = Forgotten([Rearmed(mon) EXCEPT !.boundary = hook.at, !.compacting = FALSE])
  /\ alertRows' = {}
  /\ hook' = NoHook
  /\ UNCHANGED <<gauge, samples, stream, told, sample, blind, stamp, switches, monitorCrashes>>

\* Codex: a smaller usage begins the next cycle
NextCycle(m, s) == IF s.level < m.level THEN Rearmed(m) ELSE m

\* ... which also cancels the alerts of the one before
UsageRead(s) ==
  Latch([NextCycle(mon, s) EXCEPT !.level = s.level, !.at = s.at],
        IF s.level < mon.level THEN {} ELSE alertRows, s)

\* The usage part of apply_codex_fork_event_line_with_artifact
StreamRead ==
  /\ stream # <<>>
  /\ stream' = Tail(stream)
  /\ UsageRead(Head(stream))
  /\ UNCHANGED <<gauge, hook, samples, told, sample, blind, stamp, switches, monitorCrashes>>

\* set_context_monitor: enabling, also again, opens a new cycle and forgets where the
\* current context began; disabling cancels what is pending
SetContextMonitor(on) ==
  /\ switches < MaxSwitches
  /\ switches' = switches + 1
  /\ mon' = IF on THEN [Rearmed(mon) EXCEPT !.enabled = TRUE] ELSE [mon EXCEPT !.enabled = FALSE]
  /\ alertRows' = IF on THEN alertRows ELSE {}
  /\ blind' = (blind \/ (on /\ samples # {}))
  /\ sample' = IF on THEN NoSample ELSE sample
  /\ UNCHANGED <<gauge, hook, samples, stream, told, stamp, monitorCrashes>>

\* An alert is typed into the session it is for
AlertDelivered(a) ==
  /\ alertRows' = alertRows \ {a}
  /\ told' = Append(told, a)
  /\ UNCHANGED <<gauge, hook, samples, stream, mon, sample, blind, stamp, switches, monitorCrashes>>

\* The server stops and comes back.  The hook the agent waits for fails.  For Codex,
\* reconcile_codex_fork_context_at_restart takes the last usage of the stream.
MonitorCrash ==
  /\ monitorCrashes < MonitorCrashes
  /\ monitorCrashes' = monitorCrashes + 1
  /\ stream' = <<>>
  /\ hook' = IF hook.kind \in {"compaction", "compact"}
               THEN [hook EXCEPT !.kind = "compact"] ELSE NoHook
  /\ blind' = (blind \/ hook.kind \in {"compaction", "reset"}
                \/ \E i \in DOMAIN stream : stream[i].level < mon.level)
  /\ IF stream = <<>> THEN UNCHANGED <<mon, alertRows>> ELSE UsageRead(Last(stream))
  /\ UNCHANGED <<gauge, samples, told, sample, stamp, switches>>

-----------------------------------------------------------------------------

MonitorInit ==
  /\ \E p \in MonitorProviders : gauge = [provider |-> p, level |-> 0, context |-> 0]
  /\ hook = NoHook /\ samples = {} /\ stream = <<>>
  /\ mon = [enabled |-> FALSE, reported |-> {}, boundary |-> 0, level |-> -1, at |-> 0,
            compacting |-> FALSE]
  /\ alertRows = {} /\ told = <<>> /\ sample = NoSample /\ blind = FALSE
  /\ stamp = 0 /\ switches = 0 /\ monitorCrashes = 0

MonitorNext ==
  \/ Fills \/ Reports \/ Compacts \/ Shrinks
  \/ \E k \in {"compaction", "reset"} : Announces(k)
  \/ \E s \in samples : SampleArrives(s)
  \/ \E s \in samples : SampleLost(s)
  \/ CompactionHook \/ CompleteHook \/ ContextResetHook \/ StreamRead
  \/ \E on \in BOOLEAN : SetContextMonitor(on)
  \/ \E a \in alertRows : AlertDelivered(a)
  \/ MonitorCrash

MonitorSpec == MonitorInit /\ [][MonitorNext]_monitorVars

-----------------------------------------------------------------------------
(* Properties *)

MonitorTypeOK ==
  /\ gauge.level \in 0 .. MaxLevel /\ mon.level \in -1 .. MaxLevel
  /\ mon.reported \subseteq Thresholds
  /\ hook.kind \in {"none", "compaction", "compact", "complete", "reset"}
  /\ \A a \in alertRows : a.level \in 1 .. MaxLevel

\* Once everything the agent sent has arrived, a threshold its present context has reached
\* has been announced for this context: a late sample of a replaced context never takes the
\* place of the alert.  (Switching the monitor on forgets where the context began, and a
\* restart may miss that Codex replaced it.)
ThresholdAnnounced ==
  mon.enabled /\ ~blind /\ samples = {} /\ stream = <<>> /\ hook = NoHook
    /\ sample.at # 0 /\ sample.context = gauge.context
  => \A t \in Thresholds : t <= sample.level =>
       \E a \in alertRows \union Range(told) : a.context = gauge.context /\ a.level >= t

\* No threshold is announced twice for one context unless the monitor was switched on again
\* or the context was replaced unnoticed.
AnnouncedOnce ==
  switches <= 1 /\ ~blind =>
    \A i, j \in DOMAIN told : told[i].context = told[j].context /\ i # j
      => \E t \in Thresholds : (t <= told[i].level) # (t <= told[j].level)

\* Every threshold a context reaches is announced for it, and once.
AlertsAreExact == ThresholdAnnounced /\ AnnouncedOnce
=============================================================================
