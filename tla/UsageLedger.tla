---------------------------- MODULE UsageLedger ----------------------------
(***************************************************************************)
(* The token ledger (usage_ledger.rs), fed from one transcript of Claude or *)
(* one rollout of Codex, the account timeline (usage_identity.rs), the rate *)
(* limit windows (usage_burn.rs) and the bindings of provider sessions to   *)
(* seats (seat_sessions.rs).  The tables are one value: an action that      *)
(* writes them is one transaction, and the provider, the poller, the status *)
(* lines and a crash move between the transactions of a scan.               *)
(***************************************************************************)
EXTENDS Integers, FiniteSetsExt, SequencesExt

CONSTANTS
  LedgerCases,    \* sets of things that happen together; a behaviour has one of them
  Accounts,       \* the accounts of the provider
  Replies,        \* assistant lines a Claude transcript may hold
  LedgerBatch,    \* LEDGER_WRITE_BATCH_SIZE: lines in one transaction
  MaxLines,       \* bound: lines of the artifact
  MaxTime,        \* bound: instants
  MaxWindows,     \* bound: rate limit windows
  MaxCuts         \* bound: server crashes, rebuilds, and rewrites of the artifact

ASSUME LedgerAssumption ==
  /\ \A c \in LedgerCases : Cardinality(c \intersect {"claude", "codex"}) = 1
  /\ LedgerBatch \in Nat \ {0}
  /\ {MaxLines, MaxTime, MaxWindows, MaxCuts} \subseteq Nat

VARIABLES
  ledgerCase,  \* what happens in this behaviour, and the provider of the artifact
  artifact,    \* the lines of the artifact
  instant,     \* the clock
  timeline,    \* account_timeline: the intervals of the accounts
  burnSamples, \* burn_samples: the windows observed
  binding,     \* seat_sessions and seat_meta: the seat of the source, its model
  db,          \* the ledger's own tables
  scan,        \* the scan under way
  ledgerCuts   \* the crashes, rebuilds and rewrites so far

ledgerVars == <<ledgerCase, artifact, instant, timeline, burnSamples, binding, db, scan, ledgerCuts>>

Never == MaxTime + 1          \* to_ts IS NULL
NoScan == [pc |-> "idle", seat |-> "unassigned", model |-> "unknown", at |-> 0,
           windows |-> {}, ids |-> {}]
NoTokens == [tokens |-> 0, count |-> 0]
EmptyDb == [rows |-> <<>>, alias |-> <<>>, mapped |-> {}, rollup |-> <<>>, done |-> {},
            cursor |-> [seq |-> 0, total |-> 0], offset |-> 0]

-----------------------------------------------------------------------------
(* The account timeline *)

Open == {i \in timeline : i.to = Never}
Observed == {i \in timeline : ~i.assumed}

\* close_current
CloseCurrent == {IF i.to = Never THEN [i EXCEPT !.to = instant] ELSE i : i \in timeline}

\* The account of the provider after a switch
Switched == CloseCurrent

\* record_observation: nobody signed in closes the interval, another account opens one; a
\* second row of the same instant is refused by the primary key
Observe(who) ==
  /\ \A i \in timeline : i.from # instant
  /\ timeline' = CASE who = "none" -> CloseCurrent
                   [] who # "none" /\ \E i \in Open : i.account = who -> timeline
                   [] OTHER -> Switched \union
                        {[account |-> who, from |-> instant, to |-> Never, assumed |-> FALSE]}
  /\ UNCHANGED <<ledgerCase, artifact, instant, burnSamples, binding, db, scan, ledgerCuts>>

\* account_at
AccountAt(t) == {i.account : i \in {j \in timeline : j.from <= t /\ t < j.to}}

\* predates_first_account_interval
Predates(t) == timeline # {} /\ \A i \in timeline : t < i.from

\* ensure_bootstrap_interval_tx: the first observed account is assumed to have been there
\* since `earliest`
Bootstrapped(earliest) ==
  IF Observed = {} \/ earliest >= Min({i.from : i \in Observed}) THEN timeline
  ELSE LET first == CHOOSE i \in Observed : \A j \in Observed : i.from <= j.from
           old == {i \in timeline : i.assumed /\ i.to = first.from}
       IN IF old = {}
            THEN timeline \union {[account |-> first.account, from |-> earliest,
                                   to |-> first.from, assumed |-> TRUE]}
            ELSE {IF i \in old THEN [i EXCEPT !.from = Min({@, earliest})] ELSE i : i \in timeline}

-----------------------------------------------------------------------------
(* The provider, the status lines and the seats *)

Tick ==
  /\ instant < MaxTime
  /\ instant' = instant + 1
  /\ UNCHANGED <<ledgerCase, artifact, timeline, burnSamples, binding, db, scan, ledgerCuts>>

\* Claude appends a reply, or a copy of one; Codex appends its cumulative total, after the
\* settings that name its model or without them
AppendLine ==
  /\ Len(artifact) < MaxLines
  /\ \/ /\ "claude" \in ledgerCase
        /\ \E r \in Replies : artifact' = Append(artifact, r @@ [at |-> instant])
     \/ /\ "codex" \in ledgerCase
        /\ \E more \in 0..1, model \in ledgerCase \intersect {"unknown", "settings"} :
             LET last == IF artifact = <<>> THEN 1 ELSE Last(artifact).total IN
               artifact' = Append(artifact, [total |-> last + more, at |-> instant,
                                             model |-> IF model = "settings" THEN "opus" ELSE model])
  /\ UNCHANGED <<ledgerCase, instant, timeline, burnSamples, binding, db, scan, ledgerCuts>>

\* The artifact is rewritten shorter
Shrink ==
  /\ ledgerCuts < MaxCuts
  /\ ledgerCuts' = ledgerCuts + 1
  /\ \E n \in 0..Len(artifact) - 1 : artifact' = SubSeq(artifact, 1, n)
  /\ UNCHANGED <<ledgerCase, instant, timeline, burnSamples, binding, db, scan>>

\* record_for, record_claude_statusline, record_codex_event: a sample of a window of the
\* account of this instant, seen by a status line, the poller or the rollout
RecordWindow(kind) ==
  /\ Cardinality(burnSamples) < MaxWindows
  /\ \E a \in AccountAt(instant), start \in {instant - 1, instant} :
       burnSamples' = burnSamples \union {[account |-> a, kind |-> kind, start |-> start, end |-> start + 2]}
  /\ UNCHANGED <<ledgerCase, artifact, instant, timeline, binding, db, scan, ledgerCuts>>

\* append_identity: a seat takes the place of the provisional binding, and never the reverse
AppendIdentity(id) == IF id = "unassigned" THEN binding.id ELSE id

\* append_seat_session: a hook or the runtime tells which seat runs the provider's session
BindSeat ==
  /\ binding.id = "unassigned"
  /\ binding' = [binding EXCEPT !.id = AppendIdentity("s")]
  /\ UNCHANGED <<ledgerCase, artifact, instant, timeline, burnSamples, db, scan, ledgerCuts>>

\* reconcile_seat_sessions: a session that one seat claims is bound, one that several claim
\* (or that only the history knows) is provisional
ReconcileSeats ==
  /\ \E id \in {"unassigned", "s"} : binding' = [binding EXCEPT !.id = AppendIdentity(id)]
  /\ binding' # binding
  /\ UNCHANGED <<ledgerCase, artifact, instant, timeline, burnSamples, db, scan, ledgerCuts>>

\* snapshot_seat_meta: a model becomes known for the seat
LearnModel ==
  /\ binding.model = "unknown"
  /\ binding' = [binding EXCEPT !.model = "opus"]
  /\ UNCHANGED <<ledgerCase, artifact, instant, timeline, burnSamples, db, scan, ledgerCuts>>

-----------------------------------------------------------------------------
(* The tables: contributions, their windows and the rollup *)

\* model_matches_scope, for windows scoped to "opus"
InScope(c, w) == w.kind # "weekly_scoped" \/ c.model = "opus"
InWindow(c, w) == c.account = w.account /\ w.start <= c.at /\ c.at < w.end /\ InScope(c, w)

\* windows_for
WindowsFor(c) == {w.kind : w \in {v \in burnSamples : InWindow(c, v)}}

RollupKey(c, kind) == [seat |-> c.seat, account |-> c.account, model |-> c.model, at |-> c.at, kind |-> kind]

\* apply_rollup: add or subtract, and drop a row that came down to nothing
ApplyRollup(f, c, kind, direction) ==
  LET k == RollupKey(c, kind)
      old == IF k \in DOMAIN f THEN f[k] ELSE NoTokens
      new == [tokens |-> old.tokens + direction * c.total, count |-> old.count + direction]
  IN IF new = NoTokens THEN [j \in DOMAIN f \ {k} |-> f[j]]
     ELSE [j \in DOMAIN f \union {k} |-> IF j = k THEN new ELSE f[j]]

KindsOf(d, m) == {p[2] : p \in {q \in d.mapped : q[1] = m}}

RollKinds(f, c, kinds, direction) ==
  IF c.model = "<synthetic>" THEN f
  ELSE FoldSet(LAMBDA kind, g : ApplyRollup(g, c, kind, direction), f, kinds)

\* materialize_contribution_for_window, for several kinds: INSERT OR IGNORE
MapTo(d, m, kinds) ==
  LET new == kinds \ KindsOf(d, m) IN
    [d EXCEPT !.mapped = @ \union ({m} \X new), !.rollup = RollKinds(@, d.rows[m], new, 1)]

\* materialize_contribution
Materialize(d, m) == MapTo(d, m, WindowsFor(d.rows[m]))

\* reverse_contribution
Reversal(d, m) ==
  [d EXCEPT !.mapped = {p \in @ : p[1] # m}, !.rollup = RollKinds(@, d.rows[m], KindsOf(d, m), -1)]

\* Mutant: the row changes without its contribution being taken back
OverwriteOnly(d, m, c) == Materialize([d EXCEPT !.rows[m] = c], m)

\* overwrite_contribution, as every caller does it: between reverse and materialize
Overwrite(d, m, c) == Materialize([Reversal(d, m) EXCEPT !.rows[m] = c], m)

-----------------------------------------------------------------------------
(* Ingesting one line *)

ExactKey(c) == <<"exact", c.id, c.req>>
LooseKey(c) == <<"loose", c.id>>

\* should_replace
ShouldReplace(c, incumbent) ==
  IF c.side # incumbent.side THEN incumbent.side
  ELSE c.total > incumbent.total \/ (c.total = incumbent.total /\ c.speed /\ ~incumbent.speed)

\* The row a line is another copy of: the same request, or the other chain's copy of the message
Matched(d, c) ==
  CASE ExactKey(c) \in DOMAIN d.alias -> d.alias[ExactKey(c)]
    [] ExactKey(c) \notin DOMAIN d.alias /\ LooseKey(c) \in DOMAIN d.alias ->
         LET m == d.alias[LooseKey(c)] IN IF d.rows[m].side # c.side THEN m ELSE 0
    [] OTHER -> 0

\* upsert_alias, of both keys
WithAliases(d, c, m) ==
  [d EXCEPT !.alias = [k \in DOMAIN d.alias \union {ExactKey(c), LooseKey(c)} |->
                         IF k \in {ExactKey(c), LooseKey(c)} THEN m ELSE d.alias[k]]]

\* ingest_contribution
Ingest(d, c) ==
  LET m == Matched(d, c)
      id == Len(d.rows) + 1
  IN IF m = 0
       THEN WithAliases(Materialize([d EXCEPT !.rows = Append(@, c)], id), c, id)
       ELSE WithAliases(IF ShouldReplace(c, d.rows[m]) THEN Overwrite(d, m, c) ELSE d, c, m)

\* parse_claude_line: the message of a line, if it has one
ParseClaude(l) == IF l.id = "none" THEN {} ELSE {l}

\* The candidate row of a message: the account of its time, the seat of its source
Contribution(l) == l @@ [seat |-> scan.seat, account |-> CHOOSE a \in AccountAt(l.at) : TRUE]

\* resolve_claude_contribution
ClaudeLine(d, l) ==
  IF ParseClaude(l) = {} \/ AccountAt(l.at) = {} THEN d ELSE Ingest(d, Contribution(l))

\* A cumulative total at or before the cursor is ignored
Seen(d, seq) == seq <= d.cursor.seq

\* CodexTotals::delta
Delta(d, l) == l.total - d.cursor.total

\* codex_settings_at, or the model of the seat
CodexModel(l) == IF l.model = "unknown" THEN scan.model ELSE l.model

\* parse_codex_line: the message of a cumulative total, with the settings before it
ParseCodex(d, l, seq) ==
  [id |-> seq, req |-> "turn", side |-> FALSE, speed |-> FALSE, total |-> Delta(d, l),
   model |-> CodexModel(l), at |-> l.at]

\* save_codex_cursor
SaveCursor(d, l, seq) == [d EXCEPT !.cursor = [seq |-> seq, total |-> l.total]]

\* process_codex_event: the delta to the cursor is the contribution, and the cursor moves
CodexLine(d, l, seq) ==
  IF Seen(d, seq) THEN d
  ELSE SaveCursor(IF AccountAt(l.at) = {} \/ Delta(d, l) = 0 THEN d
                  ELSE Ingest(d, Contribution(ParseCodex(d, l, seq))), l, seq)

\* The line has no account though the timeline has begun: the batch is rolled back
Unattributed(l) ==
  AccountAt(l.at) = {} /\ ~Predates(l.at) /\ ("claude" \in ledgerCase => ParseClaude(l) # {})

-----------------------------------------------------------------------------
(* A scan *)

\* scan takes its snapshot of the bindings and of the models
Snapshot == [NoScan EXCEPT !.pc = "rebind", !.seat = binding.id,
                           !.model = IF binding.id = "s" THEN binding.model ELSE "unknown"]

StartScan ==
  /\ scan.pc = "idle"
  /\ scan' = Snapshot
  /\ UNCHANGED <<ledgerCase, artifact, instant, timeline, burnSamples, binding, db, ledgerCuts>>

\* Change rows of the ledger, each between a reversal and a materialization
Amend(d, ms, Changed(_)) == FoldSet(LAMBDA m, e : Overwrite(e, m, Changed(e.rows[m])), d, ms)

\* rebind_provisional_messages
Rebind ==
  /\ scan.pc = "rebind"
  /\ LET bound(c) == [c EXCEPT !.seat = scan.seat, !.model = IF @ = "unknown" THEN scan.model ELSE @]
     IN db' = IF scan.seat = "unassigned" THEN db
              ELSE Amend(db, {m \in DOMAIN db.rows : db.rows[m].seat = "unassigned"}, bound)
  /\ scan' = [scan EXCEPT !.pc = "reconcile"]
  /\ UNCHANGED <<ledgerCase, artifact, instant, timeline, burnSamples, binding, ledgerCuts>>

\* reconcile_unknown_models
Reconcile ==
  /\ scan.pc = "reconcile"
  /\ LET named(c) == [c EXCEPT !.model = scan.model]
         unknown == {m \in DOMAIN db.rows : db.rows[m].model = "unknown" /\ db.rows[m].seat # "unassigned"}
     IN db' = IF scan.model = "unknown" THEN db ELSE Amend(db, unknown, named)
  /\ scan' = [scan EXCEPT !.pc = "bootstrap"]
  /\ UNCHANGED <<ledgerCase, artifact, instant, timeline, burnSamples, binding, ledgerCuts>>

\* scan_artifact begins: an offset past the end starts over, the timeline is extended back
\* to the earliest message that an open window may hold
Bootstrap ==
  /\ scan.pc = "bootstrap"
  /\ LET at == IF db.offset <= Len(artifact) THEN db.offset ELSE 0
         open == {w.start : w \in {v \in burnSamples : v.end > instant}}
         from == IF open = {} THEN 0 ELSE Min(open)
         times == {artifact[n].at : n \in {k \in at + 1..Len(artifact) : artifact[k].at >= from}}
     IN /\ timeline' = IF times = {} THEN timeline ELSE Bootstrapped(Min(times))
        /\ scan' = [scan EXCEPT !.pc = "lines", !.at = at]
  /\ UNCHANGED <<ledgerCase, artifact, instant, burnSamples, binding, db, ledgerCuts>>

\* One batch of scan_artifact: its lines and the offset are one transaction.  The last batch,
\* or one with a line that has no account, ends the artifact
ScanBatch ==
  /\ scan.pc = "lines"
  /\ LET end == Min({Len(artifact), scan.at + LedgerBatch})
         batch == scan.at + 1..end
         ingested == FoldLeft(LAMBDA d, n : IF "claude" \in ledgerCase THEN ClaudeLine(d, artifact[n])
                                            ELSE CodexLine(d, artifact[n], n),
                              db, [k \in 1..Cardinality(batch) |-> scan.at + k])
         fails == \E n \in batch : Unattributed(artifact[n])
     IN IF fails
          THEN /\ scan' = [scan EXCEPT !.pc = "pending"] /\ UNCHANGED db
          ELSE /\ db' = [ingested EXCEPT !.offset = Max({scan.at, end})]
               /\ scan' = [scan EXCEPT !.at = Max({scan.at, end}),
                             !.pc = IF end >= Len(artifact) THEN "pending" ELSE "lines"]
  /\ UNCHANGED <<ledgerCase, artifact, instant, timeline, burnSamples, binding, ledgerCuts>>

\* pending_burn_windows
ListWindows ==
  /\ scan.pc = "pending"
  /\ scan' = [scan EXCEPT !.pc = "select", !.windows = burnSamples \ db.done]
  /\ UNCHANGED <<ledgerCase, artifact, instant, timeline, burnSamples, binding, db, ledgerCuts>>

\* pending_message_ids_for_window
SelectMessages ==
  /\ scan.pc = "select"
  /\ IF scan.windows = {} THEN scan' = NoScan
     ELSE LET w == CHOOSE v \in scan.windows : TRUE IN
            scan' = [scan EXCEPT !.pc = "map",
                       !.ids = {m \in DOMAIN db.rows : InWindow(db.rows[m], w) /\ w.kind \notin KindsOf(db, m)}]
  /\ UNCHANGED <<ledgerCase, artifact, instant, timeline, burnSamples, binding, db, ledgerCuts>>

\* materialize_window_messages
MapMessages ==
  /\ scan.pc = "map"
  /\ LET w == CHOOSE v \in scan.windows : TRUE IN
       db' = FoldSet(LAMBDA m, d : MapTo(d, m, {w.kind}), db, scan.ids)
  /\ scan' = [scan EXCEPT !.pc = "mark"]
  /\ UNCHANGED <<ledgerCase, artifact, instant, timeline, burnSamples, binding, ledgerCuts>>

\* mark_burn_window_materialized
MarkedWindows == {CHOOSE v \in scan.windows : TRUE}

MarkWindow ==
  /\ scan.pc = "mark"
  /\ db' = [db EXCEPT !.done = @ \union MarkedWindows]
  /\ scan' = [scan EXCEPT !.pc = "select", !.windows = @ \ MarkedWindows, !.ids = {}]
  /\ UNCHANGED <<ledgerCase, artifact, instant, timeline, burnSamples, binding, ledgerCuts>>

\* rebuild_rollups, and rebuild, which scans from nothing
Rebuild ==
  /\ scan.pc = "idle" /\ ledgerCuts < MaxCuts
  /\ ledgerCuts' = ledgerCuts + 1
  /\ \/ /\ db' = FoldSet(LAMBDA m, d : Materialize(d, m),
                         [db EXCEPT !.mapped = {}, !.rollup = <<>>, !.done = {}], DOMAIN db.rows)
        /\ UNCHANGED scan
     \/ db' = EmptyDb /\ scan' = Snapshot
  /\ UNCHANGED <<ledgerCase, artifact, instant, timeline, burnSamples, binding>>

LedgerCrash ==
  /\ scan.pc # "idle" /\ ledgerCuts < MaxCuts
  /\ ledgerCuts' = ledgerCuts + 1
  /\ scan' = NoScan
  /\ UNCHANGED <<ledgerCase, artifact, instant, timeline, burnSamples, binding, db>>

-----------------------------------------------------------------------------
LedgerInit ==
  /\ ledgerCase \in LedgerCases
  /\ artifact = <<>> /\ instant = 1 /\ timeline = {} /\ burnSamples = {}
  /\ binding = [id |-> "unassigned", model |-> "unknown"]
  /\ db = EmptyDb /\ scan = NoScan
  /\ ledgerCuts = 0

LedgerNext ==
  \/ Tick \/ AppendLine
  \/ "rewrite" \in ledgerCase /\ Shrink
  \/ "bind" \in ledgerCase /\ (BindSeat \/ ReconcileSeats)
  \/ "model" \in ledgerCase /\ LearnModel
  \/ \E who \in IF "switch" \in ledgerCase THEN Accounts \union {"none"} ELSE {CHOOSE a \in Accounts : TRUE} :
       Observe(who)
  \/ \E kind \in ledgerCase \intersect {"session", "weekly_scoped"} : RecordWindow(kind)
  \/ StartScan \/ Rebind \/ Reconcile \/ Bootstrap \/ ScanBatch
  \/ ListWindows \/ SelectMessages \/ MapMessages \/ MarkWindow
  \/ "rebuild" \in ledgerCase /\ Rebuild
  \/ "crash" \in ledgerCase /\ LedgerCrash

LedgerSpec == LedgerInit /\ [][LedgerNext]_ledgerVars

-----------------------------------------------------------------------------
(* Properties *)

\* The types of the ledger's state
LedgerTypeOK ==
  /\ ledgerCase \in LedgerCases /\ instant \in 1..MaxTime
  /\ \A i \in timeline : i.account \in Accounts /\ i.from \in 0..MaxTime /\ i.to \in 0..Never
  /\ binding.id \in {"unassigned", "s"} /\ binding.model \in {"unknown", "opus"}
  /\ db.mapped \subseteq (DOMAIN db.rows) \X {"session", "weekly_scoped"}
  /\ db.offset \in 0..MaxLines /\ scan.at \in 0..MaxLines
  /\ scan.pc \in {"idle", "rebind", "reconcile", "bootstrap", "lines", "pending", "select", "map", "mark"}

\* The seat_tokens a full recomputation from message_ledger and message_window would give
Recomputed ==
  LET counted == {p \in db.mapped : db.rows[p[1]].model # "<synthetic>"}
      keyOf(p) == RollupKey(db.rows[p[1]], p[2])
      of(k) == {p \in counted : keyOf(p) = k}
  IN [k \in {keyOf(p) : p \in counted} |->
        [tokens |-> FoldSet(LAMBDA p, n : n + db.rows[p[1]].total, 0, of(k)),
         count |-> Cardinality(of(k))]]

\* The incremental rollup is what a recomputation would give: replacements, rebinds, model
\* reconciliation, late windows, rescans and crashes never leave tokens behind or count them
\* twice (reverse_contribution, overwrite_contribution, materialize_contribution)
RollupMatchesLedger == db.rollup = Recomputed

\* A window marked as materialized is complete: every message of the ledger inside it is
\* mapped, also one ingested or changed after the window was marked, and also when the window
\* was first seen in the middle of a scan
WindowsComplete ==
  \A w \in db.done : \A m \in DOMAIN db.rows : InWindow(db.rows[m], w) => w.kind \in KindsOf(db, m)

\* However often lines are read again, a Claude request has one row, and the deltas of a
\* Codex thread never sum to more than its cumulative total
CountedOnce ==
  IF "claude" \in ledgerCase
    THEN \A m, n \in DOMAIN db.rows : ExactKey(db.rows[m]) = ExactKey(db.rows[n]) => m = n
    ELSE FoldLeft(LAMBDA n, c : n + c.total, 0, db.rows) <= db.cursor.total

\* The intervals of a provider's accounts do not overlap, so a message has one account
\* (close_current, ensure_bootstrap_interval_tx)
OneAccountAtATime ==
  \A i, j \in timeline : i # j => i.to <= j.from \/ j.to <= i.from

\* The ledger, the windows and the rollup agree at every point of a scan, rebind, rebuild or
\* switch of accounts, also when the server stops there.
LedgerIsRight == RollupMatchesLedger /\ WindowsComplete /\ CountedOnce /\ OneAccountAtATime
=============================================================================
