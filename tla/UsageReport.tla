---------------------------- MODULE UsageReport ----------------------------
(***************************************************************************)
(* The rate limit meters (usage_burn.rs), the account poller               *)
(* (usage_identity.rs) and the report over them (usage_report.rs): which   *)
(* windows it shows, how it splits a meter among the seats, which limit    *)
(* binds, and whether its numbers may decide a spawn.  Times are instants  *)
(* and percentages are in a unit the splits divide, so that they are exact.*)
(***************************************************************************)
EXTENDS Integers, FiniteSetsExt, SequencesExt

CONSTANTS
  MeterCases,     \* sets of things that happen together; a behaviour has one of them
  ClaudeAccounts, \* the Claude accounts; Codex has one
  Workers,        \* the seats that use tokens
  Spent,          \* the percentages a provider reports
  Drift,          \* how far two sources may differ on a reset
  MaxClock,       \* bound: instants
  MaxMeters,      \* bound: samples before the last observation
  MaxLogins,      \* bound: intervals of accounts before the last poll
  MaxWork         \* bound: ledger rows

ASSUME ReportAssumption ==
  /\ \A p \in Spent : p % 120 = 0
  /\ Spent \subseteq Nat /\ Drift \subseteq Nat /\ {MaxClock, MaxMeters, MaxLogins, MaxWork} \subseteq Nat

VARIABLES
  meterCase,  \* what happens in this behaviour
  meterClock,      \* the instant
  login,      \* account_timeline: for each provider its intervals
  tier,       \* accounts.plan_tier
  cached,     \* the usage cache in ~/.claude.json
  meters,     \* burn_samples in the order of their ids
  work        \* message_ledger rows by seat, model and credit, with their instants

reportVars == <<meterCase, meterClock, login, tier, cached, meters, work>>

WholeQuota == 240         \* 100 percent
StaleAfter == 1           \* STALE_AFTER_SECONDS
AnHour == 1               \* MIN_PROJECTION_ELAPSED_SECONDS
Signed == MaxClock + 1    \* to_ts IS NULL
NoKey == "none"
CodexAccount == "x"
AllAccounts == ClaudeAccounts \union {CodexAccount}
ProviderOf(key) == IF key = CodexAccount THEN "codex" ELSE "claude"

\* The windows of each provider and their lengths
Lengths == [session_5h |-> 2, weekly_all |-> 4, weekly_scoped |-> 4, codex_300 |-> 2, codex_10080 |-> 4]
Kinds == DOMAIN Lengths
WeeklyKinds == {"weekly_all", "weekly_scoped", "codex_10080"}

\* A usage window as a provider reports it
Window(kind, scope, percent, resets) ==
  [kind |-> kind, scope |-> scope, percent |-> percent, resets |-> resets]

-----------------------------------------------------------------------------
(* Whose meter: the identity files and the account timeline *)

\* account_at: the account of a provider at an instant
ChargedAccount(p, t) ==
  LET covering == {i \in login[p] : i.from <= t /\ t < i.to}
  IN  IF covering = {} THEN NoKey
      ELSE (CHOOSE i \in covering : \A j \in covering : j.from <= i.from).key

\* current_account
CurrentKey(p) ==
  LET open == {i \in login[p] : i.to = Signed}
  IN  IF open = {} THEN NoKey ELSE (CHOOSE i \in open : TRUE).key

\* insert_timeline_row at the instant of the observation
OpenedFor(rows, key) == rows \union {[key |-> key, from |-> meterClock, to |-> Signed]}

\* record_observation as the poller calls it; a row that exists at the instant refuses the transaction
Observation(p, key) ==
  LET closed == {IF i.to = Signed THEN [i EXCEPT !.to = meterClock] ELSE i : i \in login[p]}
      free   == \A i \in login[p] : i.from # meterClock
  IN  CASE key = NoKey -> closed
        [] key = CurrentKey(p) -> login[p]
        [] key # CurrentKey(p) /\ free -> OpenedFor(closed, key)
        [] OTHER -> login[p]

\* ensure_bootstrap_interval: history before the first observation belongs to the first account
ReportReady(p, t) ==
  IF login[p] = {} \/ \E i \in login[p] : i.from <= t THEN login[p]
  ELSE LET first == CHOOSE i \in login[p] : \A j \in login[p] : i.from <= j.from
       IN  login[p] \union {[key |-> first.key, from |-> t, to |-> first.from]}

-----------------------------------------------------------------------------
(* Samples *)

\* One sample; a source has one sample of a window for an observation
Inserted(rows, key, w, source, at) ==
  IF \E i \in DOMAIN rows : /\ rows[i].key = key /\ rows[i].kind = w.kind /\ rows[i].scope = w.scope
                            /\ rows[i].source = source /\ rows[i].at = at
  THEN rows
  ELSE Append(rows, [key |-> key, kind |-> w.kind, scope |-> w.scope, percent |-> w.percent,
                     start |-> w.resets - Lengths[w.kind], resets |-> w.resets,
                     source |-> source, at |-> at])

\* validate_window
Valid(ws) == \A i \in DOMAIN ws : ws[i].percent \in 0..WholeQuota

\* record_for_account, insert_windows: all windows of one observation, in one transaction
RecordForAccount(key, ws, source, at) ==
  IF Valid(ws) THEN FoldLeft(LAMBDA rows, w : Inserted(rows, key, w, source, at), meters, ws)
  ELSE meters

\* record_for_provider
RecordForProvider(p, ws, source, at) ==
  IF ChargedAccount(p, at) = NoKey THEN meters
  ELSE RecordForAccount(ChargedAccount(p, at), ws, source, at)

\* latest_window: the newest sample of a window at or before an observation, or an empty set
LatestMeter(key, kind, scope, at) ==
  LET same == {i \in DOMAIN meters : /\ meters[i].key = key /\ meters[i].kind = kind
                                     /\ meters[i].scope = scope /\ meters[i].at <= at}
  IN  {i \in same : \A j \in same : meters[j].at < meters[i].at \/ (meters[j].at = meters[i].at /\ j <= i)}

\* The reset of a window, as a source states it
Resets(kind) == {(meterClock \div Lengths[kind] + 1) * Lengths[kind] + d : d \in Drift}

\* parse_claude_cached_usage: the limits, or the two plain windows when there is none of them
CacheForms ==
  {<<Window("session_5h", "", p, r), Window("weekly_all", "", q, s), Window("weekly_scoped", "fable", q, s)>> :
     p \in Spent, q \in Spent, r \in {Max(Resets("session_5h"))}, s \in {Max(Resets("weekly_all"))}}
  \union {<<Window("session_5h", "", p, r), Window("weekly_all", "", p, s)>> :
     p \in Spent, r \in {Min(Resets("session_5h"))}, s \in {Min(Resets("weekly_all"))}}

\* Claude Code writes its usage cache: [EXTERNAL]
CacheWritten ==
  /\ "cache" \in meterCase /\ Len(meters) < MaxMeters /\ cached.at < meterClock
  /\ \E key \in ClaudeAccounts, ws \in CacheForms : cached' = [key |-> key, at |-> meterClock, windows |-> ws]
  /\ UNCHANGED <<meterCase, meterClock, login, tier, meters, work>>

\* record_claude_json_file: the cached windows go to the account the cache names
CacheRecorded ==
  RecordForAccount(cached.key, cached.windows, "claude_json", cached.at)

\* poll_once: both identity files; the cache is read when the Claude file was.  An
\* unreadable file changes nothing for its provider, and a plan the file leaves out stays
IdentityPoll ==
  /\ "poll" \in meterCase /\ Cardinality(login["claude"] \union login["codex"]) <= MaxLogins
  /\ \E c \in IF "switch" \in meterCase THEN ClaudeAccounts \union {NoKey, "unreadable"} ELSE {CurrentKey("claude")},
        x \in IF "codex" \in meterCase THEN {CodexAccount, NoKey} ELSE {NoKey},
        plan \in IF "plan" \in meterCase THEN {"", "pro", "max"} ELSE {""} :
       LET polled == c # "unreadable"
       IN  /\ login' = [claude |-> IF polled THEN Observation("claude", c) ELSE login["claude"],
                        codex  |-> Observation("codex", x)]
           /\ tier' = IF c \in ClaudeAccounts /\ plan # "" THEN [tier EXCEPT ![c] = plan] ELSE tier
           /\ meters' = IF polled THEN CacheRecorded ELSE meters
  /\ UNCHANGED <<meterCase, meterClock, cached, work>>

\* record_claude_statusline: the windows of which the status line has both the percentage and the reset
Statusline ==
  /\ "statusline" \in meterCase /\ Len(meters) < MaxMeters
  /\ \E p \in Spent, q \in Spent, r \in Resets("session_5h"), s \in Resets("weekly_all") :
       \E ws \in {<<Window("session_5h", "", p, r), Window("weekly_all", "", q, s)>>,
                  <<Window("session_5h", "", p, r)>>, <<Window("weekly_all", "", q, s)>>} :
         meters' = RecordForProvider("claude", ws, "statusline", meterClock)
  /\ UNCHANGED <<meterCase, meterClock, login, tier, cached, work>>

\* The windows of a Codex event that differ from the newest sample: what the event leaves
\* out is taken over from that sample (changed_windows)
ChangedWindows(key, slot, at) ==
  LET latest  == LatestMeter(key, slot.kind, slot.scope, at)
      prior   == meters[CHOOSE i \in latest : TRUE]
      percent == IF slot.percent # -1 THEN slot.percent ELSE prior.percent
      resets  == IF slot.resets # -1 THEN slot.resets ELSE prior.resets
  IN  IF latest = {} /\ -1 \in {slot.percent, slot.resets} THEN <<>>
      ELSE IF latest # {} /\ percent = prior.percent /\ resets = prior.resets THEN <<>>
      ELSE <<Window(slot.kind, slot.scope, percent, resets)>>

\* record_codex_event: of a rate limit that may be another one than codex's own, and that may
\* arrive after later ones
CodexEvent ==
  /\ "codex" \in meterCase /\ Len(meters) < MaxMeters
  /\ \E kind \in {"codex_300", "codex_10080"}, scope \in {"", "spark"}, percent \in Spent \union {-1},
        resets \in Resets("codex_300") \union {-1}, at \in {meterClock, meterClock - 1} \intersect Nat :
       LET rows == IF ChargedAccount("codex", at) = NoKey THEN ReportReady("codex", at) ELSE login["codex"]
           slot == [kind |-> kind, scope |-> scope, percent |-> percent, resets |-> resets]
       IN  /\ {percent, resets} # {-1}
           /\ login' = [login EXCEPT !["codex"] = rows]
           /\ meters' = IF \A i \in rows : ~(i.from <= at /\ at < i.to) THEN meters
                        ELSE RecordForAccount(CodexAccount, ChangedWindows(CodexAccount, slot, at),
                                              "codex_event", at)
  /\ UNCHANGED <<meterCase, meterClock, tier, cached, work>>

\* A seat uses tokens; UsageLedger models how they get into the ledger
Work ==
  /\ "work" \in meterCase /\ Cardinality(work) < MaxWork
  /\ \E s \in Workers, m \in {"fable", "opus"}, c \in BOOLEAN :
       /\ ChargedAccount("claude", meterClock) # NoKey
       /\ work' = work \union {[seat |-> s, model |-> m, credit |-> c, at |-> meterClock,
                                key |-> ChargedAccount("claude", meterClock)]}
  /\ UNCHANGED <<meterCase, meterClock, login, tier, cached, meters>>

ClockTick ==
  /\ meterClock < MaxClock /\ meterClock' = meterClock + 1
  /\ UNCHANGED <<meterCase, login, tier, cached, meters, work>>

ReportInit ==
  /\ meterCase \in MeterCases
  /\ meterClock = 0
  /\ login = [claude |-> IF "codex" \in meterCase THEN {}
                         ELSE {[key |-> CHOOSE k \in ClaudeAccounts : TRUE, from |-> 0, to |-> Signed]},
              codex  |-> IF {"codex", "poll"} \intersect meterCase = {"codex"}
                         THEN {[key |-> CodexAccount, from |-> 0, to |-> Signed]} ELSE {}]
  /\ tier = [k \in AllAccounts |-> "unknown"]
  /\ cached = [key |-> CHOOSE k \in ClaudeAccounts : TRUE, at |-> -1, windows |-> <<>>]
  /\ meters = <<>> /\ work = {}

ReportNext ==
  \/ CacheWritten \/ IdentityPoll \/ Statusline \/ CodexEvent \/ Work \/ ClockTick

ReportSpec == ReportInit /\ [][ReportNext]_reportVars

-----------------------------------------------------------------------------
(* The report: a function of the tables and the instant *)

Newer(i, j) == meters[i].at > meters[j].at \/ (meters[i].at = meters[j].at /\ i > j)
SameMeter(i, j) ==
  meters[i].key = meters[j].key /\ meters[i].kind = meters[j].kind /\ meters[i].scope = meters[j].scope

\* load_latest_windows: the newest sample of every window
LatestWindows ==
  {i \in DOMAIN meters : \A j \in DOMAIN meters :
     SameMeter(i, j) /\ meters[i].start = meters[j].start /\ i # j => Newer(i, j)}

\* select_windows: of every meter the open window observed last, and three closed ones
SelectWindows(sinceReset) ==
  {i \in LatestWindows :
     LET group == {j \in LatestWindows : /\ SameMeter(i, j)
                                           /\ (meters[j].resets > meterClock) = (meters[i].resets > meterClock)}
     IN  IF meters[i].resets > meterClock THEN \A j \in group \ {i} : Newer(i, j)
         ELSE ~sinceReset /\ Cardinality({j \in group : meters[j].start > meters[i].start}) < 3}

\* load_window_rows: UsageLedger shows that a row is mapped to every window that covers it
WindowRows(i) ==
  {r \in work : r.key = meters[i].key /\ meters[i].start <= r.at /\ r.at < meters[i].resets}

\* premium_context: the scoped meter that takes its part of a weekly one, at half the price
PremiumContext(i) ==
  LET scoped == {j \in LatestWindows : /\ meters[j].key = meters[i].key /\ meters[j].kind = "weekly_scoped"
                                       /\ meters[j].start = meters[i].start}
      last   == CHOOSE j \in scoped : \A k \in scoped \ {j} : Newer(j, k)
  IN  CASE meters[i].kind = "weekly_scoped" -> [scope |-> meters[i].scope, points |-> meters[i].percent]
        [] meters[i].kind = "weekly_all" /\ scoped # {} ->
             [scope |-> meters[last].scope, points |-> meters[last].percent \div 2]
        [] OTHER -> [scope |-> "", points |-> 0]

\* weighted_units: the price of a row
WeightedUnits(r) == IF r.model = "fable" THEN 2 ELSE 1

TotalUnits(rows) == MapThenSumSet(WeightedUnits, rows)

\* Mutant: what nobody used is left out
NoRemainder(i, premium, rest) == 0

\* The points no row accounts for
Unassigned(i, premium, rest) ==
  LET rows == {r \in WindowRows(i) : ~r.credit}
      ofScope == {r \in rows : r.model = PremiumContext(i).scope}
  IN  (IF ofScope = {} THEN premium ELSE 0)
      + (IF rows = ofScope \/ meters[i].kind = "weekly_scoped" THEN rest ELSE 0)

\* build_window_report: the burn of every seat.  The scoped points go to the rows of the scope,
\* the rest to the other rows, by weight; rows on credit take nothing
BurnBySeat(i) ==
  LET premium == PremiumContext(i).points
      scoped  == meters[i].kind = "weekly_scoped"
      rest    == IF scoped THEN 0 ELSE Max({meters[i].percent - premium, 0})
      rows    == {r \in WindowRows(i) : ~r.credit}
      ofScope == {r \in rows : r.model = PremiumContext(i).scope}
      others  == IF scoped THEN {} ELSE rows \ ofScope
      Burn(r) == CASE r \in ofScope -> (premium * WeightedUnits(r)) \div TotalUnits(ofScope)
                   [] r \in others -> (rest * WeightedUnits(r)) \div TotalUnits(others)
                   [] OTHER -> 0
  IN  [s \in Workers \union {"unassigned"} |->
         IF s = "unassigned" THEN Unassigned(i, premium, rest)
         ELSE MapThenSumSet(Burn, {r \in rows : r.seat = s})]

ResetElapsed(i) == meters[i].resets <= meterClock
StaleMeter(i) == ResetElapsed(i) \/ meterClock - meters[i].at > StaleAfter

\* usage_report_for_session: what a session and its descendants used of a window; a stale one has no figure
TargetPercent(i, seats) == IF StaleMeter(i) THEN 0 ELSE MapThenSumSet(LAMBDA s : BurnBySeat(i)[s], seats)

\* current_weekly_usage_percent: the figure a parent sees for a child on an account
WeeklyPercent(seat, key) ==
  Max({0} \union {TargetPercent(i, {seat}) :
                    i \in {j \in SelectWindows(TRUE) :
                             meters[j].key = key /\ meters[j].kind \in {"weekly_all", "codex_10080"}}})

\* build_projection: the models of which a further seat may be projected
ProjectedModels(i) ==
  IF StaleMeter(i) \/ meters[i].kind \notin WeeklyKinds \/ meters[i].at - meters[i].start < AnHour
     \/ meters[i].resets <= meters[i].at THEN {}
  ELSE {m \in {"fable", "opus"} :
          /\ ~(meters[i].kind = "weekly_all" /\ m = PremiumContext(i).scope)
          /\ \E s \in Workers : LET rows == {r \in WindowRows(i) : r.seat = s /\ r.model = m /\ ~r.credit}
                                IN  /\ rows # {} /\ BurnBySeat(i)[s] > 0
                                    /\ meters[i].at - Min({r.at : r \in rows}) >= AnHour}

\* free_headroom_points
Headroom(i) ==
  IF meters[i].kind = "weekly_scoped" THEN (WholeQuota - meters[i].percent) \div 2
  ELSE WholeQuota - meters[i].percent

\* The scoped limit i binds before the overall limit j
BindsFirst(i, j) == Headroom(i) <= Headroom(j)

\* mark_binding_limits: the limit that binds the seats of the scope
BindingForScoped(key) ==
  LET fresh   == {i \in SelectWindows(FALSE) : meters[i].key = key /\ ~StaleMeter(i)}
      overall == {i \in fresh : meters[i].kind = "weekly_all"}
      scoped  == {i \in fresh : meters[i].kind = "weekly_scoped"}
      Beside(i, js) == {j \in js : meters[j].start = meters[i].start}
  IN  {i \in overall : \A j \in Beside(i, scoped) : ~BindsFirst(j, i)}
      \union {i \in scoped : \A j \in Beside(i, overall) : BindsFirst(i, j)}

\* load_account_metadata: the account its provider is signed in to
ActiveAccounts == {key \in AllAccounts : CurrentKey(ProviderOf(key)) = key}

\* The meter i is the required one
MeterRequired(i, kind, scoped) == meters[i].kind = kind /\ (meters[i].scope # "") = scoped

\* The meters a decision about an account needs
RequiredMeters(key) ==
  IF ProviderOf(key) = "codex" THEN {<<"codex_300", FALSE>>, <<"codex_10080", FALSE>>}
  ELSE {<<"session_5h", FALSE>>, <<"weekly_all", FALSE>>}
       \union {<<"weekly_scoped", TRUE>> : x \in
                 {y \in {1} : \/ tier[key] # "pro"
                              \/ \E i \in SelectWindows(FALSE) : meters[i].key = key /\ meters[i].kind = "weekly_scoped"}}

\* usage_decision_summary
DecisionStatus ==
  LET current == {i \in SelectWindows(FALSE) : meters[i].key \in ActiveAccounts /\ ~ResetElapsed(i)}
      stale   == {i \in current : StaleMeter(i)}
      missing == \E key \in ActiveAccounts : \E q \in RequiredMeters(key) :
                   ~\E i \in current : meters[i].key = key /\ MeterRequired(i, q[1], q[2])
  IN  CASE missing \/ current \ stale = {} -> "non_actionable"
        [] ~missing /\ stale = {} -> "actionable"
        [] OTHER -> "partial"

-----------------------------------------------------------------------------
(* Properties *)

ReportTypeOK ==
  /\ meterCase \in MeterCases /\ meterClock \in 0..MaxClock
  /\ \A p \in {"claude", "codex"} : \A i \in login[p] : i.key \in AllAccounts /\ i.from <= i.to
  /\ tier \in [AllAccounts -> {"unknown", "pro", "max"}]
  /\ \A i \in DOMAIN meters : meters[i].key \in AllAccounts /\ meters[i].kind \in Kinds
  /\ \A r \in work : r.seat \in Workers /\ r.key \in ClaudeAccounts

\* The shares the report gives to the seats and to nobody add up to the account's measured burn,
\* whichever of its meters are missing, older than the others, or exceed each other: nothing is
\* counted twice and nothing is lost, and no child is shown more than its account has burned
SharesAddUp ==
  \A i \in SelectWindows(FALSE) :
    LET burned == IF meters[i].kind = "weekly_all" THEN Max({meters[i].percent, PremiumContext(i).points})
                  ELSE meters[i].percent
    IN  /\ MapThenSumSet(LAMBDA s : BurnBySeat(i)[s], Workers \union {"unassigned"}) = burned
        /\ \A s \in Workers : TargetPercent(i, {s}) <= burned

\* A report that calls itself actionable rests, for every account in use, on each limit that may
\* stop a spawn, measured lately in the window that runs now; the limit it calls binding is the
\* one with the least left; and a model it projects further seats for has been used on that account
AdviceIsSound ==
  LET Lately(i) == meters[i].resets > meterClock /\ meterClock - meters[i].at <= StaleAfter
      General(key, kind) == \E i \in DOMAIN meters : /\ meters[i].key = key /\ meters[i].kind = kind
                                                     /\ meters[i].scope = "" /\ Lately(i)
  IN  /\ DecisionStatus = "actionable" => \A key \in ActiveAccounts :
           IF key = CodexAccount THEN General(key, "codex_300") /\ General(key, "codex_10080")
           ELSE /\ General(key, "session_5h") /\ General(key, "weekly_all")
                /\ tier[key] # "pro" => \E i \in DOMAIN meters : meters[i].key = key /\ meters[i].scope # "" /\ Lately(i)
      /\ \A key \in ClaudeAccounts : \A i \in BindingForScoped(key) :
           \A j \in SelectWindows(FALSE) :
             meters[j].key = key /\ meters[j].kind \in {"weekly_all", "weekly_scoped"} /\ ~StaleMeter(j)
               /\ meters[j].start = meters[i].start => Headroom(i) <= Headroom(j)
      /\ \A i \in SelectWindows(TRUE) : \A m \in ProjectedModels(i) :
           \E r \in work : r.model = m /\ r.key = meters[i].key /\ r.at < meters[i].at

\* What the report shows is neither more nor less than was burned, and what it advises rests on
\* meters that are still good.
ReportIsSound == SharesAddUp /\ AdviceIsSound
=============================================================================
