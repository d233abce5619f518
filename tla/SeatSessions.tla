---------------------------- MODULE SeatSessions ----------------------------
(***************************************************************************)
(* Which seat a provider conversation belongs to (seat_sessions.rs and     *)
(* sessions.rs).  A live seat appends the conversations it is seen to use; *)
(* at start-up a background scan attributes the transcript files nobody    *)
(* claimed, from a snapshot of the registry taken before the server serves.*)
(* All seats work in one directory: files of others are filtered out.      *)
(***************************************************************************)
EXTENDS Integers, Sequences, FiniteSets, FiniteSetsExt

CONSTANTS
  SeatOwners,         \* the seats
  OwnerKinds,     \* the providers they may have
  MaxFiles,       \* bound: transcript files
  MaxWall,        \* bound: the clock
  AppendFaults,   \* bound: appends that find the database busy or broken
  OwnerCrashes    \* bound: server crashes

ASSUME SeatSessionsAssumption ==
  /\ IsFiniteSet(SeatOwners) /\ "unassigned" \notin SeatOwners
  /\ OwnerKinds \subseteq {"claude", "codex", "codex-fork"}
  /\ {MaxFiles, MaxWall, AppendFaults, OwnerCrashes} \subseteq Nat

VARIABLES
  kindOf,      \* the provider of each seat
  record,      \* sessions.json: the seats' records, and what waits for a rollout
  files,       \* the transcript files on disk, oldest first
  current,     \* the file the runtime of a seat writes, or 0
  bound,       \* seat_sessions: the pairs of a seat and a conversation
  pathed,      \* the rows that have their artifact path
  appendKeys,  \* seat_session_appends: the appends this process made
  retrying,    \* the retry threads
  recon,       \* the background reconciliation
  history,     \* the rows it attributed from history
  wall,        \* the clock
  bindFaults,  \* the faults so far
  bindCrashes  \* the crashes so far

bindVars == <<kindOf, record, files, current, bound, pathed, appendKeys, retrying, recon,
              history, wall, bindFaults, bindCrashes>>

NoSearch == [since |-> -1, excluded |-> {}]
NoRecord == [state |-> "none", born |-> 0, died |-> 0, id |-> 0, search |-> NoSearch]
NoRecon == [pc |-> "done", cutoff |-> 0, records |-> [s \in SeatOwners |-> NoRecord],
            claimed |-> {}, batch |-> {}, told |-> {}]
Files == DOMAIN files
NamedSeats(s) == record[s].state \in {"launching", "live", "stopped"}
Distance(a, b) == IF a < b THEN b - a ELSE a - b
Nearest(candidates, from(_)) ==
  IF candidates = {} THEN 0
  ELSE CHOOSE i \in candidates : \A j \in candidates : from(i) < from(j) \/ (from(i) = from(j) /\ i >= j)

-----------------------------------------------------------------------------
(* The ledger's table *)

\* append_identity: a definite owner replaces "unassigned", which never joins a definite owner
WithIdentity(rows, s, i) ==
  IF s # "unassigned" THEN (rows \ {<<"unassigned", i>>}) \union {<<s, i>>}
  ELSE IF \E t \in SeatOwners : <<t, i>> \in rows THEN rows
  ELSE rows \union {<<s, i>>}

\* SeatSessionStore::append: a row that exists keeps its path
Append1(s, i, path) ==
  /\ bound' = WithIdentity(bound, s, i)
  /\ pathed' = {r \in pathed \union (IF path /\ <<s, i>> \notin bound THEN {<<s, i>>} ELSE {}) :
                  r \in bound'}

\* SeatSessionStore::append_batch: of identities [s, i, path]; a row without a path gets it
AppendBatch(batch) ==
  /\ bound' = ((UNION {WithIdentity({r \in bound : r[2] = b.i}, b.s, b.i) : b \in batch})
                 \ {<<"unassigned", b.i>> : b \in {c \in batch : c.s # "unassigned"}})
                \union {r \in bound : \A b \in batch : b.i # r[2]}
  /\ pathed' = {r \in pathed \union {<<b.s, b.i>> : b \in {c \in batch : c.path}} : r \in bound'}

\* append_seat_session: once per process, with a retry thread when the database is busy
AppendSeatSession(s, i, path) ==
  IF <<s, i>> \in appendKeys THEN UNCHANGED <<bound, pathed, appendKeys, retrying, bindFaults>>
  ELSE \/ /\ Append1(s, i, path) /\ appendKeys' = appendKeys \union {<<s, i>>}
          /\ UNCHANGED <<retrying, bindFaults>>
       \/ /\ bindFaults < AppendFaults /\ bindFaults' = bindFaults + 1
          /\ \/ /\ appendKeys' = appendKeys \union {<<s, i>>}
                /\ retrying' = retrying \union {<<s, i, path>>}
             \/ UNCHANGED <<appendKeys, retrying>>
          /\ UNCHANGED <<bound, pathed>>

-----------------------------------------------------------------------------
(* The conversation of a seat *)

\* discover_codex_cli_resume_id: of a creation, the first rollout since the launch
CodexCreated(s) ==
  Nearest({i \in Files : /\ files[i].kind = "codex" /\ i \notin record[s].search.excluded
                         /\ files[i].start >= record[s].search.since},
          LAMBDA i : Distance(record[s].search.since, files[i].start))

\* discover_codex_cli_resume_id: of a restore, the rollout nearest to the seat's birth
CodexForRestore(s) ==
  Nearest({i \in Files : /\ files[i].kind = "codex"
                         /\ \A t \in SeatOwners \ {s} : record[t].id # i},
          LAMBDA i : Distance(record[s].born, files[i].start))

\* discover_claude_transcript_path: the transcript nearest to the last activity
ClaudeForRestore(s) ==
  Nearest({i \in Files : /\ files[i].kind = "claude"
                         /\ \A t \in SeatOwners \ {s} : record[t].id # i},
          LAMBDA i : Distance(record[s].died, files[i].last))

\* provider_resume_id_for_restore, with what restore discovers for a seat that has none
ResumeIdForRestore(s) ==
  CASE record[s].id # 0 -> record[s].id
    [] record[s].id = 0 /\ kindOf[s] = "codex" -> CodexForRestore(s)
    [] record[s].id = 0 /\ kindOf[s] = "claude" -> ClaudeForRestore(s)
    [] OTHER -> 0

\* What a Codex launch must not take for its own: codex_cli_existing_session_ids and the registry
Search == [since |-> wall', excluded |-> {i \in Files : files[i].kind = "codex"}
                                            \union {record[t].id : t \in SeatOwners}]

BeginRecord(s) ==
  /\ record[s].state = "none" /\ wall < MaxWall /\ recon.pc # "down"
  /\ wall' = wall + 1
  /\ record' = [record EXCEPT ![s] = [state |-> "launching", born |-> wall', died |-> wall',
                                      id |-> 0, search |-> IF kindOf[s] = "codex" THEN Search ELSE NoSearch]]
  /\ UNCHANGED <<kindOf, files, current, bound, pathed, appendKeys, retrying, recon, history,
                 bindFaults, bindCrashes>>

\* wait_for_codex_cli_provider_resume_id: it finds a rollout, or its time runs out
FoundOrNot(s) == {i \in {CodexCreated(s), 0} : TRUE}

\* The launch completes; a Codex seat once its rollout was found or the wait ran out
CompleteRecord(s) ==
  /\ record[s].state = "launching" /\ recon.pc # "down"
  /\ \E i \in (IF kindOf[s] = "codex" THEN FoundOrNot(s) ELSE {0}) :
       /\ record' = [record EXCEPT ![s].state = "live", ![s].id = i, ![s].search = NoSearch]
       /\ IF i = 0 THEN UNCHANGED <<bound, pathed, appendKeys, retrying, bindFaults>>
          ELSE AppendSeatSession(s, i, FALSE)
  /\ UNCHANGED <<kindOf, files, current, recon, history, wall, bindCrashes>>

\* What is read back from a transcript: its conversation, its directory, its first and last times
NewFile(s) == [owner |-> s, kind |-> kindOf[s], start |-> wall', last |-> wall']

\* The provider of a runtime that is up starts a conversation and its file
Converse(s) ==
  /\ record[s].state \in {"launching", "live"}
  /\ current[s] = 0 \/ record[s].state = "live"
  /\ wall < MaxWall /\ Len(files) < MaxFiles
  /\ wall' = wall + 1
  /\ files' = Append(files, NewFile(s))
  /\ current' = [current EXCEPT ![s] = Len(files')]
  /\ UNCHANGED <<kindOf, record, bound, pathed, appendKeys, retrying, recon, history,
                 bindFaults, bindCrashes>>

\* The conversation goes on
GoOn(s) ==
  /\ record[s].state = "live" /\ current[s] # 0 /\ files[current[s]].last < wall
  /\ files' = [files EXCEPT ![current[s]].last = wall]
  /\ UNCHANGED <<kindOf, record, current, bound, pathed, appendKeys, retrying, recon, history,
                 wall, bindFaults, bindCrashes>>

\* A hook of Claude or an event of the fork names the conversation; the record follows
SeenUsing(s) ==
  /\ record[s].state = "live" /\ recon.pc # "down" /\ current[s] # 0
  /\ kindOf[s] # "codex" /\ record[s].id # current[s]
  /\ record' = [record EXCEPT ![s].id = current[s]]
  /\ AppendSeatSession(s, current[s], TRUE)
  /\ UNCHANGED <<kindOf, files, current, recon, history, wall, bindCrashes>>

\* clear_core_session_with_runtime of Codex: the next conversation is searched for
ClearCodex(s) ==
  /\ record[s].state = "live" /\ recon.pc # "down" /\ wall < MaxWall
  /\ kindOf[s] = "codex" /\ record[s].search = NoSearch
  /\ wall' = wall + 1
  /\ record' = [record EXCEPT ![s].search = Search]
  /\ UNCHANGED <<kindOf, files, current, bound, pathed, appendKeys, retrying, recon, history,
                 bindFaults, bindCrashes>>

\* complete_deferred_codex_cli_rebind: the record follows if it is still as it was
RebindCodex(s) ==
  /\ record[s].search # NoSearch /\ record[s].state \in {"live", "stopped"} /\ recon.pc # "down"
  /\ \E i \in FoundOrNot(s) :
       IF i = 0 \/ record[s].state = "stopped"
       THEN /\ record' = [record EXCEPT ![s].search = NoSearch]
            /\ UNCHANGED <<bound, pathed, appendKeys, retrying, bindFaults>>
       ELSE /\ record' = [record EXCEPT ![s].search = NoSearch, ![s].id = i]
            /\ AppendSeatSession(s, i, FALSE)
  /\ UNCHANGED <<kindOf, files, current, recon, history, wall, bindCrashes>>

StopSeat(s) ==
  /\ record[s].state = "live" /\ recon.pc # "down" /\ wall < MaxWall
  /\ wall' = wall + 1
  /\ record' = [record EXCEPT ![s].state = "stopped", ![s].died = wall']
  /\ current' = [current EXCEPT ![s] = 0]
  /\ UNCHANGED <<kindOf, files, bound, pathed, appendKeys, retrying, recon, history,
                 bindFaults, bindCrashes>>

\* restore_core_session_with_runtime: the runtime goes on with the conversation it is given
RestoreSeat(s) ==
  /\ record[s].state = "stopped" /\ record[s].search = NoSearch /\ recon.pc # "down"
  /\ LET i == ResumeIdForRestore(s) IN
       /\ record' = [record EXCEPT ![s].state = "live", ![s].id = i]
       /\ current' = [current EXCEPT ![s] = i]
       /\ IF i = 0 THEN UNCHANGED <<bound, pathed, appendKeys, retrying, bindFaults>>
          ELSE AppendSeatSession(s, i, kindOf[s] = "claude")
  /\ UNCHANGED <<kindOf, files, recon, history, wall, bindCrashes>>

\* A retry thread: the append, or after its attempts the key is free again
RetryAppend ==
  \E r \in retrying :
    /\ recon.pc # "down"
    /\ retrying' = retrying \ {r}
    /\ \/ Append1(r[1], r[2], r[3]) /\ UNCHANGED <<appendKeys, bindFaults>>
       \/ /\ bindFaults < AppendFaults /\ bindFaults' = bindFaults + 1
          /\ appendKeys' = appendKeys \ {<<r[1], r[2]>>} /\ UNCHANGED <<bound, pathed>>
    /\ UNCHANGED <<kindOf, record, files, current, recon, history, wall, bindCrashes>>

\* provider_sessions_missing_artifacts
MissingArtifacts == {r[2] : r \in bound \ pathed}

\* repair_current_codex_usage_artifacts, in every scan of the ledger
RepairPaths ==
  LET missing == {s \in SeatOwners : /\ kindOf[s] = "codex" /\ NamedSeats(s)
                                 /\ record[s].id \in MissingArtifacts}
      repairs == {[s |-> s, i |-> record[s].id, path |-> TRUE] : s \in missing}
  IN  /\ recon.pc # "down" /\ missing # {}
      /\ AppendBatch(repairs)
      /\ UNCHANGED <<kindOf, record, files, current, appendKeys, retrying, recon, history,
                     wall, bindFaults, bindCrashes>>

-----------------------------------------------------------------------------
(* Start-up *)

\* The server dies; the runtimes live on
LoseServer ==
  /\ recon.pc # "down" /\ bindCrashes < OwnerCrashes
  /\ bindCrashes' = bindCrashes + 1
  /\ recon' = [NoRecon EXCEPT !.pc = "down"]
  /\ appendKeys' = {} /\ retrying' = {}
  /\ record' = [s \in SeatOwners |-> IF record[s].state = "launching" THEN record[s]
                                 ELSE [record[s] EXCEPT !.search = NoSearch]]
  /\ UNCHANGED <<kindOf, files, current, bound, pathed, history, wall, bindFaults>>

\* The launches left over are done again or fail; then the boundary and the records are taken
StartServer ==
  /\ recon.pc = "down"
  /\ \E failed \in SUBSET {s \in SeatOwners : record[s].state = "launching"} :
       record' = [s \in SeatOwners |->
                    IF s \in failed THEN [NoRecord EXCEPT !.state = "removed"]
                    ELSE IF record[s].state = "launching"
                    THEN [record[s] EXCEPT !.state = "live", !.search = NoSearch] ELSE record[s]]
  /\ current' = [s \in SeatOwners |-> IF record[s].state = "launching" THEN 0 ELSE current[s]]
  /\ recon' = [NoRecon EXCEPT !.pc = "claims", !.cutoff = wall, !.records = record']
  /\ UNCHANGED <<kindOf, files, bound, pathed, appendKeys, retrying, history, wall,
                 bindFaults, bindCrashes>>

\* claimed_provider_sessions
ReadClaims ==
  /\ recon.pc = "claims"
  /\ recon' = [recon EXCEPT !.pc = "scan", !.claimed = {r[2] : r \in bound}]
  /\ UNCHANGED <<kindOf, record, files, current, bound, pathed, appendKeys, retrying, history,
                 wall, bindFaults, bindCrashes>>

\* session_lifetime_overlaps, of a record of the snapshot
LifetimeOverlaps(r, i) ==
  /\ r.state \in {"launching", "live", "stopped"}
  /\ files[i].last >= r.born
  /\ r.state = "live" \/ files[i].start <= r.died

\* Mutant: the scan takes what started while it runs
AllSoFar(i) == TRUE

\* The boundary of the scan: what started after it belongs to seats it does not know
BeforeCutoff(i) == files[i].start <= recon.cutoff

Attributed(i, seats) ==
  [s |-> IF Cardinality(seats) = 1 THEN CHOOSE s \in seats : TRUE ELSE "unassigned",
   i |-> i, path |-> TRUE]

\* The conversations the records of the snapshot point at
CurrentIdentities ==
  LET holders(i) == {s \in SeatOwners : recon.records[s].id = i}
  IN  {Attributed(i, holders(i)) : i \in {j \in Files : holders(j) # {}}}

\* historical_claude_seat_sessions, historical_codex_cli_seat_sessions
HistoricalOf(kind, claimed) ==
  LET matching(i) == {s \in SeatOwners : kindOf[s] = kind /\ LifetimeOverlaps(recon.records[s], i)}
  IN  {Attributed(i, matching(i)) :
         i \in {j \in Files : /\ files[j].kind = kind /\ j \notin claimed
                              /\ BeforeCutoff(j) /\ matching(j) # {}}}

\* historical_codex_fork_seat_sessions: the event stream is the seat's own
HistoricalFork(claimed) ==
  {[s |-> files[i].owner, i |-> i, path |-> TRUE] :
     i \in {j \in Files : /\ files[j].kind = "codex-fork" /\ j \notin claimed
                          /\ recon.records[files[j].owner].state \in {"launching", "live", "stopped"}}}

ScanHistory ==
  /\ recon.pc = "scan"
  /\ LET now == CurrentIdentities
         claimed == recon.claimed \union {b.i : b \in now}
         past == HistoricalOf("claude", claimed) \union HistoricalOf("codex", claimed)
                   \union HistoricalFork(claimed)
     IN  recon' = [recon EXCEPT !.pc = "append", !.batch = now \union past, !.told = past]
  /\ UNCHANGED <<kindOf, record, files, current, bound, pathed, appendKeys, retrying, history,
                 wall, bindFaults, bindCrashes>>

\* The batch is appended, or the scan gives up until the next start
AppendHistory ==
  /\ recon.pc = "append"
  /\ recon' = NoRecon
  /\ \/ /\ AppendBatch(recon.batch)
        /\ history' = history \union {<<b.s, b.i>> : b \in recon.told}
        /\ UNCHANGED bindFaults
     \/ /\ bindFaults < AppendFaults /\ bindFaults' = bindFaults + 1
        /\ UNCHANGED <<bound, pathed, history>>
  /\ UNCHANGED <<kindOf, record, files, current, appendKeys, retrying, wall, bindCrashes>>

-----------------------------------------------------------------------------
BindInit ==
  /\ kindOf \in [SeatOwners -> OwnerKinds]
  /\ record = [s \in SeatOwners |-> NoRecord]
  /\ files = <<>> /\ current = [s \in SeatOwners |-> 0]
  /\ bound = {} /\ pathed = {} /\ appendKeys = {} /\ retrying = {}
  /\ recon = NoRecon /\ history = {}
  /\ wall = 0 /\ bindFaults = 0 /\ bindCrashes = 0

BindNext ==
  \/ \E s \in SeatOwners :
       \/ BeginRecord(s) \/ CompleteRecord(s) \/ Converse(s) \/ GoOn(s) \/ SeenUsing(s)
       \/ ClearCodex(s) \/ RebindCodex(s) \/ StopSeat(s) \/ RestoreSeat(s)
  \/ RetryAppend \/ RepairPaths
  \/ LoseServer \/ StartServer \/ ReadClaims \/ ScanHistory \/ AppendHistory

BindSpec == BindInit /\ [][BindNext]_bindVars

-----------------------------------------------------------------------------
BindTypeOK ==
  /\ bound \subseteq (SeatOwners \union {"unassigned"}) \X Files
  /\ pathed \subseteq bound
  /\ recon.pc \in {"down", "claims", "scan", "append", "done"}
  /\ \A s \in SeatOwners : record[s].id \in {0} \union Files /\ current[s] \in {0} \union Files

\* The background scan never charges a conversation of a registered seat to another seat
\* (main.rs: "it must not attribute their new artifacts against this startup snapshot"), and
\* a conversation with a definite owner is not also an open question (append_identity), in
\* whatever order the live appends, their retries and the scan reach the table
HistoryNamesOwner ==
  /\ \A r \in history : r[1] # "unassigned" /\ NamedSeats(files[r[2]].owner) => r[1] = files[r[2]].owner
  /\ \A r \in bound : r[1] # "unassigned" => <<"unassigned", r[2]>> \notin bound
=============================================================================
