----------------------------- MODULE HttpReads ------------------------------
(***************************************************************************)
(* What the HTTP interface answers without changing anything (http.rs):    *)
(* the reads; the shadow comparison, which is sent a request together with *)
(* the status the Python service answered and predicts what this server    *)
(* would have answered; and the stream of terminal client events.          *)
(* The Python service is external and stands for the handlers of the reads.*)
(***************************************************************************)
EXTENDS Integers, Sequences, FiniteSets, FiniteSetsExt

CONSTANTS
  HttpCases,   \* {"shadow", "events"}: what a behaviour looks at
  Rollout,     \* the rollout flags that are set
  MaxChanges,  \* bound: changes of what is read
  MaxHooks,    \* bound: hooks of terminal clients
  Backlog,     \* events the broadcast channel keeps (128)
  AtOnce       \* hooks that are handled at the same time

ASSUME HttpReadsAssumption ==
  /\ HttpCases \subseteq {"shadow", "events"}
  /\ Rollout \subseteq {"activity-actions", "codex-events", "codex-pending-requests"}
  /\ {MaxChanges, MaxHooks} \subseteq Nat /\ Backlog \in Nat \ {0}
  /\ AtOnce \in 1..Backlog

VARIABLES
  httpCase,   \* what this behaviour looks at
  world,      \* what the reads read
  envelope,   \* the request that was sent to the comparison, and Python's answer
  compared,   \* the comparison that was made
  changes,    \* the changes so far
  version,    \* tmux_client_event_state
  posting,    \* the hooks that have their version and did not broadcast it
  sent,       \* the broadcast channel
  listener    \* a client of /events

httpVars == <<httpCase, world, envelope, compared, changes, version, posting, sent, listener>>

SeatShapes == {"none", "claude", "codex-fork", "codex-app"}
Worlds == [seat : SeatShapes, review : BOOLEAN, job : BOOLEAN, app : {"none", "unreadable", "nohash", "good"}]
Projections == {"activity-actions", "codex-events", "codex-pending-requests"}
Lists == {"reviews", "queue-jobs"}
Statics == {"health", "sessions", "client/sessions", "nodes", "events/state"}
SeatReads == {"session", "client/session", "attach-descriptor", "context", "subagents", "output",
              "tool-calls", "children"}
Artifacts == {"meta.json", "latest.apk", "hash.apk"}
NodeReads == {"ping", "restore-candidates"}
Surfaces == Statics \union Lists \union SeatReads \union Projections \union Artifacts
              \union {"review", "queue-job", "queue-job-log", "cancel-review"}
Requests == [surface : Surfaces, arg : {"ok", "bad"}]
              \union [surface : NodeReads, arg : {"primary", "agent", "unknown"}]
NoEnvelope == [surface |-> "none", arg |-> "ok", status |-> 0, at |-> 0]
NotCompared == [surface |-> "none", arg |-> "ok", match |-> TRUE, fresh |-> TRUE]

OkIf(b) == IF b THEN 200 ELSE 404

-----------------------------------------------------------------------------
(* The handlers *)

\* session_output: rendered output of a session on another node is refused
ServeOutput(r, w) == IF w.seat = "none" THEN 404 ELSE IF r.arg = "bad" THEN 400 ELSE 200

\* session_tool_calls: the limit is checked after the session
ServeToolCalls(r, w) == IF w.seat = "none" THEN 404 ELSE IF r.arg = "bad" THEN 422 ELSE 200

\* The queries of the projections
ValidQuery(r) == r.arg # "bad"

\* session_activity_actions, session_codex_events, session_codex_pending_requests
ServeProjection(r, w) ==
  CASE ~ValidQuery(r) -> 422
    [] ValidQuery(r) /\ w.seat = "none" -> 404
    [] ValidQuery(r) /\ w.seat \notin {"none", "codex-app"} -> 400
    [] OTHER -> IF r.surface \in Rollout THEN 200 ELSE 503

\* get_app_artifact_metadata, get_app_artifact_latest, get_hashed_app_artifact
ServeArtifact(r, w) ==
  CASE r.arg = "bad" -> 404
    [] r.arg # "bad" /\ r.surface = "meta.json" -> OkIf(w.app \in {"nohash", "good"})
    [] r.arg # "bad" /\ r.surface = "latest.apk" -> IF w.app = "good" THEN 302 ELSE 404
    [] OTHER -> OkIf(w.app = "good")

\* ping_node, list_node_restore_candidates
ServeNode(r) == CASE r.arg = "unknown" -> 404 [] r.arg = "primary" -> 200 [] OTHER -> 503

\* list_codex_review_requests, list_queue_jobs: of an unknown notify target there is no list
ServeList(r) == IF r.arg = "bad" THEN 404 ELSE 200

\* get_queue_job_log
ServeLog(r, w) == IF r.arg = "bad" THEN 400 ELSE OkIf(w.job)

\* get_codex_review_request, cancel_codex_review_request: a cancelled request is still there
ServeReview(w) == OkIf(w.review)

Serve(r, w) ==
  CASE r.surface \in Statics -> 200
    [] r.surface \in Lists -> ServeList(r)
    [] r.surface \in Projections -> ServeProjection(r, w)
    [] r.surface \in Artifacts -> ServeArtifact(r, w)
    [] r.surface \in NodeReads -> ServeNode(r)
    [] r.surface = "output" -> ServeOutput(r, w)
    [] r.surface = "tool-calls" -> ServeToolCalls(r, w)
    [] r.surface = "children" -> 200
    [] r.surface = "queue-job-log" -> ServeLog(r, w)
    [] r.surface = "queue-job" -> OkIf(w.job)
    [] r.surface \in {"review", "cancel-review"} -> ServeReview(w)
    [] OTHER -> OkIf(w.seat # "none")

-----------------------------------------------------------------------------
(* The predictions: a status, or 0 where there is none *)

\* shadow_predict_retained_write
PredictWrite(r, w) == IF r.surface = "cancel-review" THEN OkIf(w.review) ELSE 0

\* shadow_predict_app_artifact_read
PredictArtifact(r, w) ==
  CASE r.arg = "bad" -> 404
    [] r.arg # "bad" /\ r.surface = "meta.json" ->
         (CASE w.app = "none" -> 404 [] w.app = "unreadable" -> 500 [] OTHER -> 200)
    [] r.arg # "bad" /\ r.surface = "latest.apk" -> IF w.app = "good" THEN 302 ELSE 404
    [] OTHER -> OkIf(w.app = "good")

\* shadow_predict_session_read, of the projections
PredictProjection(r, w) ==
  CASE ~ValidQuery(r) -> 422
    [] ValidQuery(r) /\ w.seat = "none" -> 404
    [] ValidQuery(r) /\ w.seat \notin {"none", "codex-app"} -> 400
    [] OTHER -> IF r.surface \in Rollout THEN 200 ELSE 503

\* shadow_predict_session_read: children of anybody, the rest of a session that is there
PredictSession(r, w) == IF r.surface = "children" THEN 200 ELSE OkIf(w.seat # "none")

\* shadow_predict_read
PredictRead(r, w) ==
  CASE r.surface \in Artifacts -> PredictArtifact(r, w)
    [] r.surface = "review" -> OkIf(w.review)
    [] r.surface = "queue-job" -> OkIf(w.job)
    [] r.surface \in NodeReads -> ServeNode(r)
    [] r.surface \in Statics \union Lists -> 200
    [] r.surface \in Projections -> PredictProjection(r, w)
    [] r.surface = "queue-job-log" -> 0
    [] OTHER -> PredictSession(r, w)

\* is_protected_read_surface
ProtectedRead(r) == r.surface \notin {"health"}

\* is_auth_denial_status: Python's own refusals, which are taken as they are
Denied(status) == status \in {401, 403, 503}

\* shadow_compare: TRUE unless the statuses are compared and differ
Agrees(r, w, status) ==
  IF PredictWrite(r, w) # 0 THEN PredictWrite(r, w) = status
  ELSE \/ r.surface = "cancel-review"
       \/ Denied(status) /\ ProtectedRead(r)
       \/ PredictRead(r, w) \in {0, status}

-----------------------------------------------------------------------------
Events0 == <<version, posting, sent, listener>>

\* A session, a review, a job or an artifact comes or goes
Change ==
  /\ httpCase = "shadow" /\ changes < MaxChanges
  /\ changes' = changes + 1
  /\ \E w \in Worlds : world' = w /\ w # world
  /\ UNCHANGED <<httpCase, envelope, compared, Events0>>

\* Python answers a request and sends the pair to the comparison
PythonAnswers ==
  /\ httpCase = "shadow" /\ envelope = NoEnvelope
  /\ \E r \in Requests, status \in {0, 401, 403} :
       envelope' = [surface |-> r.surface, arg |-> r.arg, at |-> changes,
                    status |-> IF status = 0 THEN Serve(r, world) ELSE status]
  /\ compared' = NotCompared
  /\ UNCHANGED <<httpCase, world, changes, Events0>>

\* shadow_http
ShadowHttp ==
  /\ envelope # NoEnvelope
  /\ compared' = [surface |-> envelope.surface, arg |-> envelope.arg,
                  match |-> Agrees(envelope, world, envelope.status),
                  fresh |-> changes = envelope.at /\ envelope.status \notin {401, 403}]
  /\ envelope' = NoEnvelope
  /\ UNCHANGED <<httpCase, world, changes, Events0>>

-----------------------------------------------------------------------------
(* The terminal client events *)

Shadow0 == <<httpCase, world, envelope, compared, changes>>

\* record_tmux_client_event, under the lock
TmuxClientHook ==
  /\ httpCase = "events" /\ version < MaxHooks /\ Cardinality(posting) < AtOnce
  /\ version' = version + 1
  /\ posting' = posting \union {version'}
  /\ UNCHANGED <<Shadow0, sent, listener>>

\* ... and its broadcast, after the lock: two hooks may do it in either order
Broadcast ==
  \E v \in posting :
    /\ posting' = posting \ {v}
    /\ sent' = Append(sent, v)
    /\ UNCHANGED <<Shadow0, version, listener>>

\* Mutant: the state is read before the subscription
HelloFirst(pc) == CASE pc = "away" -> "hello" [] pc = "hello" -> "subscribe" [] OTHER -> "follow"

\* The order of events_stream
StreamOrder(pc) == CASE pc = "away" -> "subscribe" [] pc = "subscribe" -> "hello" [] OTHER -> "follow"

\* events_stream: one step, with what it does there
EventsStream ==
  /\ httpCase = "events" /\ listener.pc # "follow"
  /\ LET pc == StreamOrder(listener.pc) IN
       listener' = [listener EXCEPT !.pc = pc,
                      !.next = IF pc = "subscribe" THEN Len(sent) + 1 ELSE @,
                      !.seen = IF pc = "hello" THEN version ELSE @]
  /\ UNCHANGED <<Shadow0, version, posting, sent>>

\* The stream's next event; a listener that lags goes on with the oldest event kept
Receive ==
  /\ listener.pc = "follow" /\ listener.next <= Len(sent)
  /\ LET i == Max({listener.next, Len(sent) - Backlog + 1}) IN
       listener' = [listener EXCEPT !.next = i + 1, !.seen = Max({@, sent[i]})]
  /\ UNCHANGED <<Shadow0, version, posting, sent>>

-----------------------------------------------------------------------------
HttpInit ==
  /\ httpCase \in HttpCases
  /\ world = [seat |-> "claude", review |-> TRUE, job |-> TRUE, app |-> "good"]
  /\ envelope = NoEnvelope /\ compared = NotCompared /\ changes = 0
  /\ version = 0 /\ posting = {} /\ sent = <<>>
  /\ listener = [pc |-> "away", next |-> 0, seen |-> 0]

HttpNext ==
  \/ Change \/ PythonAnswers \/ ShadowHttp
  \/ TmuxClientHook \/ Broadcast \/ EventsStream \/ Receive

HttpSpec == HttpInit /\ [][HttpNext]_httpVars

-----------------------------------------------------------------------------
HttpTypeOK ==
  /\ world \in Worlds /\ changes \in 0..MaxChanges /\ version \in 0..MaxHooks
  /\ {compared.match, compared.fresh} \subseteq BOOLEAN /\ posting \subseteq 1..version

\* The requests whose prediction does not look at the query, and unreadable metadata
Unpredicted(c) ==
  \/ c.surface \in Lists \union {"output", "tool-calls"} /\ c.arg = "bad"
  \/ c.surface = "meta.json"

\* A mismatch the comparison reports means that what was read changed in between, or that the
\* prediction ignores the query (shadow_predict_read against the handlers): the statuses of all
\* other reads are predicted as the handlers answer, in every state of the registry and the flags
ShadowAgrees == compared.fresh /\ ~Unpredicted(compared) => compared.match

\* A listener of /events that has taken what was broadcast knows the latest version, whatever
\* hooks came while it connected, lagged, or were broadcast in another order (events_stream
\* subscribes before it reads the state), as long as the channel holds those handled at once
ListenerCatchesUp ==
  listener.pc = "follow" /\ posting = {} /\ listener.next > Len(sent) => listener.seen = version

\* A reader of the server sees what the server knows: a listener of the events catches up, and the
\* shadow comparison reports real differences only.
ReadsAreRight == ListenerCatchesUp /\ ShadowAgrees
=============================================================================
