------------------------------ MODULE Reparent ------------------------------
(***************************************************************************)
(* Reparenting of sessions in sm-server (crates/sm-server/src/sessions.rs  *)
(* and the parent-routing tables of queue.rs): requests that move a        *)
(* session, or promote a child over its siblings, the consent they need,   *)
(* and the staged transaction that moves the parent edges in the JSON      *)
(* registry together with every route that leads to the old parent, half   *)
(* of which live in SQLite.                                                *)
(*                                                                         *)
(* A step is one replacement of the registry file (made under the store's  *)
(* write guard) or one SQLite transaction.  One driver at a time runs the  *)
(* transaction (file lock and apply mutex); its memory is drv.  A crash    *)
(* forgets drv and the delivery in progress and keeps both stores.         *)
(***************************************************************************)
EXTENDS Integers, FiniteSets, SequencesExt

CONSTANTS
  Sessions,     \* session ids
  None,         \* no parent
  Human,        \* the authenticated operator
  Parent0,      \* parents at the start
  Monitored,    \* sessions whose context monitor notifies their parent
  Messages,     \* tracked inputs: messages that register a parent wake when delivered
  To,           \* the session each message is for
  Moves,        \* bound: [kind, subject, target] somebody asks for
  Mortal,       \* bound: sessions that stop and are restored
  Completers,   \* bound: sessions that report task completion (once)
  Talkers,      \* bound: sessions whose parent is notified of something (once)
  Expiring,     \* bound: may requests reach their expiry?
  MaxRequests,  \* bound: requests ever recorded
  MaxCrashes,   \* bound: server crashes
  MaxFaults     \* bound: SQLite operations of the driver that fail

Kinds == {"single", "promotion", "peer"}
Actors == Sessions \cup {Human}
Parents == Sessions \cup {None}

\* A parent function is acyclic when every set of sessions has a member whose
\* parent is outside.
Acyclic(p) == \A C \in SUBSET Sessions : C # {} => \E s \in C : p[s] \notin C

ASSUME ReparentAssumption ==
  /\ IsFiniteSet(Sessions) /\ IsFiniteSet(Messages) /\ None \notin Actors /\ Human \notin Sessions
  /\ Parent0 \in [Sessions -> Parents] /\ Acyclic(Parent0)
  /\ To \in [Messages -> Sessions]
  /\ Moves \subseteq [kind: Kinds, subject: Sessions, target: Sessions]
  /\ Monitored \subseteq Sessions /\ Mortal \subseteq Sessions
  /\ \A s \in Monitored : Parent0[s] # None
  /\ Completers \subseteq Sessions /\ Talkers \subseteq Sessions
  /\ Expiring \in BOOLEAN
  /\ MaxRequests \in Nat /\ MaxCrashes \in Nat /\ MaxFaults \in Nat

VARIABLES
  parent,   \* registry: parent_session_id of every session
  live,     \* registry: sessions that are not stopped
  req,      \* registry: reparent_requests, oldest first
  lease,    \* registry: reparent_apply_lease, the index of a request or 0
  jwake,    \* registry: retained_parent_wake_registrations, one per child
  monitor,  \* registry: context_monitor_notify and _enabled (parent_derived)
  wake,     \* SQLite: parent_wake_registrations, in order of insertion
  msg,      \* SQLite: the tracked inputs in message_queue
  mail,     \* SQLite: reports to a parent in message_queue
  drv,      \* the driver of the apply transaction
  box,      \* the delivery or completion that holds the write guard
  serving,  \* has startup recovery ended?
  crashes, faults,
  begun     \* history: sessions that have asked to complete

registry == <<parent, live, req, lease, jwake, monitor>>
sqlite   == <<wake, msg, mail>>
vars     == <<parent, live, req, lease, jwake, monitor, wake, msg, mail, drv, box,
              serving, crashes, faults, begun>>

-----------------------------------------------------------------------------
(* Data *)

\* What a fenced session asks for is kept as a deferred routing intent, named
\* by its idempotency key.  A planned intent stands for a planned message that
\* was delivered while its parent was blanked.
Keys == ({"complete", "message"} \X Sessions)
          \cup ({"wake", "planned", "input"} \X Messages)
Child(k) == IF k[1] \in {"complete", "message"} THEN k[2] ELSE To[k[2]]

FencedStages == {"prequiesce_aborting", "json_routing_quiesced", "routing_quiesced",
                 "authority_committed"}
Stages   == FencedStages \cup {"none", "applying", "applied", "prequiesce_aborted",
                               "repair_rolled_back"}
\* A superseded request is a stale one with a better explanation.
Released == {"rejected", "expired", "stale", "applied", "repaired"}
Statuses == Released \cup {"pending", "applying", "failed"}

Route == [to: Parents, on: BOOLEAN]
NoRoute == [to |-> None, on |-> FALSE]

\* ReparentApplyPlan.  All planned wakes were active (prior_active); periods and
\* the store and kind tags of the entries are left out.
NoPlan == [edges |-> <<>>, jwakes |-> {}, monitors |-> <<>>, wakes |-> {}, msgs |-> {}]

Drivers == {"idle", "apply", "quiesced", "route", "restore", "replay", "act", "note",
            "final", "fail"}
Modes == {"forward", "abort", "rollback", "repair"}

\* todo: route groups not yet retargeted; got: planned messages found delivered;
\* redo: replay completed intents again; again: those replayed in this pass.
Idle == [pc |-> "idle", mode |-> "forward", todo |-> {}, got |-> {},
         redo |-> FALSE, again |-> {}, key |-> <<"none", None>>]
\* A delivery of m, or a completion of c; to: the parent it read
NoBox == [m |-> None, c |-> None, to |-> None, marked |-> FALSE]

\* Requests in the sequence, and the leased one
Indices == 1 .. Len(req)
Leased == req[lease]

-----------------------------------------------------------------------------
(* Topology and staleness *)

IsLive(s) == s \in live
LiveChildren(s) == {c \in live : parent[c] = s}

Move(old, new) == [old |-> old, new |-> new]

\* tree_reparent_edge_changes and the edge of a single request.  A promoted
\* child inherits the parent of the source if that was live, otherwise none.
Edges(q) ==
  LET up == IF q.plive THEN q.parent ELSE None
  IN  [c \in {q.subject} \cup q.frozen |->
         CASE c = q.subject                 -> Move(q.parent, q.target)
           [] c # q.subject /\ c = q.target -> Move(q.subject, up)
           [] OTHER                         -> Move(q.subject, q.target)]

Moved(edges) == [s \in Sessions |-> IF s \in DOMAIN edges THEN edges[s].new ELSE parent[s]]

\* reparent_would_create_cycle: the walk up from t meets s when every set that holds t
\* and the parents of its members holds s.
WalkMeets(t, s) ==
  \A C \in SUBSET Sessions :
    (t \in C /\ \A x \in C : parent[x] \in C \cup {None}) => s \in C

\* A single move walks up from the new parent; a tree is tried out as a whole
\* (reparent_plan_would_create_cycle).
MakesCycle(q) == IF q.kind = "single" THEN WalkMeets(q.target, q.subject)
                                      ELSE ~Acyclic(Moved(Edges(q)))

\* Mutant: the hierarchy is not searched for a cycle again.
StaleNoCycle(q) ==
  \/ ~IsLive(q.subject)
  \/ parent[q.subject] # q.parent
  \/ IsLive(q.parent) # q.plive
  \/ ~IsLive(q.target)
  \/ q.kind = "peer" /\ parent[q.target] # None
  \/ q.kind = "promotion" /\ parent[q.target] # q.subject
  \/ q.kind # "single" /\ LiveChildren(q.subject) # q.frozen

\* Mutant: a parent that came back is not noticed.
StaleNoParentLiveness(q) ==
  \/ ~IsLive(q.subject)
  \/ parent[q.subject] # q.parent
  \/ ~IsLive(q.target)
  \/ q.kind = "peer" /\ parent[q.target] # None
  \/ q.kind = "promotion" /\ parent[q.target] # q.subject
  \/ q.kind # "single" /\ LiveChildren(q.subject) # q.frozen
  \/ MakesCycle(q)

\* reparent_stale_reason
Stale(q) ==
  \/ ~IsLive(q.subject)
  \/ parent[q.subject] # q.parent
  \/ IsLive(q.parent) # q.plive
  \/ ~IsLive(q.target)
  \/ q.kind = "peer" /\ parent[q.target] # None
  \/ q.kind = "promotion" /\ parent[q.target] # q.subject
  \/ q.kind # "single" /\ LiveChildren(q.subject) # q.frozen
  \/ MakesCycle(q)

\* refresh_reparent_requests
Refreshed ==
  [i \in Indices |->
     LET q == req[i]
     IN  CASE q.status = "pending" /\ q.late                -> [q EXCEPT !.status = "expired"]
           [] q.status = "pending" /\ ~q.late /\ Stale(q)   -> [q EXCEPT !.status = "stale"]
           [] OTHER                                         -> q]

\* is_apply_fenced, is_active, affected_session_ids
Fenced(q)   == q.status = "applying" \/ (q.status = "failed" /\ q.stage \in FencedStages)
Active(q)   == q.status = "pending" \/ Fenced(q)
Affected(q) == {q.subject, q.target} \cup q.frozen \cup ({q.parent, q.tparent} \ {None})

\* active_reparent_request_for_session; active_reparent_route_request_for_session
FencesSession(i, s) == Fenced(req[i]) /\ s \in Affected(req[i])
FencesRoutes(i, s)  == Fenced(req[i]) /\ s \in DOMAIN req[i].plan.edges
SessionFenced(s) == \E i \in Indices : FencesSession(i, s)
RoutesFenced(s)  == \E i \in Indices : FencesRoutes(i, s)

\* approvals_satisfied
Ready(q) == q.need \subseteq q.yes

-----------------------------------------------------------------------------
Init ==
  /\ parent = Parent0
  /\ live = Sessions
  /\ req = <<>>
  /\ lease = 0
  /\ jwake = [s \in Sessions |-> NoRoute]
  /\ monitor = [s \in Sessions |-> IF s \in Monitored THEN [to |-> Parent0[s], on |-> TRUE]
                                                      ELSE NoRoute]
  /\ wake = <<>>
  /\ msg = [m \in Messages |-> [state |-> "absent", to |-> None]]
  /\ mail = [k \in Keys |-> None]
  /\ drv = Idle
  /\ box = NoBox
  /\ serving = TRUE
  /\ crashes = 0 /\ faults = 0 /\ begun = {}

\* A write of the registry needs the write guard.
Guard == box = NoBox
Http  == serving /\ Guard

-----------------------------------------------------------------------------
(* Requests and consent *)

\* What create_reparent_request and create_reparent_tree_request record, and early,
\* a history of the intents replayed before a commit
NewRequest(move, by) ==
  LET s == move.subject
      t == move.target
      tree == move.kind # "single"
      plive == IsLive(parent[s])
      own == IF plive THEN {parent[s]} ELSE {}
  IN  [kind |-> move.kind, subject |-> s, target |-> t, parent |-> parent[s],
       plive |-> plive, tparent |-> IF tree THEN parent[t] ELSE None,
       frozen |-> IF tree THEN LiveChildren(s) ELSE {},
       need |-> own \cup {t} \cup (IF tree THEN {s} ELSE IF plive THEN {} ELSE {Human}),
       yes |-> {by}, late |-> FALSE, status |-> "pending", stage |-> "none",
       plan |-> NoPlan, intents |-> <<>>, done |-> {}, early |-> {}]

\* A single move is asked for by its target or the live current parent, a tree
\* promotion also by its source.
MayRequest(move, by) ==
  \/ by = move.target
  \/ by = parent[move.subject] /\ IsLive(by)
  \/ move.kind # "single" /\ by = move.subject

Requestable(move) ==
  LET s == move.subject
      t == move.target
  IN  /\ s # t /\ IsLive(s) /\ IsLive(t)
      /\ move.kind = "single" => parent[s] # t
      /\ move.kind = "promotion" => parent[t] = s
      /\ move.kind = "peer" => parent[s] = None /\ parent[t] = None

\* The sessions a new request may not share with an active one
Claimed(q) == IF q.kind = "single" THEN {q.subject}
              ELSE DOMAIN Edges(q) \cup ({q.parent, q.tparent} \ {None})

CreateRequest(move, by) ==
  /\ Http /\ Len(req) < MaxRequests
  /\ Requestable(move) /\ MayRequest(move, by)
  /\ LET q == NewRequest(move, by)
     IN  /\ ~MakesCycle(q)
         /\ req' = IF \E i \in Indices : /\ Active(Refreshed[i])
                                         /\ Affected(req[i]) \cap Claimed(q) # {}
                     THEN Refreshed ELSE Append(Refreshed, q)
  /\ UNCHANGED <<parent, live, lease, jwake, monitor, sqlite, drv, box, serving, crashes, faults, begun>>

\* decide_reparent_request and decide_reparent_request_as_human.  An actor
\* decides once; a rejection ends the request.
Decide(i, actor, approve) ==
  /\ Http
  /\ actor \in req[i].need \ req[i].yes
  /\ req' = CASE Refreshed[i].status = "pending" /\ approve ->
                   [Refreshed EXCEPT ![i].yes = @ \cup {actor}]
              [] Refreshed[i].status = "pending" /\ ~approve ->
                   [Refreshed EXCEPT ![i].status = "rejected"]
              [] Refreshed[i].status # "pending"
                   /\ (actor # Human \/ Refreshed[i].status = "expired") -> Refreshed
              [] OTHER -> req
  /\ UNCHANGED <<parent, live, lease, jwake, monitor, sqlite, drv, box, serving, crashes, faults, begun>>

\* The expiry time of a pending request passes.
Expire(i) ==
  /\ Expiring /\ req[i].status = "pending" /\ ~req[i].late
  /\ req' = [req EXCEPT ![i].late = TRUE]
  /\ UNCHANGED <<parent, live, lease, jwake, monitor, sqlite, drv, box, serving, crashes, faults, begun>>

-----------------------------------------------------------------------------
(* Sessions and what they send.  Every one of these handlers holds the      *)
(* write guard; a delivery keeps it over three steps.                       *)

Intend(i, k) == [req EXCEPT ![i].intents = IF k \in Range(@) THEN @ ELSE Append(@, k)]
Deferred(k)  == \E i \in Indices : k \in Range(req[i].intents)

\* Liveness is observed, fence or no fence; retiring has the same effect here.
Stop(s) ==
  /\ Guard /\ s \in Mortal \cap live
  /\ live' = live \ {s}
  /\ UNCHANGED <<parent, req, lease, jwake, monitor, sqlite, drv, box, serving, crashes, faults, begun>>

\* restore_core_session
Restore(s) ==
  /\ Http /\ s \in Mortal \ live
  /\ ~SessionFenced(s)
  /\ live' = live \cup {s}
  /\ UNCHANGED <<parent, req, lease, jwake, monitor, sqlite, drv, box, serving, crashes, faults, begun>>

\* send_core_input_with_runtime with a parent to wake: the sender is the parent.
SendInput(m) ==
  /\ Http
  /\ LET c == To[m]
         k == <<"input", m>>
     IN  /\ IsLive(c) /\ parent[c] # None
         /\ msg[m].state = "absent" /\ ~Deferred(k)
         /\ \/ \E i \in Indices : /\ FencesRoutes(i, c)
                                  /\ req' = Intend(i, k)
                                  /\ UNCHANGED msg
            \/ /\ ~RoutesFenced(c)
               /\ msg' = [msg EXCEPT ![m] = [state |-> "queued", to |-> parent[c]]]
               /\ UNCHANGED req
  /\ UNCHANGED <<parent, live, lease, jwake, monitor, wake, mail, drv, box, serving, crashes, faults, begun>>

\* register_parent_wake_conn, cancel_parent_wake_conn
Cancelled(rows, c) == [w \in DOMAIN rows |-> IF rows[w].child = c THEN [rows[w] EXCEPT !.on = FALSE]
                                                                  ELSE rows[w]]
Registered(rows, c, p) == Append(Cancelled(rows, c), [child |-> c, to |-> p, on |-> TRUE])

\* Mutant: a delivery does not ask whether a transaction controls the session.
DeliverIgnoresFence(m) ==
  /\ Http
  /\ msg[m].state = "queued" /\ IsLive(To[m])
  /\ box' = [NoBox EXCEPT !.m = m, !.to = msg[m].to]
  /\ UNCHANGED <<registry, sqlite, drv, serving, crashes, faults, begun>>

\* complete_runtime_message_delivery_raw.  A wake that a fence holds back becomes
\* an intent first; what is delivered then carries no parent.
Deliver(m) ==
  /\ Http
  /\ msg[m].state = "queued" /\ IsLive(To[m])
  /\ \/ \E i \in Indices : /\ msg[m].to # None /\ FencesSession(i, To[m])
                           /\ req' = Intend(i, <<"wake", m>>)
                           /\ box' = [NoBox EXCEPT !.m = m]
     \/ /\ msg[m].to = None \/ ~SessionFenced(To[m])
        /\ box' = [NoBox EXCEPT !.m = m, !.to = msg[m].to]
        /\ UNCHANGED req
  /\ UNCHANGED <<parent, live, lease, jwake, monitor, sqlite, drv, serving, crashes, faults, begun>>

\* mark_delivered_and_apply_side_effects, one transaction
DeliverMark ==
  /\ box.m # None /\ ~box.marked
  /\ msg' = [msg EXCEPT ![box.m].state = "delivered"]
  /\ wake' = IF box.to = None THEN wake ELSE Registered(wake, To[box.m], box.to)
  /\ box' = [box EXCEPT !.marked = TRUE]
  /\ UNCHANGED <<registry, mail, drv, serving, crashes, faults, begun>>

DeliverEnd ==
  /\ box.m # None /\ box.marked
  /\ jwake' = IF box.to = None THEN jwake
              ELSE [jwake EXCEPT ![To[box.m]] = [to |-> box.to, on |-> TRUE]]
  /\ box' = NoBox
  /\ UNCHANGED <<parent, live, req, lease, monitor, sqlite, drv, serving, crashes, faults, begun>>

WakeParent(c) ==
  LET rows == {w \in DOMAIN wake : wake[w].child = c /\ wake[w].on}
  IN  CASE rows # {}                -> {wake[w].to : w \in rows}
        [] rows = {} /\ jwake[c].on -> {jwake[c].to}
        [] OTHER                    -> {parent[c]}

\* task_complete.  Outside a fence it ends the wakes in SQLite, tells the parent of
\* the wake that was active, and ends the wake in the registry.
TaskComplete(c) ==
  /\ Http /\ c \in Completers
  /\ LET k == <<"complete", c>>
     IN  /\ mail[k] = None /\ ~Deferred(k)
         /\ \/ \E i \in Indices : /\ FencesRoutes(i, c)
                                  /\ req' = Intend(i, k)
                                  /\ UNCHANGED <<wake, box>>
            \/ /\ ~RoutesFenced(c)
               /\ \E p \in WakeParent(c) : box' = [NoBox EXCEPT !.c = c, !.to = p]
               /\ wake' = Cancelled(wake, c)
               /\ UNCHANGED req
  /\ begun' = begun \cup {c}
  /\ UNCHANGED <<parent, live, lease, jwake, monitor, msg, mail, drv, serving, crashes, faults>>

CompleteTell ==
  /\ box.c # None /\ ~box.marked
  /\ mail' = [mail EXCEPT ![<<"complete", box.c>>] = box.to]
  /\ box' = [box EXCEPT !.marked = TRUE]
  /\ UNCHANGED <<registry, wake, msg, drv, serving, crashes, faults, begun>>

CompleteEnd ==
  /\ box.c # None /\ box.marked
  /\ jwake' = [jwake EXCEPT ![box.c].on = FALSE]
  /\ box' = NoBox
  /\ UNCHANGED <<parent, live, req, lease, monitor, sqlite, drv, serving, crashes, faults, begun>>

\* send_parent_notification
NotifyParent(c) ==
  /\ Http /\ c \in Talkers
  /\ LET k == <<"message", c>>
     IN  /\ mail[k] = None /\ ~Deferred(k)
         /\ \/ \E i \in Indices : /\ FencesRoutes(i, c)
                                  /\ req' = Intend(i, k)
                                  /\ UNCHANGED mail
            \/ /\ ~RoutesFenced(c) /\ parent[c] # None
               /\ mail' = [mail EXCEPT ![k] = parent[c]]
               /\ UNCHANGED req
  /\ UNCHANGED <<parent, live, lease, jwake, monitor, wake, msg, drv, box, serving, crashes, faults, begun>>

-----------------------------------------------------------------------------
(* The driver: reconcile_reparent_requests_locked *)

\* build_reparent_apply_plan and build_reparent_routing_changes
PlanOf(q) ==
  LET edges == Edges(q)
      routed == {c \in DOMAIN edges : edges[c].old # None}
      toOld(c, r) == c \in routed /\ r.to = edges[c].old
  IN  [edges    |-> edges,
       jwakes   |-> {c \in routed : toOld(c, jwake[c]) /\ jwake[c].on},
       monitors |-> [c \in {d \in routed : toOld(d, monitor[d])} |-> monitor[c].on],
       wakes    |-> {w \in DOMAIN wake : toOld(wake[w].child, wake[w]) /\ wake[w].on},
       msgs     |-> {m \in Messages : toOld(To[m], msg[m]) /\ msg[m].state = "queued"}]

Goto(pc) == drv' = [drv EXCEPT !.pc = pc]
SetStage(stage) == req' = [req EXCEPT ![lease].stage = stage]

\* A failed apply waits for the operator, unless it only has to be aborted.
Quarantined == lease # 0 /\ Leased.status = "failed" /\ Leased.stage # "prequiesce_aborting"

\* Mutant: only a request that was left applying is resumed.
AcquireResumeApplying ==
  /\ drv.pc = "idle" /\ Guard /\ lease # 0 /\ Leased.status = "applying"
  /\ drv' = [Idle EXCEPT !.pc = "apply"]
  /\ UNCHANGED <<registry, sqlite, box, serving, crashes, faults, begun>>

\* acquire_reparent_apply_lease: a lease left behind comes first ...
AcquireResume ==
  /\ drv.pc = "idle" /\ Guard /\ lease # 0 /\ ~Quarantined
  /\ drv' = [Idle EXCEPT !.pc = "apply"]
  /\ UNCHANGED <<registry, sqlite, box, serving, crashes, faults, begun>>

\* ... then the oldest request that is ready and, after a refresh, still pending
Appliable(i) == Refreshed[i].status = "pending" /\ Ready(req[i])

AcquireNew ==
  /\ drv.pc = "idle" /\ Guard /\ lease = 0
  /\ \E i \in Indices :
       /\ Appliable(i) /\ \A j \in Indices : j < i => ~Appliable(j)
       /\ lease' = i
       /\ req' = [Refreshed EXCEPT ![i] = [req[i] EXCEPT !.status = "applying",
                                                        !.stage = "applying",
                                                        !.plan = PlanOf(req[i])]]
  /\ drv' = [Idle EXCEPT !.pc = "apply"]
  /\ UNCHANGED <<parent, live, jwake, monitor, sqlite, box, serving, crashes, faults, begun>>

\* Nothing to apply: the pass ends, and with the first one the startup.
AcquireNone ==
  /\ drv.pc = "idle" /\ Guard
  /\ \/ Quarantined /\ UNCHANGED req
     \/ /\ lease = 0
        /\ \A i \in Indices : ~Appliable(i)
        /\ req' = Refreshed
  /\ serving' = TRUE
  /\ UNCHANGED <<parent, live, lease, jwake, monitor, sqlite, drv, box, crashes, faults, begun>>

\* validate_json_parent_route
RouteValid(r, old, prior, quiescing) == r.to = old /\ (r.on => quiescing /\ prior)
JsonRoutesValid(plan, quiescing) ==
  /\ \A c \in plan.jwakes : RouteValid(jwake[c], plan.edges[c].old, TRUE, quiescing)
  /\ \A c \in DOMAIN plan.monitors :
       RouteValid(monitor[c], plan.edges[c].old, plan.monitors[c], quiescing)

At(stage) == drv.pc = "apply" /\ Guard /\ Leased.stage = stage

QuiesceJson ==
  /\ At("applying")
  /\ LET plan == Leased.plan
     IN  IF Stale(Leased) \/ ~JsonRoutesValid(plan, TRUE)
           THEN Goto("fail") /\ UNCHANGED <<req, jwake, monitor>>
           ELSE /\ jwake' = [c \in Sessions |-> IF c \in plan.jwakes
                               THEN [jwake[c] EXCEPT !.on = FALSE] ELSE jwake[c]]
                /\ monitor' = [c \in Sessions |-> IF c \in DOMAIN plan.monitors
                                 THEN [monitor[c] EXCEPT !.on = FALSE] ELSE monitor[c]]
                /\ SetStage("json_routing_quiesced")
                /\ UNCHANGED drv
  /\ UNCHANGED <<parent, live, lease, sqlite, box, serving, crashes, faults, begun>>

\* quiesce_parent_routing, one transaction.  It does not take the write guard.
QuiesceQueue ==
  /\ drv.pc = "apply" /\ Leased.stage = "json_routing_quiesced"
  /\ LET plan == Leased.plan
         old(c) == plan.edges[c].old
     IN  IF /\ \A w \in plan.wakes : wake[w].to = old(wake[w].child)
            /\ \A m \in plan.msgs : msg[m].state = "queued" /\ msg[m].to \in {old(To[m]), None}
           THEN /\ wake' = [w \in DOMAIN wake |-> IF w \in plan.wakes
                              THEN [wake[w] EXCEPT !.on = FALSE] ELSE wake[w]]
                /\ msg' = [m \in Messages |-> IF m \in plan.msgs
                             THEN [msg[m] EXCEPT !.to = None] ELSE msg[m]]
                /\ Goto("quiesced")
           ELSE Goto("fail") /\ UNCHANGED <<wake, msg>>
  /\ UNCHANGED <<registry, mail, box, serving, crashes, faults, begun>>

QueueQuiesced ==
  /\ drv.pc = "quiesced" /\ Guard
  /\ SetStage("routing_quiesced")
  /\ Goto("apply")
  /\ UNCHANGED <<parent, live, lease, jwake, monitor, sqlite, box, serving, crashes, faults, begun>>

\* queue_route_groups_from_plan: the targets, one transaction each
GroupOf(plan, mode, c) == IF mode = "forward" THEN plan.edges[c].new ELSE plan.edges[c].old
StartRouting(mode) ==
  LET plan == Leased.plan
      todo == {GroupOf(plan, mode, wake[w].child) : w \in plan.wakes}
                \cup {GroupOf(plan, mode, To[m]) : m \in plan.msgs}
  IN  drv' = [Idle EXCEPT !.pc = "route", !.mode = mode, !.todo = todo]

\* commit_reparent_authority: one replacement moves the edges and the JSON routes;
\* a plan that became stale is rolled back instead.
Commit ==
  /\ At("routing_quiesced")
  /\ LET plan == Leased.plan
         to(c) == plan.edges[c].new
     IN  CASE Stale(Leased) -> StartRouting("rollback") /\ UNCHANGED <<parent, req, jwake, monitor>>
           [] ~Stale(Leased) /\ (~JsonRoutesValid(plan, FALSE)
                                   \/ \E c \in DOMAIN plan.edges : parent[c] # plan.edges[c].old) ->
                Goto("fail") /\ UNCHANGED <<parent, req, jwake, monitor>>
           [] OTHER ->
                /\ parent' = Moved(plan.edges)
                /\ jwake' = [c \in Sessions |-> IF c \in plan.jwakes
                               THEN [to |-> IF to(c) = None THEN jwake[c].to ELSE to(c),
                                     on |-> to(c) # None]
                               ELSE jwake[c]]
                /\ monitor' = [c \in Sessions |-> IF c \in DOMAIN plan.monitors
                                 THEN [to |-> to(c), on |-> to(c) # None /\ plan.monitors[c]]
                                 ELSE monitor[c]]
                /\ SetStage("authority_committed")
                /\ UNCHANGED drv
  /\ UNCHANGED <<live, lease, sqlite, box, serving, crashes, faults, begun>>

FinishRouting ==
  /\ At("authority_committed")
  /\ StartRouting("forward")
  /\ UNCHANGED <<registry, sqlite, box, serving, crashes, faults, begun>>

\* Mutant: a planned message that was delivered meanwhile is passed over.
RetargetSkipsDelivered(target) ==
  /\ drv.pc = "route" /\ target \in drv.todo
  /\ LET plan == Leased.plan
         in(c) == GroupOf(plan, drv.mode, c) = target
         wakes == {w \in plan.wakes : in(wake[w].child)}
         msgs  == {m \in plan.msgs : in(To[m])}
     IN  /\ wake' = [w \in DOMAIN wake |-> IF w \in wakes
                       THEN [wake[w] EXCEPT !.to = IF target = None THEN @ ELSE target,
                                            !.on = target # None]
                       ELSE wake[w]]
         /\ msg' = [m \in Messages |-> IF m \in msgs /\ msg[m].state = "queued"
                      THEN [msg[m] EXCEPT !.to = target] ELSE msg[m]]
         /\ drv' = [drv EXCEPT !.todo = @ \ {target}]
  /\ UNCHANGED <<registry, mail, box, serving, crashes, faults, begun>>

\* retarget_parent_routing for one group, one transaction
Retarget(target) ==
  /\ drv.pc = "route" /\ target \in drv.todo
  /\ LET plan == Leased.plan
         old(c) == plan.edges[c].old
         in(c) == GroupOf(plan, drv.mode, c) = target
         wakes == {w \in plan.wakes : in(wake[w].child)}
         msgs  == {m \in plan.msgs : in(To[m])}
         kept(w) == target # None /\ wake[w].to = target /\ wake[w].on
     IN  IF /\ \A w \in wakes : wake[w].to = old(wake[w].child) \/ kept(w)
            /\ \A m \in msgs : msg[m].to \in {old(To[m]), None, target}
           THEN /\ wake' = [w \in DOMAIN wake |-> IF w \in wakes
                              THEN [wake[w] EXCEPT !.to = IF target = None THEN @ ELSE target,
                                                   !.on = target # None]
                              ELSE wake[w]]
                /\ msg' = [m \in Messages |-> IF m \in msgs /\ msg[m].state = "queued"
                             THEN [msg[m] EXCEPT !.to = target] ELSE msg[m]]
                /\ drv' = [drv EXCEPT !.todo = @ \ {target},
                             !.got = @ \cup {m \in msgs : msg[m].state = "delivered"}]
           ELSE Goto("fail") /\ UNCHANGED <<wake, msg>>
  /\ UNCHANGED <<registry, mail, box, serving, crashes, faults, begun>>

\* persist_delivered_reparent_wake_intents
Collect ==
  /\ drv.pc = "route" /\ drv.todo = {} /\ Guard
  /\ \E new \in SetToSeqs({<<"planned", m>> : m \in drv.got} \ Range(Leased.intents)) :
       req' = [req EXCEPT ![lease].intents = @ \o new]
  /\ Goto(IF drv.mode = "forward" THEN "replay" ELSE "restore")
  /\ UNCHANGED <<parent, live, lease, jwake, monitor, sqlite, box, serving, crashes, faults, begun>>

\* restore_json_reparent_routes and verify_old_reparent_edges
RestoreJson ==
  /\ drv.pc = "restore" /\ Guard
  /\ LET plan == Leased.plan
         old(c) == plan.edges[c].old
     IN  IF /\ \A c \in plan.jwakes : jwake[c].to = old(c)
            /\ \A c \in DOMAIN plan.monitors :
                 monitor[c].to = old(c) /\ (monitor[c].on => plan.monitors[c])
            /\ \A c \in DOMAIN plan.edges : parent[c] = old(c)
           THEN /\ jwake' = [c \in Sessions |-> IF c \in plan.jwakes
                               THEN [to |-> old(c), on |-> TRUE] ELSE jwake[c]]
                /\ monitor' = [c \in Sessions |-> IF c \in DOMAIN plan.monitors
                                 THEN [to |-> old(c), on |-> plan.monitors[c]] ELSE monitor[c]]
                /\ drv' = [drv EXCEPT !.pc = "replay", !.redo = TRUE]
           ELSE Goto("fail") /\ UNCHANGED <<jwake, monitor>>
  /\ UNCHANGED <<parent, live, req, lease, sqlite, box, serving, crashes, faults, begun>>

-----------------------------------------------------------------------------
(* replay_deferred_reparent_routes and the ends of the transaction *)

AbortResume ==
  /\ At("prequiesce_aborting")
  /\ drv' = [Idle EXCEPT !.pc = "replay", !.mode = "abort", !.redo = TRUE]
  /\ UNCHANGED <<registry, sqlite, box, serving, crashes, faults, begun>>

Open(q) == {n \in DOMAIN q.intents : q.intents[n] \notin q.done}
ToReplay == {n \in DOMAIN Leased.intents :
               n \in Open(Leased) \/ (drv.redo /\ Leased.intents[n] \notin drv.again)}

\* The first intent to replay is read ...
ReplayPick ==
  /\ drv.pc = "replay" /\ Guard
  /\ \E n \in ToReplay :
       /\ \A other \in ToReplay : n <= other
       /\ drv' = [drv EXCEPT !.pc = "act", !.key = Leased.intents[n]]
  /\ UNCHANGED <<registry, sqlite, box, serving, crashes, faults, begun>>

\* ... and takes effect in SQLite, without the write guard, for the parent its
\* child has; a child without one needs nothing.  The message of an intent is
\* inserted once, under the intent's key.  (early is history.)
Replay ==
  /\ drv.pc = "act"
  /\ LET k == drv.key
         c == Child(k)
         p == parent[c]
         told == mail[k] \in {None, p}
     IN  /\ mail' = IF k[1] \in {"complete", "message"} /\ mail[k] = None
                      THEN [mail EXCEPT ![k] = p] ELSE mail
         /\ wake' = CASE p # None /\ k[1] \in {"wake", "planned"} -> Registered(wake, c, p)
                      [] p # None /\ k[1] = "complete" /\ told    -> Cancelled(wake, c)
                      [] OTHER                                    -> wake
         /\ msg' = IF k[1] = "input" /\ msg[k[2]].state = "absent"
                     THEN [msg EXCEPT ![k[2]] = [state |-> "queued", to |-> p]] ELSE msg
         /\ req' = IF Leased.stage = "authority_committed" THEN req
                   ELSE [req EXCEPT ![lease].early = @ \cup {k}]
         /\ Goto(IF k[1] \in {"complete", "message"} /\ p # None /\ ~told
                   THEN "fail" ELSE "note")
  /\ UNCHANGED <<parent, live, lease, jwake, monitor, box, serving, crashes, faults, begun>>

\* The same in the registry, with replayed_at.  The retained copy of a message in
\* the registry is left out.
ReplayNoted ==
  /\ drv.pc = "note" /\ Guard
  /\ LET k == drv.key
         c == Child(k)
         p == parent[c]
     IN  /\ jwake' = CASE p # None /\ k[1] \in {"wake", "planned"} ->
                            [jwake EXCEPT ![c] = [to |-> p, on |-> TRUE]]
                       [] p # None /\ k[1] = "complete" -> [jwake EXCEPT ![c].on = FALSE]
                       [] OTHER -> jwake
         /\ req' = [req EXCEPT ![lease].done = @ \cup {k}]
         /\ drv' = [drv EXCEPT !.pc = "replay", !.again = @ \cup {k}]
  /\ UNCHANGED <<parent, live, lease, monitor, sqlite, box, serving, crashes, faults, begun>>

ReplayEnds ==
  /\ drv.pc = "replay" /\ Guard /\ ToReplay = {}
  /\ Goto("final")
  /\ UNCHANGED <<registry, sqlite, box, serving, crashes, faults, begun>>

\* Status and stage a finished transaction leaves
Outcome(mode) ==
  CASE mode = "forward" -> <<"applied", "applied">>
    [] mode \in {"abort", "rollback"} -> <<"stale", "prequiesce_aborted">>
    [] OTHER -> <<"repaired", "repair_rolled_back">>

\* Mutant: intents that arrived after the last replay are not looked for.
ReleaseUnchecked ==
  /\ drv.pc = "final" /\ Guard
  /\ req' = [req EXCEPT ![lease].status = Outcome(drv.mode)[1],
                        ![lease].stage = Outcome(drv.mode)[2]]
  /\ lease' = 0
  /\ drv' = Idle
  /\ UNCHANGED <<parent, live, jwake, monitor, sqlite, box, serving, crashes, faults, begun>>

\* The last replacement releases the lease, unless another intent has arrived.
Release ==
  /\ drv.pc = "final" /\ Guard
  /\ IF Open(Leased) # {}
       THEN drv' = [drv EXCEPT !.pc = "replay", !.redo = FALSE] /\ UNCHANGED <<req, lease>>
       ELSE /\ req' = [req EXCEPT ![lease].status = Outcome(drv.mode)[1],
                                  ![lease].stage = Outcome(drv.mode)[2]]
            /\ lease' = 0
            /\ drv' = Idle
  /\ UNCHANGED <<parent, live, jwake, monitor, sqlite, box, serving, crashes, faults, begun>>

\* Mutant: an early failure drops the fence at once.
FailDropsFence ==
  /\ drv.pc = "fail" /\ Guard
  /\ LET early == Leased.stage = "applying"
     IN  /\ req' = [req EXCEPT ![lease].status = "failed",
                               ![lease].stage = IF early THEN "prequiesce_aborted" ELSE @]
         /\ drv' = IF early THEN [Idle EXCEPT !.pc = "replay", !.mode = "abort", !.redo = TRUE]
                            ELSE Idle
  /\ UNCHANGED <<parent, live, lease, jwake, monitor, sqlite, box, serving, crashes, faults, begun>>

\* fail_reparent_apply: before anything was quiesced the transaction is aborted,
\* later it is quarantined with its lease.
Fail ==
  /\ drv.pc = "fail" /\ Guard
  /\ LET early == Leased.stage = "applying"
     IN  /\ req' = [req EXCEPT ![lease].status = "failed",
                               ![lease].stage = IF early THEN "prequiesce_aborting" ELSE @]
         /\ drv' = IF early THEN [Idle EXCEPT !.pc = "replay", !.mode = "abort", !.redo = TRUE]
                            ELSE Idle
  /\ UNCHANGED <<parent, live, lease, jwake, monitor, sqlite, box, serving, crashes, faults, begun>>

\* A SQLite operation of the driver fails.
QueueFails ==
  /\ faults < MaxFaults
  /\ \/ drv.pc = "apply" /\ Leased.stage = "json_routing_quiesced"
     \/ drv.pc = "route" /\ drv.todo # {}
     \/ drv.pc = "act"
  /\ faults' = faults + 1
  /\ Goto("fail")
  /\ UNCHANGED <<registry, sqlite, box, serving, crashes, begun>>

\* repair_reparent_request
RepairResume ==
  /\ Http /\ drv.pc = "idle" /\ lease # 0 /\ Leased.status = "failed"
  /\ req' = [req EXCEPT ![lease].status = "applying"]
  /\ drv' = [Idle EXCEPT !.pc = "apply"]
  /\ UNCHANGED <<parent, live, lease, jwake, monitor, sqlite, box, serving, crashes, faults, begun>>

RepairRollback ==
  /\ Http /\ drv.pc = "idle" /\ lease # 0 /\ Leased.status = "failed"
  /\ Leased.stage \in {"json_routing_quiesced", "routing_quiesced"}
  /\ StartRouting("repair")
  /\ UNCHANGED <<registry, sqlite, box, serving, crashes, faults, begun>>

\* The server process ends and starts again.
Crash ==
  /\ crashes < MaxCrashes
  /\ crashes' = crashes + 1
  /\ drv' = Idle /\ box' = NoBox /\ serving' = FALSE
  /\ UNCHANGED <<registry, sqlite, faults, begun>>

-----------------------------------------------------------------------------
Consent ==
  \/ \E move \in Moves, by \in Sessions : CreateRequest(move, by)
  \/ \E i \in Indices :
       \/ Expire(i)
       \/ \E actor \in Actors, approve \in BOOLEAN : Decide(i, actor, approve)

Traffic ==
  \/ \E s \in Sessions : Stop(s) \/ Restore(s) \/ TaskComplete(s) \/ NotifyParent(s)
  \/ \E m \in Messages : SendInput(m) \/ Deliver(m)

Delivery == DeliverMark \/ DeliverEnd \/ CompleteTell \/ CompleteEnd

Acquire == AcquireResume \/ AcquireNew \/ AcquireNone

Drive ==
  \/ QuiesceJson \/ QuiesceQueue \/ QueueQuiesced \/ Commit \/ FinishRouting
  \/ \E target \in Parents : Retarget(target)
  \/ Collect \/ RestoreJson \/ AbortResume \/ ReplayPick \/ Replay \/ ReplayNoted \/ ReplayEnds
  \/ Release \/ Fail

Repair == RepairResume \/ RepairRollback

Next == Consent \/ Traffic \/ Delivery \/ Acquire \/ Drive \/ Repair \/ QueueFails \/ Crash

Spec == Init /\ [][Next]_vars

\* The worker reconciles again and again, a driver that holds the apply locks
\* goes on, and so does a delivery that holds the write guard.  Nobody else has to
\* act: not the approvers, the sessions or the operator.
FairSpec == Spec /\ WF_vars(Acquire) /\ WF_vars(Drive) /\ WF_vars(Delivery)

-----------------------------------------------------------------------------
(* Correctness *)

\* The routes of a plan belong to the sessions that it moves.
Plan ==
  {plan \in [edges: UNION {[D -> [old: Parents, new: Parents]] : D \in SUBSET Sessions},
             jwakes: SUBSET Sessions,
             monitors: UNION {[D -> BOOLEAN] : D \in SUBSET Sessions},
             wakes: SUBSET Nat, msgs: SUBSET Messages] :
     /\ plan.jwakes \cup DOMAIN plan.monitors \subseteq DOMAIN plan.edges
     /\ \A m \in plan.msgs : To[m] \in DOMAIN plan.edges}

Request ==
  [kind: Kinds, subject: Sessions, target: Sessions, parent: Parents, tparent: Parents,
   plive: BOOLEAN, frozen: SUBSET Sessions, need: SUBSET Actors, yes: SUBSET Actors,
   late: BOOLEAN, status: Statuses, stage: Stages, plan: Plan,
   intents: Seq(Keys), done: SUBSET Keys, early: SUBSET Keys]

Driver ==
  [pc: Drivers, mode: Modes, todo: SUBSET Parents, got: SUBSET Messages, redo: BOOLEAN,
   again: SUBSET Keys, key: Keys \cup {Idle.key}]

Box == [m: Messages \cup {None}, c: Parents, to: Parents, marked: BOOLEAN]

\* Exactly the request with the lease is being applied.
OneApplies == \A i \in Indices : Fenced(req[i]) <=> i = lease

\* Every variable has its type, the driver works for a lease, and exactly the
\* lease holder is being applied.
TypeOK ==
  /\ parent \in [Sessions -> Parents]
  /\ live \in SUBSET Sessions
  /\ req \in Seq(Request) /\ Len(req) <= MaxRequests
  /\ lease \in 0 .. Len(req)
  /\ OneApplies
  /\ jwake \in [Sessions -> Route] /\ monitor \in [Sessions -> Route]
  /\ wake \in Seq([child: Sessions, to: Sessions, on: BOOLEAN])
  /\ msg \in [Messages -> [state: {"absent", "queued", "delivered"}, to: Parents]]
  /\ mail \in [Keys -> Parents]
  /\ drv \in Driver
  /\ drv.pc # "idle" => lease # 0
  /\ drv.pc \in {"act", "note"} => drv.key \in Keys
  /\ box \in Box
  /\ box.m = None \/ box.c = None
  /\ begun \subseteq Completers

\* The hierarchy stays a forest although requests that are harmless one by one
\* and would close a cycle together are approved side by side.
NoCycle == Acyclic(parent)

\* An edge moves only with the consent of the session that gets the child and of
\* the session that loses it, if that one is live when the edge moves; a single
\* move away from a stopped parent, or of a root, has the operator's consent.
MovesHaveConsent ==
  [][\A s \in Sessions : parent'[s] # parent[s] =>
       LET q == req[lease]
       IN  /\ parent'[s] \in q.yes \cup {None}
           /\ IF IsLive(parent[s]) THEN parent[s] \in q.yes
              ELSE q.kind = "single" => Human \in q.yes]_vars

Committed(q) == q.stage \in {"authority_committed", "applied"}

\* An intent of c was replayed for the old parent, by a rollback that was interrupted,
\* and the transaction was then resumed and committed.  What was replayed stays with
\* the old parent: see the README.
Misplayed(c) ==
  \E i \in Indices : /\ Committed(req[i]) /\ c \in DOMAIN req[i].plan.edges
                     /\ \E k \in req[i].early : Child(k) = c

\* A transaction has left c without a parent: the routes of that time lead nowhere.
Orphaned(c) ==
  \E i \in Indices : /\ Committed(req[i]) /\ c \in DOMAIN req[i].plan.edges
                     /\ req[i].plan.edges[c].new = None

\* Routes of a session that no transaction controls lead to its parent: wakes and
\* monitor notices in the registry, wakes in SQLite, the wake a queued input asks for
\* (nobody, if there was no parent).  Replays that a resumed rollback left behind are
\* the exception.
RoutesFollowAuthority ==
  \A c \in Sessions : ~RoutesFenced(c) /\ ~Misplayed(c) =>
    /\ jwake[c].on => jwake[c].to = parent[c]
    /\ monitor[c].on => monitor[c].to = parent[c]
    /\ \A w \in DOMAIN wake : (wake[w].child = c /\ wake[w].on) => wake[w].to = parent[c]
    /\ \A m \in Messages : (To[m] = c /\ msg[m].state = "queued") =>
         IF msg[m].to = None THEN Orphaned(c) ELSE msg[m].to = parent[c]

\* When the lease is released every operation the fence deferred has taken effect,
\* its report with the session that is then the parent (or was, when a resumed
\* rollback had replayed it).
ReleaseSettlesIntents ==
  [][(lease # 0 /\ lease' = 0) =>
       \A n \in DOMAIN Leased.intents :
         LET k == Leased.intents[n]
         IN  /\ k \in Leased.done
             /\ k[1] \in {"complete", "message"} =>
                  mail[k] = parent[k[2]] \/ (Committed(Leased) /\ k \in Leased.early)
             /\ k[1] = "input" => msg[k[2]].state # "absent"]_vars

WakeKept(m) ==
  LET c == To[m]
  IN  (/\ msg[m].state = "delivered" /\ parent[c] # None
       /\ ~SessionFenced(c) /\ c \notin begun) =>
         \E w \in DOMAIN wake : wake[w].child = c /\ wake[w].on

\* A message that a delivery read without its parent, and marked when the row had
\* been given one again
Straddles(m) ==
  /\ \E i \in Indices : m \in req[i].plan.msgs
  /\ msg[m].to # None /\ ~Deferred(<<"wake", m>>)

\* Whenever an input is delivered, before, during or after a transaction, its wake is
\* not lost: unless its session has asked to complete, or has or had no parent, a wake
\* is active as soon as no transaction controls the session.  Deliveries that straddle a
\* retarget are left to ParentWakesFollow.
WakeNotLost == \A m \in Messages : WakeKept(m) \/ Straddles(m) \/ Orphaned(To[m])

\* specs/1207: "pending parent-wake metadata attached to undelivered queue messages"
\* must follow the new graph.  It does not when a delivery straddles the retarget:
\* see the README.
ParentWakesFollow == \A m \in Messages : WakeKept(m)

\* A transaction ends, or waits for the operator, whatever crashes and failures
\* interrupt it.
TransactionEnds == lease # 0 ~> (lease = 0 \/ Quarantined)

\* specs/1207: "Pending and `applying' requests recover correctly after restart at
\* every durable stage."  After the commit the code does not: see the README.
RestartRecovers ==
  faults = 0 => ~(Quarantined /\ Leased.stage = "authority_committed")

=============================================================================
