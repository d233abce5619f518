--------------------------- MODULE RoutingProofs ---------------------------
(***************************************************************************)
(* RoutesFollowAuthority, for every set of sessions and messages, every    *)
(* number of requests, crashes and failures.                               *)
(***************************************************************************)
EXTENDS ReparentProofs

-----------------------------------------------------------------------------
(* The inductive invariant *)

Edged == DOMAIN Leased.plan.edges
Crossed == lease # 0 /\ Leased.stage = "authority_committed"
Before == lease # 0 /\ Leased.stage # "authority_committed"

\* Some intent of c has been replayed by the transaction before its commit.
Early(c) == \E k \in Leased.early : Child(k) = c

\* A pending request has no plan, and nothing has been deferred by it.
Blank(q) == q.plan = NoPlan /\ q.stage = "none" /\ q.intents = <<>>
Fresh == \A i \in Indices : req[i].status = "pending" => Blank(req[i])

\* The mode in which the driver works follows the stage it started from.
Running == {"route", "restore", "replay", "act", "note", "final"}
Steps ==
  /\ drv.pc = "quiesced" => Leased.stage = "json_routing_quiesced"
  /\ drv.pc \in Running => /\ Leased.stage \in FencedStages
                           /\ drv.mode = "forward" <=> Leased.stage = "authority_committed"
                           /\ drv.mode = "abort" <=> Leased.stage = "prequiesce_aborting"
  /\ drv.pc = "restore" => drv.mode # "forward"
  /\ drv.pc \in {"act", "note"} => drv.key \in Range(Leased.intents)
  /\ (drv.pc = "note" /\ Before) => drv.key \in Leased.early

\* The sessions of the plan are where the stage says.
Sited ==
  lease # 0 => \A c \in Edged :
    parent[c] = IF Crossed THEN Leased.plan.edges[c].new ELSE Leased.plan.edges[c].old

\* Only routes to a parent are planned.
Rooted ==
  lease # 0 => /\ \A c \in Leased.plan.jwakes \cup DOMAIN Leased.plan.monitors :
                    Leased.plan.edges[c].old # None
               /\ \A m \in Leased.plan.msgs : Leased.plan.edges[To[m]].old # None

\* An input is deferred for a session of the plan that has a parent.
Asks ==
  lease # 0 => \A m \in Messages : <<"input", m>> \in Range(Leased.intents) =>
    To[m] \in Edged /\ (Before => Leased.plan.edges[To[m]].old # None)

\* Routes in the registry.  Before the commit those of the sessions of the plan are
\* planned, or replayed.
JsonRoute(c) ==
  /\ jwake[c].on => jwake[c].to # None /\ (jwake[c].to = parent[c] \/ Misplayed(c))
  /\ monitor[c].on => monitor[c].to # None /\ monitor[c].to = parent[c]
  /\ (Before /\ c \in Edged) =>
       /\ jwake[c].on => c \in Leased.plan.jwakes \/ Early(c) \/ Misplayed(c)
       /\ monitor[c].on => c \in DOMAIN Leased.plan.monitors
JsonOK == \A c \in Sessions : JsonRoute(c)

\* Planned routes of c in SQLite may be out of line: they have been or can be
\* quiesced, and this pass has not retargeted them.
Loose(c) ==
  /\ Leased.stage \in {"json_routing_quiesced", "routing_quiesced", "authority_committed"}
  /\ drv.pc \notin Running \/ (drv.pc = "route" /\ GroupOf(Leased.plan, drv.mode, c) \in drv.todo)
LooseWake(w) == lease # 0 /\ w \in Leased.plan.wakes /\ Loose(wake[w].child)
LooseMsg(m) == lease # 0 /\ m \in Leased.plan.msgs /\ Loose(To[m])

RowRoute(w) ==
  LET c == wake[w].child
  IN  wake[w].on =>
        /\ wake[w].to = parent[c] \/ Misplayed(c) \/ LooseWake(w)
        /\ (Before /\ c \in Edged) => w \in Leased.plan.wakes \/ Early(c) \/ Misplayed(c)
RowsOK == \A w \in DOMAIN wake : RowRoute(w)

MsgRoute(m) ==
  LET c == To[m]
  IN  msg[m].state = "queued" =>
        /\ \/ LooseMsg(m)
           \/ msg[m].to = None /\ Orphaned(c)
           \/ msg[m].to # None /\ (msg[m].to = parent[c] \/ Misplayed(c))
        /\ (Before /\ c \in Edged /\ msg[m].to # None) =>
             m \in Leased.plan.msgs \/ Early(c) \/ Misplayed(c)
QueueOK == \A m \in Messages : MsgRoute(m)

\* A delivery with a parent to wake has the guard, and its session is not fenced.
BoxFree ==
  (box.m # None /\ box.to # None) =>
    /\ ~(lease # 0 /\ To[box.m] \in Edged)
    /\ box.to = parent[To[box.m]] \/ Misplayed(To[box.m])

PlanInv == Fresh /\ Steps /\ Sited /\ Rooted /\ Asks
RouteInv == JsonOK /\ RowsOK /\ QueueOK /\ BoxFree
RInv == PlanInv /\ RouteInv

-----------------------------------------------------------------------------
(* What requests keep *)

\* r is a later version of q.
Later(q, r) ==
  /\ Committed(q) => Committed(r)
  /\ q.early \subseteq r.early
  /\ r.plan = q.plan \/ q.plan = NoPlan
  /\ r.status = "pending" => q.status = "pending" /\ (Blank(q) => Blank(r))

AllLater ==
  /\ Len(req) <= Len(req')
  /\ \A i \in Indices : Later(req[i], req'[i])
  /\ \A i \in Indices' \ Indices : Blank(req'[i])

\* r has the same intents, and has replayed the same.
Same(q, r) == r.intents = q.intents /\ r.done = q.done /\ Affected(r) = Affected(q)

AllSame ==
  /\ \A i \in Indices : Same(req[i], req'[i])
  /\ \A i \in Indices' \ Indices : req'[i].intents = <<>> /\ req'[i].done = {}

LEMMA IndicesGrow ==
  ASSUME ReqOK, ReqOK', Len(req) <= Len(req')
  PROVE  Indices \subseteq Indices' /\ lease \in Nat /\ (lease # 0 => lease \in Indices)
BY LenProperties DEF ReqOK, Indices

LEMMA MarksStay ==
  ASSUME ReqOK, ReqOK', AllLater, NEW c
  PROVE  (Misplayed(c) => Misplayed(c)') /\ (Orphaned(c) => Orphaned(c)')
<1>1. Indices \subseteq Indices'
  BY IndicesGrow DEF AllLater
<1>2. DOMAIN NoPlan.edges = {}
  BY DEF NoPlan
<1>3. \A i \in Indices : c \in DOMAIN req[i].plan.edges => req'[i].plan = req[i].plan
  BY <1>2 DEF AllLater, Later
<1>4. \A i \in Indices : /\ Committed(req[i]) => Committed(req'[i])
                         /\ req[i].early \subseteq req'[i].early
  BY DEF AllLater, Later
<1>5. Misplayed(c) => Misplayed(c)'
  <2> SUFFICES ASSUME Misplayed(c) PROVE Misplayed(c)'
    OBVIOUS
  <2>1. PICK i \in Indices : /\ Committed(req[i]) /\ c \in DOMAIN req[i].plan.edges
                             /\ \E k \in req[i].early : Child(k) = c
    BY DEF Misplayed
  <2>2. /\ i \in Indices' /\ Committed(req'[i]) /\ c \in DOMAIN req'[i].plan.edges
        /\ \E k \in req'[i].early : Child(k) = c
    BY <1>1, <1>3, <1>4, <2>1
  <2> QED BY <2>2 DEF Misplayed, Committed
<1>6. Orphaned(c) => Orphaned(c)'
  <2> SUFFICES ASSUME Orphaned(c) PROVE Orphaned(c)'
    OBVIOUS
  <2>1. PICK i \in Indices : /\ Committed(req[i]) /\ c \in DOMAIN req[i].plan.edges
                             /\ req[i].plan.edges[c].new = None
    BY DEF Orphaned
  <2>2. /\ i \in Indices' /\ Committed(req'[i]) /\ c \in DOMAIN req'[i].plan.edges
        /\ req'[i].plan.edges[c].new = None
    BY <1>1, <1>3, <1>4, <2>1
  <2> QED BY <2>2 DEF Orphaned, Committed
<1> QED BY <1>5, <1>6

LEMMA FreshStays ==
  ASSUME ReqOK, ReqOK', Fresh, AllLater
  PROVE  Fresh'
<1> SUFFICES ASSUME NEW i \in Indices', req'[i].status = "pending" PROVE Blank(req'[i])
  BY DEF Fresh, Blank
<1> QED BY DEF AllLater, Later, Fresh

\* How a step establishes AllLater.
LEMMA LaterSame ==
  ASSUME UNCHANGED req
  PROVE  AllLater /\ AllSame
BY DEF AllLater, AllSame, Later, Same, Indices, Committed, Blank, Affected

LEMMA LaterRefreshed ==
  ASSUME ReqOK, NEW i \in Indices
  PROVE  /\ Later(req[i], Refreshed[i])
         /\ Refreshed[i].stage = req[i].stage /\ Refreshed[i].plan = req[i].plan
         /\ Refreshed[i].intents = req[i].intents /\ Refreshed[i].early = req[i].early
         /\ Same(req[i], Refreshed[i])
<1>1. req[i] \in Request
  BY LenProperties DEF ReqOK, Indices
<1>2. Refreshed[i] \in {req[i], [req[i] EXCEPT !.status = "expired"],
                        [req[i] EXCEPT !.status = "stale"]}
  BY DEF Refreshed
<1>3. /\ Refreshed[i].stage = req[i].stage /\ Refreshed[i].plan = req[i].plan
      /\ Refreshed[i].intents = req[i].intents /\ Refreshed[i].early = req[i].early
      /\ Refreshed[i].status \in {req[i].status, "expired", "stale"}
  BY <1>1, <1>2 DEF Request
<1>4. Same(req[i], Refreshed[i])
  BY <1>1, <1>2 DEF Request, Same, Affected
<1> QED BY <1>3, <1>4 DEF Later, Committed, Blank

LEMMA LaterReplaced ==
  ASSUME ReqOK, NEW base \in {req, Refreshed}, NEW i \in Indices, NEW r, Later(base[i], r),
         req' = [base EXCEPT ![i] = r]
  PROVE  /\ AllLater /\ Len(req') = Len(req) /\ req'[i] = r
         /\ \A j \in Indices \ {i} : req'[j] = base[j]
         /\ Same(base[i], r) => AllSame
<1>1. base \in Seq(Request) /\ Len(base) = Len(req) /\ Len(req) \in Nat /\ DOMAIN base = Indices
  BY Bases, LenProperties DEF Base, ReqOK, Indices
<1>2. /\ DOMAIN req' = Indices /\ req'[i] = r /\ \A j \in Indices \ {i} : req'[j] = base[j]
  BY <1>1
<1>3. req' \in Seq(Request \cup {r}) /\ Len(req') = Len(req)
  <2>1. req' \in [1 .. Len(req) -> Request \cup {r}]
    BY <1>1 DEF Indices
  <2> QED BY <1>1, <2>1, FunctionIsSeq
<1>4. \A j \in Indices : Later(req[j], base[j])
  BY LaterRefreshed DEF Later
<1>5. Later(req[i], r)
  BY <1>4 DEF Later
<1>6. Indices' = Indices
  BY <1>3 DEF Indices
<1>7. Same(base[i], r) => AllSame
  <2>1. \A j \in Indices : Same(req[j], base[j])
    BY LaterRefreshed DEF Same
  <2> QED BY <1>2, <1>6, <2>1 DEF AllSame, Same
<1> QED BY <1>1, <1>2, <1>3, <1>4, <1>5, <1>6, <1>7 DEF AllLater

-----------------------------------------------------------------------------
(* Steps that touch no route *)

LEMMA PlannedIn ==
  ASSUME Inv, lease # 0
  PROVE  /\ lease \in Indices /\ Leased \in Request /\ Leased = req[lease]
         /\ Edged \subseteq Sessions
         /\ \A c \in Edged : Leased.plan.edges[c].old \in Parents /\ Leased.plan.edges[c].new \in Parents
         /\ Leased.plan.jwakes \subseteq Edged /\ DOMAIN Leased.plan.monitors \subseteq Edged
         /\ Leased.plan.msgs \subseteq Messages
         /\ \A m \in Leased.plan.msgs : To[m] \in Edged
         /\ \A w \in Leased.plan.wakes : w \in DOMAIN wake /\ wake[w].child \in Edged
<1>1. ReqInv /\ ReqOK
  BY Parts DEF ReqInv
<1>2. lease \in Indices /\ Leased \in Request /\ Leased.plan \in Plan
  BY <1>1, LeasedType
<1> QED BY <1>1, <1>2, PlanType DEF Edged, Planned, ReqInv, Leased, Plan

\* The sessions with planned routes in SQLite
Routed == {wake[w].child : w \in Leased.plan.wakes} \cup {To[m] : m \in Leased.plan.msgs}

\* The request with the lease keeps its plan and its side of the commit, and what is
\* out of line in SQLite may still be.
SamePlan ==
  lease # 0 => /\ Leased'.plan = Leased.plan
               /\ Crossed' <=> Crossed
               /\ \A c \in Routed : Loose(c) => Loose(c)'

\* What such a step keeps of the marks on sessions
LEMMA CalmMarks ==
  ASSUME Inv, ReqOK', AllLater, SamePlan, lease' = lease
  PROVE  /\ \A c : (Misplayed(c) => Misplayed(c)') /\ (Orphaned(c) => Orphaned(c)')
         /\ \A c : lease # 0 /\ Early(c) => Early(c)'
         /\ lease # 0 => /\ Edged' = Edged /\ Leased'.plan = Leased.plan /\ (Before' <=> Before)
                         /\ (Crossed' <=> Crossed) /\ \A c \in Routed : Loose(c) => Loose(c)'
         /\ lease = 0 => ~Before' /\ ~Before
<1>1. ReqOK
  BY Parts DEF ReqInv
<1>2. \A c : (Misplayed(c) => Misplayed(c)') /\ (Orphaned(c) => Orphaned(c)')
  BY <1>1, MarksStay
<1>3. \A c : lease # 0 /\ Early(c) => Early(c)'
  <2> SUFFICES ASSUME NEW c, lease # 0, Early(c) PROVE Early(c)'
    OBVIOUS
  <2>1. lease \in Indices /\ Leased.early \subseteq req'[lease].early
    BY PlannedIn DEF AllLater, Later
  <2> QED BY <2>1 DEF Early, Leased
<1> QED BY <1>2, <1>3 DEF SamePlan, Edged, Before, Crossed

LEMMA CalmPlan ==
  ASSUME Inv, ReqOK', AllLater, SamePlan, UNCHANGED <<parent, lease>>
  PROVE  (Fresh => Fresh') /\ (Sited => Sited') /\ (Rooted => Rooted')
<1>1. Fresh => Fresh'
  BY FreshStays, Parts DEF ReqInv
<1> QED BY <1>1, CalmMarks DEF Sited, Rooted

\* Routes that are kept, or ended
LEMMA JsonKept ==
  ASSUME Inv, ReqOK', AllLater, SamePlan, UNCHANGED <<parent, lease>>,
         NEW c \in Sessions, JsonRoute(c),
         jwake'[c].on => jwake[c].on /\ jwake'[c].to = jwake[c].to,
         monitor'[c].on => monitor[c].on /\ monitor'[c].to = monitor[c].to
  PROVE  JsonRoute(c)'
<1>1. /\ jwake'[c].on => jwake'[c].to # None /\ (jwake'[c].to = parent[c] \/ Misplayed(c)')
      /\ monitor'[c].on => monitor'[c].to # None /\ monitor'[c].to = parent[c]
  BY CalmMarks DEF JsonRoute
<1>2. (Before' /\ c \in Edged') =>
        /\ jwake'[c].on => c \in Leased'.plan.jwakes \/ Early(c)' \/ Misplayed(c)'
        /\ monitor'[c].on => c \in DOMAIN Leased'.plan.monitors
  BY CalmMarks DEF JsonRoute
<1> QED BY <1>1, <1>2 DEF JsonRoute

LEMMA RowKept ==
  ASSUME Inv, ReqOK', AllLater, SamePlan, UNCHANGED <<parent, lease>>,
         NEW w \in DOMAIN wake, RowRoute(w), wake'[w].child = wake[w].child,
         wake'[w].on => wake[w].on /\ wake'[w].to = wake[w].to
  PROVE  RowRoute(w)'
<1> DEFINE c == wake[w].child
<1>1. LooseWake(w) => LooseWake(w)'
  BY CalmMarks DEF LooseWake, Loose, Routed
<1>2. wake'[w].on => wake'[w].to = parent[c] \/ Misplayed(c)' \/ LooseWake(w)'
  BY <1>1, CalmMarks DEF RowRoute
<1>3. (wake'[w].on /\ Before' /\ c \in Edged') =>
         w \in Leased'.plan.wakes \/ Early(c)' \/ Misplayed(c)'
  BY CalmMarks DEF RowRoute
<1> QED BY <1>2, <1>3 DEF RowRoute, Misplayed, Early

LEMMA MsgKept ==
  ASSUME Inv, ReqOK', AllLater, SamePlan, UNCHANGED <<parent, lease>>,
         NEW m \in Messages, MsgRoute(m),
         msg'[m].state = "queued" => msg'[m] = msg[m]
  PROVE  MsgRoute(m)'
<1>1. LooseMsg(m) => LooseMsg(m)'
  BY CalmMarks DEF LooseMsg, Loose, Routed
<1>2. msg'[m].state = "queued" =>
        \/ LooseMsg(m)'
        \/ msg'[m].to = None /\ Orphaned(To[m])'
        \/ msg'[m].to # None /\ (msg'[m].to = parent[To[m]] \/ Misplayed(To[m])')
  BY <1>1, CalmMarks DEF MsgRoute
<1>3. (msg'[m].state = "queued" /\ Before' /\ To[m] \in Edged' /\ msg'[m].to # None) =>
         m \in Leased'.plan.msgs \/ Early(To[m])' \/ Misplayed(To[m])'
  BY CalmMarks DEF MsgRoute
<1> QED BY <1>2, <1>3 DEF MsgRoute

LEMMA Calm ==
  ASSUME Inv, ReqOK', AllLater, SamePlan,
         UNCHANGED <<parent, jwake, monitor, wake, msg, lease>>
  PROVE  /\ Fresh => Fresh'
         /\ Sited => Sited'
         /\ Rooted => Rooted'
         /\ JsonOK => JsonOK'
         /\ RowsOK => RowsOK'
         /\ QueueOK => QueueOK'
<1>1. JsonOK => JsonOK'
  BY JsonKept DEF JsonOK
<1>2. RowsOK => RowsOK'
  BY RowKept DEF RowsOK
<1>3. QueueOK => QueueOK'
  BY MsgKept DEF QueueOK
<1> QED BY <1>1, <1>2, <1>3, CalmPlan

\* A delivery in progress keeps what it knows.
LEMMA BoxStays ==
  ASSUME Inv, BoxFree, ReqOK', AllLater, UNCHANGED <<parent, lease>>,
         lease # 0 => Leased'.plan = Leased.plan,
         (box'.m # None /\ box'.to # None) => box'.m = box.m /\ box'.to = box.to
  PROVE  BoxFree'
<1>1. ReqOK
  BY Parts DEF ReqInv
<1> SUFFICES ASSUME box'.m # None, box'.to # None, NEW c, c = To[box'.m]
             PROVE  /\ ~(lease' # 0 /\ c \in Edged')
                    /\ box'.to = parent'[c] \/ Misplayed(c)'
  BY Zenon DEF BoxFree, Misplayed
<1>2. c = To[box.m] /\ box'.to = box.to /\ box.m # None
  OBVIOUS
<1>3. Misplayed(c) => Misplayed(c)'
  BY <1>1, MarksStay
<1>4. ~(lease # 0 /\ c \in Edged) /\ (box.to = parent[c] \/ Misplayed(c))
  BY <1>2 DEF BoxFree
<1> QED BY <1>2, <1>3, <1>4 DEF Edged

\* Steps beside the driver: at most an intent is deferred.
LEMMA Aside ==
  ASSUME Inv, RInv, ReqOK', AllLater, Asks',
         UNCHANGED <<parent, jwake, monitor, wake, msg, lease, drv>>,
         lease # 0 => /\ Leased'.plan = Leased.plan /\ Leased'.stage = Leased.stage
                      /\ Leased'.early = Leased.early
                      /\ Range(Leased.intents) \subseteq Range(Leased'.intents),
         (box'.m # None /\ box'.to # None) => box'.m = box.m /\ box'.to = box.to
  PROVE  RInv'
<1>1. SamePlan
  BY DEF SamePlan, Crossed, Loose, GroupOf
<1>2. BoxFree'
  BY BoxStays DEF RInv, RouteInv
<1>3. Steps'
  <2>1. DrvOK
    BY Parts
  <2>2. drv.pc # "idle" => lease # 0
    BY <2>1 DEF DrvOK
  <2> QED BY <2>2 DEF RInv, PlanInv, Steps, Before, Running
<1> QED BY <1>1, <1>2, <1>3, Calm DEF RInv, PlanInv, RouteInv

LEMMA AsideSame ==
  ASSUME Inv, RInv, ReqOK', AllLater,
         UNCHANGED <<parent, jwake, monitor, wake, msg, lease, drv>>,
         lease # 0 => Leased' = Leased,
         (box'.m # None /\ box'.to # None) => box'.m = box.m /\ box'.to = box.to
  PROVE  RInv'
<1>1. Asks'
  BY DEF RInv, PlanInv, Asks, Edged, Before
<1> QED BY <1>1, Aside

\* Steps of the driver that change no request.
LEMMA DriverMoves ==
  ASSUME Inv, RInv, Inv', Steps',
         UNCHANGED <<parent, jwake, monitor, wake, msg, lease, req>>,
         lease # 0 => \A c \in Routed : Loose(c) => Loose(c)',
         (box'.m # None /\ box'.to # None) => box'.m = box.m /\ box'.to = box.to
  PROVE  RInv'
<1>1. ReqOK' /\ AllLater /\ Leased' = Leased
  <2>1. ReqOK'
    BY DEF Inv, TypeOK, ReqOK
  <2> QED BY <2>1, LaterSame DEF Leased
<1>2. SamePlan
  BY <1>1 DEF SamePlan, Crossed
<1>3. BoxFree'
  BY <1>1, BoxStays DEF RInv, RouteInv
<1>4. Asks'
  BY <1>1 DEF RInv, PlanInv, Asks, Edged, Before
<1> QED BY <1>1, <1>2, <1>3, <1>4, Calm DEF RInv, PlanInv, RouteInv

-----------------------------------------------------------------------------
(* Requests and consent *)

LEMMA InvMeans ==
  ASSUME Inv
  PROVE  /\ ReqOK /\ StateOK /\ DrvOK /\ BoxOK /\ lease \in Nat
         /\ req \in [Indices -> Request] /\ DOMAIN req = Indices /\ Len(req) \in Nat
<1>1. ReqOK /\ StateOK /\ DrvOK /\ BoxOK
  BY Parts DEF ReqInv
<1> QED BY <1>1, LenProperties DEF ReqOK, Indices

\* A request other than the one with the lease is replaced.
LEMMA Touched ==
  ASSUME Inv, NEW base \in {req, Refreshed}, NEW i \in Indices, i # lease, NEW r,
         Later(base[i], r), req' = [base EXCEPT ![i] = r], lease' = lease
  PROVE  AllLater /\ (lease # 0 => Leased' = Leased) /\ (Same(base[i], r) => AllSame)
<1>1. ReqOK
  BY InvMeans
<1>2. AllLater /\ (Same(base[i], r) => AllSame) /\ \A j \in Indices \ {i} : req'[j] = base[j]
  BY <1>1, LaterReplaced
<1>3. lease # 0 => lease \in Indices /\ base[lease] = req[lease]
  BY <1>1, Bases, LeasedType DEF Base, Leased
<1> QED BY <1>2, <1>3 DEF Leased

LEMMA RefreshedOnly ==
  ASSUME Inv, req' = Refreshed, lease' = lease
  PROVE  AllLater /\ AllSame /\ (lease # 0 => Leased' = Leased)
<1>1. ReqOK /\ Base(Refreshed)
  BY InvMeans, Bases
<1>2. Indices' = Indices
  BY <1>1 DEF Base, Indices
<1>3. Len(req') = Len(req) /\ Len(req) \in Nat
  BY <1>1, InvMeans DEF Base
<1>4. lease # 0 => lease \in Indices /\ Refreshed[lease] = req[lease]
  BY <1>1, LeasedType DEF Base, Leased
<1> QED BY <1>1, <1>2, <1>3, <1>4, LaterRefreshed DEF AllLater, AllSame, Leased

LEMMA CreateRequestRecords ==
  ASSUME Inv, NEW move \in Moves, NEW by \in Sessions, CreateRequest(move, by)
  PROVE  AllLater /\ AllSame /\ (lease # 0 => Leased' = Leased)
<1>1. ReqOK /\ Base(Refreshed) /\ Len(req) \in Nat
  BY InvMeans, Bases
<1>2. UNCHANGED lease
  BY DEF CreateRequest
<1> DEFINE q == NewRequest(move, by)
<1>3. Blank(q) /\ q.done = {} /\ q.intents = <<>>
  BY DEF Blank, NewRequest
<1> QED
  <2>1. CASE req' = Refreshed
    BY <1>2, <2>1, RefreshedOnly
  <2>2. CASE req' = Append(Refreshed, q)
    <3> HIDE DEF q
    <3>1. Refreshed \in Seq(Request) /\ Len(Refreshed) = Len(req) /\ Indices = 1 .. Len(req)
      BY <1>1 DEF Base, Indices
    <3>2. /\ Len(req') = Len(req) + 1 /\ req'[Len(req) + 1] = q
          /\ \A i \in Indices : req'[i] = Refreshed[i]
      BY <2>2, <3>1, AppendProperties
    <3>3. Indices' = 1 .. Len(req) + 1
      BY <3>2 DEF Indices
    <3>4. lease # 0 => lease \in Indices /\ Refreshed[lease] = req[lease]
      BY <1>1, LeasedType DEF Base, Leased
    <3>5. \A i \in Indices' \ Indices :
            Blank(req'[i]) /\ req'[i].intents = <<>> /\ req'[i].done = {}
      BY <1>1, <1>3, <3>1, <3>2, <3>3
    <3>6. \A i \in Indices : Later(req[i], req'[i]) /\ Same(req[i], req'[i])
      BY <1>1, <3>2, LaterRefreshed
    <3> QED BY <1>1, <1>2, <3>2, <3>4, <3>5, <3>6 DEF AllLater, AllSame, Leased
  <2> QED BY <2>1, <2>2 DEF CreateRequest

LEMMA DecideRecords ==
  ASSUME Inv, NEW i \in Indices, NEW actor \in Actors, NEW approve \in BOOLEAN,
         Decide(i, actor, approve)
  PROVE  AllLater /\ AllSame /\ (lease # 0 => Leased' = Leased)
<1>1. ReqOK /\ Base(Refreshed)
  BY InvMeans, Bases
<1>2. UNCHANGED lease
  BY DEF Decide
<1>3. Refreshed[i] \in Request /\ (Refreshed[i].status = "pending" => i # lease)
  <2>1. Refreshed[i] \in Request
    BY <1>1, ElementOfSeq DEF Base, Indices
  <2> QED BY <1>1, <2>1, RefreshedType DEF ReqOK, OneApplies
<1> QED
  <2>1. CASE Refreshed[i].status = "pending" /\ approve
    <3> DEFINE r == [Refreshed[i] EXCEPT !.yes = @ \cup {actor}]
    <3>1. Later(Refreshed[i], r) /\ Same(Refreshed[i], r)
      BY <1>3 DEF Later, Same, Request, Committed, Blank, Affected
    <3>2. req' = [Refreshed EXCEPT ![i] = r]
      BY <2>1 DEF Decide
    <3> HIDE DEF r
    <3> QED BY <1>2, <1>3, <2>1, <3>1, <3>2, Touched
  <2>2. CASE Refreshed[i].status = "pending" /\ ~approve
    <3> DEFINE r == [Refreshed[i] EXCEPT !.status = "rejected"]
    <3>1. Later(Refreshed[i], r) /\ Same(Refreshed[i], r)
      BY <1>3 DEF Later, Same, Request, Committed, Blank, Affected
    <3>2. req' = [Refreshed EXCEPT ![i] = r]
      BY <2>2 DEF Decide
    <3> HIDE DEF r
    <3> QED BY <1>2, <1>3, <2>2, <3>1, <3>2, Touched
  <2>3. CASE req' = Refreshed
    BY <1>2, <2>3, RefreshedOnly
  <2>4. CASE req' = req
    BY <1>2, <2>4, LaterSame DEF Leased
  <2> QED BY <2>1, <2>2, <2>3, <2>4 DEF Decide

LEMMA ExpireRecords ==
  ASSUME Inv, NEW i \in Indices, Expire(i)
  PROVE  AllLater /\ AllSame /\ (lease # 0 => Leased' = Leased)
<1>1. ReqOK /\ req[i] \in Request
  BY InvMeans
<1>2. UNCHANGED lease
  BY DEF Expire
<1> DEFINE r == [req[i] EXCEPT !.late = TRUE]
<1>3. Later(req[i], r) /\ Same(req[i], r)
  BY <1>1 DEF Later, Same, Request, Committed, Blank, Affected
<1>4. req' = [req EXCEPT ![i] = r] /\ i # lease
  BY <1>1 DEF Expire, ReqOK, OneApplies, Fenced
<1> HIDE DEF r
<1> QED BY <1>1, <1>2, <1>3, <1>4, Touched

LEMMA ConsentRecords ==
  ASSUME Inv, Consent
  PROVE  /\ AllLater /\ AllSame /\ (lease # 0 => Leased' = Leased)
         /\ UNCHANGED <<parent, live, lease, jwake, monitor, wake, msg, mail, drv, box, begun>>
<1>1. AllLater /\ AllSame /\ (lease # 0 => Leased' = Leased)
  BY CreateRequestRecords, DecideRecords, ExpireRecords DEF Consent
<1>2. UNCHANGED <<parent, live, lease, jwake, monitor, wake, msg, mail, drv, box, begun>>
  BY DEF Consent, CreateRequest, Decide, Expire, sqlite
<1> QED BY <1>1, <1>2

LEMMA ConsentRoutes ==
  ASSUME Inv, RInv, Inv', Consent
  PROVE  RInv'
<1>1. ReqOK'
  BY DEF Inv, TypeOK, ReqOK
<1> QED BY <1>1, ConsentRecords, AsideSame

-----------------------------------------------------------------------------
(* Sessions and what they send *)

\* An intent is deferred by the request with the lease.
LEMMA Intended ==
  ASSUME Inv, NEW i \in Indices, Fenced(req[i]), NEW k \in Keys, req' = Intend(i, k), lease' = lease
  PROVE  /\ i = lease /\ lease # 0 /\ AllLater
         /\ Leased'.plan = Leased.plan /\ Leased'.stage = Leased.stage
         /\ Leased'.early = Leased.early
         /\ Range(Leased'.intents) = Range(Leased.intents) \cup {k}
         /\ Leased'.done = Leased.done /\ Affected(Leased)' = Affected(Leased)
         /\ Indices' = Indices /\ \A j \in Indices \ {lease} : req'[j] = req[j]
<1>1. ReqOK /\ req[i] \in Request /\ Len(req) \in Nat
  BY InvMeans
<1>2. i = lease /\ lease # 0 /\ Leased = req[i]
  BY <1>1 DEF ReqOK, OneApplies, Leased, Indices
<1> DEFINE new == IF k \in Range(req[i].intents) THEN req[i].intents ELSE Append(req[i].intents, k)
           r == [req[i] EXCEPT !.intents = new]
<1>3. Range(new) = Range(req[i].intents) \cup {k}
  <2>1. req[i].intents \in Seq(Keys)
    BY <1>1 DEF Request
  <2>2. CASE k \in Range(req[i].intents)
    BY <2>2
  <2>3. CASE k \notin Range(req[i].intents)
    <3> DEFINE s == req[i].intents
    <3> HIDE DEF s
    <3>1. s \in Seq(Keys)
      BY <2>1 DEF s
    <3>2. /\ DOMAIN Append(s, k) = 1 .. Len(s) + 1 /\ DOMAIN s = 1 .. Len(s) /\ Len(s) \in Nat
          /\ Append(s, k)[Len(s) + 1] = k /\ \A n \in 1 .. Len(s) : Append(s, k)[n] = s[n]
      BY <3>1, AppendProperties, LenProperties
    <3>3. Range(Append(s, k)) = Range(s) \cup {k}
      BY <3>2 DEF Range
    <3> QED BY <2>3, <3>3 DEF s
  <2> QED BY <2>2, <2>3
<1>4. req' = [req EXCEPT ![i] = r]
  BY DEF Intend
<1> HIDE DEF new
<1>5. /\ Later(req[i], r) /\ r.plan = req[i].plan /\ r.stage = req[i].stage /\ r.intents = new
      /\ r.early = req[i].early /\ r.done = req[i].done /\ Affected(r) = Affected(req[i])
  <2>1. req[i].status # "pending"
    BY DEF Fenced
  <2> QED BY <1>1, <2>1 DEF Later, Request, Committed, Affected
<1> HIDE DEF r
<1>6. /\ AllLater /\ req'[i] = r /\ Indices' = Indices
      /\ \A j \in Indices \ {i} : req'[j] = req[j]
  BY <1>1, <1>4, <1>5, LaterReplaced DEF Indices
<1> QED BY <1>2, <1>3, <1>5, <1>6 DEF Leased, Affected

LEMMA Deferral ==
  ASSUME Inv, RInv, Inv', NEW i \in Indices, Fenced(req[i]), NEW k \in Keys, req' = Intend(i, k),
         UNCHANGED <<parent, jwake, monitor, wake, msg, lease, drv>>,
         (box'.m # None /\ box'.to # None) => box'.m = box.m /\ box'.to = box.to,
         \A m \in Messages : k = <<"input", m>> => FencesRoutes(i, To[m]) /\ parent[To[m]] # None
  PROVE  RInv'
<1>1. ReqOK'
  BY DEF Inv, TypeOK, ReqOK
<1>2. /\ i = lease /\ lease # 0 /\ AllLater
      /\ Leased'.plan = Leased.plan /\ Leased'.stage = Leased.stage
      /\ Leased'.early = Leased.early
      /\ Range(Leased'.intents) = Range(Leased.intents) \cup {k}
  BY Intended
<1>3. Edged' = Edged /\ (Before' <=> Before)
  BY <1>2 DEF Edged, Before
<1>4. Asks'
  <2> SUFFICES ASSUME NEW m \in Messages, <<"input", m>> \in Range(Leased'.intents)
               PROVE  To[m] \in Edged /\ (Before => Leased.plan.edges[To[m]].old # None)
    BY <1>2, <1>3 DEF Asks
  <2>1. CASE <<"input", m>> \in Range(Leased.intents)
    BY <1>2, <2>1 DEF RInv, PlanInv, Asks
  <2>2. CASE k = <<"input", m>>
    <3>1. To[m] \in Edged /\ parent[To[m]] # None
      BY <1>2, <2>2 DEF FencesRoutes, Edged, Leased
    <3>2. Before => parent[To[m]] = Leased.plan.edges[To[m]].old
      BY <3>1 DEF RInv, PlanInv, Sited, Before, Crossed
    <3> QED BY <3>1, <3>2
  <2> QED BY <1>2, <2>1, <2>2
<1> QED BY <1>1, <1>2, <1>4, Aside

LEMMA FencedMeans ==
  ASSUME Inv, NEW s
  PROVE  RoutesFenced(s) <=> (lease # 0 /\ s \in Edged)
<1>1. ReqOK /\ Len(req) \in Nat
  BY InvMeans
<1>2. \A i \in Indices : Fenced(req[i]) <=> i = lease
  BY <1>1 DEF ReqOK, OneApplies
<1>3. lease # 0 => lease \in Indices
  BY <1>1 DEF ReqOK, Indices
<1>4. 0 \notin Indices
  BY <1>1 DEF Indices
<1> QED BY <1>2, <1>3, <1>4 DEF RoutesFenced, FencesRoutes, Edged, Leased

\* The sessions of a plan are among those its request affects.
LEMMA SessionFencedMeans ==
  ASSUME Inv, NEW s, ~SessionFenced(s)
  PROVE  ~(lease # 0 /\ s \in Edged)
<1> SUFFICES ASSUME lease # 0, s \in Edged PROVE FALSE
  OBVIOUS
<1>1. ReqOK /\ ReqInv
  BY Parts DEF ReqInv
<1>2. lease \in Indices /\ Leased \in Request /\ Fenced(Leased) /\ Leased.plan.edges = Edges(Leased)
  BY <1>1, LeasedType DEF ReqInv, Planned
<1>3. s \in Affected(Leased)
  BY <1>2, EdgesType DEF Edged, Affected
<1> QED BY <1>2, <1>3 DEF SessionFenced, FencesSession, Leased

LEMMA NotifyRoutes ==
  ASSUME Inv, RInv, Inv', NEW c \in Sessions, NotifyParent(c)
  PROVE  RInv'
<1>1. ReqOK'
  BY DEF Inv, TypeOK, ReqOK
<1>2. UNCHANGED <<parent, jwake, monitor, wake, msg, lease, drv, box>>
  BY DEF NotifyParent
<1>3. CASE req' = req
  BY <1>1, <1>2, <1>3, LaterSame, AsideSame DEF Leased
<1>4. ASSUME NEW i \in Indices, FencesRoutes(i, c), req' = Intend(i, <<"message", c>>)
      PROVE  RInv'
  BY <1>2, <1>4, KeysOf, Deferral DEF FencesRoutes
<1> QED BY <1>3, <1>4 DEF NotifyParent

LEMMA SendInputRoutes ==
  ASSUME Inv, RInv, Inv', NEW m \in Messages, SendInput(m)
  PROVE  RInv'
<1>1. ReqOK'
  BY DEF Inv, TypeOK, ReqOK
<1>2. UNCHANGED <<parent, jwake, monitor, wake, lease, drv, box>> /\ parent[To[m]] # None
  BY DEF SendInput
<1>3. ASSUME NEW i \in Indices, FencesRoutes(i, To[m]), req' = Intend(i, <<"input", m>>), UNCHANGED msg
      PROVE  RInv'
  BY <1>2, <1>3, KeysOf, Deferral DEF FencesRoutes
<1>4. CASE /\ ~RoutesFenced(To[m]) /\ UNCHANGED req
           /\ msg' = [msg EXCEPT ![m] = [state |-> "queued", to |-> parent[To[m]]]]
  <2>1. AllLater /\ SamePlan /\ (lease # 0 => Leased' = Leased)
    BY <1>2, <1>4, LaterSame DEF SamePlan, Leased, Crossed, Loose
  <2>2. BoxFree' /\ Fresh' /\ Sited' /\ Rooted'
    BY <1>1, <1>2, <2>1, BoxStays, CalmPlan DEF RInv, RouteInv, PlanInv
  <2>3. Steps' /\ Asks'
    <3>1. drv.pc # "idle" => lease # 0
      BY InvMeans DEF DrvOK
    <3> QED BY <1>2, <2>1, <3>1 DEF RInv, PlanInv, Steps, Asks, Before, Edged, Running
  <2>4. JsonOK'
    BY <1>1, <1>2, <2>1, JsonKept DEF RInv, RouteInv, JsonOK
  <2>5. RowsOK'
    BY <1>1, <1>2, <2>1, RowKept DEF RInv, RouteInv, RowsOK
  <2>6. QueueOK'
    <3> SUFFICES ASSUME NEW n \in Messages PROVE MsgRoute(n)'
      BY DEF QueueOK
    <3>1. msg \in [Messages -> [state: {"absent", "queued", "delivered"}, to: Parents]]
      BY InvMeans DEF StateOK
    <3>2. CASE n # m
      <4>1. msg'[n] = msg[n]
        BY <1>4, <3>1, <3>2
      <4> QED BY <1>1, <1>2, <2>1, <4>1, MsgKept DEF RInv, RouteInv, QueueOK
    <3>3. CASE n = m
      <4>1. msg'[n].to = parent[To[n]] /\ msg'[n].to # None
        BY <1>2, <1>4, <3>1, <3>3
      <4>2. ~(lease' # 0 /\ To[n] \in Edged')
        BY <1>2, <1>4, <2>1, <3>3, FencedMeans DEF Edged
      <4> QED BY <1>2, <4>1, <4>2 DEF MsgRoute, Before
    <3> QED BY <3>2, <3>3
  <2> QED BY <2>2, <2>3, <2>4, <2>5, <2>6 DEF RInv, PlanInv, RouteInv
<1> QED BY <1>3, <1>4 DEF SendInput

LEMMA DeliverRoutes ==
  ASSUME Inv, RInv, Inv', NEW m \in Messages, Deliver(m)
  PROVE  RInv'
<1>1. ReqOK'
  BY DEF Inv, TypeOK, ReqOK
<1>2. UNCHANGED <<parent, jwake, monitor, wake, msg, lease, drv>> /\ msg[m].state = "queued"
  BY DEF Deliver, sqlite
<1>3. ASSUME NEW i \in Indices, FencesSession(i, To[m]), req' = Intend(i, <<"wake", m>>),
             box' = [NoBox EXCEPT !.m = m]
      PROVE  RInv'
  <2>1. box'.to = None
    BY <1>3 DEF NoBox
  <2> QED BY <1>2, <1>3, <2>1, KeysOf, Deferral DEF FencesSession
<1>4. CASE /\ msg[m].to = None \/ ~SessionFenced(To[m])
           /\ box' = [NoBox EXCEPT !.m = m, !.to = msg[m].to] /\ UNCHANGED req
  <2>1. box'.m = m /\ box'.to = msg[m].to
    BY <1>4 DEF NoBox
  <2>2. AllLater /\ SamePlan /\ (lease # 0 => Leased' = Leased)
    BY <1>2, <1>4, LaterSame DEF SamePlan, Leased, Crossed, Loose
  <2>3. BoxFree'
    <3> SUFFICES ASSUME msg[m].to # None
                 PROVE  /\ ~(lease # 0 /\ To[m] \in Edged)
                        /\ msg[m].to = parent[To[m]] \/ Misplayed(To[m])
      BY <1>2, <1>4, <2>1 DEF BoxFree, Edged, Leased, Misplayed, Indices
    <3>1. ~(lease # 0 /\ To[m] \in Edged)
      BY <1>4, SessionFencedMeans
    <3>2. ~LooseMsg(m)
      BY <3>1, PlannedIn DEF LooseMsg
    <3> QED BY <1>2, <3>1, <3>2 DEF RInv, RouteInv, QueueOK, MsgRoute
  <2>4. Steps' /\ Asks'
    <3>1. drv.pc # "idle" => lease # 0
      BY InvMeans DEF DrvOK
    <3> QED BY <1>2, <2>2, <3>1 DEF RInv, PlanInv, Steps, Asks, Before, Edged, Running
  <2> QED BY <1>1, <1>2, <2>2, <2>3, <2>4, Calm DEF RInv, PlanInv, RouteInv
<1> QED BY <1>3, <1>4 DEF Deliver

\* A step that leaves requests and driver alone
LEMMA PlanStays ==
  ASSUME Inv, RInv, Inv', UNCHANGED <<parent, req, lease, drv>>
  PROVE  /\ ReqOK' /\ AllLater /\ SamePlan /\ Leased' = Leased /\ Edged' = Edged
         /\ (Before' <=> Before) /\ PlanInv'
<1>1. ReqOK' /\ Leased' = Leased
  BY DEF Inv, TypeOK, ReqOK, Leased
<1>2. AllLater /\ SamePlan /\ Edged' = Edged /\ (Before' <=> Before)
  BY <1>1, LaterSame DEF SamePlan, Crossed, Loose, Edged, Before
<1>3. Steps' /\ Asks'
  BY <1>1, <1>2 DEF RInv, PlanInv, Steps, Asks, Running
<1> QED BY <1>1, <1>2, <1>3, CalmPlan DEF RInv, PlanInv

LEMMA CancelledRows ==
  ASSUME NEW rows \in Seq(Row), NEW c \in Sessions
  PROVE  /\ DOMAIN Cancelled(rows, c) = DOMAIN rows
         /\ \A w \in DOMAIN rows :
              /\ Cancelled(rows, c)[w].child = rows[w].child
              /\ Cancelled(rows, c)[w].on => rows[w].on /\ rows[w].child # c
              /\ Cancelled(rows, c)[w].to = rows[w].to
<1>1. rows \in [1 .. Len(rows) -> Row] /\ DOMAIN rows = 1 .. Len(rows)
  BY LenProperties
<1>2. \A w \in DOMAIN rows : /\ rows[w] \in Row
                             /\ [rows[w] EXCEPT !.on = FALSE].on = FALSE
                             /\ [rows[w] EXCEPT !.on = FALSE].to = rows[w].to
                             /\ [rows[w] EXCEPT !.on = FALSE].child = rows[w].child
  BY <1>1 DEF Row
<1> QED BY <1>2 DEF Cancelled

LEMMA RegisteredRows ==
  ASSUME NEW rows \in Seq(Row), NEW c \in Sessions, NEW p \in Sessions
  PROVE  /\ DOMAIN rows \subseteq DOMAIN Registered(rows, c, p)
         /\ \A w \in DOMAIN Registered(rows, c, p) :
              IF w \in DOMAIN rows
                THEN /\ Registered(rows, c, p)[w].child = rows[w].child
                     /\ Registered(rows, c, p)[w].on => rows[w].on
                     /\ Registered(rows, c, p)[w].to = rows[w].to
                ELSE Registered(rows, c, p)[w].child = c /\ Registered(rows, c, p)[w].to = p
<1> DEFINE old == Cancelled(rows, c)
           row == [child |-> c, to |-> p, on |-> TRUE]
<1>1. old \in Seq(Row) /\ Len(old) = Len(rows) /\ DOMAIN old = DOMAIN rows
  BY CancelledType
<1>2. row \in Row /\ row.child = c /\ row.to = p
  BY DEF Row
<1>3. Registered(rows, c, p) = Append(old, row)
  BY DEF Registered
<1>4. \A w \in DOMAIN rows : /\ old[w].child = rows[w].child /\ (old[w].on => rows[w].on)
                             /\ old[w].to = rows[w].to
  BY CancelledRows
<1> HIDE DEF old, row
<1>5. /\ DOMAIN Append(old, row) = 1 .. Len(old) + 1 /\ Append(old, row)[Len(old) + 1] = row
      /\ \A w \in 1 .. Len(old) : Append(old, row)[w] = old[w]
  BY <1>1, <1>2, AppendProperties
<1>6. DOMAIN rows = 1 .. Len(rows) /\ Len(rows) \in Nat
  BY LenProperties
<1> QED BY <1>1, <1>2, <1>3, <1>4, <1>5, <1>6

\* The wakes of a session end.
LEMMA CancelRows ==
  ASSUME Inv, RowsOK, ReqOK', AllLater, SamePlan, UNCHANGED <<parent, lease>>,
         NEW c \in Sessions, wake' = Cancelled(wake, c)
  PROVE  RowsOK'
<1>1. wake \in Seq(Row)
  BY InvMeans DEF StateOK
<1> SUFFICES ASSUME NEW w \in DOMAIN wake PROVE RowRoute(w)'
  BY <1>1, CancelledRows DEF RowsOK
<1>2. wake'[w].child = wake[w].child /\ (wake'[w].on => wake[w].on) /\ wake'[w].to = wake[w].to
  BY <1>1, CancelledRows
<1> QED BY <1>2, RowKept DEF RowsOK

\* A wake for the parent is registered, for a session outside the plan or by a replay.
LEMMA RegisterRows ==
  ASSUME Inv, RowsOK, ReqOK', AllLater, SamePlan, UNCHANGED <<parent, lease>>,
         NEW c \in Sessions, NEW p \in Sessions, wake' = Registered(wake, c, p),
         p = parent[c] \/ Misplayed(c),
         (Before /\ c \in Edged) => Early(c)'
  PROVE  RowsOK'
<1>1. wake \in Seq(Row)
  BY InvMeans DEF StateOK
<1>2. /\ DOMAIN wake \subseteq DOMAIN wake'
      /\ \A w \in DOMAIN wake' :
           IF w \in DOMAIN wake
             THEN /\ wake'[w].child = wake[w].child
                  /\ wake'[w].on => wake[w].on
                  /\ wake'[w].to = wake[w].to
             ELSE wake'[w].child = c /\ wake'[w].to = p
  BY <1>1, RegisteredRows
<1>3. ASSUME NEW z \in DOMAIN wake' \ DOMAIN wake PROVE RowRoute(z)'
  <2>1. wake'[z].child = c /\ wake'[z].to = p
    BY <1>2
  <2>2. p = parent'[c] \/ Misplayed(c)'
    BY CalmMarks
  <2>3. (Before' /\ c \in Edged') => Early(c)'
    BY CalmMarks
  <2> QED BY <2>1, <2>2, <2>3 DEF RowRoute, Misplayed, Early
<1>4. \A w \in DOMAIN wake : RowRoute(w)'
  BY <1>2, RowKept DEF RowsOK
<1> QED BY <1>2, <1>3, <1>4 DEF RowsOK

LEMMA TaskCompleteRoutes ==
  ASSUME Inv, RInv, Inv', NEW c \in Sessions, TaskComplete(c)
  PROVE  RInv'
<1>1. UNCHANGED <<parent, jwake, monitor, msg, lease, drv>>
  BY DEF TaskComplete
<1>2. ASSUME NEW i \in Indices, FencesRoutes(i, c), req' = Intend(i, <<"complete", c>>),
             UNCHANGED <<wake, box>>
      PROVE  RInv'
  BY <1>1, <1>2, KeysOf, Deferral DEF FencesRoutes
<1>3. ASSUME NEW p, box' = [NoBox EXCEPT !.c = c, !.to = p], wake' = Cancelled(wake, c), UNCHANGED req
      PROVE  RInv'
  <2>1. /\ ReqOK' /\ AllLater /\ SamePlan /\ PlanInv'
    BY <1>1, <1>3, PlanStays
  <2>2. box'.m = None
    BY <1>3 DEF NoBox
  <2>3. BoxFree'
    BY <2>2 DEF BoxFree
  <2>4. RowsOK'
    BY <1>1, <1>3, <2>1, CancelRows DEF RInv, RouteInv
  <2>5. JsonOK' /\ QueueOK'
    BY <1>1, <2>1, JsonKept, MsgKept DEF RInv, RouteInv, JsonOK, QueueOK
  <2> QED BY <2>1, <2>3, <2>4, <2>5 DEF RInv, RouteInv
<1> QED BY <1>2, <1>3 DEF TaskComplete

LEMMA TrafficRoutes ==
  ASSUME Inv, RInv, Inv', Traffic
  PROVE  RInv'
<1>1. ASSUME NEW s \in Sessions, Stop(s) \/ Restore(s)
      PROVE  RInv'
  <2>1. UNCHANGED <<parent, req, jwake, monitor, wake, msg, lease, drv, box>>
    BY <1>1 DEF Stop, Restore, sqlite
  <2>2. ReqOK' /\ AllLater /\ Leased' = Leased
    BY <2>1, PlanStays
  <2> QED BY <2>1, <2>2, AsideSame
<1> QED BY <1>1, TaskCompleteRoutes, NotifyRoutes, SendInputRoutes, DeliverRoutes DEF Traffic

LEMMA DeliverMarkRoutes ==
  ASSUME Inv, RInv, Inv', DeliverMark
  PROVE  RInv'
<1>1. UNCHANGED <<parent, jwake, monitor, req, lease, drv>> /\ box.m # None
  BY DEF DeliverMark, registry
<1>2. /\ ReqOK' /\ AllLater /\ SamePlan /\ PlanInv' /\ Leased' = Leased
  BY <1>1, PlanStays
<1>3. box \in Box /\ box.m \in Messages /\ To[box.m] \in Sessions /\ box.to \in Parents
  BY <1>1, InvMeans, ReparentAssumption DEF BoxOK, Box
<1>4. box'.m = box.m /\ box'.to = box.to
  BY <1>3 DEF DeliverMark, Box
<1>5. BoxFree' /\ JsonOK'
  BY <1>1, <1>2, <1>4, BoxStays, JsonKept DEF RInv, RouteInv, JsonOK
<1>6. QueueOK'
  <2>1. msg \in [Messages -> [state: {"absent", "queued", "delivered"}, to: Parents]]
    BY InvMeans DEF StateOK
  <2>2. \A m \in Messages : msg'[m].state = "queued" => msg'[m] = msg[m]
    BY <1>3, <2>1 DEF DeliverMark
  <2> QED BY <1>1, <1>2, <2>2, MsgKept DEF RInv, RouteInv, QueueOK
<1>7. RowsOK'
  <2>1. CASE box.to = None
    <3>1. wake' = wake
      BY <2>1 DEF DeliverMark
    <3> QED BY <1>1, <1>2, <3>1, RowKept DEF RInv, RouteInv, RowsOK
  <2>2. CASE box.to # None
    <3> DEFINE c == To[box.m]
               p == box.to
    <3>1. wake' = Registered(wake, c, p) /\ p \in Sessions
      BY <1>3, <2>2 DEF DeliverMark, Parents
    <3>2. ~(lease # 0 /\ c \in Edged) /\ (p = parent[c] \/ Misplayed(c))
      BY <1>1, <2>2 DEF RInv, RouteInv, BoxFree
    <3>3. RowsOK /\ c \in Sessions
      BY <1>3 DEF RInv, RouteInv
    <3> HIDE DEF c, p
    <3> QED BY <1>1, <1>2, <3>1, <3>2, <3>3, RegisterRows DEF Before
  <2> QED BY <2>1, <2>2
<1> QED BY <1>2, <1>5, <1>6, <1>7 DEF RInv, RouteInv

\* A wake in the registry is set to the parent, for a session outside the plan or by a
\* replay.
LEMMA JsonSet ==
  ASSUME Inv, JsonOK, ReqOK', AllLater, SamePlan, UNCHANGED <<parent, lease, monitor>>,
         NEW c \in Sessions, NEW p \in Sessions, jwake' = [jwake EXCEPT ![c] = [to |-> p, on |-> TRUE]],
         p = parent[c] \/ Misplayed(c),
         (Before /\ c \in Edged) => Early(c)'
  PROVE  JsonOK'
<1>1. jwake \in [Sessions -> Route] /\ None \notin Sessions
  BY InvMeans, ReparentAssumption DEF StateOK, Actors
<1> SUFFICES ASSUME NEW d \in Sessions PROVE JsonRoute(d)'
  BY DEF JsonOK
<1>2. CASE d # c
  <2>1. jwake'[d] = jwake[d]
    BY <1>1, <1>2
  <2> QED BY <2>1, JsonKept DEF JsonOK
<1>3. CASE d = c
  <2>1. jwake'[d].to = p /\ p # None
    BY <1>1, <1>3
  <2>2. p = parent'[d] \/ Misplayed(d)'
    BY <1>3, CalmMarks
  <2>3. (Before' /\ d \in Edged') => Early(d)'
    BY <1>3, CalmMarks
  <2>4. /\ monitor'[d].on => monitor'[d].to # None /\ monitor'[d].to = parent'[d]
        /\ (Before' /\ d \in Edged') => (monitor'[d].on => d \in DOMAIN Leased'.plan.monitors)
    BY CalmMarks DEF JsonOK, JsonRoute
  <2> QED BY <2>1, <2>2, <2>3, <2>4 DEF JsonRoute
<1> QED BY <1>2, <1>3

LEMMA JsonEnded ==
  ASSUME Inv, JsonOK, ReqOK', AllLater, SamePlan, UNCHANGED <<parent, lease, monitor>>,
         NEW c \in Sessions, jwake' = [jwake EXCEPT ![c].on = FALSE]
  PROVE  JsonOK'
<1>1. jwake \in [Sessions -> Route]
  BY InvMeans DEF StateOK
<1>2. \A d \in Sessions : jwake'[d].on => jwake[d].on /\ jwake'[d].to = jwake[d].to
  <2> SUFFICES ASSUME NEW d \in Sessions, jwake'[d].on PROVE jwake'[d] = jwake[d]
    OBVIOUS
  <2>1. jwake[c] \in Route /\ [jwake[c] EXCEPT !.on = FALSE].on = FALSE
    BY <1>1 DEF Route
  <2> QED BY <1>1, <2>1
<1> QED BY <1>2, JsonKept DEF JsonOK

LEMMA DeliverEndRoutes ==
  ASSUME Inv, RInv, Inv', DeliverEnd
  PROVE  RInv'
<1>1. UNCHANGED <<parent, monitor, wake, msg, req, lease, drv>> /\ box.m # None /\ box' = NoBox
  BY DEF DeliverEnd, sqlite
<1>2. /\ ReqOK' /\ AllLater /\ SamePlan /\ PlanInv' /\ Leased' = Leased
  BY <1>1, PlanStays
<1>3. box \in Box /\ box.m \in Messages /\ To[box.m] \in Sessions /\ box.to \in Parents
  BY <1>1, InvMeans, ReparentAssumption DEF BoxOK, Box
<1>4. BoxFree'
  BY <1>1 DEF BoxFree, NoBox
<1>5. RowsOK' /\ QueueOK'
  BY <1>1, <1>2, RowKept, MsgKept DEF RInv, RouteInv, RowsOK, QueueOK
<1>6. JsonOK'
  <2>1. CASE box.to = None
    <3>1. jwake' = jwake
      BY <2>1 DEF DeliverEnd
    <3> QED BY <1>1, <1>2, <3>1, JsonKept DEF RInv, RouteInv, JsonOK
  <2>2. CASE box.to # None
    <3> DEFINE c == To[box.m]
               p == box.to
    <3>1. jwake' = [jwake EXCEPT ![c] = [to |-> p, on |-> TRUE]] /\ p \in Sessions
      BY <1>3, <2>2 DEF DeliverEnd, Parents
    <3>2. ~(lease # 0 /\ c \in Edged) /\ (p = parent[c] \/ Misplayed(c))
      BY <1>1, <2>2 DEF RInv, RouteInv, BoxFree
    <3>3. JsonOK /\ c \in Sessions
      BY <1>3 DEF RInv, RouteInv
    <3> HIDE DEF c, p
    <3> QED BY <1>1, <1>2, <3>1, <3>2, <3>3, JsonSet DEF Before
  <2> QED BY <2>1, <2>2
<1> QED BY <1>2, <1>4, <1>5, <1>6 DEF RInv, RouteInv

LEMMA CompletionRoutes ==
  ASSUME Inv, RInv, Inv', CompleteTell \/ CompleteEnd
  PROVE  RInv'
<1>1. /\ UNCHANGED <<parent, monitor, wake, msg, req, lease, drv>> /\ box.c # None
      /\ box.m = None /\ box.c \in Sessions /\ box \in Box
  <2>1. UNCHANGED <<parent, monitor, wake, msg, req, lease, drv>> /\ box.c # None
    BY DEF CompleteTell, CompleteEnd, registry, sqlite
  <2> QED BY <2>1, InvMeans DEF BoxOK, Box, Parents
<1>2. /\ ReqOK' /\ AllLater /\ SamePlan /\ PlanInv' /\ Leased' = Leased
  BY <1>1, PlanStays
<1>3. box'.m = None
  BY <1>1 DEF CompleteTell, CompleteEnd, NoBox, Box
<1>4. BoxFree'
  BY <1>3 DEF BoxFree
<1>5. RowsOK' /\ QueueOK'
  BY <1>1, <1>2, RowKept, MsgKept DEF RInv, RouteInv, RowsOK, QueueOK
<1>6. JsonOK'
  <2>1. CASE CompleteTell
    <3>1. jwake' = jwake
      BY <2>1 DEF CompleteTell, registry
    <3> QED BY <1>1, <1>2, <3>1, JsonKept DEF RInv, RouteInv, JsonOK
  <2>2. CASE CompleteEnd
    <3> DEFINE c == box.c
    <3>1. jwake' = [jwake EXCEPT ![c].on = FALSE] /\ c \in Sessions /\ JsonOK
      BY <1>1, <2>2 DEF CompleteEnd, RInv, RouteInv
    <3> HIDE DEF c
    <3> QED BY <1>1, <1>2, <3>1, JsonEnded
  <2> QED BY <2>1, <2>2
<1> QED BY <1>2, <1>4, <1>5, <1>6 DEF RInv, RouteInv

LEMMA DeliveryRoutes ==
  ASSUME Inv, RInv, Inv', Delivery
  PROVE  RInv'
BY DeliverMarkRoutes, DeliverEndRoutes, CompletionRoutes DEF Delivery

-----------------------------------------------------------------------------
(* A transaction begins *)

\* The driver stops, or starts from the top: what was out of line may still be.
LEMMA Halts ==
  ASSUME Inv, RInv, Inv', drv'.pc \in {"idle", "apply", "fail"},
         UNCHANGED <<parent, jwake, monitor, wake, msg, lease, req>>,
         (box'.m # None /\ box'.to # None) => box'.m = box.m /\ box'.to = box.to
  PROVE  RInv'
<1>1. Steps'
  BY DEF Steps, Running
<1>2. lease # 0 => \A c \in Routed : Loose(c) => Loose(c)'
  BY DEF Loose, Leased, Running
<1> QED BY <1>1, <1>2, DriverMoves

LEMMA RowOf ==
  ASSUME Inv, NEW w \in DOMAIN wake
  PROVE  /\ wake[w] \in Row /\ wake[w].child \in Sessions /\ wake[w].to \in Sessions
         /\ wake[w].to # None
<1>1. wake \in [1 .. Len(wake) -> Row] /\ DOMAIN wake = 1 .. Len(wake)
  BY InvMeans, LenProperties DEF StateOK
<1>2. wake[w] \in Row
  BY <1>1
<1> QED BY <1>2, ReparentAssumption DEF Row, Actors

\* The plan of a request that is not stale has the active routes of the sessions that
\* it moves.
LEMMA PlanTakes ==
  ASSUME Inv, NEW q \in Request, Asked(q), ~Stale(q)
  PROVE  /\ \A c \in DOMAIN Edges(q) : /\ parent[c] = Edges(q)[c].old
                                       /\ c \in Sessions
         /\ \A c \in PlanOf(q).jwakes : Edges(q)[c].old # None
         /\ \A c \in DOMAIN PlanOf(q).monitors : Edges(q)[c].old # None
         /\ \A m \in PlanOf(q).msgs : Edges(q)[To[m]].old # None
         /\ \A c \in DOMAIN Edges(q) : Edges(q)[c].old # None =>
              /\ (jwake[c].on /\ jwake[c].to = Edges(q)[c].old) => c \in PlanOf(q).jwakes
              /\ monitor[c].to = Edges(q)[c].old => c \in DOMAIN PlanOf(q).monitors
              /\ \A w \in DOMAIN wake :
                   (wake[w].child = c /\ wake[w].on /\ wake[w].to = Edges(q)[c].old) =>
                     w \in PlanOf(q).wakes
              /\ \A m \in Messages :
                   (To[m] = c /\ msg[m].state = "queued" /\ msg[m].to = Edges(q)[c].old) =>
                     m \in PlanOf(q).msgs
<1>1. /\ DOMAIN Edges(q) = {q.subject} \cup q.frozen /\ q.subject \in Sessions
      /\ q.frozen \subseteq Sessions
  BY EdgesType DEF Request
<1>2. parent[q.subject] = q.parent /\ (q.kind # "single" => LiveChildren(q.subject) = q.frozen)
  BY DEF Stale
<1>3. ASSUME NEW c \in DOMAIN Edges(q)
      PROVE  parent[c] = Edges(q)[c].old
  <2>1. CASE c = q.subject
    BY <1>1, <1>2, <2>1 DEF Edges, Move
  <2>2. CASE c # q.subject
    <3>1. c \in q.frozen /\ q.kind # "single"
      BY <1>1, <2>2 DEF Asked
    <3>2. parent[c] = q.subject
      BY <1>2, <3>1 DEF LiveChildren
    <3>3. Edges(q)[c].old = q.subject
      BY <1>1, <2>2 DEF Edges, Move
    <3> QED BY <3>2, <3>3
  <2> QED BY <2>1, <2>2
<1> DEFINE e == Edges(q)
<1>4. /\ \A c \in PlanOf(q).jwakes : e[c].old # None
      /\ \A c \in DOMAIN PlanOf(q).monitors : e[c].old # None
      /\ \A m \in PlanOf(q).msgs : e[To[m]].old # None
  BY DEF PlanOf
<1>5. \A c \in DOMAIN e : e[c].old # None =>
              /\ (jwake[c].on /\ jwake[c].to = e[c].old) => c \in PlanOf(q).jwakes
              /\ monitor[c].to = e[c].old => c \in DOMAIN PlanOf(q).monitors
              /\ \A w \in DOMAIN wake :
                   (wake[w].child = c /\ wake[w].on /\ wake[w].to = e[c].old) =>
                     w \in PlanOf(q).wakes
              /\ \A m \in Messages :
                   (To[m] = c /\ msg[m].state = "queued" /\ msg[m].to = e[c].old) =>
                     m \in PlanOf(q).msgs
  BY DEF PlanOf
<1> QED BY <1>1, <1>3, <1>4, <1>5

LEMMA AcquireNewRoutes ==
  ASSUME Inv, RInv, Inv', AcquireNew
  PROVE  RInv'
<1>1. /\ ReqOK /\ ReqOK' /\ req \in [Indices -> Request] /\ Len(req) \in Nat
      /\ wake \in Seq(Row) /\ None \notin Sessions
  BY InvMeans, ReparentAssumption DEF Inv, TypeOK, ReqOK, StateOK, Actors
<1>2. /\ lease = 0 /\ UNCHANGED <<parent, jwake, monitor, wake, msg, box>> /\ box = NoBox
      /\ drv' = [Idle EXCEPT !.pc = "apply"]
  BY DEF AcquireNew, sqlite, Guard
<1>3. PICK i \in Indices :
        /\ Appliable(i) /\ lease' = i
        /\ req' = [Refreshed EXCEPT ![i] = [req[i] EXCEPT !.status = "applying",
                                                         !.stage = "applying",
                                                         !.plan = PlanOf(req[i])]]
  BY DEF AcquireNew
<1> DEFINE q == req[i]
           r == [q EXCEPT !.status = "applying", !.stage = "applying", !.plan = PlanOf(q)]
<1>4. q \in Request /\ Asked(q) /\ i # 0
  BY <1>1, Parts DEF ReqInv, AllAsked, Indices
<1>5. q.status = "pending" /\ Refreshed[i] = q /\ ~Stale(q)
  <2>1. Refreshed[i].status = "pending"
    BY <1>3 DEF Appliable
  <2>2. [q EXCEPT !.status = "expired"].status = "expired" /\ [q EXCEPT !.status = "stale"].status = "stale"
    BY <1>4 DEF Request
  <2> QED BY <2>1, <2>2 DEF Refreshed
<1>6. Blank(q)
  BY <1>5 DEF RInv, PlanInv, Fresh
<1>7. /\ r.stage = "applying" /\ r.status = "applying" /\ r.plan = PlanOf(q) /\ r.intents = <<>>
      /\ r.early = q.early
  BY <1>4, <1>6 DEF Request, Blank
<1>8. Later(Refreshed[i], r)
  BY <1>5, <1>6, <1>7 DEF Later, Committed, Blank
<1>9. req' = [Refreshed EXCEPT ![i] = r]
  BY <1>3
<1> HIDE DEF r
<1>10. AllLater /\ req'[i] = r
  BY <1>1, <1>8, <1>9, LaterReplaced
<1>11. Leased' = r /\ lease' # 0 /\ Before' /\ ~Crossed' /\ r.plan.edges = Edges(q)
  BY <1>1, <1>3, <1>4, <1>7, <1>10, InvMeans, PlanOfType DEF Leased, Before, Crossed
<1>12. Fresh'
  BY <1>1, <1>10, FreshStays DEF RInv, PlanInv
<1>13. \A c : (Misplayed(c) => Misplayed(c)') /\ (Orphaned(c) => Orphaned(c)')
  BY <1>1, <1>10, MarksStay
<1>14. Steps'
  BY <1>2, IdleType DEF Steps, Running, Drivers
<1>15. /\ \A c \in DOMAIN Edges(q) : parent[c] = Edges(q)[c].old /\ c \in Sessions
       /\ \A c \in r.plan.jwakes : Edges(q)[c].old # None
       /\ \A c \in DOMAIN r.plan.monitors : Edges(q)[c].old # None
       /\ \A m \in r.plan.msgs : Edges(q)[To[m]].old # None
       /\ \A c \in DOMAIN Edges(q) : Edges(q)[c].old # None =>
              /\ (jwake[c].on /\ jwake[c].to = Edges(q)[c].old) => c \in r.plan.jwakes
              /\ monitor[c].to = Edges(q)[c].old => c \in DOMAIN r.plan.monitors
              /\ \A w \in DOMAIN wake :
                   (wake[w].child = c /\ wake[w].on /\ wake[w].to = Edges(q)[c].old) =>
                     w \in r.plan.wakes
              /\ \A m \in Messages :
                   (To[m] = c /\ msg[m].state = "queued" /\ msg[m].to = Edges(q)[c].old) =>
                     m \in r.plan.msgs
  BY <1>4, <1>5, <1>7, PlanTakes
<1> DEFINE e == Edges(q)
<1> HIDE DEF q, e
<1>16. Edged' = DOMAIN e /\ Leased'.plan.edges = e
  BY <1>11 DEF Edged, e
<1>17. Sited' /\ Rooted'
  BY <1>2, <1>11, <1>15, <1>16 DEF Sited, Rooted, e
<1>18. Asks'
  BY <1>7, <1>11 DEF Asks, Range
<1>19. BoxFree'
  BY <1>2 DEF BoxFree, NoBox
<1>20. JsonOK'
  <2> SUFFICES ASSUME NEW c \in Sessions PROVE JsonRoute(c)'
    BY DEF JsonOK
  <2>1. JsonRoute(c)
    BY DEF RInv, RouteInv, JsonOK
  <2>2. /\ jwake'[c].on => jwake'[c].to # None /\ (jwake'[c].to = parent'[c] \/ Misplayed(c)')
        /\ monitor'[c].on => monitor'[c].to # None /\ monitor'[c].to = parent'[c]
    BY <1>2, <1>13, <2>1 DEF JsonRoute
  <2>3. c \in DOMAIN e =>
          /\ jwake'[c].on => c \in r.plan.jwakes \/ Misplayed(c)'
          /\ monitor'[c].on => c \in DOMAIN r.plan.monitors
    BY <1>2, <1>15, <2>2 DEF e
  <2> QED BY <1>11, <1>16, <2>2, <2>3 DEF JsonRoute
<1>21. RowsOK'
  <2> SUFFICES ASSUME NEW w \in DOMAIN wake PROVE RowRoute(w)'
    BY <1>2 DEF RowsOK
  <2>0. PICK c : c = wake[w].child
    OBVIOUS
  <2>1. RowRoute(w) /\ wake[w].to # None
    BY RowOf DEF RInv, RouteInv, RowsOK
  <2>2. wake'[w].on => wake'[w].to = parent'[c] \/ Misplayed(c)'
    BY <1>2, <1>13, <2>0, <2>1 DEF RowRoute, LooseWake
  <2>3. (c \in DOMAIN e /\ wake'[w].on) => w \in r.plan.wakes \/ Misplayed(c)'
    BY <1>2, <1>15, <2>0, <2>1, <2>2 DEF e
  <2>4. c = wake'[w].child
    BY <1>2, <2>0
  <2> QED BY <1>11, <1>16, <2>2, <2>3, <2>4 DEF RowRoute, Misplayed, Early
<1>22. QueueOK'
  <2> SUFFICES ASSUME NEW m \in Messages PROVE MsgRoute(m)'
    BY DEF QueueOK
  <2>1. MsgRoute(m)
    BY DEF RInv, RouteInv, QueueOK
  <2> DEFINE c == To[m]
  <2>2. msg'[m].state = "queued" =>
          \/ msg'[m].to = None /\ Orphaned(c)'
          \/ msg'[m].to # None /\ (msg'[m].to = parent'[c] \/ Misplayed(c)')
    BY <1>2, <1>13, <2>1 DEF MsgRoute, LooseMsg
  <2>3. (c \in DOMAIN e /\ msg'[m].state = "queued" /\ msg'[m].to # None) =>
           m \in r.plan.msgs \/ Misplayed(c)'
    BY <1>2, <1>15, <2>2 DEF e
  <2> QED BY <1>11, <1>16, <2>2, <2>3 DEF MsgRoute
<1> QED BY <1>12, <1>14, <1>17, <1>18, <1>19, <1>20, <1>21, <1>22 DEF RInv, PlanInv, RouteInv

LEMMA AcquireRoutes ==
  ASSUME Inv, RInv, Inv', Acquire
  PROVE  RInv'
<1>1. CASE AcquireResume
  <2>1. UNCHANGED <<parent, jwake, monitor, wake, msg, lease, req, box>> /\ drv'.pc = "apply"
    BY <1>1, IdleType DEF AcquireResume, registry, sqlite, Drivers
  <2> QED BY <2>1, Halts
<1>2. CASE AcquireNone
  <2>1. UNCHANGED <<parent, jwake, monitor, wake, msg, lease, drv, box>> /\ ReqOK'
    BY <1>2 DEF AcquireNone, sqlite, Inv, TypeOK, ReqOK
  <2>2. CASE UNCHANGED req
    BY <2>1, <2>2, LaterSame, AsideSame DEF Leased
  <2>3. CASE req' = Refreshed
    BY <2>1, <2>3, RefreshedOnly, AsideSame
  <2> QED BY <1>2, <2>2, <2>3 DEF AcquireNone
<1> QED BY <1>1, <1>2, AcquireNewRoutes DEF Acquire

-----------------------------------------------------------------------------
(* The driver *)

LEMMA PcSet ==
  ASSUME Inv, NEW pc, Goto(pc)
  PROVE  drv'.pc = pc /\ drv'.mode = drv.mode /\ drv'.todo = drv.todo /\ drv'.key = drv.key
BY InvMeans DEF DrvOK, Goto, Driver

\* The request with the lease is replaced.
LEMMA LeasedReplaced ==
  ASSUME Inv, lease # 0, NEW r, Later(Leased, r), req' = [req EXCEPT ![lease] = r]
  PROVE  AllLater /\ req'[lease] = r /\ (Same(Leased, r) => AllSame)
<1>1. ReqOK /\ lease \in Indices /\ Leased = req[lease]
  BY InvMeans, PlannedIn
<1> QED BY <1>1, LaterReplaced

\* It keeps its plan and its side of the commit.
LEMMA Advances ==
  ASSUME Inv, RInv, Inv', lease # 0, NEW r, Later(Leased, r), req' = [req EXCEPT ![lease] = r],
         r.plan = Leased.plan,
         r.stage = "authority_committed" <=> Leased.stage = "authority_committed",
         \A m \in Messages : <<"input", m>> \in Range(r.intents) => <<"input", m>> \in Range(Leased.intents),
         UNCHANGED <<parent, lease>>, Steps', \A c \in Routed : Loose(c) => Loose(c)'
  PROVE  ReqOK' /\ AllLater /\ SamePlan /\ PlanInv' /\ Leased' = r
<1>1. ReqOK' /\ AllLater /\ Leased' = r
  BY LeasedReplaced DEF Inv, TypeOK, ReqOK, Leased
<1>2. SamePlan /\ Edged' = Edged /\ (Before' <=> Before)
  BY <1>1 DEF SamePlan, Crossed, Before, Edged
<1>3. Asks'
  BY <1>1, <1>2 DEF RInv, PlanInv, Asks
<1> QED BY <1>1, <1>2, <1>3, CalmPlan DEF RInv, PlanInv

\* A request that is being applied can change but for its plan and the commit.
LEMMA LaterLeased ==
  ASSUME Inv, lease # 0, NEW r, r.plan = Leased.plan, Leased.early \subseteq r.early,
         Committed(Leased) => Committed(r), r.status # "pending"
  PROVE  Later(Leased, r)
BY DEF Later

LEMMA StageSet ==
  ASSUME Inv, lease # 0, NEW stage, Committed(Leased) => stage = "authority_committed", SetStage(stage)
  PROVE  \E r : /\ Later(Leased, r) /\ req' = [req EXCEPT ![lease] = r]
                /\ r.plan = Leased.plan /\ r.stage = stage /\ r.intents = Leased.intents
                /\ r.early = Leased.early /\ Same(Leased, r)
<1>1. Leased \in Request /\ Leased = req[lease] /\ Fenced(Leased)
  BY PlannedIn, InvMeans, LeasedType
<1> DEFINE r == [Leased EXCEPT !.stage = stage]
<1>2. /\ r.plan = Leased.plan /\ r.stage = stage /\ r.intents = Leased.intents
      /\ r.early = Leased.early /\ r.status = Leased.status /\ r.status # "pending"
      /\ Same(Leased, r)
  BY <1>1 DEF Request, Fenced, Same, Affected
<1>3. req' = [req EXCEPT ![lease] = r]
  BY <1>1 DEF SetStage
<1> HIDE DEF r
<1>4. Later(Leased, r)
  BY <1>2, LaterLeased DEF Committed
<1> QED BY <1>2, <1>3, <1>4

LEMMA QuiesceJsonRoutes ==
  ASSUME Inv, RInv, Inv', QuiesceJson
  PROVE  RInv'
<1>1. /\ drv.pc = "apply" /\ lease # 0 /\ Leased.stage = "applying" /\ box = NoBox
      /\ UNCHANGED <<parent, lease, wake, msg, box>>
  BY InvMeans DEF QuiesceJson, At, sqlite, DrvOK, Guard
<1>2. CASE Goto("fail") /\ UNCHANGED <<req, jwake, monitor>>
  BY <1>1, <1>2, PcSet, Halts
<1>3. CASE /\ jwake' = [c \in Sessions |-> IF c \in Leased.plan.jwakes
                          THEN [jwake[c] EXCEPT !.on = FALSE] ELSE jwake[c]]
           /\ monitor' = [c \in Sessions |-> IF c \in DOMAIN Leased.plan.monitors
                            THEN [monitor[c] EXCEPT !.on = FALSE] ELSE monitor[c]]
           /\ SetStage("json_routing_quiesced")
           /\ UNCHANGED drv
  <2>1. PICK r : /\ Later(Leased, r) /\ req' = [req EXCEPT ![lease] = r]
                 /\ r.plan = Leased.plan /\ r.stage = "json_routing_quiesced"
                 /\ r.intents = Leased.intents /\ r.early = Leased.early
    BY <1>1, <1>3, StageSet DEF Committed
  <2>2. Steps'
    BY <1>1, <1>3 DEF Steps, Running
  <2>3. \A c \in Routed : Loose(c) => Loose(c)'
    BY <1>1 DEF Loose
  <2>4. ReqOK' /\ AllLater /\ SamePlan /\ PlanInv'
    BY <1>1, <2>1, <2>2, <2>3, Advances
  <2>5. BoxFree'
    BY <1>1 DEF BoxFree, NoBox
  <2>6. \A c \in Sessions : /\ jwake'[c].on => jwake'[c] = jwake[c]
                            /\ monitor'[c].on => monitor'[c] = monitor[c]
    <3> SUFFICES ASSUME NEW c \in Sessions
                 PROVE  /\ jwake'[c].on => jwake'[c] = jwake[c]
                        /\ monitor'[c].on => monitor'[c] = monitor[c]
      OBVIOUS
    <3>1. jwake[c] \in Route /\ monitor[c] \in Route
      BY InvMeans DEF StateOK
    <3>2. [jwake[c] EXCEPT !.on = FALSE].on = FALSE /\ [monitor[c] EXCEPT !.on = FALSE].on = FALSE
      BY <3>1 DEF Route
    <3> QED BY <1>3, <3>2
  <2>7. JsonOK'
    BY <1>1, <2>4, <2>6, JsonKept DEF RInv, RouteInv, JsonOK
  <2>8. RowsOK' /\ QueueOK'
    BY <1>1, <2>4, RowKept, MsgKept DEF RInv, RouteInv, RowsOK, QueueOK
  <2> QED BY <2>4, <2>5, <2>7, <2>8 DEF RInv, RouteInv
<1> QED BY <1>2, <1>3 DEF QuiesceJson

LEMMA QuiesceQueueRoutes ==
  ASSUME Inv, RInv, Inv', QuiesceQueue
  PROVE  RInv'
<1>1. /\ drv.pc = "apply" /\ lease # 0 /\ Leased.stage = "json_routing_quiesced"
      /\ UNCHANGED <<parent, req, lease, jwake, monitor, box>>
  BY InvMeans DEF QuiesceQueue, registry, DrvOK
<1>2. CASE Goto("fail") /\ UNCHANGED <<wake, msg>>
  BY <1>1, <1>2, PcSet, Halts
<1>3. CASE /\ wake' = [w \in DOMAIN wake |-> IF w \in Leased.plan.wakes
                         THEN [wake[w] EXCEPT !.on = FALSE] ELSE wake[w]]
           /\ msg' = [m \in Messages |-> IF m \in Leased.plan.msgs
                        THEN [msg[m] EXCEPT !.to = None] ELSE msg[m]]
           /\ Goto("quiesced")
  <2>1. drv'.pc = "quiesced" /\ Leased' = Leased /\ ReqOK' /\ AllLater
    BY <1>1, <1>3, PcSet, LaterSame DEF Leased, Inv, TypeOK, ReqOK
  <2>2. Steps'
    BY <1>1, <2>1 DEF Steps, Running
  <2>3. \A c : Loose(c)'
    BY <1>1, <2>1 DEF Loose, Running
  <2>4. SamePlan
    BY <1>1, <2>1, <2>3 DEF SamePlan, Crossed
  <2>5. Fresh' /\ Sited' /\ Rooted' /\ BoxFree'
    BY <1>1, <2>1, <2>4, CalmPlan, BoxStays DEF RInv, PlanInv, RouteInv
  <2>6. Asks'
    BY <1>1, <2>1 DEF RInv, PlanInv, Asks, Edged, Before
  <2>7. JsonOK'
    BY <1>1, <2>1, <2>4, JsonKept DEF RInv, RouteInv, JsonOK
  <2>8. RowsOK'
    <3> SUFFICES ASSUME NEW w \in DOMAIN wake PROVE RowRoute(w)'
      BY <1>3 DEF RowsOK
    <3>1. /\ [wake[w] EXCEPT !.on = FALSE].on = FALSE
          /\ [wake[w] EXCEPT !.on = FALSE].child = wake[w].child
      BY RowOf DEF Row
    <3>2. wake'[w].child = wake[w].child /\ (wake'[w].on => wake'[w] = wake[w])
      BY <1>3, <3>1
    <3> QED BY <1>1, <2>1, <2>4, <3>2, RowKept DEF RInv, RouteInv, RowsOK
  <2>9. QueueOK'
    <3> SUFFICES ASSUME NEW m \in Messages PROVE MsgRoute(m)'
      BY DEF QueueOK
    <3>1. CASE m \notin Leased.plan.msgs
      <4>1. msg'[m] = msg[m]
        BY <1>3, <3>1
      <4> QED BY <1>1, <2>1, <2>4, <4>1, MsgKept DEF RInv, RouteInv, QueueOK
    <3>2. CASE m \in Leased.plan.msgs
      <4>1. LooseMsg(m)'
        BY <1>1, <2>1, <2>3, <3>2 DEF LooseMsg
      <4>2. m \in Leased'.plan.msgs
        BY <2>1, <3>2
      <4> QED BY <4>1, <4>2 DEF MsgRoute
    <3> QED BY <3>1, <3>2
  <2> QED BY <2>2, <2>5, <2>6, <2>7, <2>8, <2>9 DEF RInv, PlanInv, RouteInv
<1> QED BY <1>2, <1>3 DEF QuiesceQueue

LEMMA QueueQuiescedRoutes ==
  ASSUME Inv, RInv, Inv', QueueQuiesced
  PROVE  RInv'
<1>1. /\ drv.pc = "quiesced" /\ lease # 0 /\ Leased.stage = "json_routing_quiesced" /\ box = NoBox
      /\ UNCHANGED <<parent, lease, jwake, monitor, wake, msg, box>> /\ drv'.pc = "apply"
      /\ SetStage("routing_quiesced")
  BY InvMeans, PcSet DEF QueueQuiesced, sqlite, DrvOK, Guard, RInv, PlanInv, Steps
<1>2. PICK r : /\ Later(Leased, r) /\ req' = [req EXCEPT ![lease] = r]
               /\ r.plan = Leased.plan /\ r.stage = "routing_quiesced"
               /\ r.intents = Leased.intents /\ r.early = Leased.early
  BY <1>1, StageSet DEF Committed
<1>3. Leased' = r
  BY <1>1, <1>2, LeasedReplaced DEF Leased
<1>4. Steps' /\ \A c \in Routed : Loose(c) => Loose(c)'
  BY <1>1, <1>2, <1>3 DEF Steps, Loose, Running
<1>5. ReqOK' /\ AllLater /\ SamePlan /\ PlanInv'
  BY <1>1, <1>2, <1>4, Advances
<1>6. BoxFree'
  BY <1>1 DEF BoxFree, NoBox
<1> QED BY <1>1, <1>5, <1>6, Calm DEF RInv, RouteInv

-----------------------------------------------------------------------------
(* The commit and the retargeting *)

\* Routing starts with all of the plan still to do.
LEMMA Starts ==
  ASSUME Inv, RInv, Inv', lease # 0, NEW mode, StartRouting(mode),
         Leased.stage \in FencedStages \ {"prequiesce_aborting"}, mode # "abort",
         mode = "forward" <=> Leased.stage = "authority_committed",
         UNCHANGED <<parent, jwake, monitor, wake, msg, lease, req, box>>
  PROVE  RInv'
<1> DEFINE plan == Leased.plan
           todo == {GroupOf(plan, mode, wake[w].child) : w \in plan.wakes}
                     \cup {GroupOf(plan, mode, To[m]) : m \in plan.msgs}
<1>1. drv' = [Idle EXCEPT !.pc = "route", !.mode = mode, !.todo = todo]
  BY DEF StartRouting
<1>2. \A c \in Routed : GroupOf(plan, mode, c) \in todo
  BY DEF Routed
<1> HIDE DEF todo
<1>3. drv'.pc = "route" /\ drv'.mode = mode /\ drv'.todo = todo
  BY <1>1 DEF Idle
<1>4. Leased' = Leased
  BY DEF Leased
<1>5. Steps'
  BY <1>3, <1>4 DEF Steps, Running
<1>6. ASSUME NEW c \in Routed, Loose(c) PROVE Loose(c)'
  <2>1. GroupOf(plan, mode, c) \in drv'.todo
    BY <1>2, <1>3
  <2> QED BY <1>3, <1>4, <1>6, <2>1 DEF Loose, GroupOf
<1> QED BY <1>5, <1>6, DriverMoves

\* The edges move, with the routes in the registry.
LEMMA EdgesMoveRoutes ==
  ASSUME Inv, RInv, Inv', At("routing_quiesced"), EdgesMove, UNCHANGED <<lease, wake, msg, box>>
  PROVE  RInv'
<1>1. /\ drv.pc = "apply" /\ lease # 0 /\ Leased.stage = "routing_quiesced" /\ box = NoBox
      /\ UNCHANGED drv /\ SetStage("authority_committed") /\ parent' = Moved(Leased.plan.edges)
  BY InvMeans DEF EdgesMove, At, DrvOK, Guard
<1>2. PICK r : /\ Later(Leased, r) /\ req' = [req EXCEPT ![lease] = r]
               /\ r.plan = Leased.plan /\ r.stage = "authority_committed"
               /\ r.intents = Leased.intents /\ r.early = Leased.early
  BY <1>1, StageSet
<1>3. Leased' = r /\ AllLater /\ ReqOK /\ ReqOK' /\ req'[lease] = r /\ lease \in Indices
  BY <1>1, <1>2, LeasedReplaced, InvMeans, PlannedIn DEF Leased, Inv, TypeOK, ReqOK
<1>4. /\ Crossed' /\ ~Before' /\ Before /\ ~Crossed /\ Edged' = Edged /\ lease' # 0
      /\ Leased'.plan = Leased.plan
  BY <1>1, <1>2, <1>3 DEF Crossed, Before, Edged
<1>5. \A c : (Misplayed(c) => Misplayed(c)') /\ (Orphaned(c) => Orphaned(c)')
  BY <1>3, MarksStay
<1>6. ASSUME NEW c \in Edged, Early(c) PROVE Misplayed(c)'
  <2>1. lease \in Indices'
    BY <1>3, IndicesGrow DEF AllLater
  <2>2. /\ Committed(req'[lease]) /\ c \in DOMAIN req'[lease].plan.edges
        /\ \E k \in req'[lease].early : Child(k) = c
    BY <1>2, <1>3, <1>6 DEF Committed, Early, Edged
  <2> QED BY <2>1, <2>2 DEF Misplayed, Committed
<1>7. \A c \in Sessions : parent'[c] = IF c \in Edged THEN Leased.plan.edges[c].new ELSE parent[c]
  BY <1>1 DEF Moved, Edged
<1>8. Fresh' /\ Steps'
  BY <1>1, <1>3, FreshStays DEF RInv, PlanInv, Steps, Running
<1>9. Sited' /\ Rooted'
  BY <1>1, <1>4, <1>7, PlannedIn DEF RInv, PlanInv, Sited, Rooted
<1>10. Asks'
  BY <1>1, <1>2, <1>3, <1>4 DEF RInv, PlanInv, Asks
<1>11. BoxFree'
  BY <1>1 DEF BoxFree, NoBox
<1>12. \A c : Loose(c)'
  BY <1>1, <1>2, <1>3 DEF Loose, Running
<1>13. JsonOK'
  <2> SUFFICES ASSUME NEW c \in Sessions PROVE JsonRoute(c)'
    BY DEF JsonOK
  <2> DEFINE plan == Leased.plan
             new == plan.edges[c].new
  <2>1. /\ jwake'[c] = IF c \in plan.jwakes THEN [to |-> IF new = None THEN jwake[c].to ELSE new,
                                                  on |-> new # None]
                       ELSE jwake[c]
        /\ monitor'[c] = IF c \in DOMAIN plan.monitors
                           THEN [to |-> new, on |-> new # None /\ plan.monitors[c]] ELSE monitor[c]
    BY DEF EdgesMove
  <2>2. JsonRoute(c)
    BY DEF RInv, RouteInv, JsonOK
  <2>3. plan.jwakes \subseteq Edged /\ DOMAIN plan.monitors \subseteq Edged
    BY <1>1, PlannedIn
  <2>4. jwake'[c].on => jwake'[c].to # None /\ (jwake'[c].to = parent'[c] \/ Misplayed(c)')
    <3>1. CASE c \in plan.jwakes
      <4>1. parent'[c] = new
        BY <1>7, <2>3, <3>1
      <4>2. jwake'[c] = [to |-> IF new = None THEN jwake[c].to ELSE new, on |-> new # None]
        BY <2>1, <3>1
      <4> HIDE DEF new
      <4>3. CASE new = None
        <5>1. jwake'[c] = [to |-> jwake[c].to, on |-> FALSE]
          BY <4>2, <4>3
        <5>2. jwake'[c].on = FALSE
          BY <5>1
        <5> QED BY <5>2
      <4>4. CASE new # None
        BY <4>1, <4>2, <4>4
      <4> QED BY <4>3, <4>4
    <3>2. CASE c \notin plan.jwakes
      <4>1. jwake'[c] = jwake[c]
        BY <2>1, <3>2
      <4>2. c \in Edged /\ jwake[c].on => Misplayed(c)'
        BY <1>4, <1>5, <1>6, <2>2, <3>2 DEF JsonRoute
      <4> QED BY <1>5, <1>7, <2>2, <4>1, <4>2 DEF JsonRoute
    <3> QED BY <3>1, <3>2
  <2>5. monitor'[c].on => monitor'[c].to # None /\ monitor'[c].to = parent'[c]
    <3>1. CASE c \in DOMAIN plan.monitors
      <4>1. parent'[c] = new
        BY <1>7, <2>3, <3>1
      <4>2. monitor'[c] = [to |-> new, on |-> new # None /\ plan.monitors[c]]
        BY <2>1, <3>1
      <4> HIDE DEF new
      <4>3. CASE new = None
        <5>1. monitor'[c] = [to |-> new, on |-> FALSE]
          BY <4>2, <4>3
        <5>2. monitor'[c].on = FALSE
          BY <5>1
        <5> QED BY <5>2
      <4>4. CASE new # None
        BY <4>1, <4>2, <4>4
      <4> QED BY <4>3, <4>4
    <3>2. CASE c \notin DOMAIN plan.monitors
      <4>1. monitor'[c] = monitor[c]
        BY <2>1, <3>2
      <4>2. c \in Edged => ~monitor[c].on
        BY <1>4, <2>2, <3>2 DEF JsonRoute
      <4> QED BY <1>7, <2>2, <4>1, <4>2 DEF JsonRoute
    <3> QED BY <3>1, <3>2
  <2> QED BY <1>4, <2>4, <2>5 DEF JsonRoute
<1>14. RowsOK'
  <2> SUFFICES ASSUME NEW w \in DOMAIN wake PROVE RowRoute(w)'
    BY DEF RowsOK
  <2>1. PICK c : c = wake[w].child /\ c \in Sessions
    BY RowOf
  <2>2. RowRoute(w)
    BY DEF RInv, RouteInv, RowsOK
  <2>3. w \in Leased.plan.wakes => c \in Edged /\ LooseWake(w)'
    BY <1>1, <1>4, <1>12, <2>1, PlannedIn DEF LooseWake, Loose
  <2>4. wake'[w].on => wake'[w].to = parent'[c] \/ Misplayed(c)' \/ LooseWake(w)'
    <3>1. CASE c \in Edged
      BY <1>4, <1>5, <1>6, <2>1, <2>2, <2>3, <3>1 DEF RowRoute
    <3>2. CASE c \notin Edged
      <4>1. ~LooseWake(w)
        BY <2>3, <3>2 DEF LooseWake
      <4> QED BY <1>5, <1>7, <2>1, <2>2, <3>2, <4>1 DEF RowRoute
    <3> QED BY <3>1, <3>2
  <2>5. c = wake'[w].child
    BY <2>1
  <2> QED BY <1>4, <2>4, <2>5 DEF RowRoute, Misplayed
<1>15. QueueOK'
  <2> SUFFICES ASSUME NEW m \in Messages PROVE MsgRoute(m)'
    BY DEF QueueOK
  <2> DEFINE c == To[m]
  <2>1. c \in Sessions /\ MsgRoute(m)
    BY ReparentAssumption DEF RInv, RouteInv, QueueOK
  <2>2. m \in Leased.plan.msgs => c \in Edged /\ LooseMsg(m)'
    BY <1>1, <1>4, <1>12, PlannedIn DEF LooseMsg, Loose
  <2>3. msg'[m].state = "queued" =>
          \/ LooseMsg(m)'
          \/ msg'[m].to = None /\ Orphaned(c)'
          \/ msg'[m].to # None /\ (msg'[m].to = parent'[c] \/ Misplayed(c)')
    <3>1. CASE c \in Edged /\ msg[m].to # None
      BY <1>4, <1>5, <1>6, <2>1, <2>2, <3>1 DEF MsgRoute
    <3>2. CASE c \in Edged /\ msg[m].to = None
      BY <1>5, <2>1, <2>2, <3>2 DEF MsgRoute, LooseMsg
    <3>3. CASE c \notin Edged
      <4>1. ~LooseMsg(m)
        BY <2>2, <3>3 DEF LooseMsg
      <4> QED BY <1>5, <1>7, <2>1, <3>3, <4>1 DEF MsgRoute
    <3> QED BY <3>1, <3>2, <3>3
  <2> QED BY <1>4, <2>3 DEF MsgRoute
<1> QED BY <1>8, <1>9, <1>10, <1>11, <1>13, <1>14, <1>15 DEF RInv, PlanInv, RouteInv

LEMMA CommitRoutes ==
  ASSUME Inv, RInv, Inv', Commit
  PROVE  RInv'
<1>1. /\ drv.pc = "apply" /\ lease # 0 /\ Leased.stage = "routing_quiesced"
      /\ At("routing_quiesced") /\ UNCHANGED <<lease, wake, msg, box>>
  BY InvMeans, CommitCases DEF At, DrvOK
<1>2. CASE StartRouting("rollback") /\ UNCHANGED <<parent, req, jwake, monitor>>
  BY <1>1, <1>2, Starts DEF FencedStages
<1>3. CASE Goto("fail") /\ UNCHANGED <<parent, req, jwake, monitor>>
  BY <1>1, <1>3, PcSet, Halts
<1> QED BY <1>1, <1>2, <1>3, CommitCases, EdgesMoveRoutes

LEMMA FinishRoutingRoutes ==
  ASSUME Inv, RInv, Inv', FinishRouting
  PROVE  RInv'
<1>1. /\ lease # 0 /\ Leased.stage = "authority_committed" /\ StartRouting("forward")
      /\ UNCHANGED <<parent, jwake, monitor, wake, msg, lease, req, box>>
  BY InvMeans DEF FinishRouting, At, DrvOK, registry, sqlite
<1> QED BY <1>1, Starts DEF FencedStages

\* One group is retargeted: its routes lead to where its sessions are.
LEMMA RetargetRoutes ==
  ASSUME Inv, RInv, Inv', NEW target \in Parents, Retarget(target)
  PROVE  RInv'
<1>1. /\ drv.pc = "route" /\ lease # 0
      /\ UNCHANGED <<parent, req, lease, jwake, monitor, box>>
  BY InvMeans DEF Retarget, registry, DrvOK
<1>2. CASE Goto("fail") /\ UNCHANGED <<wake, msg>>
  BY <1>1, <1>2, PcSet, Halts
<1> DEFINE plan == Leased.plan
           group(c) == GroupOf(plan, drv.mode, c)
           wakes == {w \in plan.wakes : group(wake[w].child) = target}
           msgs  == {m \in plan.msgs : group(To[m]) = target}
<1>3. CASE /\ wake' = [w \in DOMAIN wake |-> IF w \in wakes
                         THEN [wake[w] EXCEPT !.to = IF target = None THEN @ ELSE target,
                                              !.on = target # None]
                         ELSE wake[w]]
           /\ msg' = [m \in Messages |-> IF m \in msgs /\ msg[m].state = "queued"
                        THEN [msg[m] EXCEPT !.to = target] ELSE msg[m]]
           /\ drv' = [drv EXCEPT !.todo = @ \ {target},
                        !.got = @ \cup {m \in msgs : msg[m].state = "delivered"}]
  <2>1. /\ drv'.pc = "route" /\ drv'.mode = drv.mode /\ drv'.todo = drv.todo \ {target}
    <3>1. drv \in Driver
      BY InvMeans DEF DrvOK
    <3> QED BY <1>1, <1>3, <3>1 DEF Driver
  <2>2. Leased' = Leased /\ ReqOK' /\ AllLater
    BY <1>1, LaterSame DEF Leased, Inv, TypeOK, ReqOK
  <2>3. /\ Leased.stage \in FencedStages
        /\ drv.mode = "forward" <=> Leased.stage = "authority_committed"
        /\ Crossed <=> drv.mode = "forward"
    BY <1>1 DEF RInv, PlanInv, Steps, Running, Crossed
  <2>4. Steps'
    BY <1>1, <2>1, <2>2 DEF RInv, PlanInv, Steps, Running
  <2>5. Edged' = Edged /\ (Before' <=> Before) /\ (Crossed' <=> Crossed)
    BY <1>1, <2>2 DEF Edged, Before, Crossed
  <2>6. Fresh' /\ Sited' /\ Rooted' /\ Asks'
    BY <1>1, <2>2, <2>5, FreshStays, InvMeans DEF RInv, PlanInv, Sited, Rooted, Asks
  <2>7. BoxFree'
    BY <1>1, <2>2, BoxStays DEF RInv, RouteInv
  <2>8. \A c : (Misplayed(c)' <=> Misplayed(c)) /\ (Orphaned(c)' <=> Orphaned(c)) /\ (Early(c)' <=> Early(c))
    BY <1>1, <2>2 DEF Misplayed, Orphaned, Early, Indices
  <2>9. \A c \in Edged : group(c) = parent[c]
    BY <1>1, <2>3 DEF RInv, PlanInv, Sited, GroupOf
  <2>10. ASSUME NEW c, Loose(c), group(c) # target PROVE Loose(c)'
    BY <1>1, <2>1, <2>2, <2>10 DEF Loose, GroupOf, Running
  <2>11. JsonOK'
    BY <1>1, <2>2, <2>5, <2>8 DEF RInv, RouteInv, JsonOK, JsonRoute
  <2>12. RowsOK'
    <3> SUFFICES ASSUME NEW w \in DOMAIN wake PROVE RowRoute(w)'
      BY <1>3 DEF RowsOK
    <3>1. PICK c : c = wake[w].child /\ c \in Sessions
      BY RowOf
    <3>2. RowRoute(w) /\ wake[w] \in Row
      BY RowOf DEF RInv, RouteInv, RowsOK
    <3>3. CASE w \in wakes
      <4> DEFINE new == [wake[w] EXCEPT !.to = IF target = None THEN @ ELSE target, !.on = target # None]
      <4>1. wake'[w] = new
        BY <1>3, <3>3
      <4>2. new.child = c /\ (target # None => new.to = target) /\ (target = None => new.on = FALSE)
        BY <3>1, <3>2 DEF Row
      <4> HIDE DEF new
      <4>3. w \in Leased'.plan.wakes /\ c \in Edged /\ target = parent'[c]
        BY <1>1, <2>2, <2>9, <3>1, <3>3, PlannedIn
      <4> QED BY <4>1, <4>2, <4>3 DEF RowRoute
    <3>4. CASE w \notin wakes
      <4>1. wake'[w] = wake[w]
        BY <1>3, <3>4
      <4>2. LooseWake(w) => LooseWake(w)'
        <5> SUFFICES ASSUME LooseWake(w) PROVE LooseWake(w)'
          OBVIOUS
        <5>1. w \in plan.wakes /\ Loose(c) /\ group(c) # target
          BY <3>1, <3>4 DEF LooseWake, Loose
        <5>2. Loose(c)'
          BY <2>10, <5>1
        <5> QED BY <1>1, <2>2, <3>1, <4>1, <5>1, <5>2 DEF LooseWake, Loose
      <4>3. wake'[w].child = c
        BY <3>1, <4>1
      <4>4. wake'[w].on =>
              /\ wake'[w].to = parent'[c] \/ Misplayed(c)' \/ LooseWake(w)'
              /\ (Before' /\ c \in Edged') => w \in Leased'.plan.wakes \/ Early(c)' \/ Misplayed(c)'
        BY <1>1, <2>2, <2>5, <2>8, <3>1, <3>2, <4>1, <4>2 DEF RowRoute
      <4> QED BY <4>3, <4>4 DEF RowRoute, Misplayed, Early
    <3> QED BY <3>3, <3>4
  <2>13. QueueOK'
    <3> SUFFICES ASSUME NEW m \in Messages PROVE MsgRoute(m)'
      BY DEF QueueOK
    <3> DEFINE c == To[m]
    <3>1. MsgRoute(m) /\ c \in Sessions
      BY ReparentAssumption DEF RInv, RouteInv, QueueOK
    <3>2. CASE m \in msgs
      <4>1. c \in Edged /\ target = parent[c] /\ m \in plan.msgs
        BY <1>1, <2>9, <3>2, PlannedIn
      <4>2. msg'[m].state = "queued" => msg'[m].to = target
        <5>1. msg[m] \in [state: {"absent", "queued", "delivered"}, to: Parents]
          BY InvMeans DEF StateOK
        <5>2. [msg[m] EXCEPT !.to = target].to = target
          BY <5>1
        <5> QED BY <1>3, <3>2, <5>2
      <4>3. target = None => Orphaned(c)'
        <5> SUFFICES ASSUME target = None PROVE Orphaned(c)
          BY <2>8
        <5>1. Crossed
          BY <1>1, <4>1 DEF RInv, PlanInv, Sited, Rooted
        <5>2. /\ lease \in Indices /\ Committed(req[lease]) /\ c \in DOMAIN req[lease].plan.edges
              /\ req[lease].plan.edges[c].new = None
          BY <1>1, <4>1, <5>1, PlannedIn DEF RInv, PlanInv, Sited, Crossed, Committed, Edged, Leased
        <5> QED BY <5>2 DEF Orphaned
      <4> QED BY <1>1, <2>2, <4>1, <4>2, <4>3 DEF MsgRoute
    <3>3. CASE m \notin msgs
      <4>1. msg'[m] = msg[m]
        BY <1>3, <3>3
      <4>2. LooseMsg(m) => LooseMsg(m)'
        <5> SUFFICES ASSUME LooseMsg(m) PROVE LooseMsg(m)'
          OBVIOUS
        <5>1. m \in plan.msgs /\ Loose(c) /\ group(c) # target
          BY <3>3 DEF LooseMsg, Loose
        <5>2. Loose(c)'
          BY <2>10, <5>1
        <5> QED BY <1>1, <2>2, <5>1, <5>2 DEF LooseMsg
      <4> QED BY <1>1, <2>2, <2>5, <2>8, <3>1, <4>1, <4>2 DEF MsgRoute
    <3> QED BY <3>2, <3>3
  <2> QED BY <2>4, <2>6, <2>7, <2>11, <2>12, <2>13 DEF RInv, PlanInv, RouteInv
<1> QED BY <1>2, <1>3 DEF Retarget

\* A list of a finite set
LEMMA Listed ==
  ASSUME NEW S, IsFiniteSet(S), NEW f \in SetToSeqs(S)
  PROVE  f \in Seq(S) /\ Range(f) = S
<1>1. Cardinality(S) \in Nat
  BY FS_CardinalityType
<1> DEFINE n == Cardinality(S)
<1>2. f \in [1 .. n -> S] /\ \A i, j \in 1 .. n : i # j => f[i] # f[j]
  BY DEF SetToSeqs
<1>3. f \in Injection(1 .. n, S)
  BY <1>2 DEF Injection, IsInjective
<1>4. Cardinality(1 .. n) = n
  BY <1>1, FS_Interval
<1>5. f \in Surjection(1 .. n, S)
  BY <1>3, <1>4, FS_Injection
<1>6. Range(f) = S
  BY <1>2, <1>5 DEF Surjection, Range
<1> QED BY <1>1, <1>2, <1>6, FunctionIsSeq

\* What was delivered without a wake becomes an intent.
LEMMA CollectRecords ==
  ASSUME Inv, Collect
  PROVE  /\ lease # 0 /\ drv.pc = "route" /\ drv.todo = {} /\ box = NoBox
         /\ UNCHANGED <<parent, lease, jwake, monitor, wake, msg, mail, box, begun>>
         /\ \E r : /\ Later(Leased, r) /\ req' = [req EXCEPT ![lease] = r]
                   /\ r.plan = Leased.plan /\ r.stage = Leased.stage /\ r.early = Leased.early
                   /\ r.done = Leased.done /\ Affected(r) = Affected(Leased)
                   /\ Range(r.intents) = Range(Leased.intents) \cup {<<"planned", m>> : m \in drv.got}
<1>1. /\ drv.pc = "route" /\ drv.todo = {} /\ lease # 0 /\ box = NoBox
      /\ UNCHANGED <<parent, lease, jwake, monitor, wake, msg, mail, box, begun>>
  BY InvMeans DEF Collect, sqlite, DrvOK, Guard
<1> DEFINE planned == {<<"planned", m>> : m \in drv.got}
           keys == planned \ Range(Leased.intents)
<1>2. PICK new \in SetToSeqs(keys) : req' = [req EXCEPT ![lease].intents = @ \o new]
  BY DEF Collect
<1>3. Leased \in Request /\ Leased = req[lease] /\ Fenced(Leased) /\ Leased.intents \in Seq(Keys)
  BY <1>1, PlannedIn, InvMeans, LeasedType DEF Request
<1> DEFINE r == [Leased EXCEPT !.intents = @ \o new]
<1>4. /\ r.plan = Leased.plan /\ r.stage = Leased.stage /\ r.intents = Leased.intents \o new
      /\ r.early = Leased.early /\ r.status # "pending"
      /\ r.done = Leased.done /\ Affected(r) = Affected(Leased)
  BY <1>3 DEF Request, Fenced, Affected
<1>5. req' = [req EXCEPT ![lease] = r]
  BY <1>2, <1>3
<1> HIDE DEF r
<1>6. Later(Leased, r)
  BY <1>1, <1>4, LaterLeased DEF Committed
<1>7. Range(r.intents) = Range(Leased.intents) \cup planned
  <2>1. IsFiniteSet(keys)
    <3>1. drv.got \subseteq Messages /\ IsFiniteSet(drv.got)
      BY InvMeans, FS_Subset, ReparentAssumption DEF DrvOK, Driver
    <3> DEFINE f == [m \in drv.got |-> <<"planned", m>>]
    <3>2. f \in Surjection(drv.got, planned)
      BY DEF Surjection
    <3> QED BY <3>1, <3>2, FS_Surjection, FS_Subset
  <2> HIDE DEF keys
  <2>2. new \in Seq(keys) /\ Range(new) = keys
    BY <2>1, Listed
  <2>3. PICK old : old = Leased.intents /\ old \in Seq(Keys)
    BY <1>3
  <2>4. old \in Seq(Keys \cup keys) /\ new \in Seq(Keys \cup keys)
    BY <2>2, <2>3, SeqDef
  <2>5. Range(old \o new) = Range(old) \cup keys
    BY <2>2, <2>4, RangeConcatenation
  <2> QED BY <1>4, <2>3, <2>5 DEF keys
<1> QED BY <1>1, <1>4, <1>5, <1>6, <1>7

LEMMA CollectRoutes ==
  ASSUME Inv, RInv, Inv', Collect
  PROVE  RInv'
<1>1. /\ drv.pc = "route" /\ drv.todo = {} /\ lease # 0 /\ box = NoBox
      /\ UNCHANGED <<parent, lease, jwake, monitor, wake, msg, box>>
  BY CollectRecords
<1>2. PICK r : /\ Later(Leased, r) /\ req' = [req EXCEPT ![lease] = r]
               /\ r.plan = Leased.plan /\ r.stage = Leased.stage /\ r.early = Leased.early
               /\ Range(r.intents) = Range(Leased.intents) \cup {<<"planned", m>> : m \in drv.got}
  BY CollectRecords
<1>3. \A m \in Messages : <<"input", m>> \in Range(r.intents) => <<"input", m>> \in Range(Leased.intents)
  BY <1>2
<1>4. /\ drv'.pc \in {"replay", "restore"} /\ drv'.mode = drv.mode
      /\ drv'.pc = "restore" => drv.mode # "forward"
  <2>1. Goto(IF drv.mode = "forward" THEN "replay" ELSE "restore")
    BY DEF Collect
  <2>2. CASE drv.mode = "forward"
    BY <2>1, <2>2, PcSet
  <2>3. CASE drv.mode # "forward"
    BY <2>1, <2>3, PcSet
  <2> QED BY <2>2, <2>3
<1>5. Leased' = r
  BY <1>1, <1>2, LeasedReplaced DEF Leased
<1>6. Steps'
  BY <1>1, <1>2, <1>4, <1>5 DEF RInv, PlanInv, Steps, Running
<1>7. \A c \in Routed : Loose(c) => Loose(c)'
  BY <1>1 DEF Loose, Running
<1>8. ReqOK' /\ AllLater /\ SamePlan /\ PlanInv'
  BY <1>1, <1>2, <1>3, <1>6, <1>7, Advances
<1>9. BoxFree'
  BY <1>1 DEF BoxFree, NoBox
<1> QED BY <1>1, <1>8, <1>9, Calm DEF RInv, RouteInv

LEMMA RestoreJsonRoutes ==
  ASSUME Inv, RInv, Inv', RestoreJson
  PROVE  RInv'
<1>1. /\ drv.pc = "restore" /\ lease # 0 /\ box = NoBox
      /\ UNCHANGED <<parent, req, lease, wake, msg, box>>
  BY InvMeans DEF RestoreJson, sqlite, DrvOK, Guard
<1>2. CASE Goto("fail") /\ UNCHANGED <<jwake, monitor>>
  BY <1>1, <1>2, PcSet, Halts
<1> DEFINE plan == Leased.plan
<1>3. CASE /\ jwake' = [c \in Sessions |-> IF c \in plan.jwakes
                          THEN [to |-> plan.edges[c].old, on |-> TRUE] ELSE jwake[c]]
           /\ monitor' = [c \in Sessions |-> IF c \in DOMAIN plan.monitors
                            THEN [to |-> plan.edges[c].old, on |-> plan.monitors[c]] ELSE monitor[c]]
           /\ drv' = [drv EXCEPT !.pc = "replay", !.redo = TRUE]
  <2>1. drv'.pc = "replay" /\ drv'.mode = drv.mode
    BY <1>3, InvMeans DEF DrvOK, Driver
  <2>2. Leased' = Leased /\ ReqOK' /\ AllLater
    BY <1>1, LaterSame DEF Leased, Inv, TypeOK, ReqOK
  <2>3. Before /\ ~Crossed
    BY <1>1 DEF RInv, PlanInv, Steps, Running, Before, Crossed
  <2>4. Steps'
    BY <1>1, <2>1, <2>2 DEF RInv, PlanInv, Steps, Running
  <2>5. SamePlan
    BY <1>1, <2>2 DEF SamePlan, Crossed, Loose, Running
  <2>6. Asks'
    BY <1>1, <2>2 DEF RInv, PlanInv, Asks, Edged, Before
  <2>7. BoxFree'
    BY <1>1 DEF BoxFree, NoBox
  <2>8. RowsOK' /\ QueueOK'
    BY <1>1, <2>2, <2>5, RowKept, MsgKept DEF RInv, RouteInv, RowsOK, QueueOK
  <2>9. JsonOK'
    <3> SUFFICES ASSUME NEW c \in Sessions PROVE JsonRoute(c)'
      BY DEF JsonOK
    <3>1. JsonRoute(c)
      BY DEF RInv, RouteInv, JsonOK
    <3>2. /\ c \in plan.jwakes \cup DOMAIN plan.monitors =>
               plan.edges[c].old # None /\ parent[c] = plan.edges[c].old
      BY <1>1, <2>3, PlannedIn DEF RInv, PlanInv, Rooted, Sited
    <3>3. /\ jwake'[c].on => jwake'[c].to # None /\ (jwake'[c].to = parent'[c] \/ Misplayed(c)')
          /\ jwake'[c].on /\ Before' /\ c \in Edged' => c \in Leased'.plan.jwakes \/ Early(c)' \/ Misplayed(c)'
      <4>1. CASE c \in plan.jwakes
        BY <1>1, <1>3, <2>2, <3>2, <4>1
      <4>2. CASE c \notin plan.jwakes
        <5>1. jwake'[c] = jwake[c]
          BY <1>3, <4>2
        <5> QED BY <1>1, <2>2, <2>5, <3>1, <5>1, CalmMarks DEF JsonRoute
      <4> QED BY <4>1, <4>2
    <3>4. /\ monitor'[c].on => monitor'[c].to # None /\ monitor'[c].to = parent'[c]
          /\ monitor'[c].on /\ Before' /\ c \in Edged' => c \in DOMAIN Leased'.plan.monitors
      <4>1. CASE c \in DOMAIN plan.monitors
        <5>1. monitor'[c].to = plan.edges[c].old
          BY <1>3, <4>1
        <5> QED BY <1>1, <2>2, <3>2, <4>1, <5>1
      <4>2. CASE c \notin DOMAIN plan.monitors
        <5>1. monitor'[c] = monitor[c]
          BY <1>3, <4>2
        <5> QED BY <1>1, <2>2, <2>5, <3>1, <5>1, CalmMarks DEF JsonRoute
      <4> QED BY <4>1, <4>2
    <3> QED BY <3>3, <3>4 DEF JsonRoute
  <2> QED BY <1>1, <2>2, <2>4, <2>5, <2>6, <2>7, <2>8, <2>9, CalmPlan DEF RInv, PlanInv, RouteInv
<1> QED BY <1>2, <1>3 DEF RestoreJson

-----------------------------------------------------------------------------
(* Replays and the ends of the transaction *)

LEMMA ReplayStarts ==
  ASSUME Inv, RInv, Inv', AbortResume \/ ReplayPick \/ ReplayEnds
  PROVE  RInv'
<1>1. UNCHANGED <<parent, jwake, monitor, wake, msg, lease, req, box>> /\ lease # 0
  BY InvMeans DEF AbortResume, ReplayPick, ReplayEnds, At, registry, sqlite, DrvOK
<1>2. Leased' = Leased
  BY <1>1 DEF Leased
<1>3. CASE AbortResume
  <2>1. Leased.stage = "prequiesce_aborting" /\ drv'.pc = "replay" /\ drv'.mode = "abort"
    BY <1>3 DEF AbortResume, At, Idle
  <2>2. Steps'
    BY <1>2, <2>1 DEF Steps, Running, FencedStages
  <2>3. \A c \in Routed : Loose(c) => Loose(c)'
    BY <2>1 DEF Loose
  <2> QED BY <1>1, <2>2, <2>3, DriverMoves
<1>4. CASE ReplayPick
  <2>1. PICK n \in ToReplay : drv' = [drv EXCEPT !.pc = "act", !.key = Leased.intents[n]]
    BY <1>4 DEF ReplayPick
  <2>2. drv'.pc = "act" /\ drv'.mode = drv.mode /\ drv'.key = Leased.intents[n] /\ drv.pc = "replay"
    BY <1>4, <2>1, InvMeans DEF ReplayPick, DrvOK, Driver
  <2>3. drv'.key \in Range(Leased.intents)
    BY <2>2 DEF ToReplay, Range
  <2>4. Steps'
    BY <1>1, <1>2, <2>2, <2>3 DEF RInv, PlanInv, Steps, Running
  <2>5. \A c \in Routed : Loose(c) => Loose(c)'
    BY <2>2 DEF Loose, Running
  <2> QED BY <1>1, <2>4, <2>5, DriverMoves
<1>5. CASE ReplayEnds
  <2>1. drv'.pc = "final" /\ drv'.mode = drv.mode /\ drv.pc = "replay"
    BY <1>5, PcSet DEF ReplayEnds
  <2>2. Steps'
    BY <1>1, <1>2, <2>1 DEF RInv, PlanInv, Steps, Running
  <2>3. \A c \in Routed : Loose(c) => Loose(c)'
    BY <2>1 DEF Loose, Running
  <2> QED BY <1>1, <2>2, <2>3, DriverMoves
<1> QED BY <1>3, <1>4, <1>5

LEMMA ReplayRecords ==
  ASSUME Inv, lease # 0, Replay
  PROVE  \E r : /\ Later(Leased, r) /\ Same(Leased, r) /\ r.plan = Leased.plan /\ r.stage = Leased.stage
                /\ r.intents = Leased.intents /\ req' = [req EXCEPT ![lease] = r]
                /\ Before => drv.key \in r.early
<1>1. /\ Leased \in Request /\ Leased = req[lease] /\ Fenced(Leased) /\ DOMAIN req = Indices
      /\ req \in [Indices -> Request] /\ lease \in Indices
  BY PlannedIn, InvMeans, LeasedType
<1> DEFINE r == [Leased EXCEPT !.early = @ \cup {drv.key}]
<1>2. CASE Leased.stage = "authority_committed"
  <2>1. req' = req
    BY <1>2 DEF Replay
  <2>2. req' = [req EXCEPT ![lease] = Leased]
    BY <1>1, <2>1
  <2>3. Later(Leased, Leased) /\ Same(Leased, Leased) /\ ~Before
    BY <1>2 DEF Later, Same, Before
  <2> QED BY <2>2, <2>3
<1>3. CASE Leased.stage # "authority_committed"
  <2>1. req' = [req EXCEPT ![lease] = r]
    BY <1>1, <1>3 DEF Replay
  <2>2. /\ r.plan = Leased.plan /\ r.stage = Leased.stage /\ r.intents = Leased.intents
        /\ r.early = Leased.early \cup {drv.key} /\ r.status # "pending" /\ Same(Leased, r)
    BY <1>1 DEF Request, Fenced, Same, Affected
  <2> HIDE DEF r
  <2>3. Later(Leased, r)
    BY <2>2, LaterLeased DEF Committed
  <2> QED BY <2>1, <2>2, <2>3
<1> QED BY <1>2, <1>3

\* An intent takes effect, for the parent that its child has.
LEMMA ReplayRoutes ==
  ASSUME Inv, RInv, Inv', Replay
  PROVE  RInv'
<1>1. /\ drv.pc = "act" /\ lease # 0 /\ drv.key \in Keys /\ drv.key \in Range(Leased.intents)
      /\ UNCHANGED <<parent, lease, jwake, monitor, box>>
  BY InvMeans DEF Replay, DrvOK, RInv, PlanInv, Steps
<1>2. PICK k \in Keys : k = drv.key
  BY <1>1
<1> DEFINE c == Child(k)
           p == parent[c]
<1>3. c \in Sessions /\ p \in Parents /\ (p # None => p \in Sessions)
  BY InvMeans, KeyChild DEF StateOK, Parents
<1>4. PICK r : /\ Later(Leased, r) /\ Same(Leased, r) /\ r.plan = Leased.plan /\ r.stage = Leased.stage
               /\ r.intents = Leased.intents /\ req' = [req EXCEPT ![lease] = r]
               /\ Before => drv.key \in r.early
  BY <1>1, ReplayRecords
<1>5. Leased' = r
  BY <1>1, <1>4, LeasedReplaced DEF Leased
<1>6. Before' <=> Before
  BY <1>1, <1>4, <1>5 DEF Before
<1>7. Steps'
  <2>1. Goto("fail") \/ Goto("note")
    BY DEF Replay
  <2>2. CASE Goto("fail")
    <3>1. drv'.pc = "fail"
      BY <2>2, PcSet
    <3> QED BY <3>1 DEF Steps, Running
  <2>3. CASE Goto("note")
    <3>1. drv'.pc = "note" /\ drv'.mode = drv.mode /\ drv'.key = k
      BY <1>2, <2>3, PcSet
    <3> QED BY <1>1, <1>2, <1>4, <1>5, <1>6, <3>1 DEF RInv, PlanInv, Steps, Running
  <2> QED BY <2>1, <2>2, <2>3
<1>8. \A d \in Routed : Loose(d) => Loose(d)'
  BY <1>1 DEF Loose, Running
<1>9. ReqOK' /\ AllLater /\ SamePlan /\ PlanInv'
  BY <1>1, <1>4, <1>7, <1>8, Advances
<1>10. Before => Early(c)'
  BY <1>2, <1>4, <1>5 DEF Early
<1>11. BoxFree' /\ JsonOK'
  BY <1>1, <1>4, <1>5, <1>9, BoxStays, JsonKept DEF RInv, RouteInv, JsonOK
<1>12. RowsOK'
  <2>1. \/ wake' = Registered(wake, c, p) /\ p # None
        \/ wake' = Cancelled(wake, c)
        \/ wake' = wake
    BY <1>2 DEF Replay
  <2>2. RowsOK /\ p = parent[c]
    BY DEF RInv, RouteInv
  <2> HIDE DEF c, p
  <2>3. CASE wake' = Registered(wake, c, p) /\ p # None
    BY <1>1, <1>3, <1>9, <1>10, <2>2, <2>3, RegisterRows
  <2>4. CASE wake' = Cancelled(wake, c)
    BY <1>1, <1>3, <1>9, <2>2, <2>4, CancelRows
  <2>5. CASE wake' = wake
    BY <1>1, <1>9, <2>2, <2>5, RowKept DEF RowsOK
  <2> QED BY <2>1, <2>3, <2>4, <2>5
<1>13. QueueOK'
  <2> SUFFICES ASSUME NEW m \in Messages PROVE MsgRoute(m)'
    BY DEF QueueOK
  <2>1. msg \in [Messages -> [state: {"absent", "queued", "delivered"}, to: Parents]]
    BY InvMeans DEF StateOK
  <2>2. CASE msg'[m] = msg[m]
    BY <1>1, <1>9, <2>2, MsgKept DEF RInv, RouteInv, QueueOK
  <2>3. CASE msg'[m] # msg[m]
    <3>1. k[1] = "input" /\ k[2] = m /\ msg' = [msg EXCEPT ![m] = [state |-> "queued", to |-> p]]
      BY <1>2, <2>1, <2>3 DEF Replay
    <3>2. k = <<"input", m>> /\ c = To[m]
      BY <3>1 DEF Keys, Child
    <3>3. msg'[m].to = p
      BY <2>1, <3>1
    <3>4. To[m] \in Edged /\ (Before => Leased.plan.edges[To[m]].old # None)
      BY <1>1, <1>2, <3>2 DEF RInv, PlanInv, Asks
    <3>5. p = None => Orphaned(c)'
      <4> SUFFICES ASSUME p = None PROVE Orphaned(c)'
        OBVIOUS
      <4>1. Crossed
        BY <1>1, <3>2, <3>4 DEF RInv, PlanInv, Sited, Before, Crossed
      <4>2. /\ lease \in Indices /\ Committed(req[lease]) /\ c \in DOMAIN req[lease].plan.edges
            /\ req[lease].plan.edges[c].new = None
        BY <1>1, <3>2, <3>4, <4>1, PlannedIn DEF RInv, PlanInv, Sited, Crossed, Committed, Edged, Leased
      <4>3. Orphaned(c)
        BY <4>2 DEF Orphaned
      <4> QED BY <1>9, <4>3, InvMeans, MarksStay
    <3> QED BY <1>1, <1>6, <1>10, <3>2, <3>3, <3>5 DEF MsgRoute
  <2> QED BY <2>2, <2>3
<1> QED BY <1>9, <1>11, <1>12, <1>13 DEF RInv, RouteInv

LEMMA ReplayNotedRoutes ==
  ASSUME Inv, RInv, Inv', ReplayNoted
  PROVE  RInv'
<1>1. /\ drv.pc = "note" /\ lease # 0 /\ drv.key \in Keys /\ box = NoBox
      /\ Before => drv.key \in Leased.early
      /\ UNCHANGED <<parent, lease, monitor, wake, msg, box>>
  BY InvMeans DEF ReplayNoted, DrvOK, RInv, PlanInv, Steps, sqlite, Guard
<1>2. PICK k \in Keys : k = drv.key
  BY <1>1
<1> DEFINE c == Child(k)
           p == parent[c]
           r == [Leased EXCEPT !.done = @ \cup {k}]
<1>3. c \in Sessions /\ p \in Parents /\ (p # None => p \in Sessions)
  BY InvMeans, KeyChild DEF StateOK, Parents
<1>4. /\ r.plan = Leased.plan /\ r.stage = Leased.stage /\ r.intents = Leased.intents
      /\ r.early = Leased.early /\ r.status # "pending"
  <2>1. Leased \in Request /\ Fenced(Leased)
    BY <1>1, InvMeans, LeasedType
  <2> QED BY <2>1 DEF Request, Fenced
<1>5. req' = [req EXCEPT ![lease] = r]
  BY <1>2 DEF ReplayNoted, Leased
<1> HIDE DEF r
<1>6. Later(Leased, r)
  BY <1>1, <1>4, LaterLeased DEF Committed
<1>7. Leased' = r
  BY <1>1, <1>5, <1>6, LeasedReplaced DEF Leased
<1>8. drv'.pc = "replay" /\ drv'.mode = drv.mode
  BY InvMeans DEF ReplayNoted, DrvOK, Driver
<1>9. Steps'
  BY <1>1, <1>4, <1>7, <1>8 DEF RInv, PlanInv, Steps, Running
<1>10. \A d \in Routed : Loose(d) => Loose(d)'
  BY <1>1 DEF Loose, Running
<1>11. ReqOK' /\ AllLater /\ SamePlan /\ PlanInv'
  BY <1>1, <1>4, <1>5, <1>6, <1>9, <1>10, Advances
<1>12. Before => Early(c)'
  BY <1>1, <1>2, <1>4, <1>7 DEF Early
<1>13. BoxFree'
  BY <1>1 DEF BoxFree, NoBox
<1>14. RowsOK' /\ QueueOK'
  BY <1>1, <1>11, RowKept, MsgKept DEF RInv, RouteInv, RowsOK, QueueOK
<1>15. JsonOK'
  <2>1. \/ jwake' = [jwake EXCEPT ![c] = [to |-> p, on |-> TRUE]] /\ p # None
        \/ jwake' = [jwake EXCEPT ![c].on = FALSE]
        \/ jwake' = jwake
    BY <1>2 DEF ReplayNoted
  <2>2. JsonOK /\ p = parent[c]
    BY DEF RInv, RouteInv
  <2> HIDE DEF c, p
  <2>3. CASE jwake' = [jwake EXCEPT ![c] = [to |-> p, on |-> TRUE]] /\ p # None
    BY <1>1, <1>3, <1>11, <1>12, <2>2, <2>3, JsonSet
  <2>4. CASE jwake' = [jwake EXCEPT ![c].on = FALSE]
    BY <1>1, <1>3, <1>11, <2>2, <2>4, JsonEnded
  <2>5. CASE jwake' = jwake
    BY <1>1, <1>11, <2>2, <2>5, JsonKept DEF JsonOK
  <2> QED BY <2>1, <2>3, <2>4, <2>5
<1> QED BY <1>11, <1>13, <1>14, <1>15 DEF RInv, RouteInv

\* The lease is released when nothing is out of line any more.
LEMMA ReleaseRoutes ==
  ASSUME Inv, RInv, Inv', Release
  PROVE  RInv'
<1>1. /\ drv.pc = "final" /\ lease # 0 /\ box = NoBox
      /\ UNCHANGED <<parent, jwake, monitor, wake, msg, box>>
  BY InvMeans DEF Release, sqlite, DrvOK, Guard
<1>2. /\ \A c : ~Loose(c)
      /\ drv.mode = "forward" <=> Leased.stage = "authority_committed"
      /\ Leased.stage \in FencedStages
  BY <1>1 DEF Loose, Running, RInv, PlanInv, Steps
<1>3. CASE drv' = [drv EXCEPT !.pc = "replay", !.redo = FALSE] /\ UNCHANGED <<req, lease>>
  <2>1. drv'.pc = "replay" /\ drv'.mode = drv.mode /\ Leased' = Leased
    BY <1>3, InvMeans DEF DrvOK, Driver, Leased
  <2>2. Steps'
    BY <1>1, <1>3, <2>1 DEF RInv, PlanInv, Steps, Running
  <2> QED BY <1>1, <1>2, <1>3, <2>2, DriverMoves
<1>4. CASE /\ req' = [req EXCEPT ![lease].status = Outcome(drv.mode)[1],
                                 ![lease].stage = Outcome(drv.mode)[2]]
           /\ lease' = 0
           /\ drv' = Idle
  <2>1. /\ Leased \in Request /\ Leased = req[lease] /\ Fenced(Leased) /\ ReqOK
        /\ req \in [Indices -> Request] /\ lease \in Indices
    BY <1>1, PlannedIn, InvMeans, LeasedType
  <2> DEFINE r == [Leased EXCEPT !.status = Outcome(drv.mode)[1], !.stage = Outcome(drv.mode)[2]]
  <2>2. /\ Outcome(drv.mode)[1] \in {"applied", "stale", "repaired"}
        /\ drv.mode = "forward" => Outcome(drv.mode)[2] = "applied"
    BY DEF Outcome
  <2>3. req' = [req EXCEPT ![lease] = r]
    BY <1>4, <2>1
  <2>4. /\ r.plan = Leased.plan /\ r.early = Leased.early /\ r.status # "pending"
        /\ drv.mode = "forward" => r.stage = "applied"
    BY <2>1, <2>2 DEF Request
  <2> HIDE DEF r
  <2>5. Later(Leased, r)
    <3>1. Committed(Leased) => Committed(r)
      BY <1>2, <2>4 DEF Committed, FencedStages
    <3> QED BY <1>1, <2>4, <3>1, LaterLeased
  <2>6. AllLater /\ ReqOK'
    BY <1>1, <2>3, <2>5, LeasedReplaced DEF Inv, TypeOK, ReqOK
  <2>7. \A c : (Misplayed(c) => Misplayed(c)') /\ (Orphaned(c) => Orphaned(c)')
    BY <2>1, <2>6, MarksStay
  <2>8. ~Before' /\ lease' = 0
    BY <1>4 DEF Before
  <2>9. PlanInv'
    <3>1. Fresh'
      BY <2>1, <2>6, FreshStays DEF RInv, PlanInv
    <3>2. Steps'
      BY <1>4 DEF Steps, Running, Idle
    <3> QED BY <2>8, <3>1, <3>2 DEF PlanInv, Sited, Rooted, Asks
  <2>10. BoxFree'
    BY <1>1 DEF BoxFree, NoBox
  <2>11. JsonOK'
    <3> SUFFICES ASSUME NEW c \in Sessions PROVE JsonRoute(c)'
      BY DEF JsonOK
    <3>1. JsonRoute(c)
      BY DEF RInv, RouteInv, JsonOK
    <3> QED BY <1>1, <2>7, <2>8, <3>1 DEF JsonRoute
  <2>12. RowsOK'
    <3> SUFFICES ASSUME NEW w \in DOMAIN wake PROVE RowRoute(w)'
      BY <1>1 DEF RowsOK
    <3>1. PICK c : c = wake[w].child
      OBVIOUS
    <3>2. RowRoute(w) /\ ~LooseWake(w)
      BY <1>2 DEF RInv, RouteInv, RowsOK, LooseWake, Loose
    <3>3. wake'[w].on => wake'[w].to = parent'[c] \/ Misplayed(c)'
      BY <1>1, <2>7, <3>1, <3>2 DEF RowRoute
    <3>4. wake'[w].child = c
      BY <1>1, <3>1
    <3> QED BY <2>8, <3>3, <3>4 DEF RowRoute, Misplayed
  <2>13. QueueOK'
    <3> SUFFICES ASSUME NEW m \in Messages PROVE MsgRoute(m)'
      BY DEF QueueOK
    <3>1. MsgRoute(m) /\ ~LooseMsg(m)
      BY <1>2 DEF RInv, RouteInv, QueueOK, LooseMsg
    <3> QED BY <1>1, <2>7, <2>8, <3>1 DEF MsgRoute
  <2> QED BY <2>9, <2>10, <2>11, <2>12, <2>13 DEF RInv, RouteInv
<1> QED BY <1>3, <1>4 DEF Release

LEMMA FailRoutes ==
  ASSUME Inv, RInv, Inv', Fail
  PROVE  RInv'
<1>1. /\ drv.pc = "fail" /\ lease # 0 /\ box = NoBox
      /\ UNCHANGED <<parent, lease, jwake, monitor, wake, msg, box>>
  BY InvMeans DEF Fail, sqlite, DrvOK, Guard
<1>2. /\ Leased \in Request /\ Leased = req[lease] /\ Fenced(Leased)
      /\ req \in [Indices -> Request] /\ lease \in Indices
  BY <1>1, PlannedIn, InvMeans, LeasedType
<1> DEFINE early == Leased.stage = "applying"
           stage == IF early THEN "prequiesce_aborting" ELSE Leased.stage
           r == [Leased EXCEPT !.status = "failed", !.stage = stage]
<1>3. req' = [req EXCEPT ![lease] = r]
  BY <1>2 DEF Fail
<1>4. /\ r.plan = Leased.plan /\ r.stage = stage /\ r.intents = Leased.intents
      /\ r.early = Leased.early /\ r.status # "pending"
  BY <1>2 DEF Request
<1> HIDE DEF r
<1>5. /\ Later(Leased, r)
      /\ r.stage = "authority_committed" <=> Leased.stage = "authority_committed"
  BY <1>1, <1>4, LaterLeased DEF Committed
<1>6. Leased' = r
  BY <1>1, <1>3, <1>5, LeasedReplaced DEF Leased
<1>7. Steps' /\ \A c \in Routed : Loose(c) => Loose(c)'
  <2>1. CASE early
    <3>1. drv'.pc = "replay" /\ drv'.mode = "abort"
      BY <2>1 DEF Fail, Idle
    <3> QED BY <1>4, <1>6, <2>1, <3>1 DEF Steps, Running, Loose, FencedStages
  <2>2. CASE ~early
    <3>1. drv'.pc = "idle"
      BY <2>2 DEF Fail, Idle
    <3> QED BY <1>4, <1>6, <2>2, <3>1 DEF Steps, Running, Loose
  <2> QED BY <2>1, <2>2
<1>8. ReqOK' /\ AllLater /\ SamePlan /\ PlanInv'
  BY <1>1, <1>3, <1>4, <1>5, <1>7, Advances
<1>9. BoxFree'
  BY <1>1 DEF BoxFree, NoBox
<1> QED BY <1>1, <1>8, <1>9, Calm DEF RInv, RouteInv

LEMMA DriveRoutes ==
  ASSUME Inv, RInv, Inv', Drive
  PROVE  RInv'
<1>1. CASE \E target \in Parents : Retarget(target)
  BY <1>1, RetargetRoutes
<1>2. CASE QuiesceJson \/ QuiesceQueue \/ QueueQuiesced \/ Commit \/ FinishRouting
  BY <1>2, QuiesceJsonRoutes, QuiesceQueueRoutes, QueueQuiescedRoutes, CommitRoutes,
     FinishRoutingRoutes
<1>3. CASE Collect \/ RestoreJson \/ AbortResume \/ ReplayPick \/ ReplayEnds
  BY <1>3, CollectRoutes, RestoreJsonRoutes, ReplayStarts
<1>4. CASE Replay \/ ReplayNoted \/ Release \/ Fail
  BY <1>4, ReplayRoutes, ReplayNotedRoutes, ReleaseRoutes, FailRoutes
<1> QED BY <1>1, <1>2, <1>3, <1>4 DEF Drive

LEMMA RepairRoutes ==
  ASSUME Inv, RInv, Inv', Repair
  PROVE  RInv'
<1>1. CASE RepairRollback
  <2>1. /\ lease # 0 /\ StartRouting("repair")
        /\ Leased.stage \in {"json_routing_quiesced", "routing_quiesced"}
        /\ UNCHANGED <<parent, jwake, monitor, wake, msg, lease, req, box>>
    BY <1>1 DEF RepairRollback, registry, sqlite
  <2> QED BY <2>1, Starts DEF FencedStages
<1>2. CASE RepairResume
  <2>1. /\ lease # 0 /\ box = NoBox /\ drv.pc = "idle"
        /\ UNCHANGED <<parent, lease, jwake, monitor, wake, msg, box>>
    BY <1>2 DEF RepairResume, sqlite, Http, Guard
  <2>2. /\ Leased \in Request /\ Leased = req[lease]
    BY <2>1, PlannedIn
  <2> DEFINE r == [Leased EXCEPT !.status = "applying"]
  <2>3. req' = [req EXCEPT ![lease] = r]
    BY <1>2, <2>2 DEF RepairResume
  <2>4. /\ r.plan = Leased.plan /\ r.stage = Leased.stage /\ r.intents = Leased.intents
        /\ r.early = Leased.early /\ r.status # "pending"
    BY <2>2 DEF Request
  <2> HIDE DEF r
  <2>5. Later(Leased, r)
    BY <2>1, <2>4, LaterLeased DEF Committed
  <2>6. Leased' = r /\ drv'.pc = "apply"
    BY <1>2, <2>1, <2>3, <2>5, LeasedReplaced DEF Leased, RepairResume, Idle
  <2>7. Steps' /\ \A c \in Routed : Loose(c) => Loose(c)'
    BY <2>1, <2>4, <2>6 DEF Steps, Running, Loose
  <2>8. ReqOK' /\ AllLater /\ SamePlan /\ PlanInv'
    BY <2>1, <2>3, <2>4, <2>5, <2>7, Advances
  <2>9. BoxFree'
    BY <2>1 DEF BoxFree, NoBox
  <2> QED BY <2>1, <2>8, <2>9, Calm DEF RInv, RouteInv
<1> QED BY <1>1, <1>2 DEF Repair

LEMMA BreakRoutes ==
  ASSUME Inv, RInv, Inv', QueueFails \/ Crash
  PROVE  RInv'
<1>1. CASE QueueFails
  <2>1. Goto("fail") /\ UNCHANGED <<parent, jwake, monitor, wake, msg, lease, req, box>>
    BY <1>1 DEF QueueFails, registry, sqlite
  <2> QED BY <2>1, PcSet, Halts
<1>2. CASE Crash
  <2>1. /\ UNCHANGED <<parent, jwake, monitor, wake, msg, lease, req>>
        /\ drv'.pc = "idle" /\ box'.m = None
    BY <1>2 DEF Crash, registry, sqlite, Idle, NoBox
  <2> QED BY <2>1, Halts
<1> QED BY <1>1, <1>2

-----------------------------------------------------------------------------
(* Routes follow authority *)

LEMMA InitRoutes == Init => RInv
<1> SUFFICES ASSUME Init PROVE RInv
  OBVIOUS
<1>1. lease = 0 /\ Indices = {} /\ drv.pc = "idle" /\ box.m = None
  BY EmptySeq DEF Init, Indices, Idle, NoBox
<1>2. PlanInv
  BY <1>1 DEF PlanInv, Fresh, Steps, Running, Sited, Rooted, Asks
<1>3. JsonOK
  <2> SUFFICES ASSUME NEW c \in Sessions PROVE JsonRoute(c)
    BY DEF JsonOK
  <2>1. ~jwake[c].on
    BY DEF Init, NoRoute
  <2>2. monitor[c].on => monitor[c].to # None /\ monitor[c].to = parent[c]
    BY ReparentAssumption DEF Init, NoRoute
  <2> QED BY <1>1, <2>1, <2>2 DEF JsonRoute, Before
<1>4. RowsOK
  BY DEF Init, RowsOK
<1>5. QueueOK
  BY DEF Init, QueueOK, MsgRoute
<1>6. BoxFree
  BY <1>1 DEF BoxFree
<1> QED BY <1>2, <1>3, <1>4, <1>5, <1>6 DEF RInv, RouteInv

LEMMA NextRoutes ==
  ASSUME Inv, RInv, Inv', [Next]_vars
  PROVE  RInv'
<1>1. CASE UNCHANGED vars
  <2>1. UNCHANGED <<parent, req, jwake, monitor, wake, msg, lease, drv, box>>
    BY <1>1 DEF vars
  <2>2. ReqOK' /\ AllLater /\ Leased' = Leased
    BY <2>1, PlanStays
  <2> QED BY <2>1, <2>2, AsideSame
<1>2. CASE Consent \/ Traffic \/ Delivery \/ Acquire
  BY <1>2, ConsentRoutes, TrafficRoutes, DeliveryRoutes, AcquireRoutes
<1>3. CASE Drive \/ Repair \/ QueueFails \/ Crash
  BY <1>3, DriveRoutes, RepairRoutes, BreakRoutes
<1> QED BY <1>1, <1>2, <1>3 DEF Next

LEMMA RoutesMean ==
  ASSUME Inv, RInv
  PROVE  RoutesFollowAuthority
<1> SUFFICES ASSUME NEW c \in Sessions, ~RoutesFenced(c), ~Misplayed(c)
             PROVE  /\ jwake[c].on => jwake[c].to = parent[c]
                    /\ monitor[c].on => monitor[c].to = parent[c]
                    /\ \A w \in DOMAIN wake : (wake[w].child = c /\ wake[w].on) => wake[w].to = parent[c]
                    /\ \A m \in Messages : (To[m] = c /\ msg[m].state = "queued") =>
                         IF msg[m].to = None THEN Orphaned(c) ELSE msg[m].to = parent[c]
  BY DEF RoutesFollowAuthority
<1>1. ~(lease # 0 /\ c \in Edged)
  BY FencedMeans
<1>2. JsonRoute(c)
  BY DEF RInv, RouteInv, JsonOK
<1>3. \A w \in DOMAIN wake : (wake[w].child = c /\ wake[w].on) => wake[w].to = parent[c]
  <2> SUFFICES ASSUME NEW w \in DOMAIN wake, wake[w].child = c, wake[w].on PROVE wake[w].to = parent[c]
    OBVIOUS
  <2>1. RowRoute(w) /\ ~LooseWake(w)
    BY <1>1, PlannedIn DEF RInv, RouteInv, RowsOK, LooseWake
  <2> QED BY <2>1 DEF RowRoute, Misplayed
<1>4. \A m \in Messages : (To[m] = c /\ msg[m].state = "queued") =>
        IF msg[m].to = None THEN Orphaned(c) ELSE msg[m].to = parent[c]
  <2> SUFFICES ASSUME NEW m \in Messages, To[m] = c, msg[m].state = "queued"
               PROVE  IF msg[m].to = None THEN Orphaned(c) ELSE msg[m].to = parent[c]
    OBVIOUS
  <2>1. MsgRoute(m) /\ ~LooseMsg(m)
    BY <1>1, PlannedIn DEF RInv, RouteInv, QueueOK, LooseMsg
  <2> QED BY <2>1 DEF MsgRoute
<1> QED BY <1>2, <1>3, <1>4 DEF JsonRoute

\* Wherever a transaction is interrupted, and however often it is resumed, aborted or
\* rolled back: once it no longer controls a session, every wake, monitor notice and
\* queued input of that session leads to its parent, but for what a rollback that was
\* resumed had replayed (acquire_reparent_apply_lease to the last replacement).
THEOREM RoutesLead == Spec => []RoutesFollowAuthority
<1>1. Init => RInv
  BY InitRoutes
<1>2. Inv /\ RInv /\ Inv' /\ [Next]_vars => RInv'
  BY NextRoutes
<1>3. Inv /\ RInv => RoutesFollowAuthority
  BY RoutesMean
<1> QED BY <1>1, <1>2, <1>3, Invariance, PTL DEF Spec
=============================================================================
