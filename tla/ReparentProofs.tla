--------------------------- MODULE ReparentProofs ---------------------------
(***************************************************************************)
(* Theorems about Reparent, for every set of sessions and messages, every  *)
(* forest to start from, every set of moves and every bound.               *)
(***************************************************************************)
EXTENDS Reparent, SequenceTheorems, FiniteSetTheorems, TLAPS

\* Whom a request was recorded to need the consent of.
Asked(q) ==
  /\ q.target \in q.need
  /\ q.plive => q.parent \in q.need
  /\ q.kind = "single" => q.frozen = {} /\ (q.plive \/ Human \in q.need)
  /\ q.kind # "single" => q.subject \in q.need

\* What the driver relies on while it holds the lease: the plan still says what
\* was consented to, and the planned wakes are those of the sessions it moves.
Planned ==
  lease # 0 =>
    /\ Leased.stage \in FencedStages \cup {"applying"}
    /\ Leased.plan.edges = Edges(Leased)
    /\ Ready(Leased)
    /\ \A w \in Leased.plan.wakes :
         w \in DOMAIN wake /\ wake[w].child \in DOMAIN Leased.plan.edges

AllAsked == \A i \in Indices : Asked(req[i])

Inv == TypeOK /\ AllAsked /\ Planned

-----------------------------------------------------------------------------
(* Sequences, keys and routes *)

Row == [child: Sessions, to: Sessions, on: BOOLEAN]

LEMMA FunctionIsSeq ==
  ASSUME NEW S, NEW n \in Nat, NEW f \in [1 .. n -> S]
  PROVE  f \in Seq(S) /\ Len(f) = n /\ DOMAIN f = 1 .. n
<1>1. f \in Seq(S)
  BY SeqDef
<1>2. DOMAIN f = 1 .. n /\ DOMAIN f = 1 .. Len(f) /\ Len(f) \in Nat
  BY <1>1, LenProperties
<1> QED BY <1>1, <1>2

LEMMA KeyChild ==
  ASSUME NEW k \in Keys
  PROVE  /\ Child(k) \in Sessions
         /\ k[1] \in {"complete", "message"} => k[2] \in Sessions
         /\ k[1] = "input" => k[2] \in Messages
BY ReparentAssumption DEF Keys, Child

LEMMA RouteOff ==
  ASSUME NEW r \in Route
  PROVE  [r EXCEPT !.on = FALSE] \in Route
BY DEF Route

LEMMA CancelledType ==
  ASSUME NEW rows \in Seq(Row), NEW c \in Sessions
  PROVE  /\ Cancelled(rows, c) \in Seq(Row)
         /\ DOMAIN Cancelled(rows, c) = DOMAIN rows
         /\ Len(Cancelled(rows, c)) = Len(rows)
         /\ \A w \in DOMAIN rows : Cancelled(rows, c)[w].child = rows[w].child
<1>1. rows \in [1 .. Len(rows) -> Row] /\ Len(rows) \in Nat /\ DOMAIN rows = 1 .. Len(rows)
  BY LenProperties
<1>2. \A w \in DOMAIN rows : /\ rows[w] \in Row
                             /\ [rows[w] EXCEPT !.on = FALSE] \in Row
                             /\ [rows[w] EXCEPT !.on = FALSE].child = rows[w].child
  BY <1>1 DEF Row
<1>3. Cancelled(rows, c) \in [1 .. Len(rows) -> Row]
  BY <1>1, <1>2 DEF Cancelled
<1>4. \A w \in DOMAIN rows : Cancelled(rows, c)[w].child = rows[w].child
  BY <1>2 DEF Cancelled
<1> QED BY <1>1, <1>3, <1>4, FunctionIsSeq

LEMMA RegisteredType ==
  ASSUME NEW rows \in Seq(Row), NEW c \in Sessions, NEW p \in Sessions
  PROVE  /\ Registered(rows, c, p) \in Seq(Row)
         /\ \A w \in DOMAIN rows : /\ w \in DOMAIN Registered(rows, c, p)
                                   /\ Registered(rows, c, p)[w].child = rows[w].child
<1> DEFINE old == Cancelled(rows, c)
           new == [child |-> c, to |-> p, on |-> TRUE]
<1>1. /\ old \in Seq(Row) /\ Len(old) = Len(rows) /\ DOMAIN old = DOMAIN rows
      /\ \A w \in DOMAIN rows : old[w].child = rows[w].child
  BY CancelledType
<1>2. new \in Row
  BY DEF Row
<1>3. Registered(rows, c, p) = Append(old, new)
  BY DEF Registered
<1> HIDE DEF old, new
<1>4. /\ Append(old, new) \in Seq(Row) /\ DOMAIN Append(old, new) = 1 .. Len(old) + 1
      /\ \A w \in 1 .. Len(old) : Append(old, new)[w] = old[w]
  BY <1>1, <1>2, AppendProperties, LenProperties
<1>5. DOMAIN rows = 1 .. Len(old) /\ Len(old) \in Nat
  BY <1>1, LenProperties
<1> QED BY <1>1, <1>3, <1>4, <1>5

\* The rows of the wake table only grow, and keep their child.
Grows == /\ wake' \in Seq(Row)
         /\ \A w \in DOMAIN wake : w \in DOMAIN wake' /\ wake'[w].child = wake[w].child

-----------------------------------------------------------------------------
(* Requests *)

Arcs == UNION {[D -> [old: Parents, new: Parents]] : D \in SUBSET Sessions}

LEMMA EdgesType ==
  ASSUME NEW q \in Request
  PROVE  /\ DOMAIN Edges(q) = {q.subject} \cup q.frozen
         /\ Edges(q) \in [{q.subject} \cup q.frozen -> [old: Parents, new: Parents]]
         /\ Edges(q) \in Arcs
<1>1. /\ q.subject \in Sessions /\ q.target \in Sessions /\ q.parent \in Parents
      /\ q.frozen \in SUBSET Sessions
  BY DEF Request
<1>2. \A c \in {q.subject} \cup q.frozen : Edges(q)[c] \in [old: Parents, new: Parents]
  BY <1>1 DEF Edges, Move, Parents
<1>3. Edges(q) \in [{q.subject} \cup q.frozen -> [old: Parents, new: Parents]]
  BY <1>2 DEF Edges
<1> QED BY <1>1, <1>3 DEF Arcs

\* What no step changes in a request that is recorded.
Keeps(q, r) ==
  /\ r.kind = q.kind /\ r.subject = q.subject /\ r.target = q.target /\ r.parent = q.parent
  /\ r.plive = q.plive /\ r.frozen = q.frozen /\ r.need = q.need /\ q.yes \subseteq r.yes

LEMMA KeepsMeans ==
  ASSUME NEW q, NEW r, Keeps(q, r)
  PROVE  Edges(r) = Edges(q) /\ (Asked(q) => Asked(r)) /\ (Ready(q) => Ready(r))
<1>1. Edges(r) = Edges(q)
  BY Zenon DEF Keeps, Edges
<1>2. (Asked(q) => Asked(r)) /\ (Ready(q) => Ready(r))
  BY DEF Keeps, Asked, Ready
<1> QED BY <1>1, <1>2

ReqOK ==
  /\ req \in Seq(Request) /\ Len(req) <= MaxRequests /\ lease \in 0 .. Len(req) /\ OneApplies

LEMMA RefreshedType ==
  ASSUME ReqOK
  PROVE  /\ Refreshed \in Seq(Request) /\ Len(Refreshed) = Len(req)
         /\ \A i \in Indices : /\ Keeps(req[i], Refreshed[i])
                               /\ Fenced(Refreshed[i]) <=> Fenced(req[i])
                               /\ Refreshed[i].plan = req[i].plan
                               /\ Fenced(req[i]) => Refreshed[i] = req[i]
                               /\ Refreshed[i].status = "pending" => ~Fenced(req[i])
<1>1. req \in [Indices -> Request] /\ Len(req) \in Nat
  BY LenProperties DEF ReqOK, Indices
<1>2. ASSUME NEW i \in Indices
      PROVE  /\ Refreshed[i] \in {req[i], [req[i] EXCEPT !.status = "expired"],
                                  [req[i] EXCEPT !.status = "stale"]}
             /\ req[i].status # "pending" => Refreshed[i] = req[i]
             /\ req[i] \in Request
  BY <1>1, <1>2 DEF Refreshed
<1>3. ASSUME NEW i \in Indices
      PROVE  /\ Refreshed[i] \in Request
             /\ Keeps(req[i], Refreshed[i])
             /\ Fenced(Refreshed[i]) <=> Fenced(req[i])
             /\ Refreshed[i].plan = req[i].plan
             /\ Fenced(req[i]) => Refreshed[i] = req[i]
             /\ Refreshed[i].status = "pending" => ~Fenced(req[i])
  <2>1. CASE Refreshed[i] = req[i]
    BY <1>2, <2>1 DEF Keeps, Fenced
  <2>2. CASE req[i].status = "pending" /\ Refreshed[i] = [req[i] EXCEPT !.status = "expired"]
    BY <1>2, <2>2 DEF Keeps, Fenced, Request, Statuses, Released
  <2>3. CASE req[i].status = "pending" /\ Refreshed[i] = [req[i] EXCEPT !.status = "stale"]
    BY <1>2, <2>3 DEF Keeps, Fenced, Request, Statuses, Released
  <2> QED BY <1>2, <2>1, <2>2, <2>3
<1>4. Refreshed \in [1 .. Len(req) -> Request]
  BY <1>3 DEF Refreshed, Indices
<1> QED BY <1>1, <1>3, <1>4, FunctionIsSeq

\* One recorded request is replaced.
LEMMA ReplaceOne ==
  ASSUME ReqOK, NEW base \in Seq(Request), Len(base) = Len(req),
         \A i \in Indices : Fenced(base[i]) <=> Fenced(req[i]),
         NEW i \in Indices, NEW r \in Request, Fenced(r) <=> Fenced(base[i]),
         req' = [base EXCEPT ![i] = r], lease' = lease
  PROVE  ReqOK'
<1>1. Len(req) \in Nat /\ Indices = 1 .. Len(base)
  BY LenProperties DEF ReqOK, Indices
<1>2. /\ req' \in Seq(Request) /\ Len(req') = Len(req)
      /\ \A j \in Indices : req'[j] = IF j = i THEN r ELSE base[j]
  BY <1>1, ExceptSeq
<1>3. OneApplies'
  BY <1>2 DEF ReqOK, OneApplies, Indices
<1> QED BY <1>1, <1>2, <1>3 DEF ReqOK

-----------------------------------------------------------------------------
(* The parts of the invariant *)

StateOK ==
  /\ parent \in [Sessions -> Parents] /\ live \in SUBSET Sessions
  /\ jwake \in [Sessions -> Route] /\ monitor \in [Sessions -> Route]
  /\ wake \in Seq(Row)
  /\ msg \in [Messages -> [state: {"absent", "queued", "delivered"}, to: Parents]]
  /\ mail \in [Keys -> Parents]
  /\ begun \subseteq Completers

DrvOK ==
  /\ drv \in Driver
  /\ drv.pc # "idle" => lease # 0
  /\ drv.pc \in {"act", "note"} => drv.key \in Keys

BoxOK == box \in Box /\ (box.m = None \/ box.c = None)

ReqInv == ReqOK /\ AllAsked /\ Planned

LEMMA Parts == Inv <=> ReqInv /\ StateOK /\ DrvOK /\ BoxOK
BY DEF Inv, ReqInv, TypeOK, ReqOK, StateOK, DrvOK, BoxOK, Row

LEMMA PartsNext == ReqInv' /\ StateOK' /\ DrvOK' /\ BoxOK' => Inv'
BY DEF Inv, ReqInv, TypeOK, ReqOK, StateOK, DrvOK, BoxOK, Row

LEMMA LeasedType ==
  ASSUME ReqOK, lease # 0
  PROVE  /\ lease \in Indices /\ Leased \in Request /\ Leased.plan \in Plan /\ Fenced(Leased)
         /\ DOMAIN req = Indices /\ Len(req) \in Nat
<1>1. lease \in Indices /\ DOMAIN req = Indices /\ req \in [Indices -> Request] /\ Len(req) \in Nat
  BY LenProperties DEF ReqOK, Indices
<1> QED BY <1>1 DEF ReqOK, OneApplies, Leased, Request

\* The rows only grow when the wakes are not touched or keep their children.
LEMMA WakeSame ==
  ASSUME StateOK, UNCHANGED wake
  PROVE  Grows
BY DEF StateOK, Grows

\* A step that touches no request keeps what is known of them.
LEMMA RequestsSame ==
  ASSUME ReqInv, Grows, UNCHANGED <<req, lease>>
  PROVE  ReqInv'
<1>1. ReqOK' /\ AllAsked'
  BY DEF ReqInv, ReqOK, OneApplies, AllAsked, Indices, Fenced, Asked
<1>2. Planned'
  BY DEF ReqInv, Planned, Grows, Leased, Edges, Ready
<1> QED BY <1>1, <1>2 DEF ReqInv

\* So does one that replaces requests by requests that keep what was asked for,
\* records new ones with it, and may give the lease back.
LEMMA RequestsKept ==
  ASSUME ReqInv, Grows, ReqOK', lease' \in {lease, 0}, Len(req) <= Len(req'),
         \A i \in Indices : Keeps(req[i], req'[i]) /\ req'[i].plan = req[i].plan,
         \A i \in Indices' \ Indices : Asked(req'[i]),
         lease' # 0 => req'[lease].stage \in FencedStages \cup {"applying"}
  PROVE  ReqInv'
<1>1. AllAsked'
  <2> SUFFICES ASSUME NEW i \in Indices' PROVE Asked(req'[i])
    BY DEF AllAsked
  <2>1. CASE i \in Indices
    BY <2>1, KeepsMeans DEF ReqInv, AllAsked
  <2> QED BY <2>1
<1>2. Planned'
  <2> SUFFICES ASSUME lease' # 0
               PROVE  /\ req'[lease].stage \in FencedStages \cup {"applying"}
                      /\ req'[lease].plan.edges = Edges(req'[lease])
                      /\ Ready(req'[lease])
                      /\ \A w \in req'[lease].plan.wakes :
                           w \in DOMAIN wake' /\ wake'[w].child \in DOMAIN req'[lease].plan.edges
    BY DEF Planned, Leased
  <2>1. lease' = lease /\ lease \in Indices /\ lease # 0
    BY LeasedType DEF ReqInv
  <2>2. /\ Keeps(req[lease], req'[lease]) /\ req'[lease].plan = req[lease].plan
        /\ Edges(req'[lease]) = Edges(req[lease])
        /\ Ready(req[lease]) => Ready(req'[lease])
    BY <2>1, KeepsMeans
  <2> QED BY <2>1, <2>2 DEF ReqInv, Planned, Leased, Grows
<1> QED BY <1>1, <1>2 DEF ReqInv

\* One request is replaced, after a refresh or without one.
Base(base) ==
  /\ base \in Seq(Request) /\ Len(base) = Len(req)
  /\ \A i \in Indices : /\ Keeps(req[i], base[i]) /\ base[i].plan = req[i].plan
                        /\ Fenced(base[i]) <=> Fenced(req[i])
                        /\ Fenced(req[i]) => base[i] = req[i]

LEMMA Bases == ReqOK => Base(req) /\ Base(Refreshed)
BY RefreshedType DEF Base, ReqOK, Keeps

LEMMA RequestReplaced ==
  ASSUME ReqInv, Grows, NEW base, Base(base), NEW i \in Indices, NEW r \in Request,
         Keeps(base[i], r), r.plan = base[i].plan, Fenced(r) <=> Fenced(base[i]),
         i = lease => r.stage \in FencedStages \cup {"applying"},
         req' = [base EXCEPT ![i] = r], lease' = lease
  PROVE  ReqInv'
<1>1. /\ ReqOK' /\ Len(req') = Len(req) /\ Len(req) \in Nat
      /\ \A j \in Indices : req'[j] = IF j = i THEN r ELSE base[j]
  <2>1. base \in Seq(Request) /\ Len(base) = Len(req) /\ Indices = 1 .. Len(base)
    BY DEF Base, Indices
  <2>2. ReqOK'
    BY <2>1, ReplaceOne DEF ReqInv, Base
  <2>3. Len(req) \in Nat
    BY <2>1, LenProperties
  <2> QED BY <2>1, <2>2, <2>3, ExceptSeq
<1>2. \A j \in Indices : Keeps(req[j], req'[j]) /\ req'[j].plan = req[j].plan
  BY <1>1 DEF Base, Keeps
<1>3. lease' # 0 => req'[lease].stage \in FencedStages \cup {"applying"}
  <2> SUFFICES ASSUME lease # 0, lease # i PROVE req'[lease].stage \in FencedStages \cup {"applying"}
    BY <1>1
  <2>1. lease \in Indices /\ Fenced(req[lease])
    BY LeasedType DEF ReqInv, Leased
  <2>2. req'[lease] = req[lease]
    BY <1>1, <2>1 DEF Base
  <2> QED BY <2>2 DEF ReqInv, Planned, Leased
<1>4. Indices' = Indices
  BY <1>1 DEF Indices
<1> QED BY <1>1, <1>2, <1>3, <1>4, RequestsKept

-----------------------------------------------------------------------------
(* Requests and consent *)

LEMMA RequestEmpty == NoPlan \in Plan /\ <<>> \in Seq(Keys)
<1>1. <<>> \in [{} -> [old: Parents, new: Parents]] /\ <<>> \in [{} -> BOOLEAN]
  OBVIOUS
<1>2. NoPlan \in [edges: Arcs, jwakes: SUBSET Sessions,
                  monitors: UNION {[D -> BOOLEAN] : D \in SUBSET Sessions},
                  wakes: SUBSET Nat, msgs: SUBSET Messages]
  BY <1>1 DEF NoPlan, Arcs
<1> QED BY <1>2, EmptySeq DEF NoPlan, Plan, Arcs

LEMMA NewRequestType ==
  ASSUME StateOK, NEW move \in Moves, NEW by \in Sessions, IsLive(move.subject)
  PROVE  /\ NewRequest(move, by) \in Request
         /\ Asked(NewRequest(move, by))
         /\ ~Fenced(NewRequest(move, by))
<1>1. /\ move.kind \in Kinds /\ move.subject \in Sessions /\ move.target \in Sessions
      /\ parent[move.subject] \in Parents /\ parent[move.target] \in Parents
      /\ None \in Parents /\ LiveChildren(move.subject) \in SUBSET Sessions
      /\ IsLive(parent[move.subject]) \in BOOLEAN
      /\ IsLive(parent[move.subject]) => parent[move.subject] \in Sessions
  BY ReparentAssumption DEF StateOK, Parents, LiveChildren, IsLive
<1> DEFINE q == NewRequest(move, by)
<1>2. q \in Request
  <2>1. q.need \in SUBSET Actors /\ q.yes \in SUBSET Actors
    BY <1>1 DEF NewRequest, Actors
  <2>2. q.frozen \in SUBSET Sessions /\ q.tparent \in Parents
    BY <1>1 DEF NewRequest
  <2> QED BY <1>1, <2>1, <2>2, RequestEmpty DEF NewRequest, Request, Statuses, Stages
<1>3. Asked(q)
  BY <1>1 DEF Asked, NewRequest
<1>4. ~Fenced(q)
  BY DEF Fenced, NewRequest
<1> QED BY <1>2, <1>3, <1>4

LEMMA CreateRequestKeeps ==
  ASSUME ReqInv, StateOK, NEW move \in Moves, NEW by \in Sessions, CreateRequest(move, by)
  PROVE  ReqInv'
<1> DEFINE q == NewRequest(move, by)
<1>1. q \in Request /\ Asked(q) /\ ~Fenced(q)
  BY NewRequestType DEF CreateRequest, Requestable
<1>2. ReqOK /\ Len(req) \in Nat /\ Len(req) < MaxRequests /\ UNCHANGED <<lease, wake>>
  BY LenProperties DEF ReqInv, ReqOK, CreateRequest, sqlite
<1>3. Grows
  BY <1>2, WakeSame
<1>4. Base(Refreshed)
  BY <1>2, Bases
<1>5. lease # 0 => Refreshed[lease] = req[lease] /\ lease \in Indices
  BY <1>2, <1>4, LeasedType DEF Base, Leased
<1>6. CASE req' = Refreshed
  <2>1. Indices' = Indices
    BY <1>4, <1>6 DEF Base, Indices
  <2>2. ReqOK'
    BY <1>2, <1>4, <1>6, <2>1 DEF Base, ReqOK, OneApplies
  <2>3. lease' # 0 => req'[lease].stage \in FencedStages \cup {"applying"}
    BY <1>2, <1>5, <1>6 DEF ReqInv, Planned, Leased
  <2> QED BY <1>2, <1>3, <1>4, <1>6, <2>1, <2>2, <2>3, RequestsKept DEF Base
<1>7. CASE req' = Append(Refreshed, q)
  <2> HIDE DEF q
  <2>1. /\ req' \in Seq(Request) /\ Len(req') = Len(req) + 1
        /\ req'[Len(req) + 1] = q /\ \A i \in Indices : req'[i] = Refreshed[i]
    BY <1>1, <1>2, <1>4, <1>7, AppendProperties DEF Base, Indices
  <2>2. Indices' = Indices \cup {Len(req) + 1} /\ Len(req) + 1 \notin Indices /\ Len(req') <= MaxRequests
    BY <1>2, <2>1, ReparentAssumption DEF Indices
  <2>3. ReqOK'
    <3>1. lease' \in 0 .. Len(req') /\ lease' # Len(req) + 1
      BY <1>2, <2>1 DEF ReqOK
    <3>2. OneApplies'
      BY <1>1, <1>2, <1>4, <2>1, <2>2, <3>1 DEF Base, ReqOK, OneApplies
    <3> QED BY <2>1, <2>2, <3>1, <3>2 DEF ReqOK
  <2>4. lease' # 0 => req'[lease].stage \in FencedStages \cup {"applying"}
    BY <1>2, <1>5, <2>1 DEF ReqInv, Planned, Leased
  <2>5. \A i \in Indices' \ Indices : Asked(req'[i])
    BY <1>1, <2>1, <2>2
  <2>6. \A i \in Indices : Keeps(req[i], req'[i]) /\ req'[i].plan = req[i].plan
    BY <1>4, <2>1 DEF Base
  <2> QED BY <1>2, <1>3, <2>1, <2>3, <2>4, <2>5, <2>6, RequestsKept
<1> QED BY <1>6, <1>7 DEF CreateRequest

LEMMA DecideKeeps ==
  ASSUME ReqInv, StateOK, NEW i \in Indices, NEW actor \in Actors, NEW approve \in BOOLEAN,
         Decide(i, actor, approve)
  PROVE  ReqInv'
<1>1. ReqOK /\ UNCHANGED <<lease, wake>> /\ Grows /\ Base(Refreshed) /\ req \in [Indices -> Request]
  BY WakeSame, Bases, LenProperties DEF ReqInv, ReqOK, Decide, sqlite, Indices
<1>2. Refreshed[i] \in Request /\ (Refreshed[i].status = "pending" => ~Fenced(req[i]))
  BY <1>1, RefreshedType, ElementOfSeq DEF Base, Indices
<1>3. CASE Refreshed[i].status = "pending" /\ approve
  <2> DEFINE r == [Refreshed[i] EXCEPT !.yes = @ \cup {actor}]
  <2>1. r \in Request /\ Keeps(Refreshed[i], r) /\ r.plan = Refreshed[i].plan
        /\ (Fenced(r) <=> Fenced(Refreshed[i]))
    BY <1>2 DEF Request, Keeps, Fenced
  <2>2. req' = [Refreshed EXCEPT ![i] = r]
    BY <1>3 DEF Decide
  <2>3. i # lease
    BY <1>1, <1>2, <1>3 DEF ReqOK, OneApplies
  <2> HIDE DEF r
  <2> QED BY <1>1, <2>1, <2>2, <2>3, RequestReplaced
<1>4. CASE Refreshed[i].status = "pending" /\ ~approve
  <2> DEFINE r == [Refreshed[i] EXCEPT !.status = "rejected"]
  <2>1. r \in Request /\ Keeps(Refreshed[i], r) /\ r.plan = Refreshed[i].plan /\ ~Fenced(r)
    BY <1>2 DEF Request, Keeps, Fenced, Statuses, Released
  <2>2. ~Fenced(Refreshed[i])
    BY <1>4 DEF Fenced
  <2>3. req' = [Refreshed EXCEPT ![i] = r]
    BY <1>4 DEF Decide
  <2>4. i # lease
    BY <1>1, <1>2, <1>4 DEF ReqOK, OneApplies
  <2> HIDE DEF r
  <2> QED BY <1>1, <2>1, <2>2, <2>3, <2>4, RequestReplaced
<1>5. CASE req' = Refreshed
  <2>1. req' = [Refreshed EXCEPT ![i] = Refreshed[i]]
    BY <1>1, <1>5, LenProperties DEF Base
  <2>2. i = lease => Refreshed[i].stage \in FencedStages \cup {"applying"}
    BY <1>1, LeasedType DEF ReqInv, ReqOK, Planned, Leased, Base
  <2>3. Keeps(Refreshed[i], Refreshed[i])
    BY DEF Keeps
  <2> QED BY <1>1, <1>2, <2>1, <2>2, <2>3, RequestReplaced
<1>6. CASE req' = req
  BY <1>1, <1>6, RequestsSame
<1> QED BY <1>3, <1>4, <1>5, <1>6 DEF Decide

LEMMA ExpireKeeps ==
  ASSUME ReqInv, StateOK, NEW i \in Indices, Expire(i)
  PROVE  ReqInv'
<1>1. ReqOK /\ UNCHANGED <<lease, wake>> /\ Grows /\ Base(req) /\ req[i] \in Request
  BY WakeSame, Bases, ElementOfSeq DEF ReqInv, ReqOK, Expire, sqlite, Indices
<1> DEFINE r == [req[i] EXCEPT !.late = TRUE]
<1>2. r \in Request /\ Keeps(req[i], r) /\ r.plan = req[i].plan /\ (Fenced(r) <=> Fenced(req[i]))
  BY <1>1 DEF Request, Keeps, Fenced
<1>3. req' = [req EXCEPT ![i] = r] /\ i # lease
  BY <1>1 DEF Expire, ReqOK, OneApplies, Fenced
<1> HIDE DEF r
<1> QED BY <1>1, <1>2, <1>3, RequestReplaced

LEMMA IntendKeeps ==
  ASSUME ReqInv, Grows, NEW i \in Indices, NEW k \in Keys, req' = Intend(i, k), lease' = lease
  PROVE  ReqInv'
<1>1. ReqOK /\ Base(req) /\ req[i] \in Request
  BY Bases, ElementOfSeq DEF ReqInv, ReqOK, Indices
<1> DEFINE r == [req[i] EXCEPT !.intents = IF k \in Range(@) THEN @ ELSE Append(@, k)]
<1>2. r \in Request
  BY <1>1, AppendProperties DEF Request
<1>3. /\ Keeps(req[i], r) /\ r.plan = req[i].plan /\ (Fenced(r) <=> Fenced(req[i]))
      /\ r.stage = req[i].stage
  BY <1>1 DEF Request, Keeps, Fenced
<1>4. req' = [req EXCEPT ![i] = r]
  BY DEF Intend
<1>5. i = lease => r.stage \in FencedStages \cup {"applying"}
  BY <1>1, <1>3, LeasedType DEF ReqInv, Planned, Leased, ReqOK, Indices
<1> HIDE DEF r
<1> QED BY <1>1, <1>2, <1>3, <1>4, <1>5, RequestReplaced

LEMMA ConsentKeeps ==
  ASSUME Inv, Consent
  PROVE  Inv'
<1>1. ReqInv /\ StateOK /\ DrvOK /\ BoxOK
  BY Parts
<1>2. ASSUME NEW move \in Moves, NEW by \in Sessions, CreateRequest(move, by)
      PROVE  Inv'
  <2>1. ReqInv'
    BY <1>1, <1>2, CreateRequestKeeps
  <2>2. StateOK' /\ DrvOK' /\ BoxOK'
    BY <1>1, <1>2 DEF CreateRequest, sqlite, StateOK, DrvOK, BoxOK
  <2> QED BY <2>1, <2>2, PartsNext
<1>3. ASSUME NEW i \in Indices, Expire(i)
      PROVE  Inv'
  <2>1. ReqInv'
    BY <1>1, <1>3, ExpireKeeps
  <2>2. StateOK' /\ DrvOK' /\ BoxOK'
    BY <1>1, <1>3 DEF Expire, sqlite, StateOK, DrvOK, BoxOK
  <2> QED BY <2>1, <2>2, PartsNext
<1>4. ASSUME NEW i \in Indices, NEW actor \in Actors, NEW approve \in BOOLEAN,
             Decide(i, actor, approve)
      PROVE  Inv'
  <2>1. ReqInv'
    BY <1>1, <1>4, DecideKeeps
  <2>2. StateOK' /\ DrvOK' /\ BoxOK'
    BY <1>1, <1>4 DEF Decide, sqlite, StateOK, DrvOK, BoxOK
  <2> QED BY <2>1, <2>2, PartsNext
<1> QED BY <1>2, <1>3, <1>4 DEF Consent

-----------------------------------------------------------------------------
(* Traffic and deliveries *)

LEMMA NoBoxType == NoBox \in Box
BY DEF NoBox, Box, Parents

LEMMA KeysOf ==
  /\ \A c \in Sessions : <<"complete", c>> \in Keys /\ <<"message", c>> \in Keys
  /\ \A m \in Messages : /\ <<"wake", m>> \in Keys /\ <<"planned", m>> \in Keys
                         /\ <<"input", m>> \in Keys
BY DEF Keys

LEMMA SendInputKeeps ==
  ASSUME Inv, NEW m \in Messages, SendInput(m)
  PROVE  Inv'
<1>1. ReqInv /\ StateOK /\ DrvOK /\ BoxOK
  BY Parts
<1>2. Grows /\ UNCHANGED lease
  BY <1>1, WakeSame DEF SendInput
<1>3. ReqInv'
  BY <1>1, <1>2, KeysOf, IntendKeeps, RequestsSame DEF SendInput
<1>4. msg' \in [Messages -> [state: {"absent", "queued", "delivered"}, to: Parents]]
  <2>1. parent[To[m]] \in Parents
    BY <1>1, ReparentAssumption DEF StateOK
  <2>2. msg' = msg \/ msg' = [msg EXCEPT ![m] = [state |-> "queued", to |-> parent[To[m]]]]
    BY DEF SendInput
  <2> QED BY <1>1, <2>1, <2>2 DEF StateOK
<1>5. StateOK' /\ DrvOK' /\ BoxOK'
  BY <1>1, <1>4 DEF SendInput, StateOK, DrvOK, BoxOK
<1> QED BY <1>3, <1>5, PartsNext

LEMMA DeliverKeeps ==
  ASSUME Inv, NEW m \in Messages, Deliver(m)
  PROVE  Inv'
<1>1. ReqInv /\ StateOK /\ DrvOK /\ BoxOK
  BY Parts
<1>2. Grows /\ UNCHANGED lease
  BY <1>1, WakeSame DEF Deliver, sqlite
<1>3. ReqInv'
  BY <1>1, <1>2, KeysOf, IntendKeeps, RequestsSame DEF Deliver
<1>4. BoxOK'
  <2>1. msg[m].to \in Parents
    BY <1>1 DEF StateOK
  <2>2. /\ [NoBox EXCEPT !.m = m] \in Box /\ [NoBox EXCEPT !.m = m, !.to = msg[m].to] \in Box
        /\ [NoBox EXCEPT !.m = m].c = None
        /\ [NoBox EXCEPT !.m = m, !.to = msg[m].to].c = None
    BY <2>1 DEF NoBox, Box, Parents
  <2> QED BY <2>2 DEF Deliver, BoxOK
<1>5. StateOK' /\ DrvOK'
  BY <1>1 DEF Deliver, StateOK, DrvOK, sqlite
<1> QED BY <1>3, <1>4, <1>5, PartsNext

LEMMA TaskCompleteKeeps ==
  ASSUME Inv, NEW c \in Sessions, TaskComplete(c)
  PROVE  Inv'
<1>1. ReqInv /\ StateOK /\ DrvOK /\ BoxOK
  BY Parts
<1>2. Grows
  <2>1. CASE UNCHANGED wake
    BY <1>1, <2>1, WakeSame
  <2>2. CASE wake' = Cancelled(wake, c)
    BY <1>1, <2>2, CancelledType DEF StateOK, Grows
  <2> QED BY <2>1, <2>2 DEF TaskComplete
<1>3. ReqInv'
  <2>1. lease' = lease
    BY DEF TaskComplete
  <2> QED BY <1>1, <1>2, <2>1, KeysOf, IntendKeeps, RequestsSame DEF TaskComplete
<1>4. BoxOK'
  <2>1. CASE UNCHANGED box
    BY <1>1, <2>1 DEF BoxOK
  <2>2. ASSUME NEW p \in WakeParent(c), box' = [NoBox EXCEPT !.c = c, !.to = p]
        PROVE  BoxOK'
    <3>1. parent[c] \in Parents /\ jwake[c].to \in Parents
      BY <1>1 DEF StateOK, Route
    <3>2. \A w \in DOMAIN wake : wake[w].to \in Parents
      <4>1. wake \in [DOMAIN wake -> Row]
        BY <1>1, LenProperties DEF StateOK
      <4> QED BY <4>1 DEF Row, Parents
    <3>3. p \in Parents
      BY <2>2, <3>1, <3>2 DEF WakeParent
    <3>4. [NoBox EXCEPT !.c = c, !.to = p] \in Box /\ [NoBox EXCEPT !.c = c, !.to = p].m = None
      BY <3>3 DEF NoBox, Box, Parents
    <3> QED BY <2>2, <3>4 DEF BoxOK
  <2> QED BY <2>1, <2>2 DEF TaskComplete
<1>5. StateOK'
  BY <1>1, <1>2 DEF TaskComplete, StateOK, Grows
<1>6. DrvOK'
  BY <1>1 DEF TaskComplete, DrvOK
<1> QED BY <1>3, <1>4, <1>5, <1>6, PartsNext

LEMMA NotifyParentKeeps ==
  ASSUME Inv, NEW c \in Sessions, NotifyParent(c)
  PROVE  Inv'
<1>1. ReqInv /\ StateOK /\ DrvOK /\ BoxOK
  BY Parts
<1>2. Grows /\ UNCHANGED lease
  BY <1>1, WakeSame DEF NotifyParent
<1>3. ReqInv'
  BY <1>1, <1>2, KeysOf, IntendKeeps, RequestsSame DEF NotifyParent
<1>4. mail' \in [Keys -> Parents]
  <2>1. parent[c] \in Parents /\ mail \in [Keys -> Parents]
    BY <1>1 DEF StateOK
  <2>2. mail' = mail \/ mail' = [mail EXCEPT ![<<"message", c>>] = parent[c]]
    BY DEF NotifyParent
  <2> QED BY <2>1, <2>2, KeysOf
<1>5. StateOK' /\ DrvOK' /\ BoxOK'
  BY <1>1, <1>4 DEF NotifyParent, StateOK, DrvOK, BoxOK
<1> QED BY <1>3, <1>5, PartsNext

LEMMA TrafficKeeps ==
  ASSUME Inv, Traffic
  PROVE  Inv'
<1>1. ReqInv /\ StateOK /\ DrvOK /\ BoxOK
  BY Parts
<1>2. ASSUME NEW s \in Sessions, Stop(s) \/ Restore(s)
      PROVE  Inv'
  <2>1. ReqInv'
    BY <1>1, <1>2, WakeSame, RequestsSame DEF Stop, Restore, sqlite
  <2>2. StateOK' /\ DrvOK' /\ BoxOK'
    BY <1>1, <1>2 DEF Stop, Restore, sqlite, StateOK, DrvOK, BoxOK
  <2> QED BY <2>1, <2>2, PartsNext
<1> QED BY <1>2, TaskCompleteKeeps, NotifyParentKeeps, SendInputKeeps, DeliverKeeps DEF Traffic

LEMMA DeliveryKeeps ==
  ASSUME Inv, Delivery
  PROVE  Inv'
<1>1. ReqInv /\ StateOK /\ DrvOK /\ BoxOK
  BY Parts
<1>2. box \in Box
  BY <1>1 DEF BoxOK
<1>3. CASE DeliverMark
  <2>1. box.m \in Messages /\ To[box.m] \in Sessions /\ box.to \in Parents
    BY <1>2, <1>3, ReparentAssumption DEF DeliverMark, Box
  <2>2. Grows
    <3>1. CASE box.to = None
      BY <1>1, <1>3, <3>1, WakeSame DEF DeliverMark
    <3>2. CASE box.to # None
      <4>1. wake' = Registered(wake, To[box.m], box.to) /\ box.to \in Sessions /\ wake \in Seq(Row)
        BY <1>1, <1>3, <2>1, <3>2 DEF DeliverMark, StateOK, Parents
      <4> QED BY <2>1, <4>1, RegisteredType DEF Grows
    <3> QED BY <3>1, <3>2
  <2>3. ReqInv'
    BY <1>1, <1>3, <2>2, RequestsSame DEF DeliverMark, registry
  <2>4. msg' \in [Messages -> [state: {"absent", "queued", "delivered"}, to: Parents]]
    BY <1>1, <1>3, <2>1 DEF DeliverMark, StateOK
  <2>5. StateOK'
    BY <1>1, <1>3, <2>2, <2>4 DEF DeliverMark, StateOK, registry, Grows
  <2>6. BoxOK'
    BY <1>1, <1>3 DEF DeliverMark, BoxOK, Box
  <2>7. DrvOK'
    BY <1>1, <1>3 DEF DeliverMark, DrvOK, registry
  <2> QED BY <2>3, <2>5, <2>6, <2>7, PartsNext
<1>4. CASE DeliverEnd
  <2>1. box.m \in Messages /\ To[box.m] \in Sessions /\ box.to \in Parents
    BY <1>2, <1>4, ReparentAssumption DEF DeliverEnd, Box
  <2>2. ReqInv'
    BY <1>1, <1>4, WakeSame, RequestsSame DEF DeliverEnd, sqlite
  <2>3. jwake' \in [Sessions -> Route]
    BY <1>1, <1>4, <2>1 DEF DeliverEnd, StateOK, Route
  <2>4. StateOK' /\ DrvOK'
    BY <1>1, <1>4, <2>3 DEF DeliverEnd, StateOK, DrvOK, sqlite
  <2>5. BoxOK'
    BY <1>4, NoBoxType DEF DeliverEnd, BoxOK, NoBox
  <2> QED BY <2>2, <2>4, <2>5, PartsNext
<1>5. CASE CompleteTell
  <2>1. box.c \in Sessions /\ box.to \in Parents
    BY <1>2, <1>5 DEF CompleteTell, Box, Parents
  <2>2. ReqInv'
    BY <1>1, <1>5, WakeSame, RequestsSame DEF CompleteTell, registry
  <2>3. mail' \in [Keys -> Parents]
    <3>1. <<"complete", box.c>> \in Keys /\ mail \in [Keys -> Parents]
      BY <1>1, <2>1, KeysOf DEF StateOK
    <3>2. mail' = [mail EXCEPT ![<<"complete", box.c>>] = box.to]
      BY <1>5 DEF CompleteTell
    <3> QED BY <2>1, <3>1, <3>2
  <2>4. StateOK' /\ DrvOK'
    BY <1>1, <1>5, <2>3 DEF CompleteTell, StateOK, DrvOK, registry
  <2>5. BoxOK'
    BY <1>1, <1>5 DEF CompleteTell, BoxOK, Box
  <2> QED BY <2>2, <2>4, <2>5, PartsNext
<1>6. CASE CompleteEnd
  <2>1. box.c \in Sessions
    BY <1>2, <1>6 DEF CompleteEnd, Box, Parents
  <2>2. ReqInv'
    BY <1>1, <1>6, WakeSame, RequestsSame DEF CompleteEnd, sqlite
  <2>3. jwake' \in [Sessions -> Route]
    <3>1. /\ jwake' = [jwake EXCEPT ![box.c] = [jwake[box.c] EXCEPT !.on = FALSE]]
          /\ jwake \in [Sessions -> Route]
      BY <1>1, <1>6 DEF CompleteEnd, StateOK
    <3>2. [jwake[box.c] EXCEPT !.on = FALSE] \in Route
      BY <2>1, <3>1, RouteOff
    <3> QED BY <2>1, <3>1, <3>2
  <2>4. StateOK' /\ DrvOK'
    BY <1>1, <1>6, <2>3 DEF CompleteEnd, StateOK, DrvOK, sqlite
  <2>5. BoxOK'
    BY <1>6, NoBoxType DEF CompleteEnd, BoxOK, NoBox
  <2> QED BY <2>2, <2>4, <2>5, PartsNext
<1> QED BY <1>3, <1>4, <1>5, <1>6 DEF Delivery

-----------------------------------------------------------------------------
(* The lease *)

LEMMA PlanType ==
  ASSUME NEW plan \in Plan
  PROVE  /\ DOMAIN plan.edges \subseteq Sessions
         /\ \A c \in DOMAIN plan.edges : plan.edges[c].old \in Parents /\ plan.edges[c].new \in Parents
         /\ plan.jwakes \subseteq DOMAIN plan.edges
         /\ DOMAIN plan.monitors \subseteq DOMAIN plan.edges
         /\ \A c \in DOMAIN plan.monitors : plan.monitors[c] \in BOOLEAN
         /\ \A m \in plan.msgs : m \in Messages /\ To[m] \in DOMAIN plan.edges
<1>1. /\ plan.edges \in Arcs /\ plan.jwakes \cup DOMAIN plan.monitors \subseteq DOMAIN plan.edges
      /\ plan.monitors \in UNION {[D -> BOOLEAN] : D \in SUBSET Sessions}
      /\ plan.msgs \in SUBSET Messages
      /\ \A m \in plan.msgs : To[m] \in DOMAIN plan.edges
  BY DEF Plan, Arcs
<1>2. PICK D \in SUBSET Sessions : plan.edges \in [D -> [old: Parents, new: Parents]]
  BY <1>1 DEF Arcs
<1>3. PICK E \in SUBSET Sessions : plan.monitors \in [E -> BOOLEAN]
  BY <1>1
<1> QED BY <1>1, <1>2, <1>3

LEMMA PlanOfType ==
  ASSUME StateOK, NEW q \in Request
  PROVE  /\ PlanOf(q) \in Plan
         /\ PlanOf(q).edges = Edges(q)
         /\ \A w \in PlanOf(q).wakes : w \in DOMAIN wake /\ wake[w].child \in DOMAIN Edges(q)
<1> DEFINE plan == PlanOf(q)
<1>1. plan.edges = Edges(q) /\ Edges(q) \in Arcs /\ DOMAIN Edges(q) \subseteq Sessions
  BY EdgesType DEF PlanOf, Request
<1>2. plan.jwakes \subseteq DOMAIN Edges(q)
  BY DEF PlanOf
<1>3. /\ plan.monitors \in [DOMAIN plan.monitors -> BOOLEAN]
      /\ DOMAIN plan.monitors \subseteq DOMAIN Edges(q)
  <2>1. \A c \in Sessions : monitor[c].on \in BOOLEAN
    BY DEF StateOK, Route
  <2> QED BY <1>1, <2>1 DEF PlanOf
<1>4. plan.wakes \in SUBSET Nat
  <2>1. DOMAIN wake \subseteq Nat
    BY LenProperties DEF StateOK
  <2> QED BY <2>1 DEF PlanOf
<1>5. \A w \in plan.wakes : w \in DOMAIN wake /\ wake[w].child \in DOMAIN Edges(q)
  BY DEF PlanOf
<1>6. plan.msgs \in SUBSET Messages /\ \A m \in plan.msgs : To[m] \in DOMAIN Edges(q)
  BY DEF PlanOf
<1>7. plan = [edges |-> plan.edges, jwakes |-> plan.jwakes, monitors |-> plan.monitors,
              wakes |-> plan.wakes, msgs |-> plan.msgs]
  BY DEF PlanOf
<1>8. plan.monitors \in UNION {[D -> BOOLEAN] : D \in SUBSET Sessions}
  BY <1>1, <1>3
<1> HIDE DEF plan
<1>9. plan \in Plan
  BY <1>1, <1>2, <1>3, <1>4, <1>6, <1>7, <1>8 DEF Plan, Arcs
<1> QED BY <1>1, <1>5, <1>9 DEF plan

LEMMA IdleType ==
  /\ Idle \in Driver
  /\ \A pc \in Drivers : /\ [Idle EXCEPT !.pc = pc] \in Driver /\ [Idle EXCEPT !.pc = pc].pc = pc
BY DEF Idle, Driver, Drivers, Modes

LEMMA AbortingType ==
  ASSUME NEW d, d = [Idle EXCEPT !.pc = "replay", !.mode = "abort", !.redo = TRUE]
  PROVE  d \in Driver /\ d.pc = "replay"
<1>1. Idle \in Driver /\ "replay" \in Drivers /\ "abort" \in Modes /\ TRUE \in BOOLEAN
  BY IdleType DEF Drivers, Modes
<1> QED BY <1>1 DEF Driver

LEMMA AcquireNewKeeps ==
  ASSUME Inv, AcquireNew
  PROVE  Inv'
<1>1. ReqInv /\ StateOK /\ DrvOK /\ BoxOK /\ ReqOK
  BY Parts DEF ReqInv
<1>2. lease = 0 /\ UNCHANGED <<parent, live, jwake, monitor, wake, msg, mail, box, begun>>
  BY DEF AcquireNew, sqlite
<1>3. PICK i \in Indices :
        /\ Appliable(i) /\ lease' = i
        /\ req' = [Refreshed EXCEPT ![i] = [req[i] EXCEPT !.status = "applying",
                                                         !.stage = "applying",
                                                         !.plan = PlanOf(req[i])]]
  BY DEF AcquireNew
<1> DEFINE r == [req[i] EXCEPT !.status = "applying", !.stage = "applying",
                               !.plan = PlanOf(req[i])]
<1>4. req[i] \in Request /\ Len(req) \in Nat /\ i \in 1 .. Len(req) /\ i # 0
  BY <1>1, LenProperties, ElementOfSeq DEF ReqOK, Indices
<1>5. /\ r \in Request /\ Keeps(req[i], r) /\ r.plan = PlanOf(req[i]) /\ r.stage = "applying"
      /\ Fenced(r)
  <2>1. PlanOf(req[i]) \in Plan
    BY <1>1, <1>4, PlanOfType
  <2> QED BY <1>4, <2>1 DEF Request, Keeps, Fenced, Statuses, Stages
<1> HIDE DEF r
<1>6. req' = [Refreshed EXCEPT ![i] = r]
  BY <1>3 DEF r
<1>7. /\ req' \in Seq(Request) /\ Len(req') = Len(req)
      /\ \A j \in Indices : req'[j] = IF j = i THEN r ELSE Refreshed[j]
  BY <1>1, <1>4, <1>5, <1>6, RefreshedType, ExceptSeq DEF Indices
<1>8. ReqOK'
  <2>1. OneApplies'
    BY <1>1, <1>2, <1>3, <1>4, <1>5, <1>7, RefreshedType DEF ReqOK, OneApplies, Indices
  <2> QED BY <1>1, <1>3, <1>4, <1>7, <2>1 DEF ReqOK
<1>9. AllAsked'
  <2>1. \A j \in Indices : Keeps(req[j], req'[j])
    BY <1>1, <1>5, <1>7, RefreshedType
  <2> QED BY <1>1, <1>7, <2>1, KeepsMeans DEF ReqInv, AllAsked, Indices
<1>10. Planned'
  <2>1. Leased' = r
    BY <1>3, <1>7 DEF Leased
  <2>2. Ready(r) /\ Edges(r) = Edges(req[i])
    BY <1>3, <1>5, KeepsMeans DEF Appliable
  <2> QED BY <1>1, <1>2, <1>4, <1>5, <2>1, <2>2, PlanOfType DEF Planned
<1>11. DrvOK'
  <2>1. drv' = [Idle EXCEPT !.pc = "apply"] /\ lease' # 0
    BY <1>3, <1>4 DEF AcquireNew
  <2> QED BY <2>1, IdleType DEF DrvOK, Drivers
<1>12. StateOK' /\ BoxOK'
  BY <1>1, <1>2 DEF StateOK, BoxOK
<1> QED BY <1>8, <1>9, <1>10, <1>11, <1>12, PartsNext DEF ReqInv

LEMMA AcquireKeeps ==
  ASSUME Inv, Acquire
  PROVE  Inv'
<1>1. ReqInv /\ StateOK /\ DrvOK /\ BoxOK /\ ReqOK
  BY Parts DEF ReqInv
<1>2. CASE AcquireResume
  <2>1. ReqInv' /\ StateOK' /\ BoxOK'
    BY <1>1, <1>2, WakeSame, RequestsSame DEF AcquireResume, registry, sqlite, StateOK, BoxOK
  <2>2. DrvOK'
    BY <1>2, IdleType DEF AcquireResume, DrvOK, Drivers, registry
  <2> QED BY <2>1, <2>2, PartsNext
<1>3. CASE AcquireNone
  <2>1. StateOK' /\ BoxOK' /\ DrvOK' /\ Grows /\ UNCHANGED lease
    BY <1>1, <1>3, WakeSame DEF AcquireNone, sqlite, StateOK, BoxOK, DrvOK
  <2>2. CASE UNCHANGED req
    BY <1>1, <2>1, <2>2, RequestsSame, PartsNext
  <2>3. CASE lease = 0 /\ req' = Refreshed
    <3>1. /\ Base(Refreshed) /\ Indices' = Indices /\ Len(req) \in Nat
          /\ \A j \in Indices : Keeps(req[j], req'[j]) /\ req'[j].plan = req[j].plan
      BY <1>1, <2>3, Bases, LenProperties DEF Base, Indices, ReqOK
    <3>2. ReqOK'
      BY <1>1, <2>1, <2>3, <3>1 DEF ReqOK, OneApplies, Base
    <3>3. Len(req) <= Len(req')
      BY <2>3, <3>1 DEF Base
    <3>4. ReqInv'
      BY <1>1, <2>1, <2>3, <3>1, <3>2, <3>3, RequestsKept
    <3> QED BY <2>1, <3>4, PartsNext
  <2> QED BY <1>3, <2>2, <2>3 DEF AcquireNone
<1> QED BY <1>2, <1>3, AcquireNewKeeps DEF Acquire

-----------------------------------------------------------------------------
(* The driver *)

\* The driver goes to another step for the same lease.
LEMMA GotoKeeps ==
  ASSUME DrvOK, drv.pc # "idle", NEW pc \in Drivers \ {"act", "note"}, Goto(pc), lease' = lease
  PROVE  DrvOK'
BY DEF DrvOK, Goto, Driver

\* A stage is set.
LEMMA StageKeeps ==
  ASSUME ReqInv, Grows, lease # 0, NEW stage \in FencedStages, SetStage(stage), lease' = lease
  PROVE  ReqInv'
<1>1. ReqOK /\ Base(req) /\ lease \in Indices /\ req[lease] \in Request /\ Fenced(req[lease])
  BY Bases, LeasedType DEF ReqInv, Leased
<1> DEFINE r == [req[lease] EXCEPT !.stage = stage]
<1>2. r \in Request /\ Keeps(req[lease], r) /\ r.plan = req[lease].plan /\ r.stage = stage /\ Fenced(r)
  BY <1>1 DEF Request, Keeps, Fenced, Stages
<1>3. req' = [req EXCEPT ![lease] = r]
  BY DEF SetStage
<1> HIDE DEF r
<1> QED BY <1>1, <1>2, <1>3, RequestReplaced

LEMMA StartRoutingType ==
  ASSUME ReqInv, StateOK, lease # 0, lease' = lease, NEW mode \in Modes, StartRouting(mode)
  PROVE  DrvOK'
<1> DEFINE plan == Leased.plan
<1>1. plan \in Plan
  BY LeasedType DEF ReqInv
<1>2. \A c \in DOMAIN plan.edges : GroupOf(plan, mode, c) \in Parents
  BY <1>1, PlanType DEF GroupOf
<1>3. \A w \in plan.wakes : wake[w].child \in DOMAIN plan.edges
  BY DEF ReqInv, Planned
<1>4. \A m \in plan.msgs : To[m] \in DOMAIN plan.edges
  BY <1>1, PlanType
<1> DEFINE todo == {GroupOf(plan, mode, wake[w].child) : w \in plan.wakes}
                     \cup {GroupOf(plan, mode, To[m]) : m \in plan.msgs}
<1>5. todo \in SUBSET Parents
  BY <1>2, <1>3, <1>4
<1>6. drv' = [Idle EXCEPT !.pc = "route", !.mode = mode, !.todo = todo]
  BY DEF StartRouting
<1> HIDE DEF todo
<1>7. drv' \in Driver /\ drv'.pc = "route"
  <2>1. Idle \in Driver /\ "route" \in Drivers
    BY IdleType DEF Drivers
  <2> QED BY <1>5, <1>6, <2>1 DEF Driver
<1> QED BY <1>7 DEF DrvOK

LEMMA QuiesceJsonKeeps ==
  ASSUME Inv, QuiesceJson
  PROVE  Inv'
<1>1. ReqInv /\ StateOK /\ DrvOK /\ BoxOK /\ ReqOK
  BY Parts DEF ReqInv
<1>2. /\ drv.pc = "apply" /\ lease # 0 /\ Grows
      /\ UNCHANGED <<parent, live, lease, wake, msg, mail, box, begun>>
  BY <1>1, WakeSame DEF QuiesceJson, At, sqlite, DrvOK
<1>3. CASE Goto("fail") /\ UNCHANGED <<req, jwake, monitor>>
  <2>1. ReqInv' /\ StateOK' /\ BoxOK'
    BY <1>1, <1>2, <1>3, RequestsSame DEF StateOK, BoxOK
  <2>2. DrvOK'
    BY <1>1, <1>2, <1>3, GotoKeeps DEF Drivers
  <2> QED BY <2>1, <2>2, PartsNext
<1>4. CASE /\ jwake' = [c \in Sessions |-> IF c \in Leased.plan.jwakes
                          THEN [jwake[c] EXCEPT !.on = FALSE] ELSE jwake[c]]
           /\ monitor' = [c \in Sessions |-> IF c \in DOMAIN Leased.plan.monitors
                            THEN [monitor[c] EXCEPT !.on = FALSE] ELSE monitor[c]]
           /\ SetStage("json_routing_quiesced")
           /\ UNCHANGED drv
  <2>1. ReqInv'
    BY <1>1, <1>2, <1>4, StageKeeps DEF FencedStages
  <2>2. \A c \in Sessions : /\ jwake[c] \in Route /\ [jwake[c] EXCEPT !.on = FALSE] \in Route
                            /\ monitor[c] \in Route /\ [monitor[c] EXCEPT !.on = FALSE] \in Route
    BY <1>1, RouteOff DEF StateOK
  <2>3. jwake' \in [Sessions -> Route] /\ monitor' \in [Sessions -> Route]
    BY <1>4, <2>2
  <2>4. StateOK' /\ DrvOK' /\ BoxOK'
    BY <1>1, <1>2, <1>4, <2>3 DEF StateOK, DrvOK, BoxOK
  <2> QED BY <2>1, <2>4, PartsNext
<1> QED BY <1>3, <1>4 DEF QuiesceJson

\* Rows and messages of a plan are rewritten in place.
LEMMA WakesRewritten ==
  ASSUME StateOK, NEW f, f \in [DOMAIN wake -> Row],
         \A w \in DOMAIN wake : f[w].child = wake[w].child, wake' = f
  PROVE  Grows
<1>1. DOMAIN wake = 1 .. Len(wake) /\ Len(wake) \in Nat
  BY LenProperties DEF StateOK
<1> QED BY <1>1, FunctionIsSeq DEF Grows

MsgRow == [state: {"absent", "queued", "delivered"}, to: Parents]

LEMMA QuiesceQueueKeeps ==
  ASSUME Inv, QuiesceQueue
  PROVE  Inv'
<1>1. ReqInv /\ StateOK /\ DrvOK /\ BoxOK /\ ReqOK
  BY Parts DEF ReqInv
<1>2. /\ drv.pc = "apply" /\ lease # 0
      /\ UNCHANGED <<parent, live, req, lease, jwake, monitor, mail, box, begun>>
  BY <1>1 DEF QuiesceQueue, registry, DrvOK
<1>3. CASE Goto("fail") /\ UNCHANGED <<wake, msg>>
  <2>1. ReqInv' /\ StateOK' /\ BoxOK'
    BY <1>1, <1>2, <1>3, WakeSame, RequestsSame DEF StateOK, BoxOK
  <2>2. DrvOK'
    BY <1>1, <1>2, <1>3, GotoKeeps DEF Drivers
  <2> QED BY <2>1, <2>2, PartsNext
<1>4. CASE /\ wake' = [w \in DOMAIN wake |-> IF w \in Leased.plan.wakes
                         THEN [wake[w] EXCEPT !.on = FALSE] ELSE wake[w]]
           /\ msg' = [m \in Messages |-> IF m \in Leased.plan.msgs
                        THEN [msg[m] EXCEPT !.to = None] ELSE msg[m]]
           /\ Goto("quiesced")
  <2>1. wake \in [DOMAIN wake -> Row]
    BY <1>1, LenProperties DEF StateOK
  <2>2. \A w \in DOMAIN wake : /\ wake[w] \in Row /\ [wake[w] EXCEPT !.on = FALSE] \in Row
                               /\ [wake[w] EXCEPT !.on = FALSE].child = wake[w].child
    BY <2>1 DEF Row
  <2>3. wake' \in [DOMAIN wake -> Row] /\ \A w \in DOMAIN wake : wake'[w].child = wake[w].child
    BY <1>4, <2>2
  <2>4. Grows
    BY <1>1, <2>3, WakesRewritten
  <2>5. \A m \in Messages : msg[m] \in MsgRow /\ [msg[m] EXCEPT !.to = None] \in MsgRow
    BY <1>1 DEF StateOK, MsgRow, Parents
  <2>6. msg' \in [Messages -> MsgRow]
    BY <1>4, <2>5
  <2>7. StateOK' /\ BoxOK'
    BY <1>1, <1>2, <2>4, <2>6 DEF StateOK, BoxOK, Grows, MsgRow
  <2>8. DrvOK'
    BY <1>1, <1>2, <1>4, GotoKeeps DEF Drivers
  <2> QED BY <1>1, <1>2, <2>4, <2>7, <2>8, RequestsSame, PartsNext
<1> QED BY <1>3, <1>4 DEF QuiesceQueue

LEMMA QueueQuiescedKeeps ==
  ASSUME Inv, QueueQuiesced
  PROVE  Inv'
<1>1. ReqInv /\ StateOK /\ DrvOK /\ BoxOK
  BY Parts
<1>2. drv.pc = "quiesced" /\ lease # 0 /\ Grows /\ lease' = lease
  BY <1>1, WakeSame DEF QueueQuiesced, sqlite, DrvOK
<1>3. ReqInv'
  BY <1>1, <1>2, StageKeeps DEF QueueQuiesced, FencedStages
<1>4. DrvOK'
  BY <1>1, <1>2, GotoKeeps DEF QueueQuiesced, Drivers
<1>5. StateOK' /\ BoxOK'
  BY <1>1 DEF QueueQuiesced, sqlite, StateOK, BoxOK
<1> QED BY <1>3, <1>4, <1>5, PartsNext

\* What Commit does when it moves the edges
EdgesMove ==
  LET plan == Leased.plan
      to(c) == plan.edges[c].new
  IN  /\ ~Stale(Leased)
      /\ \A c \in DOMAIN plan.edges : parent[c] = plan.edges[c].old
      /\ parent' = Moved(plan.edges)
      /\ jwake' = [c \in Sessions |-> IF c \in plan.jwakes
                     THEN [to |-> IF to(c) = None THEN jwake[c].to ELSE to(c), on |-> to(c) # None]
                     ELSE jwake[c]]
      /\ monitor' = [c \in Sessions |-> IF c \in DOMAIN plan.monitors
                       THEN [to |-> to(c), on |-> to(c) # None /\ plan.monitors[c]]
                       ELSE monitor[c]]
      /\ SetStage("authority_committed")
      /\ UNCHANGED drv

LEMMA CommitCases ==
  ASSUME Commit
  PROVE  /\ At("routing_quiesced") /\ UNCHANGED <<live, lease, wake, msg, mail, box, begun>>
         /\ \/ StartRouting("rollback") /\ UNCHANGED <<parent, req, jwake, monitor>>
            \/ Goto("fail") /\ UNCHANGED <<parent, req, jwake, monitor>>
            \/ EdgesMove
BY DEF Commit, EdgesMove, sqlite

LEMMA CommitKeeps ==
  ASSUME Inv, Commit
  PROVE  Inv'
<1>1. ReqInv /\ StateOK /\ DrvOK /\ BoxOK /\ ReqOK
  BY Parts DEF ReqInv
<1>2. /\ drv.pc = "apply" /\ lease # 0 /\ Grows
      /\ UNCHANGED <<live, lease, wake, msg, mail, box, begun>>
  BY <1>1, CommitCases, WakeSame DEF At, DrvOK
<1>3. BoxOK'
  BY <1>1, <1>2 DEF BoxOK
<1>4. CASE /\ StartRouting("rollback") \/ Goto("fail")
           /\ UNCHANGED <<parent, req, jwake, monitor>>
  <2>1. ReqInv' /\ StateOK'
    BY <1>1, <1>2, <1>4, RequestsSame DEF StateOK
  <2>2. DrvOK'
    BY <1>1, <1>2, <1>4, StartRoutingType, GotoKeeps DEF Drivers, Modes
  <2> QED BY <1>3, <2>1, <2>2, PartsNext
<1>5. CASE EdgesMove
  <2> DEFINE plan == Leased.plan
  <2>1. plan \in Plan
    BY <1>1, <1>2, LeasedType
  <2>2. /\ DOMAIN plan.edges \subseteq Sessions
        /\ \A c \in DOMAIN plan.edges : plan.edges[c].new \in Parents
        /\ plan.jwakes \subseteq DOMAIN plan.edges
        /\ DOMAIN plan.monitors \subseteq DOMAIN plan.edges
        /\ \A c \in DOMAIN plan.monitors : plan.monitors[c] \in BOOLEAN
    BY <2>1, PlanType
  <2> HIDE DEF plan
  <2>3. ReqInv'
    BY <1>1, <1>2, <1>5, StageKeeps DEF EdgesMove, FencedStages
  <2>4. parent' \in [Sessions -> Parents]
    BY <1>1, <1>5, <2>2 DEF EdgesMove, Moved, StateOK, plan
  <2>5. \A c \in Sessions : jwake[c] \in Route /\ jwake[c].to \in Parents /\ monitor[c] \in Route
    BY <1>1 DEF StateOK, Route
  <2>6. jwake' \in [Sessions -> Route]
    <3>1. \A c \in plan.jwakes :
            [to |-> IF plan.edges[c].new = None THEN jwake[c].to ELSE plan.edges[c].new,
             on |-> plan.edges[c].new # None] \in Route
      BY <2>2, <2>5 DEF Route
    <3> QED BY <1>5, <2>5, <3>1 DEF EdgesMove, plan
  <2>7. monitor' \in [Sessions -> Route]
    <3>1. \A c \in DOMAIN plan.monitors :
            [to |-> plan.edges[c].new, on |-> plan.edges[c].new # None /\ plan.monitors[c]] \in Route
      BY <2>2 DEF Route
    <3> QED BY <1>5, <2>5, <3>1 DEF EdgesMove, plan
  <2>8. StateOK' /\ DrvOK'
    BY <1>1, <1>2, <1>5, <2>4, <2>6, <2>7 DEF EdgesMove, StateOK, DrvOK
  <2> QED BY <1>3, <2>3, <2>8, PartsNext
<1> QED BY <1>4, <1>5, CommitCases

LEMMA RetargetKeeps ==
  ASSUME Inv, NEW target \in Parents, Retarget(target)
  PROVE  Inv'
<1>1. ReqInv /\ StateOK /\ DrvOK /\ BoxOK /\ ReqOK
  BY Parts DEF ReqInv
<1>2. /\ drv.pc = "route" /\ lease # 0
      /\ UNCHANGED <<parent, live, req, lease, jwake, monitor, mail, box, begun>>
  BY <1>1 DEF Retarget, registry, DrvOK
<1>3. CASE Goto("fail") /\ UNCHANGED <<wake, msg>>
  <2>1. ReqInv' /\ StateOK' /\ BoxOK'
    BY <1>1, <1>2, <1>3, WakeSame, RequestsSame DEF StateOK, BoxOK
  <2>2. DrvOK'
    BY <1>1, <1>2, <1>3, GotoKeeps DEF Drivers
  <2> QED BY <2>1, <2>2, PartsNext
<1> DEFINE plan == Leased.plan
           in(c) == GroupOf(plan, drv.mode, c) = target
           wakes == {w \in plan.wakes : in(wake[w].child)}
           msgs  == {m \in plan.msgs : in(To[m])}
<1>4. CASE /\ wake' = [w \in DOMAIN wake |-> IF w \in wakes
                         THEN [wake[w] EXCEPT !.to = IF target = None THEN @ ELSE target,
                                              !.on = target # None]
                         ELSE wake[w]]
           /\ msg' = [m \in Messages |-> IF m \in msgs /\ msg[m].state = "queued"
                        THEN [msg[m] EXCEPT !.to = target] ELSE msg[m]]
           /\ drv' = [drv EXCEPT !.todo = @ \ {target},
                        !.got = @ \cup {m \in msgs : msg[m].state = "delivered"}]
  <2>1. plan.msgs \subseteq Messages
    BY <1>1, <1>2, LeasedType, PlanType
  <2>2. msgs \subseteq Messages
    BY <2>1
  <2> HIDE DEF wakes, msgs
  <2>3. wake \in [DOMAIN wake -> Row]
    BY <1>1, LenProperties DEF StateOK
  <2> DEFINE new(w) == [wake[w] EXCEPT !.to = IF target = None THEN @ ELSE target,
                                       !.on = target # None]
  <2>4. \A w \in DOMAIN wake : /\ wake[w] \in Row /\ new(w) \in Row
                               /\ new(w).child = wake[w].child
    <3> SUFFICES ASSUME NEW w \in DOMAIN wake
                 PROVE  wake[w] \in Row /\ new(w) \in Row /\ new(w).child = wake[w].child
      OBVIOUS
    <3>1. wake[w] \in Row /\ (target = None \/ target \in Sessions) /\ (target # None) \in BOOLEAN
      BY <2>3 DEF Parents
    <3> QED BY <3>1 DEF Row
  <2>5. wake' = [w \in DOMAIN wake |-> IF w \in wakes THEN new(w) ELSE wake[w]]
    BY <1>4
  <2> HIDE DEF new
  <2>6. wake' \in [DOMAIN wake -> Row] /\ \A w \in DOMAIN wake : wake'[w].child = wake[w].child
    BY <2>4, <2>5
  <2>7. Grows
    BY <1>1, <2>6, WakesRewritten
  <2>8. \A m \in Messages : msg[m] \in MsgRow /\ [msg[m] EXCEPT !.to = target] \in MsgRow
    BY <1>1 DEF StateOK, MsgRow
  <2>9. msg' \in [Messages -> MsgRow]
    BY <1>4, <2>8
  <2>10. StateOK' /\ BoxOK'
    BY <1>1, <1>2, <2>7, <2>9 DEF StateOK, BoxOK, Grows, MsgRow
  <2>11. DrvOK'
    BY <1>1, <1>2, <1>4, <2>2 DEF DrvOK, Driver
  <2> QED BY <1>1, <1>2, <2>7, <2>10, <2>11, RequestsSame, PartsNext
<1> QED BY <1>3, <1>4 DEF Retarget

LEMMA CollectKeeps ==
  ASSUME Inv, Collect
  PROVE  Inv'
<1>1. ReqInv /\ StateOK /\ DrvOK /\ BoxOK /\ ReqOK
  BY Parts DEF ReqInv
<1>2. /\ drv.pc = "route" /\ lease # 0 /\ Grows
      /\ UNCHANGED <<parent, live, lease, jwake, monitor, wake, msg, mail, box, begun>>
  BY <1>1, WakeSame DEF Collect, sqlite, DrvOK
<1> DEFINE keys == {<<"planned", m>> : m \in drv.got} \ Range(Leased.intents)
<1>3. PICK new \in SetToSeqs(keys) : req' = [req EXCEPT ![lease].intents = @ \o new]
  BY DEF Collect
<1>4. keys \subseteq Keys /\ IsFiniteSet(keys)
  <2>1. drv.got \subseteq Messages /\ IsFiniteSet(drv.got)
    BY <1>1, FS_Subset, ReparentAssumption DEF DrvOK, Driver
  <2>2. IsFiniteSet({<<"planned", m>> : m \in drv.got})
    <3> DEFINE planned == {<<"planned", m>> : m \in drv.got}
               f == [m \in drv.got |-> <<"planned", m>>]
    <3>1. f \in Surjection(drv.got, planned)
      BY DEF Surjection
    <3> QED BY <2>1, <3>1, FS_Surjection
  <2> QED BY <2>1, <2>2, FS_Subset, KeysOf
<1> HIDE DEF keys
<1>5. new \in Seq(Keys)
  <2>1. Cardinality(keys) \in Nat
    BY <1>4, FS_CardinalityType
  <2>2. new \in [1 .. Cardinality(keys) -> keys]
    BY DEF SetToSeqs
  <2>3. new \in [1 .. Cardinality(keys) -> Keys]
    BY <1>4, <2>2
  <2> QED BY <2>1, <2>3, FunctionIsSeq
<1>6. /\ Base(req) /\ lease \in Indices /\ req[lease] \in Request /\ Fenced(req[lease])
      /\ req[lease].stage \in FencedStages \cup {"applying"}
  BY <1>1, <1>2, Bases, LeasedType DEF ReqInv, Leased, Planned
<1> DEFINE r == [req[lease] EXCEPT !.intents = @ \o new]
<1>7. r \in Request
  BY <1>5, <1>6, ConcatProperties DEF Request
<1>8. /\ Keeps(req[lease], r) /\ r.plan = req[lease].plan
      /\ r.stage = req[lease].stage /\ (Fenced(r) <=> Fenced(req[lease]))
  BY <1>6 DEF Request, Keeps, Fenced
<1>9. req' = [req EXCEPT ![lease] = r]
  BY <1>3
<1> HIDE DEF r
<1>10. ReqInv'
  BY <1>1, <1>2, <1>6, <1>7, <1>8, <1>9, RequestReplaced
<1>11. DrvOK'
  <2>1. Goto("replay") \/ Goto("restore")
    BY DEF Collect
  <2> QED BY <1>1, <1>2, <2>1, GotoKeeps DEF Drivers
<1>12. StateOK' /\ BoxOK'
  BY <1>1, <1>2 DEF StateOK, BoxOK
<1> QED BY <1>10, <1>11, <1>12, PartsNext

LEMMA RestoreJsonKeeps ==
  ASSUME Inv, RestoreJson
  PROVE  Inv'
<1>1. ReqInv /\ StateOK /\ DrvOK /\ BoxOK /\ ReqOK
  BY Parts DEF ReqInv
<1>2. /\ drv.pc = "restore" /\ lease # 0 /\ Grows
      /\ UNCHANGED <<parent, live, req, lease, wake, msg, mail, box, begun>>
  BY <1>1, WakeSame DEF RestoreJson, sqlite, DrvOK
<1>3. ReqInv' /\ BoxOK'
  BY <1>1, <1>2, RequestsSame DEF BoxOK
<1>4. CASE Goto("fail") /\ UNCHANGED <<jwake, monitor>>
  <2>1. StateOK' /\ DrvOK'
    BY <1>1, <1>2, <1>4, GotoKeeps DEF StateOK, Drivers
  <2> QED BY <1>3, <2>1, PartsNext
<1> DEFINE plan == Leased.plan
<1>5. CASE /\ jwake' = [c \in Sessions |-> IF c \in plan.jwakes
                          THEN [to |-> plan.edges[c].old, on |-> TRUE] ELSE jwake[c]]
           /\ monitor' = [c \in Sessions |-> IF c \in DOMAIN plan.monitors
                            THEN [to |-> plan.edges[c].old, on |-> plan.monitors[c]] ELSE monitor[c]]
           /\ drv' = [drv EXCEPT !.pc = "replay", !.redo = TRUE]
  <2>1. /\ \A c \in plan.jwakes : plan.edges[c].old \in Parents
        /\ \A c \in DOMAIN plan.monitors : plan.edges[c].old \in Parents /\ plan.monitors[c] \in BOOLEAN
    <3>1. plan \in Plan
      BY <1>1, <1>2, LeasedType
    <3> QED BY <3>1, PlanType
  <2> HIDE DEF plan
  <2>2. jwake' \in [Sessions -> Route] /\ monitor' \in [Sessions -> Route]
    BY <1>1, <1>5, <2>1 DEF StateOK, Route
  <2>3. StateOK'
    BY <1>1, <1>2, <2>2 DEF StateOK
  <2>4. DrvOK'
    BY <1>1, <1>2, <1>5 DEF DrvOK, Driver, Drivers
  <2> QED BY <1>3, <2>3, <2>4, PartsNext
<1> QED BY <1>4, <1>5 DEF RestoreJson

-----------------------------------------------------------------------------
(* Replays and the ends of the transaction *)

\* The driver begins anew for the lease it has.
LEMMA RestartKeeps ==
  ASSUME ReqInv, StateOK, BoxOK, lease # 0,
         UNCHANGED <<parent, live, req, lease, jwake, monitor, wake, msg, mail, box, begun>>
  PROVE  ReqInv' /\ StateOK' /\ BoxOK' /\ lease' # 0
BY WakeSame, RequestsSame DEF StateOK, BoxOK

LEMMA ReplayPickKeeps ==
  ASSUME Inv, ReplayPick
  PROVE  Inv'
<1>1. ReqInv /\ StateOK /\ DrvOK /\ BoxOK /\ ReqOK
  BY Parts DEF ReqInv
<1>2. /\ drv.pc = "replay" /\ lease # 0
      /\ UNCHANGED <<parent, live, req, lease, jwake, monitor, wake, msg, mail, box, begun>>
  BY <1>1 DEF ReplayPick, registry, sqlite, DrvOK
<1>3. PICK n \in ToReplay : drv' = [drv EXCEPT !.pc = "act", !.key = Leased.intents[n]]
  BY DEF ReplayPick
<1>4. Leased.intents[n] \in Keys
  <2>1. Leased.intents \in Seq(Keys)
    BY <1>1, <1>2, LeasedType DEF Request
  <2>2. n \in DOMAIN Leased.intents
    BY DEF ToReplay
  <2> QED BY <2>1, <2>2, LenProperties
<1>5. DrvOK'
  BY <1>1, <1>2, <1>3, <1>4 DEF DrvOK, Driver, Drivers
<1> QED BY <1>1, <1>2, <1>5, RestartKeeps, PartsNext

LEMMA ReplayKeeps ==
  ASSUME Inv, Replay
  PROVE  Inv'
<1>1. ReqInv /\ StateOK /\ DrvOK /\ BoxOK /\ ReqOK
  BY Parts DEF ReqInv
<1>2. /\ drv.pc = "act" /\ lease # 0 /\ drv.key \in Keys
      /\ UNCHANGED <<parent, live, lease, jwake, monitor, box, begun>>
  BY <1>1 DEF Replay, DrvOK
<1> DEFINE k == drv.key
           c == Child(k)
           p == parent[c]
<1>3. c \in Sessions /\ p \in Parents /\ (p # None => p \in Sessions)
  BY <1>1, <1>2, KeyChild DEF StateOK, Parents
<1>4. Grows
  <2>1. \/ wake' = Registered(wake, c, p) /\ p # None
        \/ wake' = Cancelled(wake, c)
        \/ wake' = wake
    BY DEF Replay
  <2>2. wake \in Seq(Row)
    BY <1>1 DEF StateOK
  <2> HIDE DEF c, p
  <2>3. CASE wake' = Registered(wake, c, p) /\ p # None
    BY <1>3, <2>2, <2>3, RegisteredType DEF Grows
  <2>4. CASE wake' = Cancelled(wake, c)
    BY <1>3, <2>2, <2>4, CancelledType DEF Grows
  <2> QED BY <1>1, <2>1, <2>3, <2>4, WakeSame
<1>5. mail' \in [Keys -> Parents]
  <2>1. mail' = mail \/ mail' = [mail EXCEPT ![k] = p]
    BY DEF Replay
  <2>2. mail \in [Keys -> Parents]
    BY <1>1 DEF StateOK
  <2> HIDE DEF k, p
  <2> QED BY <1>3, <2>1, <2>2
<1>6. msg' \in [Messages -> MsgRow]
  <2>1. msg' = msg \/ (k[1] = "input" /\ msg' = [msg EXCEPT ![k[2]] = [state |-> "queued", to |-> p]])
    BY DEF Replay
  <2>2. msg \in [Messages -> MsgRow] /\ [state |-> "queued", to |-> p] \in MsgRow
    BY <1>1, <1>3 DEF StateOK, MsgRow
  <2> HIDE DEF k, p
  <2> QED BY <2>1, <2>2
<1>7. StateOK' /\ BoxOK'
  BY <1>1, <1>2, <1>4, <1>5, <1>6 DEF StateOK, BoxOK, Grows, MsgRow
<1>8. DrvOK'
  <2>1. Goto("fail") \/ Goto("note")
    BY DEF Replay
  <2>2. CASE Goto("note")
    BY <1>1, <1>2, <2>2 DEF DrvOK, Goto, Driver, Drivers
  <2> QED BY <1>1, <1>2, <2>1, <2>2, GotoKeeps DEF Drivers
<1>9. ReqInv'
  <2> DEFINE r == [req[lease] EXCEPT !.early = @ \cup {k}]
  <2>1. /\ Base(req) /\ lease \in Indices /\ req[lease] \in Request /\ Fenced(req[lease])
        /\ req[lease].stage \in FencedStages \cup {"applying"}
    BY <1>1, <1>2, Bases, LeasedType DEF ReqInv, Leased, Planned
  <2>2. /\ r \in Request /\ Keeps(req[lease], r) /\ r.plan = req[lease].plan
        /\ r.stage = req[lease].stage /\ (Fenced(r) <=> Fenced(req[lease]))
    BY <1>2, <2>1 DEF Request, Keeps, Fenced
  <2>3. req' = req \/ req' = [req EXCEPT ![lease] = r]
    BY DEF Replay
  <2> HIDE DEF r
  <2>4. CASE req' = [req EXCEPT ![lease] = r]
    BY <1>1, <1>2, <1>4, <2>1, <2>2, <2>4, RequestReplaced
  <2> QED BY <1>1, <1>2, <1>4, <2>3, <2>4, RequestsSame
<1> QED BY <1>7, <1>8, <1>9, PartsNext

LEMMA ReplayNotedKeeps ==
  ASSUME Inv, ReplayNoted
  PROVE  Inv'
<1>1. ReqInv /\ StateOK /\ DrvOK /\ BoxOK /\ ReqOK
  BY Parts DEF ReqInv
<1>2. /\ drv.pc = "note" /\ lease # 0 /\ drv.key \in Keys /\ Grows
      /\ UNCHANGED <<parent, live, lease, monitor, wake, msg, mail, box, begun>>
  BY <1>1, WakeSame DEF ReplayNoted, sqlite, DrvOK
<1> DEFINE k == drv.key
           c == Child(k)
           p == parent[c]
           r == [req[lease] EXCEPT !.done = @ \cup {k}]
<1>3. c \in Sessions /\ p \in Parents
  BY <1>1, <1>2, KeyChild DEF StateOK
<1>4. /\ Base(req) /\ lease \in Indices /\ req[lease] \in Request /\ Fenced(req[lease])
      /\ req[lease].stage \in FencedStages \cup {"applying"}
  BY <1>1, <1>2, Bases, LeasedType DEF ReqInv, Leased, Planned
<1>5. /\ r \in Request /\ Keeps(req[lease], r) /\ r.plan = req[lease].plan
      /\ r.stage = req[lease].stage /\ (Fenced(r) <=> Fenced(req[lease]))
  BY <1>2, <1>4 DEF Request, Keeps, Fenced
<1>6. req' = [req EXCEPT ![lease] = r]
  BY DEF ReplayNoted
<1>7. jwake' \in {jwake, [jwake EXCEPT ![c] = [to |-> p, on |-> TRUE]], [jwake EXCEPT ![c].on = FALSE]}
  BY DEF ReplayNoted
<1>8. drv' = [drv EXCEPT !.pc = "replay", !.again = @ \cup {k}]
  BY DEF ReplayNoted
<1>9. DrvOK'
  BY <1>1, <1>2, <1>8 DEF DrvOK, Driver, Drivers
<1> HIDE DEF r, c, p, k
<1>10. ReqInv'
  BY <1>1, <1>2, <1>4, <1>5, <1>6, RequestReplaced
<1>11. jwake' \in [Sessions -> Route]
  <2>1. /\ jwake \in [Sessions -> Route] /\ [to |-> p, on |-> TRUE] \in Route
        /\ [jwake[c] EXCEPT !.on = FALSE] \in Route
    BY <1>1, <1>3 DEF StateOK, Route
  <2>2. [jwake EXCEPT ![c].on = FALSE] = [jwake EXCEPT ![c] = [jwake[c] EXCEPT !.on = FALSE]]
    OBVIOUS
  <2> QED BY <1>3, <1>7, <2>1, <2>2
<1>12. StateOK' /\ BoxOK'
  BY <1>1, <1>2, <1>11 DEF StateOK, BoxOK
<1> QED BY <1>9, <1>10, <1>12, PartsNext

LEMMA ReleaseKeeps ==
  ASSUME Inv, Release
  PROVE  Inv'
<1>1. ReqInv /\ StateOK /\ DrvOK /\ BoxOK /\ ReqOK
  BY Parts DEF ReqInv
<1>2. /\ drv.pc = "final" /\ lease # 0 /\ Grows
      /\ UNCHANGED <<parent, live, jwake, monitor, wake, msg, mail, box, begun>>
  BY <1>1, WakeSame DEF Release, sqlite, DrvOK
<1>3. StateOK' /\ BoxOK'
  BY <1>1, <1>2 DEF StateOK, BoxOK
<1>4. CASE drv' = [drv EXCEPT !.pc = "replay", !.redo = FALSE] /\ UNCHANGED <<req, lease>>
  <2>1. DrvOK'
    BY <1>1, <1>2, <1>4 DEF DrvOK, Driver, Drivers
  <2> QED BY <1>1, <1>2, <1>3, <1>4, <2>1, RequestsSame, PartsNext
<1> DEFINE r == [req[lease] EXCEPT !.status = Outcome(drv.mode)[1], !.stage = Outcome(drv.mode)[2]]
<1>5. CASE /\ req' = [req EXCEPT ![lease].status = Outcome(drv.mode)[1],
                                 ![lease].stage = Outcome(drv.mode)[2]]
           /\ lease' = 0
           /\ drv' = Idle
  <2>1. req' = [req EXCEPT ![lease] = r]
    BY <1>1, <1>2, <1>5, LeasedType, LenProperties DEF ReqOK
  <2>2. lease \in Indices /\ req[lease] \in Request /\ Len(req) \in Nat
    BY <1>1, <1>2, LeasedType DEF Leased
  <2>3. /\ Outcome(drv.mode)[1] \in {"applied", "stale", "repaired"}
        /\ Outcome(drv.mode)[2] \in {"applied", "prequiesce_aborted", "repair_rolled_back"}
    BY DEF Outcome
  <2>4. r \in Request /\ Keeps(req[lease], r) /\ r.plan = req[lease].plan /\ ~Fenced(r)
    BY <2>2, <2>3 DEF Request, Keeps, Fenced, Statuses, Released, Stages
  <2> HIDE DEF r
  <2>5. /\ req' \in Seq(Request) /\ Len(req') = Len(req)
        /\ \A j \in Indices : req'[j] = IF j = lease THEN r ELSE req[j]
    BY <1>1, <2>1, <2>2, <2>4, ExceptSeq DEF ReqOK, Indices
  <2>6. ReqOK'
    <3>1. OneApplies'
      BY <1>1, <1>5, <2>2, <2>4, <2>5 DEF ReqOK, OneApplies, Indices
    <3> QED BY <1>1, <1>5, <2>2, <2>5, <3>1 DEF ReqOK
  <2>7. \A j \in Indices : Keeps(req[j], req'[j]) /\ req'[j].plan = req[j].plan
    BY <2>4, <2>5 DEF Keeps
  <2>8. Indices' = Indices /\ Len(req) <= Len(req')
    BY <2>2, <2>5 DEF Indices
  <2>9. ReqInv'
    BY <1>1, <1>2, <1>5, <2>6, <2>7, <2>8, RequestsKept
  <2>10. DrvOK'
    BY <1>5, IdleType DEF DrvOK, Idle
  <2> QED BY <1>3, <2>9, <2>10, PartsNext
<1> QED BY <1>4, <1>5 DEF Release

LEMMA FailKeeps ==
  ASSUME Inv, Fail
  PROVE  Inv'
<1>1. ReqInv /\ StateOK /\ DrvOK /\ BoxOK /\ ReqOK
  BY Parts DEF ReqInv
<1>2. /\ drv.pc = "fail" /\ lease # 0 /\ Grows
      /\ UNCHANGED <<parent, live, lease, jwake, monitor, wake, msg, mail, box, begun>>
  BY <1>1, WakeSame DEF Fail, sqlite, DrvOK
<1> DEFINE early == Leased.stage = "applying"
           r == [req[lease] EXCEPT !.status = "failed",
                                   !.stage = IF early THEN "prequiesce_aborting" ELSE @]
<1>3. /\ Base(req) /\ lease \in Indices /\ req[lease] \in Request /\ Fenced(req[lease])
      /\ req[lease].stage \in FencedStages \cup {"applying"}
  BY <1>1, <1>2, Bases, LeasedType DEF ReqInv, Leased, Planned
<1>4. /\ r \in Request /\ Keeps(req[lease], r) /\ r.plan = req[lease].plan
      /\ r.stage \in FencedStages /\ Fenced(r)
  BY <1>3 DEF Request, Keeps, Fenced, Leased, Statuses, Stages, FencedStages
<1>5. req' = [req EXCEPT ![lease] = r]
  BY <1>1, <1>2, <1>3, LenProperties DEF Fail, ReqOK
<1> HIDE DEF r
<1>6. ReqInv'
  BY <1>1, <1>2, <1>3, <1>4, <1>5, RequestReplaced
<1>7. DrvOK'
  <2>1. drv' \in {Idle, [Idle EXCEPT !.pc = "replay", !.mode = "abort", !.redo = TRUE]}
    BY DEF Fail
  <2>2. CASE drv' = Idle
    BY <2>2, IdleType DEF DrvOK, Idle
  <2>3. CASE drv' = [Idle EXCEPT !.pc = "replay", !.mode = "abort", !.redo = TRUE]
    BY <1>2, <2>3, AbortingType DEF DrvOK
  <2> QED BY <2>1, <2>2, <2>3
<1>8. StateOK' /\ BoxOK'
  BY <1>1, <1>2 DEF StateOK, BoxOK
<1> QED BY <1>6, <1>7, <1>8, PartsNext

LEMMA DriveKeeps ==
  ASSUME Inv, Drive
  PROVE  Inv'
<1>1. ReqInv /\ StateOK /\ DrvOK /\ BoxOK /\ ReqOK
  BY Parts DEF ReqInv
<1>2. CASE FinishRouting
  <2>1. lease # 0
    BY <1>1, <1>2 DEF FinishRouting, At, DrvOK
  <2>2. ReqInv' /\ StateOK' /\ BoxOK'
    BY <1>1, <1>2, <2>1, RestartKeeps DEF FinishRouting, registry, sqlite
  <2>3. DrvOK'
    BY <1>1, <1>2, <2>1, StartRoutingType DEF FinishRouting, Modes, registry
  <2> QED BY <2>2, <2>3, PartsNext
<1>3. CASE AbortResume
  <2>1. lease # 0
    BY <1>1, <1>3 DEF AbortResume, At, DrvOK
  <2>2. ReqInv' /\ StateOK' /\ BoxOK' /\ lease' # 0
    BY <1>1, <1>3, <2>1, RestartKeeps DEF AbortResume, registry, sqlite
  <2>3. DrvOK'
    <3>1. drv' = [Idle EXCEPT !.pc = "replay", !.mode = "abort", !.redo = TRUE]
      BY <1>3 DEF AbortResume
    <3> QED BY <2>2, <3>1, AbortingType DEF DrvOK
  <2> QED BY <2>2, <2>3, PartsNext
<1>4. CASE ReplayEnds
  <2>1. lease # 0 /\ drv.pc = "replay" /\ Goto("final")
    BY <1>1, <1>4 DEF ReplayEnds, DrvOK
  <2>2. ReqInv' /\ StateOK' /\ BoxOK'
    BY <1>1, <1>4, <2>1, RestartKeeps DEF ReplayEnds, registry, sqlite
  <2>3. DrvOK'
    BY <1>1, <1>4, <2>1, GotoKeeps DEF ReplayEnds, registry, Drivers
  <2> QED BY <2>2, <2>3, PartsNext
<1> QED BY <1>2, <1>3, <1>4, QuiesceJsonKeeps, QuiesceQueueKeeps, QueueQuiescedKeeps, CommitKeeps,
           RetargetKeeps, CollectKeeps, RestoreJsonKeeps, ReplayPickKeeps, ReplayKeeps,
           ReplayNotedKeeps, ReleaseKeeps, FailKeeps DEF Drive

LEMMA RepairKeeps ==
  ASSUME Inv, Repair
  PROVE  Inv'
<1>1. ReqInv /\ StateOK /\ DrvOK /\ BoxOK /\ ReqOK
  BY Parts DEF ReqInv
<1>2. CASE RepairResume
  <2>1. /\ lease # 0 /\ Grows
        /\ UNCHANGED <<parent, live, lease, jwake, monitor, wake, msg, mail, box, begun>>
    BY <1>1, <1>2, WakeSame DEF RepairResume, sqlite
  <2> DEFINE r == [req[lease] EXCEPT !.status = "applying"]
  <2>2. /\ Base(req) /\ lease \in Indices /\ req[lease] \in Request /\ Fenced(req[lease])
        /\ req[lease].stage \in FencedStages \cup {"applying"}
    BY <1>1, <2>1, Bases, LeasedType DEF ReqInv, Leased, Planned
  <2>3. /\ r \in Request /\ Keeps(req[lease], r) /\ r.plan = req[lease].plan
        /\ r.stage = req[lease].stage /\ Fenced(r)
    BY <2>2 DEF Request, Keeps, Fenced, Statuses
  <2>4. req' = [req EXCEPT ![lease] = r]
    BY <1>2 DEF RepairResume
  <2> HIDE DEF r
  <2>5. ReqInv'
    BY <1>1, <2>1, <2>2, <2>3, <2>4, RequestReplaced
  <2>6. StateOK' /\ BoxOK'
    BY <1>1, <2>1 DEF StateOK, BoxOK
  <2>7. DrvOK'
    BY <1>2, <2>1, IdleType DEF RepairResume, DrvOK, Drivers
  <2> QED BY <2>5, <2>6, <2>7, PartsNext
<1>3. CASE RepairRollback
  <2>1. lease # 0
    BY <1>3 DEF RepairRollback
  <2>2. ReqInv' /\ StateOK' /\ BoxOK'
    BY <1>1, <1>3, <2>1, RestartKeeps DEF RepairRollback, registry, sqlite
  <2>3. DrvOK'
    BY <1>1, <1>3, <2>1, StartRoutingType DEF RepairRollback, Modes, registry
  <2> QED BY <2>2, <2>3, PartsNext
<1> QED BY <1>2, <1>3 DEF Repair

LEMMA QueueFailsKeeps ==
  ASSUME Inv, QueueFails
  PROVE  Inv'
<1>1. ReqInv /\ StateOK /\ DrvOK /\ BoxOK
  BY Parts
<1>2. drv.pc # "idle" /\ lease # 0 /\ Goto("fail")
  BY <1>1 DEF QueueFails, DrvOK
<1>3. ReqInv' /\ StateOK' /\ BoxOK'
  BY <1>1, <1>2, RestartKeeps DEF QueueFails, registry, sqlite
<1>4. DrvOK'
  BY <1>1, <1>2, GotoKeeps DEF QueueFails, registry, Drivers
<1> QED BY <1>3, <1>4, PartsNext

LEMMA CrashKeeps ==
  ASSUME Inv, Crash
  PROVE  Inv'
<1>1. ReqInv /\ StateOK
  BY Parts
<1>2. ReqInv' /\ StateOK'
  BY <1>1, WakeSame, RequestsSame DEF Crash, registry, sqlite, StateOK
<1>3. DrvOK'
  BY IdleType DEF Crash, DrvOK, Idle
<1>4. BoxOK'
  BY NoBoxType DEF Crash, BoxOK, NoBox
<1> QED BY <1>2, <1>3, <1>4, PartsNext

-----------------------------------------------------------------------------
(* The invariant *)

LEMMA InitInv == Init => Inv
<1> SUFFICES ASSUME Init PROVE Inv
  OBVIOUS
<1>1. ReqInv
  <2>1. req = <<>> /\ lease = 0 /\ Len(req) = 0 /\ req \in Seq(Request) /\ Indices = {}
    BY EmptySeq DEF Init, Indices
  <2> QED BY <2>1, ReparentAssumption DEF ReqInv, ReqOK, OneApplies, AllAsked, Planned
<1>2. StateOK
  <2>1. NoRoute \in Route /\ \A s \in Sessions : [to |-> Parent0[s], on |-> TRUE] \in Route
    BY ReparentAssumption DEF NoRoute, Route, Parents
  <2>2. jwake \in [Sessions -> Route] /\ monitor \in [Sessions -> Route]
    BY <2>1 DEF Init
  <2>3. /\ wake \in Seq(Row)
        /\ msg \in [Messages -> [state: {"absent", "queued", "delivered"}, to: Parents]]
        /\ mail \in [Keys -> Parents]
    BY EmptySeq DEF Init, Parents
  <2> QED BY <2>2, <2>3, ReparentAssumption DEF Init, StateOK
<1>3. DrvOK /\ BoxOK
  BY IdleType, NoBoxType DEF Init, DrvOK, BoxOK, Idle, NoBox
<1> QED BY <1>1, <1>2, <1>3, Parts

LEMMA NextInv ==
  ASSUME Inv, [Next]_vars
  PROVE  Inv'
<1>1. CASE UNCHANGED vars
  <2>1. ReqInv /\ StateOK /\ DrvOK /\ BoxOK
    BY Parts
  <2>2. ReqInv' /\ StateOK'
    BY <1>1, <2>1, WakeSame, RequestsSame DEF vars, StateOK
  <2>3. DrvOK' /\ BoxOK'
    BY <1>1, <2>1 DEF vars, DrvOK, BoxOK
  <2> QED BY <2>2, <2>3, PartsNext
<1> QED BY <1>1, ConsentKeeps, TrafficKeeps, DeliveryKeeps, AcquireKeeps, DriveKeeps, RepairKeeps,
           QueueFailsKeeps, CrashKeeps DEF Next

LEMMA Invariance == Spec => []Inv
BY InitInv, NextInv, PTL DEF Spec

\* Every variable keeps its type, the driver works for a lease only, and exactly
\* the request that has the lease of the registry is being applied, through crashes,
\* failures, aborts, repairs and rollbacks.
THEOREM TypeCorrect == Spec => []TypeOK
<1>1. Inv => TypeOK
  BY DEF Inv
<1> QED BY <1>1, Invariance, PTL

-----------------------------------------------------------------------------
(* The hierarchy *)

\* Only a commit moves an edge.
LEMMA OnlyCommitMoves ==
  ASSUME Inv, [Next]_vars
  PROVE  UNCHANGED parent \/ (lease # 0 /\ EdgesMove)
<1>1. CASE Commit
  <2>1. lease # 0
    BY <1>1, Parts, CommitCases DEF At, DrvOK
  <2> QED BY <1>1, <2>1, CommitCases
<1>2. CASE Consent \/ Traffic \/ Delivery \/ Acquire \/ Repair \/ QueueFails \/ Crash
  BY <1>2 DEF Consent, CreateRequest, Decide, Expire, Traffic, Stop, Restore, TaskComplete,
              NotifyParent, SendInput, Deliver, Delivery, DeliverMark, DeliverEnd, CompleteTell,
              CompleteEnd, Acquire, AcquireResume, AcquireNew, AcquireNone, Repair, RepairResume,
              RepairRollback, QueueFails, Crash, registry
<1>3. CASE Drive /\ ~Commit
  BY <1>3 DEF Drive, QuiesceJson, QuiesceQueue, QueueQuiesced, FinishRouting, Retarget, Collect,
              RestoreJson, AbortResume, ReplayPick, Replay, ReplayNoted, ReplayEnds, Release, Fail,
              registry
<1> QED BY <1>1, <1>2, <1>3 DEF Next, vars

\* A forest stays one when a session moves below another whose walk to the root
\* does not meet it: a set without a way out would hold the moved session, and
\* then its part on that walk would have had no way out before.
LEMMA MoveBelow ==
  ASSUME StateOK, Acyclic(parent), NEW s \in Sessions, NEW t \in Sessions, ~WalkMeets(t, s),
         NEW p \in [Sessions -> Parents], p[s] = t, \A x \in Sessions \ {s} : p[x] = parent[x]
  PROVE  Acyclic(p)
<1>1. PICK A \in SUBSET Sessions :
        t \in A /\ s \notin A /\ \A x \in A : parent[x] \in A \cup {None}
  BY DEF WalkMeets
<1> SUFFICES ASSUME NEW C \in SUBSET Sessions, C # {}, \A x \in C : p[x] \in C
             PROVE  FALSE
  BY DEF Acyclic
<1>2. s \in C
  <2> SUFFICES ASSUME s \notin C PROVE FALSE
    OBVIOUS
  <2>1. \A x \in C : parent[x] \in C
    OBVIOUS
  <2> QED BY <2>1 DEF Acyclic
<1>3. t \in C \cap A
  BY <1>1, <1>2
<1>4. \A x \in C \cap A : parent[x] \in C \cap A
  <2> SUFFICES ASSUME NEW x \in C \cap A PROVE parent[x] \in C \cap A
    OBVIOUS
  <2>1. x # s /\ p[x] = parent[x] /\ parent[x] \in C
    BY <1>1
  <2>2. parent[x] # None
    BY <2>1, ReparentAssumption DEF Actors
  <2> QED BY <1>1, <2>1, <2>2
<1>5. C \cap A \in SUBSET Sessions /\ C \cap A # {}
  BY <1>3
<1> QED BY <1>4, <1>5 DEF Acyclic

LEMMA MovedAcyclic ==
  ASSUME Inv, NoCycle, lease # 0, EdgesMove
  PROVE  NoCycle'
<1>1. ReqInv /\ StateOK /\ ReqOK
  BY Parts DEF ReqInv
<1> DEFINE q == Leased
<1>2. /\ q \in Request /\ lease \in Indices /\ q.plan.edges = Edges(q) /\ Asked(q)
  BY <1>1, LeasedType DEF ReqInv, Planned, AllAsked, Leased
<1>3. ~MakesCycle(q) /\ parent' = Moved(Edges(q))
  BY <1>2 DEF EdgesMove, Stale
<1>4. CASE q.kind # "single"
  BY <1>3, <1>4 DEF MakesCycle, NoCycle
<1>5. CASE q.kind = "single"
  <2>1. ~WalkMeets(q.target, q.subject) /\ q.frozen = {}
    BY <1>2, <1>3, <1>5 DEF MakesCycle, Asked
  <2>2. DOMAIN Edges(q) = {q.subject} /\ Edges(q)[q.subject].new = q.target
    BY <1>2, <2>1, EdgesType DEF Edges, Move
  <2>3. q.subject \in Sessions /\ q.target \in Sessions /\ parent \in [Sessions -> Parents]
    BY <1>1, <1>2 DEF Request, StateOK
  <2> HIDE DEF q
  <2>4. /\ parent' \in [Sessions -> Parents] /\ parent'[q.subject] = q.target
        /\ \A x \in Sessions \ {q.subject} : parent'[x] = parent[x]
    BY <1>3, <2>2, <2>3 DEF Moved, Parents
  <2> QED BY <1>1, <2>1, <2>3, <2>4, MoveBelow DEF NoCycle
<1> QED BY <1>4, <1>5

\* The hierarchy is a forest in every reachable state: however many requests are
\* pending and whoever approves them in which order, no commit closes a cycle.
THEOREM HierarchyIsForest == Spec => []NoCycle
<1>1. Init => NoCycle
  BY ReparentAssumption DEF Init, NoCycle
<1>2. Inv /\ NoCycle /\ [Next]_vars => NoCycle'
  <2> SUFFICES ASSUME Inv, NoCycle, [Next]_vars PROVE NoCycle'
    OBVIOUS
  <2>1. CASE UNCHANGED parent
    BY <2>1 DEF NoCycle, Acyclic
  <2>2. CASE lease # 0 /\ EdgesMove
    BY <2>2, MovedAcyclic
  <2> QED BY <2>1, <2>2, OnlyCommitMoves
<1> QED BY <1>1, <1>2, Invariance, PTL DEF Spec

-----------------------------------------------------------------------------
(* Consent *)

LEMMA MovedConsent ==
  ASSUME Inv, lease # 0, EdgesMove, NEW s \in Sessions, parent'[s] # parent[s]
  PROVE  /\ parent'[s] \in Leased.yes \cup {None}
         /\ IF IsLive(parent[s]) THEN parent[s] \in Leased.yes
            ELSE Leased.kind = "single" => Human \in Leased.yes
<1>1. ReqInv /\ StateOK /\ ReqOK
  BY Parts DEF ReqInv
<1> DEFINE q == Leased
<1>2. /\ q \in Request /\ lease \in Indices /\ q.plan.edges = Edges(q) /\ Asked(q)
      /\ q.need \subseteq q.yes
  BY <1>1, LeasedType DEF ReqInv, Planned, AllAsked, Leased, Ready
<1>3. /\ IsLive(q.subject) /\ IsLive(q.parent) = q.plive /\ parent' = Moved(Edges(q))
      /\ \A c \in DOMAIN Edges(q) : parent[c] = Edges(q)[c].old
  BY <1>2 DEF EdgesMove, Stale
<1>4. DOMAIN Edges(q) = {q.subject} \cup q.frozen
  BY <1>2, EdgesType
<1>5. s \in DOMAIN Edges(q) /\ parent'[s] = Edges(q)[s].new /\ parent[s] = Edges(q)[s].old
  BY <1>3 DEF Moved
<1>6. /\ q.target \in q.yes /\ (q.plive => q.parent \in q.yes) /\ q.plive \in BOOLEAN
      /\ q.kind = "single" => q.frozen = {} /\ (q.plive \/ Human \in q.yes)
      /\ q.kind # "single" => q.subject \in q.yes
  BY <1>2 DEF Asked, Request
<1> HIDE DEF q
<1>7. CASE s = q.subject
  <2>1. Edges(q)[s] = Move(q.parent, q.target)
    BY <1>4, <1>7 DEF Edges
  <2> QED BY <1>3, <1>5, <1>6, <2>1 DEF Move, q
<1>8. CASE s # q.subject
  <2>1. q.kind # "single"
    BY <1>4, <1>5, <1>6, <1>8
  <2>2. CASE s = q.target
    <3>1. Edges(q)[s] = Move(q.subject, IF q.plive THEN q.parent ELSE None)
      BY <1>4, <1>5, <1>8, <2>2 DEF Edges
    <3> QED BY <1>3, <1>5, <1>6, <2>1, <3>1 DEF Move, q
  <2>3. CASE s # q.target
    <3>1. Edges(q)[s] = Move(q.subject, q.target)
      BY <1>4, <1>5, <1>8, <2>3 DEF Edges
    <3> QED BY <1>3, <1>5, <1>6, <2>1, <3>1 DEF Move, q
  <2> QED BY <2>2, <2>3
<1> QED BY <1>7, <1>8

\* No commit moves an edge without the consent of the session that gets the child
\* and of the live session that loses it, or of the operator when a single move
\* leaves no live one.
THEOREM EdgesNeedConsent == Spec => MovesHaveConsent
<1>1. Inv /\ [Next]_vars =>
        [\A s \in Sessions : parent'[s] # parent[s] =>
           LET q == req[lease]
           IN  /\ parent'[s] \in q.yes \cup {None}
               /\ IF IsLive(parent[s]) THEN parent[s] \in q.yes
                  ELSE q.kind = "single" => Human \in q.yes]_vars
  BY OnlyCommitMoves, MovedConsent DEF Leased
<1> QED BY <1>1, Invariance, PTL DEF Spec, MovesHaveConsent
=============================================================================
