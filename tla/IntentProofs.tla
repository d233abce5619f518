---------------------------- MODULE IntentProofs ----------------------------
(***************************************************************************)
(* What a transaction deferred: ReleaseSettlesIntents and WakeNotLost, for *)
(* every set of sessions and messages, every number of requests, crashes   *)
(* and failures.                                                           *)
(***************************************************************************)
EXTENDS RoutingProofs

Posts == {"complete", "message"}

-----------------------------------------------------------------------------
(* Intents that have taken effect *)

\* k has taken effect, for the parent that its session has; what was replayed before a
\* commit stays as it is.
Settled(k) ==
  /\ k[1] \in Posts => mail[k] = parent[k[2]] \/ (Crossed /\ k \in Leased.early)
  /\ k[1] = "input" => msg[k[2]].state # "absent"
  /\ Before => k \in Leased.early

Within == \A i \in Indices : req[i].done \subseteq Range(req[i].intents)

\* Intents that are noted as replayed, or whose message is there, are settled.
Effects ==
  lease # 0 => \A k \in Range(Leased.intents) :
    (k \in Leased.done \/ (k[1] \in Posts /\ mail[k] # None)) => Settled(k)
NoteEffects == drv.pc = "note" => Settled(drv.key)

\* A completion outside a fence is not deferred by one.
BoxTells == box.c # None => ~Deferred(<<"complete", box.c>>)

SInv == Within /\ Effects /\ NoteEffects /\ BoxTells

LEMMA IntentKeys ==
  ASSUME Inv, NEW i \in Indices
  PROVE  Range(req[i].intents) \subseteq Keys
<1>1. req[i].intents \in Seq(Keys)
  BY InvMeans DEF Request
<1> QED BY <1>1, ElementOfSeq, LenProperties DEF Range

LEMMA SettledStays ==
  ASSUME NEW k \in Keys, Settled(k), lease # 0, UNCHANGED <<parent, lease>>,
         Crossed' <=> Crossed, Leased.early \subseteq Leased'.early,
         k[1] \in Posts => mail'[k] = mail[k],
         \A m \in Messages : msg[m].state # "absent" => msg'[m].state # "absent"
  PROVE  Settled(k)'
<1>1. k[1] = "input" => k[2] \in Messages
  BY KeyChild
<1>2. Before' <=> Before
  BY DEF Before, Crossed
<1> QED BY <1>1, <1>2 DEF Settled

\* A step that neither defers nor notes a replay
LEMMA SettleKept ==
  ASSUME Inv, RInv, SInv, Inv', AllLater, AllSame, UNCHANGED <<parent, lease>>,
         lease # 0 => (Crossed' <=> Crossed),
         \A k \in Keys : Deferred(k) => mail'[k] = mail[k],
         \A m \in Messages : msg[m].state # "absent" => msg'[m].state # "absent",
         drv'.pc = "note" => drv.pc = "note" /\ drv'.key = drv.key,
         box'.c # None => box'.c = box.c
  PROVE  SInv'
<1>1. ReqOK /\ ReqOK' /\ Indices \subseteq Indices'
  BY InvMeans, IndicesGrow DEF Inv, TypeOK, ReqOK, AllLater
<1>2. \A i \in Indices : req'[i].intents = req[i].intents /\ req'[i].done = req[i].done
  BY DEF AllSame, Same
<1>3. \A i \in Indices' \ Indices : Range(req'[i].intents) = {} /\ req'[i].done = {}
  BY DEF AllSame, Range
<1>4. lease # 0 => /\ lease \in Indices /\ Leased.early \subseteq Leased'.early
                   /\ Leased'.intents = Leased.intents /\ Leased'.done = Leased.done
                   /\ Range(Leased.intents) \subseteq Keys
                   /\ \A k \in Range(Leased.intents) : Deferred(k)
  BY <1>1, <1>2, IndicesGrow, IntentKeys DEF AllLater, Later, Leased, Deferred
<1>5. Within'
  BY <1>2, <1>3 DEF SInv, Within
<1>6. Effects'
  <2> SUFFICES ASSUME lease # 0, NEW k \in Range(Leased.intents),
                      k \in Leased.done \/ (k[1] \in Posts /\ mail'[k] # None)
               PROVE  Settled(k)'
    BY <1>4 DEF Effects
  <2>1. Settled(k)
    BY <1>4 DEF SInv, Effects
  <2> QED BY <1>4, <2>1, SettledStays
<1>7. NoteEffects'
  <2> SUFFICES ASSUME drv.pc = "note", drv'.key = drv.key, NEW k, k = drv.key PROVE Settled(k)'
    BY DEF NoteEffects, Settled
  <2>1. lease # 0 /\ k \in Range(Leased.intents) /\ Settled(k)
    BY InvMeans DEF DrvOK, RInv, PlanInv, Steps, SInv, NoteEffects
  <2> QED BY <1>4, <2>1, SettledStays
<1>8. BoxTells'
  <2> SUFFICES ASSUME NEW c, c = box.c, c # None, Deferred(<<"complete", c>>)' PROVE FALSE
    BY DEF BoxTells, Deferred
  <2> QED BY <1>2, <1>3 DEF SInv, BoxTells, Deferred
<1> QED BY <1>5, <1>6, <1>7, <1>8 DEF SInv

\* The request with the lease is left alone.
LEMMA SettleAside ==
  ASSUME Inv, RInv, SInv, Inv', UNCHANGED <<parent, req, lease, mail>>,
         \A m \in Messages : msg[m].state # "absent" => msg'[m].state # "absent",
         drv'.pc = "note" => drv.pc = "note" /\ drv'.key = drv.key,
         box'.c # None => box'.c = box.c
  PROVE  SInv'
<1>1. Leased' = Leased
  BY DEF Leased
<1> QED BY <1>1, LaterSame, SettleKept DEF Crossed

\* It is replaced, on the same side of the commit.
LEMMA SettleLeased ==
  ASSUME Inv, RInv, SInv, Inv', lease # 0, NEW r, Later(Leased, r), Same(Leased, r),
         req' = [req EXCEPT ![lease] = r],
         r.stage = "authority_committed" <=> Leased.stage = "authority_committed",
         UNCHANGED <<parent, lease, mail, msg, box>>, drv'.pc # "note" \/ UNCHANGED drv
  PROVE  SInv'
<1>1. AllLater /\ AllSame /\ Leased' = r
  BY LeasedReplaced DEF Leased
<1> QED BY <1>1, SettleKept DEF Crossed

\* An operation is deferred.
LEMMA SettleDeferral ==
  ASSUME Inv, RInv, SInv, Inv', NEW i \in Indices, Fenced(req[i]), NEW k \in Keys, req' = Intend(i, k),
         UNCHANGED <<parent, lease, drv, mail, msg>>, box'.c = None,
         k[1] \in Posts => mail[k] = None
  PROVE  SInv'
<1>1. /\ i = lease /\ lease # 0 /\ Leased'.plan = Leased.plan /\ Leased'.stage = Leased.stage
      /\ Leased'.early = Leased.early /\ Leased'.done = Leased.done
      /\ Range(Leased'.intents) = Range(Leased.intents) \cup {k}
      /\ Indices' = Indices /\ \A j \in Indices \ {lease} : req'[j] = req[j]
  BY Intended
<1>2. lease \in Indices /\ Range(Leased.intents) \subseteq Keys /\ Leased.done \subseteq Range(Leased.intents)
  BY <1>1, IntentKeys DEF SInv, Within, Leased
<1>3. Crossed' <=> Crossed
  BY <1>1 DEF Crossed
<1>4. Within'
  <2> SUFFICES ASSUME NEW j \in Indices PROVE req'[j].done \subseteq Range(req'[j].intents)
    BY <1>1 DEF Within
  <2>1. CASE j = lease
    BY <1>1, <1>2, <2>1 DEF Leased
  <2> QED BY <1>1, <2>1 DEF SInv, Within
<1>5. Effects'
  <2> SUFFICES ASSUME NEW n \in Range(Leased.intents) \cup {k},
                      n \in Leased.done \/ (n[1] \in Posts /\ mail[n] # None)
               PROVE  Settled(n)'
    BY <1>1 DEF Effects
  <2>1. n \in Range(Leased.intents)
    BY <1>2
  <2>2. Settled(n)
    BY <1>1, <2>1 DEF SInv, Effects
  <2> QED BY <1>1, <1>2, <1>3, <2>1, <2>2, SettledStays
<1>6. NoteEffects'
  <2> SUFFICES ASSUME drv.pc = "note", NEW n, n = drv.key PROVE Settled(n)'
    BY DEF NoteEffects, Settled
  <2>1. n \in Range(Leased.intents) /\ Settled(n)
    BY InvMeans DEF DrvOK, RInv, PlanInv, Steps, SInv, NoteEffects
  <2> QED BY <1>1, <1>2, <1>3, <2>1, SettledStays
<1>7. BoxTells'
  BY DEF BoxTells
<1> QED BY <1>4, <1>5, <1>6, <1>7 DEF SInv

LEMMA TrafficSettles ==
  ASSUME Inv, RInv, SInv, Inv', Traffic
  PROVE  SInv'
<1>1. ASSUME NEW s \in Sessions, Stop(s) \/ Restore(s) PROVE SInv'
  <2>1. UNCHANGED <<parent, req, lease, mail, msg, drv, box>>
    BY <1>1 DEF Stop, Restore, sqlite
  <2> QED BY <2>1, SettleAside
<1>2. ASSUME NEW c \in Sessions, TaskComplete(c) PROVE SInv'
  <2> DEFINE k == <<"complete", c>>
  <2>1. /\ UNCHANGED <<parent, lease, mail, msg, drv>> /\ mail[k] = None /\ ~Deferred(k)
        /\ box = NoBox
    BY <1>2 DEF TaskComplete, Http, Guard
  <2>2. ASSUME NEW i \in Indices, FencesRoutes(i, c), req' = Intend(i, k), UNCHANGED box PROVE SInv'
    <3>1. box'.c = None
      BY <2>1, <2>2 DEF NoBox
    <3> QED BY <2>1, <2>2, <3>1, KeysOf, SettleDeferral DEF FencesRoutes
  <2>3. ASSUME NEW p, box' = [NoBox EXCEPT !.c = c, !.to = p], UNCHANGED req PROVE SInv'
    <3>1. box'.c = c
      BY <2>3 DEF NoBox
    <3>2. BoxTells'
      BY <2>1, <2>3, <3>1 DEF BoxTells, Deferred, Indices
    <3>3. Within' /\ Effects' /\ NoteEffects'
      BY <2>1, <2>3, <3>1 DEF SInv, Within, Effects, NoteEffects, Indices, Leased, Settled, Crossed, Before
    <3> QED BY <3>2, <3>3 DEF SInv
  <2> QED BY <1>2, <2>2, <2>3 DEF TaskComplete
<1>3. ASSUME NEW c \in Sessions, NotifyParent(c) PROVE SInv'
  <2> DEFINE k == <<"message", c>>
  <2>1. /\ UNCHANGED <<parent, lease, msg, drv, box>> /\ mail[k] = None /\ ~Deferred(k) /\ box = NoBox
    BY <1>3 DEF NotifyParent, Http, Guard
  <2>2. ASSUME NEW i \in Indices, FencesRoutes(i, c), req' = Intend(i, k), UNCHANGED mail PROVE SInv'
    <3>1. box'.c = None
      BY <2>1 DEF NoBox
    <3> QED BY <2>1, <2>2, <3>1, KeysOf, SettleDeferral DEF FencesRoutes
  <2>3. ASSUME mail' = [mail EXCEPT ![k] = parent[c]], UNCHANGED req PROVE SInv'
    <3>1. \A n \in Keys : n # k => mail'[n] = mail[n]
      BY <2>3, InvMeans DEF StateOK
    <3>2. \A n \in Keys : Deferred(n) => mail'[n] = mail[n]
      BY <2>1, <3>1
    <3>3. Leased' = Leased
      BY <2>1, <2>3 DEF Leased
    <3> QED BY <2>1, <2>3, <3>2, <3>3, LaterSame, SettleKept DEF Crossed
  <2> QED BY <1>3, <2>2, <2>3 DEF NotifyParent
<1>4. ASSUME NEW m \in Messages, SendInput(m) PROVE SInv'
  <2>1. UNCHANGED <<parent, lease, mail, drv, box>> /\ box = NoBox
    BY <1>4 DEF SendInput, Http, Guard
  <2>2. ASSUME NEW i \in Indices, FencesRoutes(i, To[m]), req' = Intend(i, <<"input", m>>), UNCHANGED msg
        PROVE  SInv'
    <3>1. box'.c = None
      BY <2>1 DEF NoBox
    <3> QED BY <2>1, <2>2, <3>1, KeysOf, SettleDeferral DEF FencesRoutes, Posts
  <2>3. ASSUME msg' = [msg EXCEPT ![m] = [state |-> "queued", to |-> parent[To[m]]]], UNCHANGED req
        PROVE  SInv'
    <3>1. \A n \in Messages : msg[n].state # "absent" => msg'[n].state # "absent"
      BY <2>3, InvMeans DEF StateOK
    <3> QED BY <2>1, <2>3, <3>1, SettleAside
  <2> QED BY <1>4, <2>2, <2>3 DEF SendInput
<1>5. ASSUME NEW m \in Messages, Deliver(m) PROVE SInv'
  <2>1. UNCHANGED <<parent, lease, mail, msg, drv>> /\ box'.c = None
    BY <1>5 DEF Deliver, NoBox, sqlite
  <2>2. ASSUME NEW i \in Indices, FencesSession(i, To[m]), req' = Intend(i, <<"wake", m>>)
        PROVE  SInv'
    BY <2>1, <2>2, KeysOf, SettleDeferral DEF FencesSession, Posts
  <2>3. CASE UNCHANGED req
    BY <2>1, <2>3, SettleAside
  <2> QED BY <1>5, <2>2, <2>3 DEF Deliver
<1> QED BY <1>1, <1>2, <1>3, <1>4, <1>5 DEF Traffic

LEMMA DeliverySettles ==
  ASSUME Inv, RInv, SInv, Inv', Delivery
  PROVE  SInv'
<1>1. CASE DeliverMark
  <2>1. UNCHANGED <<parent, req, lease, mail, drv>> /\ box'.c = box.c /\ box.m \in Messages
    BY <1>1, InvMeans DEF DeliverMark, registry, BoxOK, Box
  <2>2. \A m \in Messages : msg[m].state # "absent" => msg'[m].state # "absent"
    BY <1>1, <2>1, InvMeans DEF DeliverMark, StateOK
  <2> QED BY <2>1, <2>2, SettleAside
<1>2. CASE DeliverEnd \/ CompleteEnd
  <2>1. UNCHANGED <<parent, req, lease, mail, msg, drv>> /\ box'.c = None
    BY <1>2 DEF DeliverEnd, CompleteEnd, sqlite, NoBox
  <2> QED BY <2>1, SettleAside
<1>3. CASE CompleteTell
  <2>1. UNCHANGED <<parent, req, lease, msg, drv>> /\ box'.c = box.c /\ box.c # None
    BY <1>3, InvMeans DEF CompleteTell, registry, BoxOK, Box
  <2>2. \A k \in Keys : k # <<"complete", box.c>> => mail'[k] = mail[k]
    BY <1>3, InvMeans DEF CompleteTell, StateOK
  <2>3. \A k \in Keys : Deferred(k) => mail'[k] = mail[k]
    BY <2>1, <2>2 DEF SInv, BoxTells
  <2>4. Leased' = Leased
    BY <2>1 DEF Leased
  <2> QED BY <2>1, <2>3, <2>4, LaterSame, SettleKept DEF Crossed
<1> QED BY <1>1, <1>2, <1>3 DEF Delivery

-----------------------------------------------------------------------------
(* Steps of the driver in the registry, and its halts *)

Driven ==
  /\ AllLater /\ AllSame /\ SamePlan
  /\ UNCHANGED <<parent, lease, wake, msg, mail, begun>>
  /\ drv'.pc # "note"
  /\ UNCHANGED box \/ box' = NoBox
  /\ drv'.pc = "route" => drv'.mode # "abort" /\ drv'.got = {}
  /\ drv.pc = "route" => Leased' = Leased /\ drv'.pc \notin Running

\* The requests are left alone.
LEMMA DrivenSame ==
  ASSUME Inv, UNCHANGED <<parent, req, lease, wake, msg, mail, begun>>,
         UNCHANGED box \/ box' = NoBox,
         \/ drv'.pc \in {"idle", "apply", "fail"}
         \/ drv.pc \in Running \ {"route"} /\ drv'.pc \in Running \ {"route", "note"}
         \/ Leased.stage = "prequiesce_aborting" /\ drv.pc # "route" /\ drv'.pc = "replay"
  PROVE  Driven
<1>1. Leased' = Leased /\ AllLater /\ AllSame
  BY LaterSame DEF Leased
<1>2. SamePlan
  BY <1>1 DEF SamePlan, Crossed, Loose, Running
<1> QED BY <1>1, <1>2 DEF Driven, Running

\* The request with the lease gets another status or stage.
LEMMA DrivenLeased ==
  ASSUME Inv, lease # 0, NEW r, Later(Leased, r), Same(Leased, r), req' = [req EXCEPT ![lease] = r],
         r.plan = Leased.plan,
         r.stage = "authority_committed" <=> Leased.stage = "authority_committed",
         UNCHANGED <<parent, lease, wake, msg, mail, begun, box>>,
         drv.pc # "route", drv'.pc \notin {"route", "note"},
         \A c : Loose(c) => Loose(c)'
  PROVE  Driven
<1>1. Leased' = r /\ AllLater /\ AllSame
  BY LeasedReplaced DEF Leased
<1>2. SamePlan
  BY <1>1 DEF SamePlan, Crossed
<1> QED BY <1>1, <1>2 DEF Driven

LEMMA DrivenStart ==
  ASSUME Inv, lease # 0, NEW mode \in {"forward", "rollback", "repair"}, StartRouting(mode), drv.pc # "route",
         UNCHANGED <<parent, req, lease, wake, msg, mail, begun, box>>
  PROVE  Driven
<1> DEFINE plan == Leased.plan
           todo == {GroupOf(plan, mode, wake[w].child) : w \in plan.wakes}
                     \cup {GroupOf(plan, mode, To[m]) : m \in plan.msgs}
<1>1. drv' = [Idle EXCEPT !.pc = "route", !.mode = mode, !.todo = todo]
  BY DEF StartRouting
<1>2. \A c \in Routed : GroupOf(plan, mode, c) \in todo
  BY DEF Routed
<1> HIDE DEF todo
<1>3. drv'.pc = "route" /\ drv'.mode = mode /\ drv'.todo = todo /\ drv'.got = {}
  BY <1>1 DEF Idle
<1>4. Leased' = Leased /\ AllLater /\ AllSame
  BY LaterSame DEF Leased
<1>5. ASSUME NEW c \in Routed, Loose(c) PROVE Loose(c)'
  <2>1. GroupOf(plan, mode, c) \in drv'.todo
    BY <1>2, <1>3
  <2> QED BY <1>3, <1>4, <1>5, <2>1 DEF Loose, GroupOf
<1>6. SamePlan
  BY <1>4, <1>5 DEF SamePlan, Crossed
<1> QED BY <1>3, <1>4, <1>6 DEF Driven

LEMMA DrivenAcquire ==
  ASSUME Inv, AcquireResume \/ AcquireNone
  PROVE  Driven
<1>1. CASE AcquireResume
  <2>1. /\ UNCHANGED <<parent, req, lease, wake, msg, mail, begun, box>>
        /\ drv'.pc = "apply"
    BY <1>1, IdleType DEF AcquireResume, registry, sqlite, Drivers
  <2> QED BY <2>1, DrivenSame
<1>2. CASE AcquireNone
  <2>1. /\ UNCHANGED <<parent, lease, wake, msg, mail, begun, box, drv>> /\ drv'.pc = "idle"
    BY <1>2 DEF AcquireNone, sqlite
  <2>2. CASE UNCHANGED req
    BY <2>1, <2>2, DrivenSame
  <2>3. CASE req' = Refreshed
    <3>1. AllLater /\ AllSame /\ (lease # 0 => Leased' = Leased)
      BY <2>1, <2>3, RefreshedOnly
    <3>2. SamePlan
      BY <2>1, <3>1 DEF SamePlan, Crossed, Loose
    <3> QED BY <2>1, <3>1, <3>2 DEF Driven
  <2> QED BY <1>2, <2>2, <2>3 DEF AcquireNone
<1> QED BY <1>1, <1>2

LEMMA DrivenQuiesce ==
  ASSUME Inv, RInv, QuiesceJson \/ QueueQuiesced
  PROVE  Driven
<1>1. CASE QuiesceJson
  <2>1. /\ drv.pc = "apply" /\ lease # 0 /\ Leased.stage = "applying"
        /\ UNCHANGED <<parent, lease, wake, msg, mail, begun, box>>
    BY <1>1, InvMeans DEF QuiesceJson, At, sqlite, DrvOK
  <2>2. CASE Goto("fail") /\ UNCHANGED req
    BY <2>1, <2>2, PcSet, DrivenSame
  <2>3. CASE SetStage("json_routing_quiesced") /\ UNCHANGED drv
    <3>1. PICK r : /\ Later(Leased, r) /\ req' = [req EXCEPT ![lease] = r]
                   /\ r.plan = Leased.plan /\ r.stage = "json_routing_quiesced"
                   /\ Same(Leased, r)
      BY <2>1, <2>3, StageSet DEF Committed
    <3>2. \A c : Loose(c) => Loose(c)'
      BY <2>1 DEF Loose
    <3> QED BY <2>1, <2>3, <3>1, <3>2, DrivenLeased
  <2> QED BY <1>1, <2>2, <2>3 DEF QuiesceJson
<1>2. CASE QueueQuiesced
  <2>1. /\ drv.pc = "quiesced" /\ lease # 0 /\ Leased.stage = "json_routing_quiesced"
        /\ UNCHANGED <<parent, lease, wake, msg, mail, begun, box>>
        /\ SetStage("routing_quiesced") /\ drv'.pc = "apply"
    BY <1>2, InvMeans, PcSet DEF QueueQuiesced, sqlite, DrvOK, RInv, PlanInv, Steps
  <2>2. PICK r : /\ Later(Leased, r) /\ req' = [req EXCEPT ![lease] = r]
                 /\ r.plan = Leased.plan /\ r.stage = "routing_quiesced"
                 /\ Same(Leased, r)
    BY <2>1, StageSet DEF Committed
  <2>3. Leased' = r
    BY <2>1, <2>2, LeasedReplaced DEF Leased
  <2>4. \A c : Loose(c) => Loose(c)'
    BY <2>1, <2>2, <2>3 DEF Loose, Running
  <2> QED BY <2>1, <2>2, <2>4, DrivenLeased
<1> QED BY <1>1, <1>2

\* The commit, unless it moves the edges, and what follows it
LEMMA DrivenRoute ==
  ASSUME Inv, RInv, (Commit /\ ~EdgesMove) \/ FinishRouting \/ RestoreJson
  PROVE  Driven
<1>1. CASE Commit /\ ~EdgesMove
  <2>1. /\ drv.pc = "apply" /\ lease # 0
        /\ UNCHANGED <<parent, req, lease, wake, msg, mail, begun, box>>
        /\ StartRouting("rollback") \/ Goto("fail")
    BY <1>1, InvMeans, CommitCases DEF At, DrvOK
  <2>2. CASE StartRouting("rollback")
    BY <2>1, <2>2, DrivenStart
  <2>3. CASE Goto("fail")
    BY <2>1, <2>3, PcSet, DrivenSame
  <2> QED BY <2>1, <2>2, <2>3
<1>2. CASE FinishRouting
  <2>1. /\ drv.pc = "apply" /\ lease # 0 /\ StartRouting("forward")
        /\ UNCHANGED <<parent, req, lease, wake, msg, mail, begun, box>>
    BY <1>2, InvMeans DEF FinishRouting, At, DrvOK, registry, sqlite
  <2> QED BY <2>1, DrivenStart
<1>3. CASE RestoreJson
  <2>1. /\ drv.pc = "restore" /\ UNCHANGED <<parent, req, lease, wake, msg, mail, begun, box>>
    BY <1>3 DEF RestoreJson, sqlite
  <2>2. CASE Goto("fail")
    BY <2>1, <2>2, PcSet, DrivenSame
  <2>3. CASE drv' = [drv EXCEPT !.pc = "replay", !.redo = TRUE]
    <3>1. drv'.pc = "replay"
      BY <2>3, InvMeans DEF DrvOK, Driver
    <3> QED BY <2>1, <3>1, DrivenSame DEF Running
  <2> QED BY <1>3, <2>2, <2>3 DEF RestoreJson
<1> QED BY <1>1, <1>2, <1>3

\* Replays that begin or end, or begin again
LEMMA DrivenReplay ==
  ASSUME Inv, RInv, AbortResume \/ ReplayPick \/ ReplayEnds \/ (Release /\ UNCHANGED lease)
  PROVE  Driven
<1>1. CASE AbortResume
  <2>1. /\ drv.pc = "apply" /\ Leased.stage = "prequiesce_aborting" /\ drv'.pc = "replay"
        /\ UNCHANGED <<parent, req, lease, wake, msg, mail, begun, box>>
    BY <1>1 DEF AbortResume, At, registry, sqlite, Idle
  <2> QED BY <2>1, DrivenSame
<1>2. CASE ReplayPick
  <2>1. /\ drv.pc = "replay" /\ drv'.pc = "act"
        /\ UNCHANGED <<parent, req, lease, wake, msg, mail, begun, box>>
    BY <1>2, InvMeans DEF ReplayPick, registry, sqlite, DrvOK, Driver
  <2> QED BY <2>1, DrivenSame DEF Running
<1>3. CASE ReplayEnds
  <2>1. /\ drv.pc = "replay" /\ drv'.pc = "final"
        /\ UNCHANGED <<parent, req, lease, wake, msg, mail, begun, box>>
    BY <1>3, PcSet DEF ReplayEnds, registry, sqlite
  <2> QED BY <2>1, DrivenSame DEF Running
<1>4. CASE Release /\ UNCHANGED lease
  <2>1. /\ drv.pc = "final" /\ lease # 0
        /\ UNCHANGED <<parent, lease, wake, msg, mail, begun, box>>
    BY <1>4, InvMeans DEF Release, sqlite, DrvOK
  <2>2. drv' = [drv EXCEPT !.pc = "replay", !.redo = FALSE] /\ UNCHANGED req
    BY <1>4, <2>1 DEF Release
  <2>3. drv'.pc = "replay"
    BY <2>2, InvMeans DEF DrvOK, Driver
  <2> QED BY <2>1, <2>2, <2>3, DrivenSame DEF Running
<1> QED BY <1>1, <1>2, <1>3, <1>4

LEMMA DrivenFail ==
  ASSUME Inv, RInv, Fail
  PROVE  Driven
<1>1. /\ drv.pc = "fail" /\ lease # 0
      /\ UNCHANGED <<parent, lease, wake, msg, mail, begun, box>>
  BY InvMeans DEF Fail, sqlite, DrvOK
<1>2. Leased \in Request /\ Leased = req[lease] /\ Fenced(Leased)
  BY <1>1, PlannedIn, InvMeans, LeasedType
<1> DEFINE early == Leased.stage = "applying"
           stage == IF early THEN "prequiesce_aborting" ELSE Leased.stage
           r == [Leased EXCEPT !.status = "failed", !.stage = stage]
<1>3. req' = [req EXCEPT ![lease] = r]
  BY <1>2 DEF Fail
<1>4. /\ r.plan = Leased.plan /\ r.stage = stage /\ r.early = Leased.early /\ r.status # "pending"
      /\ Same(Leased, r)
  BY <1>2 DEF Request, Same, Affected
<1> HIDE DEF r
<1>5. /\ Later(Leased, r)
      /\ r.stage = "authority_committed" <=> Leased.stage = "authority_committed"
  BY <1>1, <1>4, LaterLeased DEF Committed
<1>6. Leased' = r
  BY <1>1, <1>3, <1>5, LeasedReplaced DEF Leased
<1>7. drv'.pc \in {"replay", "idle"} /\ \A c : Loose(c) => Loose(c)'
  <2>1. CASE early
    <3>1. drv'.pc = "replay"
      BY <2>1 DEF Fail, Idle
    <3> QED BY <2>1, <3>1 DEF Loose
  <2>2. CASE ~early
    <3>1. drv'.pc = "idle"
      BY <2>2 DEF Fail, Idle
    <3> QED BY <1>4, <1>6, <2>2, <3>1 DEF Running, Loose
  <2> QED BY <2>1, <2>2
<1> QED BY <1>1, <1>3, <1>4, <1>5, <1>7, DrivenLeased

LEMMA DrivenRepair ==
  ASSUME Inv, RInv, Repair \/ QueueFails \/ Crash
  PROVE  Driven
<1>1. CASE RepairRollback
  <2>1. /\ lease # 0 /\ StartRouting("repair") /\ drv.pc = "idle"
        /\ UNCHANGED <<parent, req, lease, wake, msg, mail, begun, box>>
    BY <1>1 DEF RepairRollback, registry, sqlite
  <2> QED BY <2>1, DrivenStart
<1>2. CASE RepairResume
  <2>1. /\ lease # 0 /\ drv.pc = "idle" /\ drv'.pc = "apply"
        /\ UNCHANGED <<parent, lease, wake, msg, mail, begun, box>>
    BY <1>2 DEF RepairResume, sqlite, Idle
  <2>2. Leased \in Request /\ Leased = req[lease]
    BY <2>1, PlannedIn
  <2> DEFINE r == [Leased EXCEPT !.status = "applying"]
  <2>3. req' = [req EXCEPT ![lease] = r]
    BY <1>2, <2>2 DEF RepairResume
  <2>4. /\ r.plan = Leased.plan /\ r.stage = Leased.stage /\ r.early = Leased.early
        /\ r.status # "pending" /\ Same(Leased, r)
    BY <2>2 DEF Request, Same, Affected
  <2> HIDE DEF r
  <2>5. Later(Leased, r)
    BY <2>1, <2>4, LaterLeased DEF Committed
  <2>6. Leased' = r
    BY <2>1, <2>3, <2>5, LeasedReplaced DEF Leased
  <2>7. \A c : Loose(c) => Loose(c)'
    BY <2>1, <2>4, <2>6 DEF Running, Loose
  <2> QED BY <2>1, <2>3, <2>4, <2>5, <2>7, DrivenLeased
<1>3. CASE QueueFails
  <2>1. Goto("fail") /\ UNCHANGED <<parent, req, lease, wake, msg, mail, begun, box>>
    BY <1>3 DEF QueueFails, registry, sqlite
  <2> QED BY <2>1, PcSet, DrivenSame
<1>4. CASE Crash
  <2>1. /\ UNCHANGED <<parent, req, lease, wake, msg, mail, begun>> /\ box' = NoBox
        /\ drv'.pc = "idle"
    BY <1>4 DEF Crash, registry, sqlite, Idle
  <2> QED BY <2>1, DrivenSame
<1> QED BY <1>1, <1>2, <1>3, <1>4 DEF Repair

LEMMA DrivenSettles ==
  ASSUME Inv, RInv, SInv, Inv', Driven
  PROVE  SInv'
<1>1. box'.c # None => box'.c = box.c
  BY DEF Driven, NoBox
<1> QED BY <1>1, SettleKept DEF Driven, SamePlan

-----------------------------------------------------------------------------
(* The other steps of the driver settle intents *)

LEMMA AcquireNewRecords ==
  ASSUME Inv, RInv, AcquireNew
  PROVE  /\ AllLater /\ AllSame /\ lease = 0 /\ lease' # 0 /\ box = NoBox /\ drv'.pc = "apply"
         /\ UNCHANGED <<parent, wake, msg, mail, box, begun>>
         /\ Range(Leased'.intents) = {} /\ Leased'.stage = "applying"
         /\ \A m \in Leased'.plan.msgs : msg[m].state = "queued"
         /\ \A w \in Leased'.plan.wakes : Leased'.plan.edges[wake[w].child].old # None
<1>1. ReqOK /\ req \in [Indices -> Request] /\ Len(req) \in Nat
  BY InvMeans
<1>2. /\ lease = 0 /\ UNCHANGED <<parent, wake, msg, mail, box, begun>> /\ box = NoBox /\ drv'.pc = "apply"
  BY DEF AcquireNew, sqlite, Guard, Idle
<1>3. PICK i \in Indices :
        /\ Appliable(i) /\ lease' = i
        /\ req' = [Refreshed EXCEPT ![i] = [req[i] EXCEPT !.status = "applying",
                                                         !.stage = "applying",
                                                         !.plan = PlanOf(req[i])]]
  BY DEF AcquireNew
<1> DEFINE q == req[i]
           r == [q EXCEPT !.status = "applying", !.stage = "applying", !.plan = PlanOf(q)]
<1>4. q \in Request /\ i # 0
  BY <1>1 DEF Indices
<1>5. q.status = "pending" /\ Refreshed[i] = q
  <2>1. Refreshed[i].status = "pending"
    BY <1>3 DEF Appliable
  <2>2. [q EXCEPT !.status = "expired"].status = "expired" /\ [q EXCEPT !.status = "stale"].status = "stale"
    BY <1>4 DEF Request
  <2> QED BY <2>1, <2>2 DEF Refreshed
<1>6. Blank(q)
  BY <1>5 DEF RInv, PlanInv, Fresh
<1>7. /\ r.stage = "applying" /\ r.status = "applying" /\ r.plan = PlanOf(q) /\ r.intents = <<>>
      /\ r.early = q.early /\ Same(q, r)
  BY <1>4, <1>6 DEF Request, Blank, Same, Affected
<1>8. Later(Refreshed[i], r)
  BY <1>5, <1>6, <1>7 DEF Later, Committed, Blank
<1>9. req' = [Refreshed EXCEPT ![i] = r]
  BY <1>3
<1>10. /\ \A m \in PlanOf(q).msgs : msg[m].state = "queued"
       /\ \A w \in PlanOf(q).wakes : PlanOf(q).edges[wake[w].child].old # None
  BY DEF PlanOf
<1> HIDE DEF r
<1>11. AllLater /\ AllSame /\ req'[i] = r
  BY <1>1, <1>5, <1>7, <1>8, <1>9, LaterReplaced
<1>12. Leased' = r
  BY <1>3, <1>11 DEF Leased
<1>13. Range(r.intents) = {}
  BY <1>7 DEF Range
<1> QED BY <1>2, <1>3, <1>4, <1>7, <1>10, <1>11, <1>12, <1>13

LEMMA AcquireNewSettles ==
  ASSUME Inv, RInv, SInv, Inv', AcquireNew
  PROVE  SInv'
<1>1. Within'
  BY AcquireNewRecords DEF SInv, Within, AllSame, Same, Range
<1>2. Effects' /\ NoteEffects' /\ BoxTells'
  BY AcquireNewRecords DEF Effects, NoteEffects, BoxTells, NoBox
<1> QED BY <1>1, <1>2 DEF SInv

\* Messages that are retargeted stay what they are.
LEMMA Readdressed ==
  ASSUME Inv, NEW msgs, NEW p, \A m \in Messages : m \in msgs => msg[m].state = "queued",
         msg' = [m \in Messages |-> IF m \in msgs THEN [msg[m] EXCEPT !.to = p] ELSE msg[m]]
  PROVE  \A m \in Messages : /\ msg'[m].state = msg[m].state
                             /\ msg[m].state = "delivered" => msg'[m] = msg[m]
<1> SUFFICES ASSUME NEW m \in Messages
             PROVE  msg'[m].state = msg[m].state /\ (msg[m].state = "delivered" => msg'[m] = msg[m])
  OBVIOUS
<1>1. msg[m] \in [state: {"absent", "queued", "delivered"}, to: Parents]
  BY InvMeans DEF StateOK
<1>2. msg'[m] = IF m \in msgs THEN [msg[m] EXCEPT !.to = p] ELSE msg[m]
  OBVIOUS
<1>3. [msg[m] EXCEPT !.to = p].state = msg[m].state
  BY <1>1
<1> QED BY <1>2, <1>3

LEMMA MessagesStay ==
  ASSUME Inv, QuiesceQueue \/ \E target \in Parents : Retarget(target)
  PROVE  /\ UNCHANGED <<parent, req, lease, mail, box, begun>> /\ drv'.pc # "note"
         /\ \A m \in Messages : /\ msg'[m].state = msg[m].state
                                /\ msg[m].state = "delivered" => msg'[m] = msg[m]
<1>1. CASE QuiesceQueue
  <2>1. UNCHANGED <<parent, req, lease, mail, box, begun>> /\ (Goto("quiesced") \/ Goto("fail"))
    BY <1>1 DEF QuiesceQueue, registry
  <2>2. drv'.pc # "note"
    BY <2>1, PcSet
  <2>3. \/ UNCHANGED msg
        \/ /\ msg' = [m \in Messages |-> IF m \in Leased.plan.msgs
                        THEN [msg[m] EXCEPT !.to = None] ELSE msg[m]]
           /\ \A m \in Leased.plan.msgs : msg[m].state = "queued"
    BY <1>1 DEF QuiesceQueue
  <2> QED BY <2>1, <2>2, <2>3, Readdressed
<1>2. ASSUME NEW target \in Parents, Retarget(target)
      PROVE  /\ UNCHANGED <<parent, req, lease, mail, box, begun>> /\ drv'.pc # "note"
             /\ \A m \in Messages : /\ msg'[m].state = msg[m].state
                                    /\ msg[m].state = "delivered" => msg'[m] = msg[m]
  <2>1. UNCHANGED <<parent, req, lease, mail, box, begun>> /\ drv.pc = "route"
    BY <1>2 DEF Retarget, registry
  <2>2. \/ Goto("fail") /\ UNCHANGED msg
        \/ \E got : drv' = [drv EXCEPT !.todo = @ \ {target}, !.got = got]
    BY <1>2 DEF Retarget
  <2>3. drv'.pc # "note"
    <3>1. ASSUME NEW got, drv' = [drv EXCEPT !.todo = @ \ {target}, !.got = got] PROVE drv'.pc = drv.pc
      BY <3>1, InvMeans DEF DrvOK, Driver
    <3>2. CASE Goto("fail")
      BY <3>2, PcSet
    <3> QED BY <2>1, <2>2, <3>1, <3>2
  <2> DEFINE msgs == {m \in Leased.plan.msgs : /\ GroupOf(Leased.plan, drv.mode, To[m]) = target
                                              /\ msg[m].state = "queued"}
  <2>4. \/ UNCHANGED msg
        \/ msg' = [m \in Messages |-> IF m \in msgs THEN [msg[m] EXCEPT !.to = target] ELSE msg[m]]
    <3>1. CASE Goto("fail") /\ UNCHANGED msg
      BY <3>1
    <3>2. CASE ~UNCHANGED msg
      <4>1. msg' = [m \in Messages |->
               IF m \in {n \in Leased.plan.msgs : GroupOf(Leased.plan, drv.mode, To[n]) = target}
                    /\ msg[m].state = "queued"
                 THEN [msg[m] EXCEPT !.to = target] ELSE msg[m]]
        BY <1>2, <3>2 DEF Retarget
      <4> QED BY <4>1
    <3> QED BY <3>1, <3>2
  <2>5. \A m \in Messages : m \in msgs => msg[m].state = "queued"
    OBVIOUS
  <2> HIDE DEF msgs
  <2> QED BY <2>1, <2>3, <2>4, <2>5, Readdressed
<1> QED BY <1>1, <1>2

LEMMA EdgesMoveRecords ==
  ASSUME Inv, At("routing_quiesced"), EdgesMove, UNCHANGED lease
  PROVE  /\ drv.pc = "apply" /\ lease # 0 /\ Leased.stage = "routing_quiesced" /\ box = NoBox
         /\ UNCHANGED drv /\ AllLater /\ AllSame
         /\ Leased'.plan = Leased.plan /\ Leased'.stage = "authority_committed"
         /\ Leased'.early = Leased.early /\ Same(Leased, Leased')
         /\ parent' = Moved(Leased.plan.edges)
<1>1. /\ drv.pc = "apply" /\ lease # 0 /\ Leased.stage = "routing_quiesced" /\ box = NoBox
      /\ UNCHANGED drv /\ SetStage("authority_committed") /\ parent' = Moved(Leased.plan.edges)
  BY InvMeans DEF EdgesMove, At, DrvOK, Guard
<1>2. PICK r : /\ Later(Leased, r) /\ req' = [req EXCEPT ![lease] = r] /\ Same(Leased, r)
               /\ r.plan = Leased.plan /\ r.stage = "authority_committed" /\ r.early = Leased.early
  BY <1>1, StageSet
<1>3. Leased' = r /\ AllLater /\ AllSame
  BY <1>1, <1>2, LeasedReplaced DEF Leased
<1> QED BY <1>1, <1>2, <1>3

\* What was replayed before the commit keeps its effect.
LEMMA EdgesMoveSettles ==
  ASSUME Inv, RInv, SInv, Inv', At("routing_quiesced"), EdgesMove, UNCHANGED <<lease, msg, mail, box>>
  PROVE  SInv'
<1>1. /\ drv.pc = "apply" /\ lease # 0 /\ Before /\ Crossed' /\ ~Before' /\ box = NoBox
      /\ UNCHANGED drv /\ AllSame /\ Leased'.early = Leased.early /\ Same(Leased, Leased')
  BY EdgesMoveRecords DEF Before, Crossed
<1>2. Within' /\ NoteEffects' /\ BoxTells'
  BY <1>1 DEF SInv, Within, NoteEffects, BoxTells, AllSame, Same, Range, NoBox
<1>3. Effects'
  <2> SUFFICES ASSUME NEW k \in Range(Leased.intents),
                      k \in Leased.done \/ (k[1] \in Posts /\ mail[k] # None)
               PROVE  Settled(k)'
    BY <1>1 DEF Effects, Same
  <2>1. Settled(k)
    BY <1>1 DEF SInv, Effects
  <2> QED BY <1>1, <2>1 DEF Settled
<1> QED BY <1>2, <1>3 DEF SInv

LEMMA CollectSettles ==
  ASSUME Inv, RInv, SInv, Inv', Collect
  PROVE  SInv'
<1>1. /\ lease # 0 /\ box = NoBox /\ UNCHANGED <<parent, lease, msg, mail, box>>
  BY CollectRecords
<1>2. PICK r : /\ Later(Leased, r) /\ req' = [req EXCEPT ![lease] = r]
               /\ r.plan = Leased.plan /\ r.stage = Leased.stage /\ r.early = Leased.early
               /\ r.done = Leased.done
               /\ Range(r.intents) = Range(Leased.intents) \cup {<<"planned", m>> : m \in drv.got}
  BY CollectRecords
<1>3. /\ Leased' = r /\ lease \in Indices /\ Indices' = Indices /\ Leased = req[lease]
      /\ \A j \in Indices \ {lease} : req'[j] = req[j]
  <2>1. ReqOK /\ lease \in Indices /\ Leased = req[lease]
    BY <1>1, InvMeans, PlannedIn
  <2>2. Len(req') = Len(req) /\ req'[lease] = r /\ \A j \in Indices \ {lease} : req'[j] = req[j]
    BY <1>2, <2>1, LaterReplaced
  <2> QED BY <1>1, <2>1, <2>2 DEF Leased, Indices
<1>4. Leased.done \subseteq Range(Leased.intents) /\ Range(Leased.intents) \subseteq Keys
  BY <1>3, IntentKeys DEF SInv, Within
<1>5. Within'
  <2> SUFFICES ASSUME NEW j \in Indices PROVE req'[j].done \subseteq Range(req'[j].intents)
    BY <1>3 DEF Within
  <2>1. CASE j = lease
    BY <1>1, <1>2, <1>3, <1>4, <2>1 DEF Leased
  <2> QED BY <1>3, <2>1 DEF SInv, Within
<1>6. Effects'
  <2> SUFFICES ASSUME NEW k \in Range(r.intents), k \in Leased.done \/ (k[1] \in Posts /\ mail[k] # None)
               PROVE  Settled(k)'
    BY <1>1, <1>2, <1>3 DEF Effects
  <2>1. k \in Range(Leased.intents)
    BY <1>2, <1>4 DEF Posts
  <2>2. Settled(k)
    BY <1>1, <2>1 DEF SInv, Effects
  <2>3. Crossed' <=> Crossed
    BY <1>1, <1>2, <1>3 DEF Crossed
  <2> QED BY <1>1, <1>2, <1>3, <1>4, <2>1, <2>2, <2>3, SettledStays
<1>7. NoteEffects' /\ BoxTells'
  <2>1. Goto(IF drv.mode = "forward" THEN "replay" ELSE "restore")
    BY DEF Collect
  <2>2. drv'.pc = IF drv.mode = "forward" THEN "replay" ELSE "restore"
    BY <2>1, PcSet
  <2> QED BY <1>1, <2>2 DEF NoteEffects, BoxTells, NoBox
<1> QED BY <1>5, <1>6, <1>7 DEF SInv

\* An intent takes effect.
LEMMA ReplaySettles ==
  ASSUME Inv, RInv, SInv, Inv', Replay
  PROVE  SInv'
<1>1. /\ drv.pc = "act" /\ lease # 0 /\ drv.key \in Keys /\ drv.key \in Range(Leased.intents)
      /\ UNCHANGED <<parent, lease, box>> /\ mail \in [Keys -> Parents]
      /\ msg \in [Messages -> [state: {"absent", "queued", "delivered"}, to: Parents]]
  BY InvMeans DEF Replay, DrvOK, RInv, PlanInv, Steps, StateOK
<1>2. PICK k \in Keys : k = drv.key
  BY <1>1
<1>3. PICK r : /\ Later(Leased, r) /\ Same(Leased, r) /\ r.plan = Leased.plan /\ r.stage = Leased.stage
               /\ r.intents = Leased.intents /\ req' = [req EXCEPT ![lease] = r]
               /\ Before => drv.key \in r.early
  BY <1>1, ReplayRecords
<1>4. /\ Leased' = r /\ AllLater /\ AllSame /\ (Crossed' <=> Crossed) /\ (Before' <=> Before)
      /\ Leased'.intents = Leased.intents /\ Leased'.done = Leased.done
      /\ Leased.early \subseteq Leased'.early /\ lease \in Indices
      /\ Leased.done \subseteq Range(Leased.intents) /\ Range(Leased.intents) \subseteq Keys
  <2>1. Leased' = r /\ AllLater /\ AllSame
    BY <1>1, <1>3, LeasedReplaced DEF Leased
  <2>2. lease \in Indices /\ Leased = req[lease]
    BY <1>1, PlannedIn
  <2>3. Leased.done \subseteq Range(Leased.intents) /\ Range(Leased.intents) \subseteq Keys
    BY <2>2, IntentKeys DEF SInv, Within
  <2> QED BY <1>1, <1>3, <2>1, <2>2, <2>3 DEF Crossed, Before, Later, Same
<1>5. /\ \A n \in Keys : (n # k \/ n[1] \notin Posts \/ mail[n] # None) => mail'[n] = mail[n]
      /\ (k[1] \in Posts /\ mail[k] = None) => mail'[k] = parent[k[2]]
  BY <1>1, <1>2 DEF Replay, Posts, Child
<1>6. /\ \A m \in Messages : msg[m].state # "absent" => msg'[m].state # "absent"
      /\ k[1] = "input" => msg'[k[2]].state # "absent"
  <2>1. k[1] = "input" => k[2] \in Messages
    BY KeyChild
  <2>2. CASE k[1] = "input" /\ msg[k[2]].state = "absent"
    <3>1. PICK p : msg' = [msg EXCEPT ![k[2]] = [state |-> "queued", to |-> p]]
      BY <1>2, <2>2 DEF Replay
    <3>2. msg'[k[2]].state = "queued" /\ \A m \in Messages : m # k[2] => msg'[m] = msg[m]
      BY <1>1, <2>1, <2>2, <3>1
    <3> QED BY <3>2
  <2>3. CASE ~(k[1] = "input" /\ msg[k[2]].state = "absent")
    <3>1. msg' = msg
      BY <1>2, <2>3 DEF Replay
    <3> QED BY <2>3, <3>1
  <2> QED BY <2>2, <2>3
<1>7. ASSUME NEW n \in Range(Leased.intents), Settled(n), mail'[n] = mail[n] PROVE Settled(n)'
  BY <1>1, <1>4, <1>6, <1>7, SettledStays
<1>8. Settled(k)'
  <2>1. CASE k[1] \in Posts /\ mail[k] # None
    <3>1. Settled(k)
      BY <1>1, <1>2, <2>1 DEF SInv, Effects
    <3> QED BY <1>1, <1>2, <1>5, <1>7, <2>1, <3>1
  <2>2. CASE ~(k[1] \in Posts /\ mail[k] # None)
    <3>1. k[1] \in Posts => mail'[k] = parent'[k[2]]
      BY <1>1, <1>5, <2>2
    <3>2. Before' => k \in Leased'.early
      BY <1>2, <1>3, <1>4
    <3> QED BY <1>6, <3>1, <3>2 DEF Settled
  <2> QED BY <2>1, <2>2
<1>9. Within'
  BY <1>4, InvMeans DEF SInv, Within, AllSame, Same, Range
<1>10. Effects'
  <2> SUFFICES ASSUME NEW n \in Range(Leased.intents),
                      n \in Leased.done \/ (n[1] \in Posts /\ mail'[n] # None)
               PROVE  Settled(n)'
    BY <1>4 DEF Effects
  <2>1. CASE n = k
    BY <1>8, <2>1
  <2>2. CASE n # k
    <3>1. mail'[n] = mail[n]
      BY <1>4, <1>5, <2>2
    <3>2. Settled(n)
      BY <1>1, <3>1 DEF SInv, Effects
    <3> QED BY <1>7, <3>1, <3>2
  <2> QED BY <2>1, <2>2
<1>11. NoteEffects'
  <2>1. Goto("fail") \/ Goto("note")
    BY DEF Replay
  <2>2. drv'.pc = "note" => drv'.key = k
    BY <1>2, <2>1, PcSet
  <2> QED BY <1>8, <2>2 DEF NoteEffects, Settled
<1>12. BoxTells'
  <2> SUFFICES ASSUME NEW c, c = box.c, c # None, Deferred(<<"complete", c>>)' PROVE FALSE
    BY <1>1 DEF BoxTells, Deferred
  <2> QED BY <1>4 DEF SInv, BoxTells, Deferred, AllSame, Same, Range
<1> QED BY <1>9, <1>10, <1>11, <1>12 DEF SInv

\* It is noted as replayed.
LEMMA NotedRecords ==
  ASSUME Inv, lease # 0, ReplayNoted
  PROVE  \E r : /\ Later(Leased, r) /\ r.plan = Leased.plan /\ r.stage = Leased.stage
                /\ r.intents = Leased.intents /\ r.early = Leased.early
                /\ r.done = Leased.done \cup {drv.key} /\ Affected(r) = Affected(Leased)
                /\ req' = [req EXCEPT ![lease] = r]
<1>1. Leased \in Request /\ Leased = req[lease] /\ Fenced(Leased)
  BY PlannedIn, InvMeans, LeasedType
<1> DEFINE r == [Leased EXCEPT !.done = @ \cup {drv.key}]
<1>2. /\ r.plan = Leased.plan /\ r.stage = Leased.stage /\ r.intents = Leased.intents
      /\ r.early = Leased.early /\ r.done = Leased.done \cup {drv.key} /\ r.status # "pending"
      /\ Affected(r) = Affected(Leased)
  BY <1>1 DEF Request, Fenced, Affected
<1>3. req' = [req EXCEPT ![lease] = r]
  BY <1>1 DEF ReplayNoted
<1> HIDE DEF r
<1>4. Later(Leased, r)
  BY <1>2, LaterLeased DEF Committed
<1> QED BY <1>2, <1>3, <1>4

LEMMA LeasedChanged ==
  ASSUME Inv, lease # 0, NEW r, Later(Leased, r), req' = [req EXCEPT ![lease] = r]
  PROVE  /\ lease \in Indices /\ Indices' = Indices /\ Leased = req[lease] /\ req'[lease] = r
         /\ \A j \in Indices \ {lease} : req'[j] = req[j]
<1>1. ReqOK /\ lease \in Indices /\ Leased = req[lease]
  BY InvMeans, PlannedIn
<1>2. Len(req') = Len(req) /\ req'[lease] = r /\ \A j \in Indices \ {lease} : req'[j] = req[j]
  BY <1>1, LaterReplaced
<1> QED BY <1>1, <1>2 DEF Indices

LEMMA NotedSettles ==
  ASSUME Inv, RInv, SInv, Inv', ReplayNoted
  PROVE  SInv'
<1>1. /\ drv.pc = "note" /\ lease # 0 /\ drv.key \in Keys /\ drv.key \in Range(Leased.intents)
      /\ box = NoBox /\ UNCHANGED <<parent, lease, mail, msg, box>> /\ drv'.pc = "replay"
  BY InvMeans DEF ReplayNoted, DrvOK, Driver, RInv, PlanInv, Steps, sqlite, Guard
<1>2. PICK k \in Keys : k = drv.key
  BY <1>1
<1>3. PICK r : /\ Later(Leased, r) /\ r.plan = Leased.plan /\ r.stage = Leased.stage
               /\ r.intents = Leased.intents /\ r.early = Leased.early
               /\ r.done = Leased.done \cup {drv.key} /\ Affected(r) = Affected(Leased)
               /\ req' = [req EXCEPT ![lease] = r]
  BY <1>1, NotedRecords
<1>4. /\ lease \in Indices /\ Indices' = Indices /\ Leased = req[lease] /\ req'[lease] = r
      /\ \A j \in Indices \ {lease} : req'[j] = req[j]
  BY <1>1, <1>3, LeasedChanged
<1>5. Leased' = r /\ (Crossed' <=> Crossed)
  BY <1>1, <1>3, <1>4 DEF Leased, Crossed
<1>6. Range(Leased.intents) \subseteq Keys /\ Leased.done \subseteq Range(Leased.intents)
  BY <1>4, IntentKeys DEF SInv, Within
<1>7. Within'
  <2> SUFFICES ASSUME NEW j \in Indices PROVE req'[j].done \subseteq Range(req'[j].intents)
    BY <1>4 DEF Within
  <2>1. CASE j = lease
    BY <1>1, <1>3, <1>4, <1>6, <2>1
  <2> QED BY <1>4, <2>1 DEF SInv, Within
<1>8. Effects'
  <2> SUFFICES ASSUME NEW n \in Range(Leased.intents),
                      n \in Leased.done \cup {k} \/ (n[1] \in Posts /\ mail[n] # None)
               PROVE  Settled(n)'
    BY <1>1, <1>2, <1>3, <1>5 DEF Effects
  <2>1. Settled(n)
    BY <1>1, <1>2 DEF SInv, Effects, NoteEffects
  <2> QED BY <1>1, <1>3, <1>5, <1>6, <2>1, SettledStays
<1>9. NoteEffects' /\ BoxTells'
  BY <1>1 DEF NoteEffects, BoxTells, NoBox
<1> QED BY <1>7, <1>8, <1>9 DEF SInv

\* The transaction has ended.
LEMMA EndRecords ==
  ASSUME Inv, RInv, Release, ~UNCHANGED lease
  PROVE  /\ lease # 0 /\ lease' = 0 /\ Open(Leased) = {} /\ box = NoBox /\ drv' = Idle
         /\ UNCHANGED <<parent, wake, msg, mail, box, begun>>
         /\ \E r : /\ Later(Leased, r) /\ req' = [req EXCEPT ![lease] = r]
                   /\ r.plan = Leased.plan /\ Same(Leased, r)
<1>1. /\ drv.pc = "final" /\ lease # 0 /\ lease' = 0 /\ Open(Leased) = {} /\ box = NoBox /\ drv' = Idle
      /\ UNCHANGED <<parent, wake, msg, mail, box, begun>>
      /\ req' = [req EXCEPT ![lease].status = Outcome(drv.mode)[1],
                            ![lease].stage = Outcome(drv.mode)[2]]
  BY InvMeans DEF Release, sqlite, DrvOK, Guard
<1>2. /\ drv.mode = "forward" <=> Leased.stage = "authority_committed"
      /\ Leased.stage \in FencedStages
  BY <1>1 DEF RInv, PlanInv, Steps, Running
<1>3. Leased \in Request /\ Leased = req[lease] /\ lease \in Indices
  BY <1>1, PlannedIn
<1> DEFINE r == [Leased EXCEPT !.status = Outcome(drv.mode)[1], !.stage = Outcome(drv.mode)[2]]
<1>4. /\ Outcome(drv.mode)[1] \in {"applied", "stale", "repaired"}
      /\ drv.mode = "forward" => Outcome(drv.mode)[2] = "applied"
  BY DEF Outcome
<1>5. req' = [req EXCEPT ![lease] = r]
  BY <1>1, <1>3
<1>6. /\ r.plan = Leased.plan /\ r.early = Leased.early /\ r.status # "pending"
      /\ drv.mode = "forward" => r.stage = "applied"
  BY <1>3, <1>4 DEF Request
<1>7. Same(Leased, r)
  BY <1>3 DEF Request, Same, Affected
<1> HIDE DEF r
<1>8. Committed(Leased) => Committed(r)
  BY <1>2, <1>6 DEF Committed, FencedStages
<1>9. Later(Leased, r)
  BY <1>1, <1>6, <1>8, LaterLeased
<1> QED BY <1>1, <1>5, <1>6, <1>7, <1>9

LEMMA EndSettles ==
  ASSUME Inv, RInv, SInv, Inv', Release, ~UNCHANGED lease
  PROVE  SInv'
<1>1. lease # 0 /\ lease' = 0 /\ box = NoBox /\ drv' = Idle /\ UNCHANGED box
  BY EndRecords
<1>2. PICK r : /\ Later(Leased, r) /\ req' = [req EXCEPT ![lease] = r]
               /\ r.plan = Leased.plan /\ Same(Leased, r)
  BY EndRecords
<1>3. AllSame
  BY <1>1, <1>2, LeasedReplaced
<1>4. Within'
  BY <1>3 DEF SInv, Within, AllSame, Same, Range
<1> QED BY <1>1, <1>4 DEF SInv, Effects, NoteEffects, BoxTells, Idle, NoBox

-----------------------------------------------------------------------------
(* Release settles what was deferred *)

LEMMA InitSettles == Init => SInv
<1> SUFFICES ASSUME Init PROVE SInv
  OBVIOUS
<1>1. lease = 0 /\ Indices = {} /\ drv.pc = "idle" /\ box.c = None
  BY EmptySeq DEF Init, Indices, Idle, NoBox
<1> QED BY <1>1 DEF SInv, Within, Effects, NoteEffects, BoxTells

\* The steps of the driver, apart from those in the registry that defer and note nothing
LEMMA DriveSplit ==
  ASSUME Inv, RInv, Drive \/ Repair \/ QueueFails \/ Crash
  PROVE  \/ Driven
         \/ QuiesceQueue \/ \E target \in Parents : Retarget(target)
         \/ /\ At("routing_quiesced") /\ EdgesMove
            /\ UNCHANGED <<lease, wake, msg, mail, box, begun>>
         \/ Collect \/ Replay \/ ReplayNoted
         \/ Release /\ ~UNCHANGED lease
<1>1. CASE QuiesceJson \/ QueueQuiesced \/ FinishRouting \/ RestoreJson
  BY <1>1, DrivenQuiesce, DrivenRoute
<1>2. CASE Commit
  <2>1. CASE EdgesMove
    BY <1>2, <2>1 DEF Commit, sqlite
  <2>2. CASE ~EdgesMove
    BY <1>2, <2>2, DrivenQuiesce, DrivenRoute
  <2> QED BY <2>1, <2>2
<1>3. CASE AbortResume \/ ReplayPick \/ ReplayEnds \/ Release
  BY <1>3, DrivenReplay
<1>4. CASE Fail \/ Repair \/ QueueFails \/ Crash
  BY <1>4, DrivenFail, DrivenRepair
<1> QED BY <1>1, <1>2, <1>3, <1>4 DEF Drive

LEMMA NextSettles ==
  ASSUME Inv, RInv, SInv, Inv', [Next]_vars
  PROVE  SInv'
<1>1. CASE UNCHANGED vars
  <2>1. UNCHANGED <<parent, req, lease, mail, msg, drv, box>>
    BY <1>1 DEF vars
  <2> QED BY <2>1, SettleAside
<1>2. CASE Consent
  <2>1. lease # 0 => (Crossed' <=> Crossed)
    BY <1>2, ConsentRecords DEF Crossed
  <2> QED BY <1>2, <2>1, ConsentRecords, SettleKept
<1>3. CASE Traffic \/ Delivery
  BY <1>3, TrafficSettles, DeliverySettles
<1>4. CASE Acquire
  BY <1>4, DrivenAcquire, DrivenSettles, AcquireNewSettles DEF Acquire
<1>5. CASE Drive \/ Repair \/ QueueFails \/ Crash
  <2>1. CASE QuiesceQueue \/ \E target \in Parents : Retarget(target)
    BY <2>1, MessagesStay, SettleAside
  <2>2. CASE At("routing_quiesced") /\ EdgesMove /\ UNCHANGED <<lease, wake, msg, mail, box, begun>>
    BY <2>2, EdgesMoveSettles
  <2>3. CASE Collect \/ Replay \/ ReplayNoted \/ (Release /\ ~UNCHANGED lease)
    BY <2>3, CollectSettles, ReplaySettles, NotedSettles, EndSettles
  <2> QED BY <1>5, <2>1, <2>2, <2>3, DriveSplit, DrivenSettles
<1> QED BY <1>1, <1>2, <1>3, <1>4, <1>5 DEF Next

LEMMA OnlyReleaseEnds ==
  ASSUME Inv, RInv, [Next]_vars, lease # 0, lease' = 0
  PROVE  Release /\ ~UNCHANGED lease
<1>1. ~UNCHANGED vars
  BY DEF vars
<1>2. ~Consent /\ ~Traffic /\ ~Delivery
  BY ConsentRecords DEF Traffic, Delivery, Stop, Restore, TaskComplete, NotifyParent, SendInput, Deliver,
     DeliverMark, DeliverEnd, CompleteTell, CompleteEnd, registry
<1>3. ~Acquire
  BY DrivenAcquire, AcquireNewRecords DEF Acquire, Driven
<1>4. ~(QuiesceQueue \/ \E target \in Parents : Retarget(target)) /\ ~Collect
  BY MessagesStay, CollectRecords
<1>5. ~Replay /\ ~ReplayNoted
  BY DEF Replay, ReplayNoted
<1> QED BY <1>1, <1>2, <1>3, <1>4, <1>5, DriveSplit DEF Next, Driven

LEMMA ReleaseMeans ==
  ASSUME Inv, RInv, SInv, [Next]_vars, lease # 0, lease' = 0, NEW n \in DOMAIN Leased.intents
  PROVE  LET k == Leased.intents[n]
         IN  /\ k \in Leased.done
             /\ k[1] \in {"complete", "message"} =>
                  mail[k] = parent[k[2]] \/ (Committed(Leased) /\ k \in Leased.early)
             /\ k[1] = "input" => msg[k[2]].state # "absent"
<1>1. Open(Leased) = {}
  BY OnlyReleaseEnds, EndRecords
<1>2. PICK k : k = Leased.intents[n]
  OBVIOUS
<1>3. k \in Leased.done /\ k \in Range(Leased.intents)
  BY <1>1, <1>2 DEF Open, Range
<1>4. Settled(k)
  BY <1>3 DEF SInv, Effects
<1>5. Crossed => Committed(Leased)
  BY DEF Crossed, Committed
<1> QED BY <1>2, <1>3, <1>4, <1>5 DEF Settled, Posts

\* No transaction gives its lease back while something is undone that was deferred by
\* its fence: every intent is noted, every report is there and addressed to the parent
\* that its session has then, every input is queued (replay_deferred_reparent_routes
\* and the check for unreplayed intents in the last replacement).
THEOREM IntentsSettle == Spec => ReleaseSettlesIntents
<1>1. Init => RInv /\ SInv
  BY InitRoutes, InitSettles
<1>2. Inv /\ RInv /\ SInv /\ Inv' /\ [Next]_vars => RInv' /\ SInv'
  BY NextRoutes, NextSettles
<1>3. Inv /\ RInv /\ SInv /\ [Next]_vars =>
        [(lease # 0 /\ lease' = 0) =>
           \A n \in DOMAIN Leased.intents :
             LET k == Leased.intents[n]
             IN  /\ k \in Leased.done
                 /\ k[1] \in {"complete", "message"} =>
                      mail[k] = parent[k[2]] \/ (Committed(Leased) /\ k \in Leased.early)
                 /\ k[1] = "input" => msg[k[2]].state # "absent"]_vars
  BY ReleaseMeans
<1> QED BY <1>1, <1>2, <1>3, Invariance, PTL DEF Spec, ReleaseSettlesIntents

-----------------------------------------------------------------------------
(* Wakes of delivered inputs *)

Wakes == {"wake", "planned"}

\* c has an active wake, or a planned one that can be active again, or needs none.
Kept(c) ==
  \/ c \in begun \/ Orphaned(c)
  \/ \E w \in DOMAIN wake : wake[w].child = c /\ (wake[w].on \/ LooseWake(w))

\* The transaction will find the delivery of m, or has and will replay its wake.
Coming(m) ==
  \/ LooseMsg(m)
  \/ drv.pc = "route" /\ m \in drv.got
  \/ lease # 0 /\ \E k \in Range(Leased.intents) \ Leased.done : k[1] \in Wakes /\ k[2] = m

Sent == \A m \in Messages : msg[m].state # "absent" => parent[To[m]] # None \/ Orphaned(To[m])

\* What is planned had a parent, and what is found delivered was planned.
PlanSent ==
  lease # 0 => /\ \A w \in Leased.plan.wakes : Leased.plan.edges[wake[w].child].old # None
               /\ \A m \in Leased.plan.msgs : msg[m].state # "absent"
Got == drv.pc = "route" => drv.mode # "abort" /\ drv.got \subseteq Leased.plan.msgs

\* What an intent says of its session
Means(k) ==
  /\ k[1] \in Wakes => msg[k[2]].state # "absent" /\ Child(k) \in Affected(Leased)
  /\ k[1] = "complete" => k[2] \in begun
Named == lease # 0 => \A k \in Range(Leased.intents) : Means(k)

\* No intent outlives the lease, and a wake that was replayed is kept.
Finished == \A i \in Indices : i # lease => Range(req[i].intents) \subseteq req[i].done
DoneKept == \A i \in Indices : \A k \in req[i].done : k[1] \in Wakes => Kept(Child(k))
NoteKept == (drv.pc = "note" /\ drv.key[1] \in Wakes) => Kept(Child(drv.key))

\* A delivery without a parent to wake has left an intent, or read a blanked message.
BoxWake ==
  (box.m # None /\ ~box.marked) =>
    /\ msg[box.m].state = "queued"
    /\ box.to = None => \/ Deferred(<<"wake", box.m>>)
                        \/ msg[box.m].to = None
                        \/ \E i \in Indices : box.m \in req[i].plan.msgs

Safe(m) == Straddles(m) \/ Kept(To[m]) \/ Coming(m)
Delivered == \A m \in Messages : msg[m].state = "delivered" => Safe(m)

WInv == Sent /\ PlanSent /\ Got /\ Named /\ Finished /\ DoneKept /\ NoteKept /\ BoxWake /\ Delivered

\* Intents are only added, and only by the request with the lease.
AllGrown ==
  /\ \A i \in Indices : /\ Range(req[i].intents) \subseteq Range(req'[i].intents)
                        /\ req[i].done \subseteq req'[i].done
                        /\ Affected(req'[i]) = Affected(req[i])
                        /\ i # lease => Same(req[i], req'[i])
  /\ \A i \in Indices' \ Indices : req'[i].intents = <<>> /\ req'[i].done = {}

AllKept == \A c \in Sessions : Kept(c) => Kept(c)'

LEMMA SameGrown ==
  ASSUME AllSame
  PROVE  AllGrown
BY DEF AllSame, AllGrown, Same, Range

LEMMA WakeKeys ==
  ASSUME NEW k \in Keys
  PROVE  /\ Child(k) \in Sessions
         /\ k[1] \in Wakes => k[2] \in Messages /\ Child(k) = To[k[2]]
BY KeyChild DEF Keys, Child, Wakes

LEMMA StraddlesStay ==
  ASSUME Inv, Inv', AllLater, AllGrown, NEW m \in Messages, Straddles(m), msg'[m] = msg[m],
         lease # 0 => <<"wake", m>> \notin Range(req'[lease].intents) \ Range(req[lease].intents)
  PROVE  Straddles(m)'
<1>1. Indices \subseteq Indices'
  BY InvMeans, IndicesGrow DEF Inv, TypeOK, ReqOK, AllLater
<1>2. PICK i \in Indices : m \in req[i].plan.msgs
  BY DEF Straddles
<1>3. i \in Indices' /\ m \in req'[i].plan.msgs
  BY <1>1, <1>2 DEF AllLater, Later, NoPlan
<1>4. ~Deferred(<<"wake", m>>)'
  <2> SUFFICES ASSUME NEW j \in Indices', <<"wake", m>> \in Range(req'[j].intents) PROVE FALSE
    BY DEF Deferred
  <2>1. j \in Indices
    BY DEF AllGrown, Range
  <2>2. <<"wake", m>> \notin Range(req[j].intents)
    BY <2>1 DEF Straddles, Deferred
  <2>3. j = lease
    BY <2>1, <2>2 DEF AllGrown, Same
  <2> QED BY <2>1, <2>2, <2>3, InvMeans DEF ReqOK, Indices
<1> QED BY <1>3, <1>4 DEF Straddles

LEMMA WakeStep ==
  ASSUME Inv, RInv, WInv, Inv', AllLater, AllGrown, AllKept, UNCHANGED lease,
         lease # 0 => Leased'.plan = Leased.plan,
         \A w \in DOMAIN wake : w \in DOMAIN wake' /\ wake'[w].child = wake[w].child,
         begun \subseteq begun',
         lease # 0 => \A k \in Range(Leased'.intents) \ Range(Leased.intents) :
                        Means(k)' /\ (k[1] = "wake" => msg[k[2]].state # "delivered"),
         lease # 0 => \A k \in Leased'.done \ Leased.done : k[1] \in Wakes => Kept(Child(k)),
         \A m \in Messages : msg[m].state # "absent" => msg'[m].state # "absent",
         \A m \in Messages : msg'[m].state = "delivered" =>
           \/ Safe(m)'
           \/ /\ msg'[m] = msg[m]
              /\ LooseMsg(m) => Coming(m)'
              /\ (drv.pc = "route" /\ m \in drv.got) => Coming(m)' \/ Kept(To[m]),
         Sent', Got', NoteKept', BoxWake'
  PROVE  WInv'
<1>1. /\ ReqOK /\ Indices \subseteq Indices' /\ lease \in Nat /\ (lease # 0 => lease \in Indices)
      /\ 0 \notin Indices
  BY InvMeans, IndicesGrow DEF Inv, TypeOK, ReqOK, AllLater, Indices
<1>2. lease # 0 => /\ Leased = req[lease] /\ Leased' = req'[lease]
                   /\ Range(Leased.intents) \subseteq Range(Leased'.intents)
                   /\ Leased.done \subseteq Leased'.done /\ Affected(Leased') = Affected(Leased)
                   /\ Range(Leased.intents) \subseteq Keys
  BY <1>1, IntentKeys DEF AllGrown, Leased
<1>3. PlanSent'
  <2> SUFFICES ASSUME lease # 0
               PROVE  /\ \A w \in Leased.plan.wakes : Leased.plan.edges[wake'[w].child].old # None
                      /\ \A m \in Leased.plan.msgs : msg'[m].state # "absent"
    BY DEF PlanSent
  <2> QED BY PlannedIn DEF WInv, PlanSent
<1>4. Named'
  <2> SUFFICES ASSUME lease # 0, NEW k \in Range(Leased'.intents) PROVE Means(k)'
    BY DEF Named
  <2>1. CASE k \in Range(Leased.intents)
    <3>1. Means(k) /\ k \in Keys
      BY <1>2, <2>1 DEF WInv, Named
    <3>2. (k[1] \in Wakes => msg'[k[2]].state # "absent" /\ Child(k) \in Affected(Leased'))
      BY <1>2, <3>1, WakeKeys DEF Means
    <3>3. Child(k)' = Child(k) /\ Affected(Leased)' = Affected(Leased')
      BY DEF Child, Affected
    <3> QED BY <3>1, <3>2, <3>3 DEF Means
  <2> QED BY <2>1
<1>5. Finished'
  <2> SUFFICES ASSUME NEW i \in Indices', i # lease PROVE Range(req'[i].intents) \subseteq req'[i].done
    BY DEF Finished
  <2> QED BY DEF WInv, Finished, AllGrown, Same, Range
<1>6. DoneKept'
  <2> SUFFICES ASSUME NEW i \in Indices', NEW k \in req'[i].done, k[1] \in Wakes PROVE Kept(Child(k))'
    BY DEF DoneKept
  <2>1. i \in Indices
    BY DEF AllGrown
  <2>2. k \in Keys
    <3>1. req'[i] \in Request
      BY LenProperties DEF Inv, TypeOK, Indices
    <3> QED BY <3>1 DEF Request
  <2>3. Kept(Child(k))
    <3>1. CASE k \in req[i].done
      BY <2>1, <3>1 DEF WInv, DoneKept
    <3>2. CASE k \notin req[i].done
      <4>1. i = lease /\ lease # 0
        BY <1>1, <2>1, <3>2 DEF AllGrown, Same
      <4>2. k \in Leased'.done \ Leased.done
        BY <1>2, <3>2, <4>1
      <4> QED BY <4>1, <4>2
    <3> QED BY <3>1, <3>2
  <2> QED BY <2>2, <2>3, WakeKeys DEF AllKept, Child
<1>7. Delivered'
  <2> SUFFICES ASSUME NEW m \in Messages, msg'[m].state = "delivered", ~Safe(m)' PROVE FALSE
    BY DEF Delivered
  <2>1. /\ msg'[m] = msg[m]
        /\ LooseMsg(m) => Coming(m)'
        /\ (drv.pc = "route" /\ m \in drv.got) => Coming(m)' \/ Kept(To[m])
    OBVIOUS
  <2>2. Safe(m) /\ To[m] \in Sessions
    BY <2>1, ReparentAssumption DEF WInv, Delivered
  <2>3. ~Kept(To[m]) /\ ~Coming(m)' /\ ~Straddles(m)'
    BY <2>2 DEF AllKept, Safe
  <2>4. ~Straddles(m)
    <3> DEFINE k == <<"wake", m>>
    <3>1. lease # 0 => k \notin Range(Leased'.intents) \ Range(Leased.intents)
      BY <2>1
    <3> QED BY <1>2, <2>1, <2>3, <3>1, StraddlesStay
  <2>5. PICK k \in Range(Leased.intents) \ Leased.done : lease # 0 /\ k[1] \in Wakes /\ k[2] = m
    BY <2>1, <2>2, <2>3, <2>4 DEF Safe, Coming
  <2>6. k \in Keys /\ Child(k) = To[m]
    BY <1>2, <2>5, WakeKeys
  <2>7. k \notin Leased'.done
    BY <2>3, <2>5, <2>6
  <2> QED BY <1>2, <2>3, <2>5, <2>7 DEF Coming
<1> QED BY <1>3, <1>4, <1>5, <1>6, <1>7 DEF WInv

\* What steps keep of it
LEMMA SentStays ==
  ASSUME Inv, Inv', Sent, AllLater, UNCHANGED parent,
         \A m \in Messages : msg'[m].state # "absent" => msg[m].state # "absent"
  PROVE  Sent'
<1>1. \A c : Orphaned(c) => Orphaned(c)'
  BY InvMeans, MarksStay DEF Inv, TypeOK, ReqOK
<1> SUFFICES ASSUME NEW m \in Messages, msg'[m].state # "absent"
             PROVE  parent'[To[m]] # None \/ Orphaned(To[m])'
  BY DEF Sent
<1> QED BY <1>1 DEF Sent

LEMMA KeptRows ==
  ASSUME Inv, Inv', AllLater, SamePlan, UNCHANGED lease, begun \subseteq begun',
         \A w \in DOMAIN wake : /\ w \in DOMAIN wake' /\ wake'[w].child = wake[w].child
                                /\ wake[w].on => Kept(wake[w].child)'
  PROVE  AllKept
<1> SUFFICES ASSUME NEW c \in Sessions, Kept(c) PROVE Kept(c)'
  BY DEF AllKept
<1>1. CASE c \in begun \/ Orphaned(c)
  BY <1>1, CalmMarks DEF Kept, Inv, TypeOK, ReqOK
<1>2. ASSUME NEW w \in DOMAIN wake, wake[w].child = c, wake[w].on \/ LooseWake(w) PROVE Kept(c)'
  <2>1. CASE wake[w].on
    BY <1>2, <2>1 DEF Kept
  <2>2. CASE LooseWake(w)
    <3>1. LooseWake(w)'
      BY <1>2, <2>2, CalmMarks DEF LooseWake, Loose, Routed, Inv, TypeOK, ReqOK
    <3> QED BY <1>2, <3>1 DEF Kept
  <2> QED BY <1>2, <2>1, <2>2
<1> QED BY <1>1, <1>2 DEF Kept

LEMMA KeptSame ==
  ASSUME Inv, Inv', AllLater, SamePlan, UNCHANGED <<lease, wake>>, begun \subseteq begun'
  PROVE  AllKept
<1>1. ASSUME NEW w \in DOMAIN wake, wake[w].on PROVE Kept(wake[w].child)'
  BY <1>1 DEF Kept
<1> QED BY <1>1, KeptRows

LEMMA BoxStaysWake ==
  ASSUME Inv, Inv', BoxWake, AllLater, AllGrown,
         (box'.m # None /\ ~box'.marked) => UNCHANGED box,
         \A m \in Messages : msg[m].state = "queued" =>
           /\ msg'[m].state = "queued"
           /\ \/ msg'[m].to \in {msg[m].to, None}
              \/ \E i \in Indices : m \in req[i].plan.msgs
  PROVE  BoxWake'
<1> SUFFICES ASSUME box'.m # None, ~box'.marked, UNCHANGED box, NEW m \in Messages, m = box.m
             PROVE  /\ msg'[m].state = "queued"
                    /\ box.to = None => \/ Deferred(<<"wake", m>>)'
                                        \/ msg'[m].to = None
                                        \/ \E i \in Indices' : m \in req'[i].plan.msgs
  BY InvMeans DEF BoxOK, Box, BoxWake, Deferred
<1>1. Indices \subseteq Indices'
  BY InvMeans, IndicesGrow DEF Inv, TypeOK, ReqOK, AllLater
<1>2. msg'[m].state = "queued"
  BY DEF BoxWake
<1>3. ASSUME NEW i \in Indices, m \in req[i].plan.msgs PROVE \E j \in Indices' : m \in req'[j].plan.msgs
  BY <1>1, <1>3 DEF AllLater, Later, NoPlan
<1>4. Deferred(<<"wake", m>>) => Deferred(<<"wake", m>>)'
  BY <1>1 DEF Deferred, AllGrown
<1> QED BY <1>2, <1>3, <1>4 DEF BoxWake

LEMMA NoteStays ==
  ASSUME Inv, NoteKept, AllKept,
         drv'.pc = "note" => drv.pc = "note" /\ drv'.key = drv.key
  PROVE  NoteKept'
<1> SUFFICES ASSUME drv.pc = "note", NEW k \in Keys, k = drv.key, drv'.key = drv.key, k[1] \in Wakes
             PROVE  Kept(Child(k))'
  BY InvMeans DEF DrvOK, NoteKept, Kept, Child
<1>1. Kept(Child(k)) /\ Child(k) \in Sessions
  BY WakeKeys DEF NoteKept
<1> QED BY <1>1 DEF AllKept, Child

\* A step that neither defers, replays nor delivers
LEMMA WakeQuiet ==
  ASSUME Inv, RInv, WInv, Inv', AllLater, AllSame, SamePlan,
         UNCHANGED <<parent, lease, wake, msg, begun>>,
         \/ UNCHANGED drv
         \/ /\ drv'.pc # "note" /\ Got'
            /\ drv.pc = "route" => Leased' = Leased /\ drv'.pc \notin Running,
         (box'.m # None /\ ~box'.marked) => UNCHANGED box
  PROVE  WInv'
<1>1. AllKept /\ AllGrown /\ Sent' /\ BoxWake'
  BY KeptSame, SameGrown, SentStays, BoxStaysWake DEF WInv
<1>2. NoteKept'
  BY <1>1, NoteStays DEF WInv
<1>3. Got'
  BY InvMeans DEF WInv, Got, SamePlan, DrvOK
<1>4. ASSUME NEW m \in Messages, LooseMsg(m) PROVE Coming(m)'
  BY <1>4 DEF LooseMsg, SamePlan, Routed, Coming
<1>5. ASSUME NEW m \in Messages, drv.pc = "route", m \in drv.got PROVE Coming(m)'
  <2>1. CASE UNCHANGED drv
    BY <1>5, <2>1 DEF Coming
  <2>2. CASE Leased' = Leased /\ drv'.pc \notin Running
    <3>1. /\ lease # 0 /\ m \in Leased.plan.msgs
          /\ Leased.stage \in {"json_routing_quiesced", "routing_quiesced", "authority_committed"}
      BY <1>5, InvMeans DEF DrvOK, WInv, Got, RInv, PlanInv, Steps, Running, FencedStages
    <3> QED BY <2>2, <3>1 DEF Coming, LooseMsg, Loose
  <2> QED BY <1>5, <2>1, <2>2
<1>6. lease # 0 => /\ Leased'.plan = Leased.plan /\ Leased'.intents = Leased.intents
                   /\ Leased'.done = Leased.done
  BY PlannedIn DEF SamePlan, AllSame, Same, Leased
<1> QED BY <1>1, <1>2, <1>3, <1>4, <1>5, <1>6, WakeStep

\* An operation is deferred.
LEMMA WakeDeferral ==
  ASSUME Inv, RInv, WInv, Inv', NEW i \in Indices, Fenced(req[i]), NEW k \in Keys, req' = Intend(i, k),
         UNCHANGED <<parent, lease, wake, msg, drv>>, begun \subseteq begun', Means(k)',
         k[1] = "wake" => msg[k[2]].state # "delivered", BoxWake'
  PROVE  WInv'
<1>1. /\ i = lease /\ lease # 0 /\ AllLater
      /\ Leased'.plan = Leased.plan /\ Leased'.stage = Leased.stage
      /\ Range(Leased'.intents) = Range(Leased.intents) \cup {k}
      /\ Leased'.done = Leased.done /\ Affected(Leased)' = Affected(Leased)
      /\ Indices' = Indices /\ \A j \in Indices \ {lease} : req'[j] = req[j]
  BY Intended
<1>2. AllGrown
  BY <1>1 DEF AllGrown, Same, Leased, Affected
<1>3. SamePlan
  BY <1>1 DEF SamePlan, Crossed, Loose
<1>4. AllKept /\ Sent'
  BY <1>1, <1>3, KeptSame, SentStays DEF WInv
<1>5. NoteKept' /\ Got'
  BY <1>1, <1>4, NoteStays DEF WInv, Got
<1>6. ASSUME NEW m \in Messages PROVE /\ LooseMsg(m) => Coming(m)'
                                      /\ (drv.pc = "route" /\ m \in drv.got) => Coming(m)'
  BY <1>1, <1>3 DEF LooseMsg, SamePlan, Routed, Coming
<1> QED BY <1>1, <1>2, <1>4, <1>5, <1>6, WakeStep

LEMMA KeptRegistered ==
  ASSUME Inv, Inv', AllLater, SamePlan, UNCHANGED lease, begun \subseteq begun',
         NEW c \in Sessions, NEW p \in Sessions, wake' = Registered(wake, c, p)
  PROVE  /\ AllKept /\ Kept(c)'
         /\ \A w \in DOMAIN wake : w \in DOMAIN wake' /\ wake'[w].child = wake[w].child
<1> DEFINE old == Cancelled(wake, c)
           row == [child |-> c, to |-> p, on |-> TRUE]
<1>1. old \in Seq(Row) /\ Len(old) = Len(wake) /\ wake \in Seq(Row)
  BY CancelledType, InvMeans DEF StateOK
<1>2. \A w \in DOMAIN wake : /\ wake[w].child # c => old[w] = wake[w]
                             /\ old[w].child = wake[w].child
  BY <1>1, CancelledRows DEF Cancelled
<1>3. row \in Row /\ row.child = c /\ row.on /\ wake' = Append(old, row)
  BY DEF Row, Registered
<1> HIDE DEF old, row
<1>4. /\ DOMAIN wake' = 1 .. Len(wake) + 1 /\ wake'[Len(wake) + 1] = row
      /\ \A w \in 1 .. Len(wake) : wake'[w] = old[w]
  BY <1>1, <1>3, AppendProperties
<1>5. DOMAIN wake = 1 .. Len(wake) /\ Len(wake) \in Nat
  BY <1>1, LenProperties
<1>6. Kept(c)'
  BY <1>3, <1>4, <1>5 DEF Kept
<1>7. \A w \in DOMAIN wake : w \in DOMAIN wake' /\ wake'[w].child = wake[w].child
  BY <1>2, <1>4, <1>5
<1>8. ASSUME NEW w \in DOMAIN wake, wake[w].on, NEW d, d = wake[w].child PROVE Kept(d)'
  <2>1. CASE d = c
    BY <1>6, <2>1
  <2>2. CASE d # c
    <3>1. w \in DOMAIN wake' /\ wake'[w] = wake[w]
      BY <1>2, <1>4, <1>5, <1>8, <2>2
    <3> QED BY <1>8, <3>1 DEF Kept
  <2> QED BY <2>1, <2>2
<1>9. AllKept
  BY <1>7, <1>8, KeptRows
<1> QED BY <1>6, <1>7, <1>9

LEMMA KeptCancelled ==
  ASSUME Inv, Inv', AllLater, SamePlan, UNCHANGED lease, begun \subseteq begun',
         NEW c \in begun', wake' = Cancelled(wake, c)
  PROVE  /\ AllKept
         /\ \A w \in DOMAIN wake : w \in DOMAIN wake' /\ wake'[w].child = wake[w].child
<1>1. wake \in Seq(Row)
  BY InvMeans DEF StateOK
<1>2. \A w \in DOMAIN wake : /\ w \in DOMAIN wake' /\ wake'[w].child = wake[w].child
                             /\ wake[w].child # c => wake'[w] = wake[w]
  BY <1>1, CancelledRows DEF Cancelled
<1>3. ASSUME NEW w \in DOMAIN wake, wake[w].on, NEW d, d = wake[w].child PROVE Kept(d)'
  BY <1>2, <1>3 DEF Kept
<1> QED BY <1>2, <1>3, KeptRows

LEMMA SameAside ==
  ASSUME UNCHANGED <<req, lease, drv>>
  PROVE  AllLater /\ AllSame /\ AllGrown /\ SamePlan /\ Leased' = Leased
<1>1. AllLater /\ AllSame /\ Leased' = Leased
  BY LaterSame DEF Leased
<1> QED BY <1>1, SameGrown DEF SamePlan, Crossed, Loose

\* The transaction is left alone.
LEMMA WakeAside ==
  ASSUME Inv, RInv, WInv, Inv', UNCHANGED <<req, lease, drv>>, AllKept, begun \subseteq begun',
         \A w \in DOMAIN wake : w \in DOMAIN wake' /\ wake'[w].child = wake[w].child,
         \A m \in Messages : msg[m].state # "absent" => msg'[m].state # "absent",
         \A m \in Messages : msg'[m].state = "delivered" => msg'[m] = msg[m] \/ Safe(m)',
         Sent', BoxWake'
  PROVE  WInv'
<1>1. AllLater /\ AllGrown /\ SamePlan /\ Leased' = Leased
  BY SameAside
<1>2. NoteKept' /\ Got'
  BY <1>1, NoteStays DEF WInv, Got
<1>3. ASSUME NEW m \in Messages PROVE /\ LooseMsg(m) => Coming(m)'
                                      /\ (drv.pc = "route" /\ m \in drv.got) => Coming(m)'
  BY <1>1 DEF LooseMsg, SamePlan, Routed, Coming
<1> QED BY <1>1, <1>2, <1>3, WakeStep

LEMMA TrafficWakes ==
  ASSUME Inv, RInv, WInv, Inv', Traffic
  PROVE  WInv'
<1>1. ASSUME NEW s \in Sessions, Stop(s) \/ Restore(s) PROVE WInv'
  <2>1. UNCHANGED <<parent, req, lease, wake, msg, drv, box, begun>>
    BY <1>1 DEF Stop, Restore, sqlite
  <2> QED BY <2>1, SameAside, WakeQuiet
<1>2. ASSUME NEW c \in Sessions, TaskComplete(c) PROVE WInv'
  <2> DEFINE k == <<"complete", c>>
  <2>1. UNCHANGED <<parent, lease, msg, drv>> /\ begun' = begun \cup {c} /\ box = NoBox
    BY <1>2 DEF TaskComplete, Http, Guard
  <2>2. ASSUME NEW i \in Indices, FencesRoutes(i, c), req' = Intend(i, k), UNCHANGED <<wake, box>>
        PROVE  WInv'
    <3>1. Means(k)' /\ BoxWake'
      BY <2>1, <2>2 DEF Means, BoxWake, NoBox, Wakes
    <3> QED BY <2>1, <2>2, <3>1, KeysOf, WakeDeferral DEF FencesRoutes
  <2>3. ASSUME NEW p, box' = [NoBox EXCEPT !.c = c, !.to = p], wake' = Cancelled(wake, c), UNCHANGED req
        PROVE  WInv'
    <3>1. BoxWake'
      BY <2>3 DEF BoxWake, NoBox
    <3>2. /\ AllKept
          /\ \A w \in DOMAIN wake : w \in DOMAIN wake' /\ wake'[w].child = wake[w].child
      BY <2>1, <2>3, SameAside, KeptCancelled
    <3>3. Sent'
      BY <2>1, <2>3, SameAside, SentStays DEF WInv
    <3> QED BY <2>1, <2>3, <3>1, <3>2, <3>3, WakeAside
  <2> QED BY <1>2, <2>2, <2>3 DEF TaskComplete
<1>3. ASSUME NEW c \in Sessions, NotifyParent(c) PROVE WInv'
  <2> DEFINE k == <<"message", c>>
  <2>1. UNCHANGED <<parent, lease, wake, msg, drv, box, begun>> /\ box = NoBox
    BY <1>3 DEF NotifyParent, Http, Guard
  <2>2. ASSUME NEW i \in Indices, FencesRoutes(i, c), req' = Intend(i, k) PROVE WInv'
    <3>1. Means(k)' /\ BoxWake'
      BY <2>1 DEF Means, BoxWake, NoBox, Wakes
    <3> QED BY <2>1, <2>2, <3>1, KeysOf, WakeDeferral DEF FencesRoutes
  <2>3. CASE UNCHANGED req
    BY <2>1, <2>3, SameAside, WakeQuiet
  <2> QED BY <1>3, <2>2, <2>3 DEF NotifyParent
<1>4. ASSUME NEW m \in Messages, SendInput(m) PROVE WInv'
  <2> DEFINE k == <<"input", m>>
  <2>1. /\ UNCHANGED <<parent, lease, wake, drv, box, begun>> /\ box = NoBox
        /\ msg[m].state = "absent" /\ parent[To[m]] # None
    BY <1>4 DEF SendInput, Http, Guard
  <2>2. ASSUME NEW i \in Indices, FencesRoutes(i, To[m]), req' = Intend(i, k), UNCHANGED msg PROVE WInv'
    <3>1. Means(k)' /\ BoxWake'
      BY <2>1 DEF Means, BoxWake, NoBox, Wakes
    <3> QED BY <2>1, <2>2, <3>1, KeysOf, WakeDeferral DEF FencesRoutes
  <2>3. ASSUME msg' = [msg EXCEPT ![m] = [state |-> "queued", to |-> parent[To[m]]]], UNCHANGED req
        PROVE  WInv'
    <3>1. msg'[m].state = "queued" /\ \A n \in Messages : n # m => msg'[n] = msg[n]
      BY <2>3, InvMeans DEF StateOK
    <3>2. \A c : Orphaned(c) => Orphaned(c)'
      BY <2>3 DEF Orphaned, Indices
    <3>3. Sent'
      <4> SUFFICES ASSUME NEW n \in Messages, msg'[n].state # "absent"
                   PROVE  parent'[To[n]] # None \/ Orphaned(To[n])'
        BY DEF Sent
      <4> QED BY <2>1, <3>1, <3>2 DEF WInv, Sent
    <3>4. BoxWake' /\ AllKept
      BY <2>1, <2>3, SameAside, KeptSame DEF BoxWake, NoBox
    <3> QED BY <2>1, <2>3, <3>1, <3>3, <3>4, WakeAside
  <2> QED BY <1>4, <2>2, <2>3 DEF SendInput
<1>5. ASSUME NEW m \in Messages, Deliver(m) PROVE WInv'
  <2> DEFINE k == <<"wake", m>>
  <2>1. UNCHANGED <<parent, lease, wake, msg, drv, begun>> /\ msg[m].state = "queued"
    BY <1>5 DEF Deliver, sqlite
  <2>2. ASSUME NEW i \in Indices, FencesSession(i, To[m]), req' = Intend(i, k), box' = [NoBox EXCEPT !.m = m]
        PROVE  WInv'
    <3>1. /\ i = lease /\ lease # 0 /\ Affected(Leased)' = Affected(Leased) /\ Indices' = Indices
          /\ Range(Leased'.intents) = Range(Leased.intents) \cup {k}
      BY <2>1, <2>2, KeysOf, Intended DEF FencesSession
    <3>2. k[1] = "wake" /\ k[2] = m /\ Child(k) = To[m]
      BY DEF Child
    <3>3. To[m] \in Affected(Leased)
      BY <2>2, <3>1 DEF FencesSession, Leased
    <3>4. Means(k)'
      BY <2>1, <3>1, <3>2, <3>3 DEF Means, Child
    <3>5. box'.m = m /\ box'.to = None /\ Deferred(k)'
      BY <2>1, <2>2, <3>1 DEF NoBox, Deferred, Leased
    <3>6. BoxWake'
      BY <2>1, <3>5 DEF BoxWake, Deferred
    <3> QED BY <2>1, <2>2, <3>2, <3>4, <3>6, KeysOf, WakeDeferral DEF FencesSession
  <2>3. CASE box' = [NoBox EXCEPT !.m = m, !.to = msg[m].to] /\ UNCHANGED req
    <3>1. box'.m = m /\ box'.to = msg[m].to
      BY <2>3 DEF NoBox
    <3>2. BoxWake'
      BY <2>1, <3>1 DEF BoxWake
    <3>3. AllKept /\ Sent'
      BY <2>1, <2>3, SameAside, KeptSame, SentStays DEF WInv
    <3> QED BY <2>1, <2>3, <3>2, <3>3, WakeAside
  <2> QED BY <1>5, <2>2, <2>3 DEF Deliver
<1> QED BY <1>1, <1>2, <1>3, <1>4, <1>5 DEF Traffic

LEMMA DeliveryWakes ==
  ASSUME Inv, RInv, WInv, Inv', Delivery
  PROVE  WInv'
<1>1. CASE DeliverMark
  <2>1. PICK m \in Messages : m = box.m
    BY <1>1, InvMeans DEF DeliverMark, BoxOK, Box
  <2>2. /\ UNCHANGED <<parent, req, lease, drv, begun>> /\ msg[m].state = "queued" /\ box'.marked
        /\ box.to \in Parents /\ To[m] \in Sessions
    BY <1>1, <2>1, InvMeans, ReparentAssumption DEF DeliverMark, registry, BoxOK, Box, WInv, BoxWake
  <2>3. /\ msg'[m].state = "delivered" /\ msg'[m].to = msg[m].to
        /\ \A n \in Messages : n # m => msg'[n] = msg[n]
    BY <1>1, <2>1, InvMeans DEF DeliverMark, StateOK
  <2>4. /\ AllKept /\ (box.to # None => Kept(To[m])')
        /\ \A w \in DOMAIN wake : w \in DOMAIN wake' /\ wake'[w].child = wake[w].child
    <3>1. CASE box.to = None
      <4>1. wake' = wake
        BY <1>1, <3>1 DEF DeliverMark
      <4> QED BY <2>2, <3>1, <4>1, SameAside, KeptSame
    <3>2. CASE box.to # None
      <4>1. PICK p \in Sessions : p = box.to
        BY <2>2, <3>2 DEF Parents
      <4>2. wake' = Registered(wake, To[m], p)
        BY <1>1, <2>1, <3>2, <4>1 DEF DeliverMark
      <4> QED BY <2>2, <4>2, SameAside, KeptRegistered
    <3> QED BY <3>1, <3>2
  <2>5. Safe(m)'
    <3> DEFINE k == <<"wake", m>>
    <3>1. ASSUME Kept(To[m]) PROVE Safe(m)'
      BY <2>2, <2>4, <3>1 DEF AllKept, Safe
    <3>2. ASSUME NEW i \in Indices, k \in Range(req[i].intents) PROVE Safe(m)'
      <4>1. k[1] \in Wakes /\ k[2] = m /\ Child(k) = To[m]
        BY DEF Wakes, Child
      <4>2. CASE k \in req[i].done
        BY <3>1, <4>1, <4>2 DEF WInv, DoneKept
      <4>3. CASE k \notin req[i].done
        <5>1. i = lease /\ lease # 0
          BY <3>2, <4>3, InvMeans DEF WInv, Finished, Indices
        <5>2. k \in Range(Leased'.intents) \ Leased'.done /\ lease' # 0
          BY <2>2, <3>2, <4>3, <5>1 DEF Leased
        <5> QED BY <4>1, <5>2 DEF Safe, Coming
      <4> QED BY <4>2, <4>3
    <3>3. CASE msg[m].to = None
      <4>1. MsgRoute(m)
        BY DEF RInv, RouteInv, QueueOK
      <4>2. CASE Orphaned(To[m])
        BY <3>1, <4>2 DEF Kept
      <4>3. CASE LooseMsg(m)
        BY <2>2, <4>3 DEF Safe, Coming, LooseMsg, Loose, Leased
      <4> QED BY <2>2, <3>3, <4>1, <4>2, <4>3 DEF MsgRoute
    <3>4. CASE ~Deferred(k) /\ msg[m].to # None /\ \E i \in Indices : m \in req[i].plan.msgs
      BY <2>2, <2>3, <3>4 DEF Safe, Straddles, Deferred, Indices
    <3>5. CASE box.to # None
      BY <2>4, <3>5 DEF Safe
    <3> QED BY <1>1, <2>1, <3>2, <3>3, <3>4, <3>5 DEF WInv, BoxWake, DeliverMark, Deferred
  <2>6. Sent' /\ BoxWake'
    <3>1. Sent'
      BY <2>2, <2>3, SameAside, SentStays DEF WInv
    <3> QED BY <2>2, <3>1 DEF BoxWake
  <2> QED BY <2>2, <2>3, <2>4, <2>5, <2>6, WakeAside
<1>2. CASE DeliverEnd \/ CompleteEnd
  <2>1. UNCHANGED <<parent, req, lease, wake, msg, drv, begun>> /\ box'.m = None
    BY <1>2 DEF DeliverEnd, CompleteEnd, sqlite, NoBox
  <2> QED BY <2>1, SameAside, WakeQuiet
<1>3. CASE CompleteTell
  <2>1. UNCHANGED <<parent, req, lease, wake, msg, drv, begun>> /\ box'.marked
    BY <1>3, InvMeans DEF CompleteTell, registry, BoxOK, Box
  <2> QED BY <2>1, SameAside, WakeQuiet
<1> QED BY <1>1, <1>2, <1>3 DEF Delivery

LEMMA DrivenWakes ==
  ASSUME Inv, RInv, WInv, Inv', Driven
  PROVE  WInv'
<1>1. Got'
  BY DEF Driven, Got
<1>2. (box'.m # None /\ ~box'.marked) => UNCHANGED box
  BY DEF Driven, NoBox
<1> QED BY <1>1, <1>2, WakeQuiet DEF Driven

\* A transaction begins, or ends.
LEMMA WakeTurn ==
  ASSUME Inv, RInv, WInv, Inv', AllLater, AllSame, UNCHANGED <<parent, wake, msg, begun, box>>,
         box = NoBox, drv'.pc \in {"idle", "apply"}, drv.pc # "route",
         lease # 0 => Open(Leased) = {} /\ \A c : ~Loose(c),
         lease' # 0 => Range(Leased'.intents) = {}, PlanSent'
  PROVE  WInv'
<1>1. ReqOK /\ Indices \subseteq Indices' /\ lease \in Nat /\ 0 \notin Indices
  BY InvMeans, IndicesGrow DEF Inv, TypeOK, ReqOK, AllLater, Indices
<1>2. AllGrown /\ Sent'
  BY SameGrown, SentStays DEF WInv
<1>3. ASSUME NEW c \in Sessions, Kept(c) PROVE Kept(c)'
  <2>1. CASE c \in begun \/ Orphaned(c)
    BY <2>1, <1>1, MarksStay DEF Kept, Inv, TypeOK, ReqOK
  <2>2. CASE \E w \in DOMAIN wake : wake[w].child = c /\ wake[w].on
    BY <2>2 DEF Kept
  <2> QED BY <1>3, <2>1, <2>2 DEF Kept, LooseWake
<1>4. \A i \in Indices : Range(req[i].intents) \subseteq req[i].done
  <2> SUFFICES ASSUME NEW i \in Indices PROVE Range(req[i].intents) \subseteq req[i].done
    OBVIOUS
  <2>1. CASE i # lease
    BY <2>1 DEF WInv, Finished
  <2>2. CASE i = lease
    BY <1>1, <2>2 DEF Open, Leased, Range
  <2> QED BY <2>1, <2>2
<1>5. Finished'
  <2> SUFFICES ASSUME NEW i \in Indices' PROVE Range(req'[i].intents) \subseteq req'[i].done
    BY DEF Finished
  <2> QED BY <1>4 DEF AllSame, Same, Range
<1>6. DoneKept'
  <2> SUFFICES ASSUME NEW i \in Indices', NEW k \in req'[i].done, k[1] \in Wakes PROVE Kept(Child(k))'
    BY DEF DoneKept
  <2>1. i \in Indices /\ k \in req[i].done
    BY DEF AllSame, Same
  <2>2. k \in Keys
    BY <2>1, InvMeans DEF Request
  <2> QED BY <1>3, <2>1, <2>2, WakeKeys DEF WInv, DoneKept, Child
<1>7. Delivered'
  <2> SUFFICES ASSUME NEW m \in Messages, msg[m].state = "delivered" PROVE Safe(m)'
    BY DEF Delivered
  <2>1. Safe(m) /\ To[m] \in Sessions
    BY ReparentAssumption DEF WInv, Delivered
  <2>2. ~Coming(m)
    <3>1. lease # 0 => Range(Leased.intents) \subseteq Leased.done
      BY DEF Open, Range
    <3> QED BY <3>1 DEF Coming, LooseMsg
  <2>3. Straddles(m) => Straddles(m)'
    <3>1. lease # 0 => lease \in Indices
      BY InvMeans DEF ReqOK, Indices
    <3> QED BY <1>2, <3>1, StraddlesStay DEF AllSame, Same
  <2> QED BY <1>3, <2>1, <2>2, <2>3 DEF Safe
<1>8. Named' /\ Got' /\ NoteKept' /\ BoxWake'
  BY DEF Named, Got, NoteKept, BoxWake, NoBox
<1> QED BY <1>2, <1>5, <1>6, <1>7, <1>8 DEF WInv

LEMMA AcquireNewWakes ==
  ASSUME Inv, RInv, WInv, Inv', AcquireNew
  PROVE  WInv'
<1>1. drv.pc = "idle"
  BY DEF AcquireNew
<1>2. PlanSent'
  BY AcquireNewRecords DEF PlanSent
<1> QED BY <1>1, <1>2, AcquireNewRecords, WakeTurn

LEMMA EndWakes ==
  ASSUME Inv, RInv, WInv, Inv', Release, ~UNCHANGED lease
  PROVE  WInv'
<1>1. /\ lease # 0 /\ lease' = 0 /\ Open(Leased) = {} /\ box = NoBox /\ drv'.pc = "idle" /\ drv.pc = "final"
      /\ UNCHANGED <<parent, wake, msg, begun, box>>
  BY EndRecords DEF Idle, Release
<1>2. PICK r : /\ Later(Leased, r) /\ req' = [req EXCEPT ![lease] = r]
               /\ r.plan = Leased.plan /\ Same(Leased, r)
  BY EndRecords
<1>3. AllLater /\ AllSame
  BY <1>1, <1>2, LeasedReplaced
<1>4. PlanSent' /\ \A c : ~Loose(c)
  BY <1>1 DEF PlanSent, Loose, Running
<1> QED BY <1>1, <1>3, <1>4, WakeTurn

LEMMA EdgedAffected ==
  ASSUME Inv, lease # 0
  PROVE  Edged \subseteq Affected(Leased)
<1>1. Leased.plan.edges = Edges(Leased) /\ Leased \in Request
  BY PlannedIn DEF Inv, Planned
<1>2. DOMAIN Edges(Leased) = {Leased.subject} \cup Leased.frozen
  BY DEF Edges
<1> QED BY <1>1, <1>2 DEF Edged, Affected

\* Routes in SQLite are quiesced or retargeted.
LEMMA WakeMoved ==
  ASSUME Inv, RInv, WInv, Inv', UNCHANGED <<parent, req, lease, box, begun>>, AllKept,
         \A w \in DOMAIN wake : w \in DOMAIN wake' /\ wake'[w].child = wake[w].child,
         \A m \in Messages : /\ msg'[m].state = msg[m].state
                             /\ msg[m].state = "delivered" => msg'[m] = msg[m]
                             /\ \/ msg'[m].to \in {msg[m].to, None}
                                \/ \E i \in Indices : m \in req[i].plan.msgs,
         drv'.pc # "note", Got',
         \A m \in Messages : msg[m].state = "delivered" =>
           /\ LooseMsg(m) => Coming(m)'
           /\ (drv.pc = "route" /\ m \in drv.got) => Coming(m)'
  PROVE  WInv'
<1>1. AllLater /\ AllSame /\ AllGrown /\ Leased' = Leased
  BY LaterSame, SameGrown DEF Leased
<1>2. Sent' /\ BoxWake' /\ NoteKept'
  BY <1>1, SentStays, BoxStaysWake, NoteStays DEF WInv
<1> QED BY <1>1, <1>2, WakeStep

LEMMA QuiesceQueueWakes ==
  ASSUME Inv, RInv, WInv, Inv', QuiesceQueue
  PROVE  WInv'
<1>1. /\ UNCHANGED <<parent, req, lease, mail, box, begun>> /\ drv'.pc # "note"
      /\ \A m \in Messages : /\ msg'[m].state = msg[m].state
                             /\ msg[m].state = "delivered" => msg'[m] = msg[m]
  BY MessagesStay
<1>2. /\ drv.pc = "apply" /\ lease # 0 /\ Leased.stage = "json_routing_quiesced"
      /\ drv'.pc \in {"quiesced", "fail"}
  <2>1. drv.pc = "apply" /\ Leased.stage = "json_routing_quiesced" /\ (Goto("quiesced") \/ Goto("fail"))
    BY DEF QuiesceQueue
  <2> QED BY <2>1, PcSet, InvMeans DEF DrvOK
<1>3. AllLater /\ Leased' = Leased /\ SamePlan /\ \A c : Loose(c)'
  <2>1. AllLater /\ Leased' = Leased
    BY <1>1, LaterSame DEF Leased
  <2> QED BY <1>2, <2>1 DEF SamePlan, Crossed, Loose, Running
<1>4. /\ AllKept
      /\ \A w \in DOMAIN wake : w \in DOMAIN wake' /\ wake'[w].child = wake[w].child
  <2>1. CASE wake' = wake
    BY <1>1, <1>3, <2>1, KeptSame
  <2>2. CASE wake' = [w \in DOMAIN wake |-> IF w \in Leased.plan.wakes
                        THEN [wake[w] EXCEPT !.on = FALSE] ELSE wake[w]]
    <3>1. wake \in Seq(Row) /\ \A w \in DOMAIN wake : wake[w] \in Row
      BY InvMeans, LenProperties DEF StateOK
    <3>2. \A w \in DOMAIN wake : [wake[w] EXCEPT !.on = FALSE].child = wake[w].child
      BY <3>1 DEF Row
    <3>3. \A w \in DOMAIN wake : w \in DOMAIN wake' /\ wake'[w].child = wake[w].child
      BY <2>2, <3>2
    <3>4. ASSUME NEW w \in DOMAIN wake, wake[w].on, NEW c, c = wake[w].child PROVE Kept(c)'
      <4>1. wake'[w].on \/ LooseWake(w)'
        BY <1>1, <1>2, <1>3, <2>2, <3>4 DEF LooseWake, Loose
      <4> QED BY <3>3, <3>4, <4>1 DEF Kept
    <3> QED BY <1>1, <1>3, <3>3, <3>4, KeptRows
  <2> QED BY <2>1, <2>2 DEF QuiesceQueue
<1>5. \A m \in Messages : msg'[m].to \in {msg[m].to, None}
  <2>1. CASE msg' = msg
    BY <2>1
  <2>2. CASE msg' = [m \in Messages |-> IF m \in Leased.plan.msgs
                       THEN [msg[m] EXCEPT !.to = None] ELSE msg[m]]
    BY <2>2, InvMeans DEF StateOK
  <2> QED BY <2>1, <2>2 DEF QuiesceQueue
<1>6. Got' /\ \A m : LooseMsg(m) => Coming(m)'
  BY <1>1, <1>2, <1>3 DEF Got, LooseMsg, Coming
<1> QED BY <1>1, <1>2, <1>4, <1>5, <1>6, WakeMoved

LEMMA RetargetWakes ==
  ASSUME Inv, RInv, WInv, Inv', NEW target \in Parents, Retarget(target)
  PROVE  WInv'
<1>1. /\ UNCHANGED <<parent, req, lease, mail, box, begun>> /\ drv'.pc # "note"
      /\ \A m \in Messages : /\ msg'[m].state = msg[m].state
                             /\ msg[m].state = "delivered" => msg'[m] = msg[m]
  BY MessagesStay
<1>2. drv.pc = "route" /\ lease # 0 /\ target \in drv.todo /\ Leased' = Leased
  BY <1>1, InvMeans DEF Retarget, DrvOK, Leased
<1>3. CASE Goto("fail") /\ UNCHANGED <<wake, msg>>
  <2>1. drv'.pc = "fail"
    BY <1>3, PcSet
  <2>2. AllLater /\ AllSame
    BY <1>1, LaterSame
  <2>3. \A c \in Routed : Loose(c) => Loose(c)'
    BY <1>2, <2>1 DEF Loose, Running
  <2>4. SamePlan
    BY <1>1, <1>2, <2>3 DEF SamePlan, Crossed
  <2> QED BY <1>1, <1>2, <1>3, <2>1, <2>2, <2>4, WakeQuiet DEF Got, Running
<1> DEFINE plan == Leased.plan
           in(c) == GroupOf(plan, drv.mode, c) = target
           wakes == {w \in plan.wakes : in(wake[w].child)}
           msgs  == {m \in plan.msgs : in(To[m])}
<1>4. CASE /\ wake' = [w \in DOMAIN wake |-> IF w \in wakes
                         THEN [wake[w] EXCEPT !.to = IF target = None THEN @ ELSE target,
                                              !.on = target # None]
                         ELSE wake[w]]
           /\ msg' = [m \in Messages |-> IF m \in msgs /\ msg[m].state = "queued"
                        THEN [msg[m] EXCEPT !.to = target] ELSE msg[m]]
           /\ drv' = [drv EXCEPT !.todo = @ \ {target},
                        !.got = @ \cup {m \in msgs : msg[m].state = "delivered"}]
  <2>1. /\ drv'.pc = "route" /\ drv'.mode = drv.mode /\ drv'.todo = drv.todo \ {target}
        /\ drv'.got = drv.got \cup {m \in msgs : msg[m].state = "delivered"}
    BY <1>2, <1>4, InvMeans DEF DrvOK, Driver
  <2>2. \A w \in DOMAIN wake : wake[w] \in Row
    BY InvMeans, LenProperties DEF StateOK
  <2>3. \A w \in DOMAIN wake : /\ w \in DOMAIN wake' /\ wake'[w].child = wake[w].child
                               /\ w \notin wakes => wake'[w] = wake[w]
                               /\ (w \in wakes /\ target # None) => wake'[w].on
    <3> SUFFICES ASSUME NEW w \in DOMAIN wake
                 PROVE  /\ w \in DOMAIN wake' /\ wake'[w].child = wake[w].child
                        /\ w \notin wakes => wake'[w] = wake[w]
                        /\ (w \in wakes /\ target # None) => wake'[w].on
      OBVIOUS
    <3>1. w \in DOMAIN wake'
             /\ wake'[w] = IF w \in wakes THEN [wake[w] EXCEPT !.to = IF target = None THEN @ ELSE target,
                                                              !.on = target # None]
                                          ELSE wake[w]
      BY <1>4
    <3>2. CASE w \in wakes
      <4> DEFINE to == IF target = None THEN wake[w].to ELSE target
      <4>1. wake'[w] = [wake[w] EXCEPT !.to = to, !.on = target # None]
        BY <3>1, <3>2
      <4> HIDE DEF to
      <4>2. wake'[w] = [child |-> wake[w].child, to |-> to, on |-> target # None]
        BY <2>2, <4>1 DEF Row
      <4> QED BY <3>1, <3>2, <4>2
    <3> QED BY <3>1, <3>2
  <2>4. AllKept
    <3> SUFFICES ASSUME NEW c \in Sessions, Kept(c) PROVE Kept(c)'
      BY DEF AllKept
    <3>1. \A d : Orphaned(d) => Orphaned(d)'
      BY <1>1 DEF Orphaned, Indices
    <3>2. CASE c \in begun \/ Orphaned(c)
      BY <1>1, <3>1, <3>2 DEF Kept
    <3>3. ASSUME NEW w \in DOMAIN wake, wake[w].child = c, wake[w].on \/ LooseWake(w) PROVE Kept(c)'
      <4>1. CASE w \in wakes /\ target # None
        BY <2>3, <3>3, <4>1 DEF Kept
      <4>2. CASE w \in wakes /\ target = None
        <5>1. /\ w \in plan.wakes /\ GroupOf(plan, drv.mode, c) = None /\ c \in Edged
              /\ plan.edges[c].old # None /\ lease \in Indices /\ Leased = req[lease]
          BY <1>2, <3>3, <4>2, PlannedIn DEF WInv, PlanSent
        <5>2. drv.mode = "forward" /\ plan.edges[c].new = None
          BY <5>1 DEF GroupOf
        <5>3. Leased.stage = "authority_committed"
          BY <1>2, <5>2 DEF RInv, PlanInv, Steps, Running
        <5>4. Orphaned(c)
          BY <5>1, <5>2, <5>3 DEF Orphaned, Committed, Edged
        <5> QED BY <3>1, <5>4 DEF Kept
      <4>3. CASE w \notin wakes /\ wake[w].on
        BY <2>3, <3>3, <4>3 DEF Kept
      <4>4. CASE w \notin wakes /\ LooseWake(w)
        <5>1. w \in plan.wakes /\ GroupOf(plan, drv.mode, c) \in drv.todo \ {target}
          BY <1>2, <3>3, <4>4 DEF LooseWake, Loose, Running
        <5>2. w \in DOMAIN wake' /\ wake'[w].child = c
          BY <2>3, <3>3
        <5>3. Loose(c)'
          BY <1>2, <2>1, <3>3, <4>4, <5>1 DEF LooseWake, Loose, GroupOf
        <5>4. LooseWake(w)'
          BY <1>1, <1>2, <5>1, <5>2, <5>3 DEF LooseWake, Loose
        <5> QED BY <5>2, <5>4 DEF Kept
      <4> QED BY <3>3, <4>1, <4>2, <4>3, <4>4
    <3> QED BY <3>2, <3>3 DEF Kept
  <2>5. \A m \in Messages : \/ msg'[m].to \in {msg[m].to, None}
                            \/ \E i \in Indices : m \in req[i].plan.msgs
    <3>1. lease \in Indices /\ Leased = req[lease]
      BY <1>2, PlannedIn
    <3>2. \A m \in Messages : msg'[m] = msg[m] \/ m \in msgs
      BY <1>4
    <3> QED BY <3>1, <3>2
  <2>6. Got'
    BY <1>2, <2>1 DEF WInv, Got
  <2>7. ASSUME NEW m \in Messages, msg[m].state = "delivered"
        PROVE  /\ LooseMsg(m) => Coming(m)'
               /\ m \in drv.got => Coming(m)'
    <3>1. m \in drv.got => Coming(m)'
      BY <2>1 DEF Coming
    <3>2. ASSUME LooseMsg(m) PROVE Coming(m)'
      <4>1. m \in plan.msgs /\ Loose(To[m]) /\ GroupOf(plan, drv.mode, To[m]) \in drv.todo
        BY <1>2, <3>2 DEF LooseMsg, Loose, Running
      <4>2. CASE in(To[m])
        BY <2>1, <2>7, <4>1, <4>2 DEF Coming
      <4>3. CASE ~in(To[m])
        <5>1. Loose(To[m])'
          BY <1>2, <2>1, <4>1, <4>3 DEF Loose, GroupOf
        <5> QED BY <1>1, <1>2, <4>1, <5>1 DEF Coming, LooseMsg
      <4> QED BY <4>2, <4>3
    <3> QED BY <3>1, <3>2
  <2> QED BY <1>1, <2>3, <2>4, <2>5, <2>6, <2>7, WakeMoved
<1> QED BY <1>3, <1>4 DEF Retarget

LEMMA EdgesMoveWakes ==
  ASSUME Inv, RInv, WInv, Inv', At("routing_quiesced"), EdgesMove,
         UNCHANGED <<lease, wake, msg, box, begun>>
  PROVE  WInv'
<1>1. /\ drv.pc = "apply" /\ lease # 0 /\ Leased.stage = "routing_quiesced" /\ box = NoBox
      /\ UNCHANGED drv /\ AllLater /\ AllSame
      /\ Leased'.plan = Leased.plan /\ Leased'.stage = "authority_committed"
      /\ Same(Leased, Leased') /\ parent' = Moved(Leased.plan.edges)
  BY EdgesMoveRecords
<1>2. \A c : (Orphaned(c) => Orphaned(c)') /\ (lease # 0 => Loose(c)')
  <2>1. \A c : Orphaned(c) => Orphaned(c)'
    BY <1>1, InvMeans, MarksStay DEF Inv, TypeOK, ReqOK
  <2> QED BY <1>1, <2>1 DEF Loose, Running
<1>3. lease \in Indices' /\ lease \in Indices
  BY <1>1, PlannedIn, InvMeans, IndicesGrow DEF AllLater, Inv, TypeOK, ReqOK
<1>4. AllKept
  <2> SUFFICES ASSUME NEW c \in Sessions, Kept(c) PROVE Kept(c)'
    BY DEF AllKept
  <2>1. CASE c \in begun \/ Orphaned(c)
    BY <1>2, <2>1 DEF Kept
  <2>2. ASSUME NEW w \in DOMAIN wake, wake[w].child = c, wake[w].on \/ LooseWake(w) PROVE Kept(c)'
    <3>1. LooseWake(w) => LooseWake(w)'
      BY <1>1, <1>2 DEF LooseWake, Loose
    <3> QED BY <2>2, <3>1 DEF Kept
  <2> QED BY <2>1, <2>2 DEF Kept
<1>5. Sent'
  <2> SUFFICES ASSUME NEW m \in Messages, msg[m].state # "absent", NEW c \in Sessions, c = To[m],
                      parent'[c] = None
               PROVE  Orphaned(c)'
    BY ReparentAssumption DEF Sent, Orphaned
  <2>1. CASE c \in Edged
    <3>1. Leased.plan.edges[c].new = None
      BY <1>1, <2>1 DEF Moved, Edged
    <3>2. /\ Committed(req'[lease]) /\ c \in DOMAIN req'[lease].plan.edges
          /\ req'[lease].plan.edges[c].new = None
      BY <1>1, <2>1, <3>1 DEF Leased, Committed, Edged
    <3> QED BY <1>3, <3>2 DEF Orphaned, Committed
  <2>2. CASE c \notin Edged
    <3>1. parent[c] = None
      BY <1>1, <2>2 DEF Moved, Edged
    <3> QED BY <1>2, <3>1 DEF WInv, Sent
  <2> QED BY <2>1, <2>2
<1>6. Got' /\ NoteKept' /\ BoxWake'
  BY <1>1 DEF Got, NoteKept, BoxWake, NoBox
<1>7. \A m \in Messages : LooseMsg(m) => Coming(m)'
  BY <1>1, <1>2 DEF LooseMsg, Coming
<1>8. Leased'.intents = Leased.intents /\ Leased'.done = Leased.done
  BY <1>1 DEF Same
<1> QED BY <1>1, <1>4, <1>5, <1>6, <1>7, <1>8, SameGrown, WakeStep

\* The request with the lease has more intents, or has replayed more.
LEMMA LeasedGrown ==
  ASSUME Inv, lease # 0, NEW r, Later(Leased, r), req' = [req EXCEPT ![lease] = r], UNCHANGED lease,
         Range(Leased.intents) \subseteq Range(r.intents), Leased.done \subseteq r.done,
         Affected(r) = Affected(Leased)
  PROVE  AllLater /\ AllGrown /\ Leased' = r
<1>1. /\ lease \in Indices /\ Indices' = Indices /\ Leased = req[lease] /\ req'[lease] = r
      /\ \A j \in Indices \ {lease} : req'[j] = req[j]
  BY LeasedChanged
<1>2. AllGrown
  BY <1>1 DEF AllGrown, Same, Affected
<1> QED BY <1>1, <1>2, LeasedReplaced DEF Leased

LEMMA CollectWakes ==
  ASSUME Inv, RInv, WInv, Inv', Collect
  PROVE  WInv'
<1>1. /\ lease # 0 /\ drv.pc = "route" /\ drv.todo = {} /\ box = NoBox
      /\ UNCHANGED <<parent, lease, wake, msg, box, begun>>
  BY CollectRecords
<1>2. PICK r : /\ Later(Leased, r) /\ req' = [req EXCEPT ![lease] = r]
               /\ r.plan = Leased.plan /\ r.stage = Leased.stage /\ r.early = Leased.early
               /\ r.done = Leased.done /\ Affected(r) = Affected(Leased)
               /\ Range(r.intents) = Range(Leased.intents) \cup {<<"planned", m>> : m \in drv.got}
  BY CollectRecords
<1>3. AllLater /\ AllGrown /\ Leased' = r
  BY <1>1, <1>2, LeasedGrown
<1>4. drv'.pc \in {"replay", "restore"}
  <2>1. Goto("replay") \/ Goto("restore")
    BY DEF Collect
  <2> QED BY <2>1, PcSet
<1>5. \A c : ~Loose(c)
  BY <1>1 DEF Loose, Running
<1>6. SamePlan
  BY <1>1, <1>2, <1>3, <1>5 DEF SamePlan, Crossed
<1>7. AllKept /\ Sent'
  BY <1>1, <1>3, <1>6, KeptSame, SentStays DEF WInv
<1>8. Got' /\ NoteKept' /\ BoxWake'
  BY <1>1, <1>4 DEF Got, NoteKept, BoxWake, NoBox
<1>9. ASSUME NEW m \in drv.got
      PROVE  /\ m \in Messages /\ <<"planned", m>> \in Range(Leased'.intents)
             /\ Means(<<"planned", m>>)' /\ (Coming(m)' \/ Kept(To[m]))
  <2> DEFINE k == <<"planned", m>>
  <2>1. m \in Leased.plan.msgs /\ m \in Messages /\ To[m] \in Affected(Leased) /\ msg[m].state # "absent"
    BY <1>1, PlannedIn, EdgedAffected DEF WInv, Got, PlanSent
  <2>2. k[1] = "planned" /\ k[2] = m /\ Child(k) = To[m] /\ k \in Range(Leased'.intents)
    BY <1>2, <1>3 DEF Child
  <2>3. Child(k)' = Child(k) /\ Affected(Leased)' = Affected(Leased)
    BY <1>2, <1>3 DEF Child, Affected
  <2>4. Means(k)'
    BY <1>1, <2>1, <2>2, <2>3 DEF Means
  <2>5. CASE k \in Leased.done
    <3>1. lease \in Indices /\ Leased = req[lease]
      BY <1>1, PlannedIn
    <3>2. Kept(To[m])
      BY <2>2, <2>5, <3>1 DEF WInv, DoneKept, Wakes
    <3> QED BY <2>1, <2>2, <2>4, <3>2
  <2>6. CASE k \notin Leased.done
    <3>1. Coming(m)'
      BY <1>1, <1>2, <1>3, <2>2, <2>6 DEF Coming, Wakes
    <3> QED BY <2>1, <2>2, <2>4, <3>1
  <2> QED BY <2>5, <2>6
<1>10. \A k \in Range(Leased'.intents) \ Range(Leased.intents) : Means(k)' /\ k[1] # "wake"
  BY <1>2, <1>3, <1>9
<1>11. \A m \in Messages : ~LooseMsg(m)
  BY <1>5 DEF LooseMsg
<1> QED BY <1>1, <1>2, <1>3, <1>7, <1>8, <1>9, <1>10, <1>11, WakeStep

LEMMA NotedWakes ==
  ASSUME Inv, RInv, WInv, Inv', ReplayNoted
  PROVE  WInv'
<1>1. /\ drv.pc = "note" /\ lease # 0 /\ box = NoBox /\ drv'.pc = "replay"
      /\ UNCHANGED <<parent, lease, wake, msg, box, begun>>
  BY InvMeans DEF ReplayNoted, DrvOK, Driver, sqlite, Guard
<1>2. PICK r : /\ Later(Leased, r) /\ r.plan = Leased.plan /\ r.stage = Leased.stage
               /\ r.intents = Leased.intents /\ r.early = Leased.early
               /\ r.done = Leased.done \cup {drv.key} /\ Affected(r) = Affected(Leased)
               /\ req' = [req EXCEPT ![lease] = r]
  BY <1>1, NotedRecords
<1>3. AllLater /\ AllGrown /\ Leased' = r
  BY <1>1, <1>2, LeasedGrown
<1>4. \A c : ~Loose(c)
  BY <1>1 DEF Loose, Running
<1>5. SamePlan
  BY <1>1, <1>2, <1>3, <1>4 DEF SamePlan, Crossed
<1>6. AllKept /\ Sent'
  BY <1>1, <1>3, <1>5, KeptSame, SentStays DEF WInv
<1>7. Got' /\ NoteKept' /\ BoxWake'
  BY <1>1 DEF Got, NoteKept, BoxWake, NoBox
<1>8. \A k \in Leased'.done \ Leased.done : k[1] \in Wakes => Kept(Child(k))
  BY <1>1, <1>2, <1>3 DEF WInv, NoteKept
<1>9. \A m \in Messages : ~LooseMsg(m)
  BY <1>4 DEF LooseMsg
<1> QED BY <1>1, <1>2, <1>3, <1>6, <1>7, <1>8, <1>9, WakeStep

LEMMA ReplayWakes ==
  ASSUME Inv, RInv, WInv, Inv', Replay
  PROVE  WInv'
<1>1. /\ drv.pc = "act" /\ lease # 0 /\ drv.key \in Keys /\ drv.key \in Range(Leased.intents)
      /\ UNCHANGED <<parent, lease, box, begun>>
      /\ msg \in [Messages -> [state: {"absent", "queued", "delivered"}, to: Parents]]
  BY InvMeans DEF Replay, DrvOK, RInv, PlanInv, Steps, StateOK
<1>2. PICK k \in Keys : k = drv.key
  BY <1>1
<1>3. PICK c \in Sessions : c = Child(k)
  BY WakeKeys
<1>4. PICK r : /\ Later(Leased, r) /\ Same(Leased, r) /\ r.plan = Leased.plan /\ r.stage = Leased.stage
               /\ r.intents = Leased.intents /\ req' = [req EXCEPT ![lease] = r]
               /\ Before => drv.key \in r.early
  BY <1>1, ReplayRecords
<1>5. /\ AllLater /\ AllGrown /\ Leased' = r
      /\ Leased'.intents = Leased.intents /\ Leased'.done = Leased.done
  BY <1>1, <1>4, LeasedGrown DEF Same
<1>6. \A d : ~Loose(d)
  BY <1>1 DEF Loose, Running
<1>7. SamePlan
  BY <1>1, <1>4, <1>5, <1>6 DEF SamePlan, Crossed
<1>8. Means(k)
  BY <1>1, <1>2 DEF WInv, Named
<1>9. /\ AllKept /\ ((parent[c] # None /\ k[1] \in Wakes) => Kept(c)')
      /\ \A w \in DOMAIN wake : w \in DOMAIN wake' /\ wake'[w].child = wake[w].child
  <2>1. CASE parent[c] # None /\ k[1] \in Wakes
    <3>1. PICK p \in Sessions : p = parent[c]
      BY <2>1, InvMeans DEF StateOK, Parents
    <3>2. wake' = Registered(wake, c, p)
      BY <1>2, <1>3, <2>1, <3>1 DEF Replay, Wakes
    <3> QED BY <1>1, <1>5, <1>7, <3>2, KeptRegistered
  <2>2. CASE ~(parent[c] # None /\ k[1] \in Wakes)
    <3>1. wake' = wake \/ (wake' = Cancelled(wake, c) /\ k[1] = "complete")
      BY <1>2, <1>3, <2>2 DEF Replay, Wakes
    <3>2. CASE wake' = wake
      BY <1>1, <1>5, <1>7, <2>2, <3>2, KeptSame
    <3>3. CASE wake' = Cancelled(wake, c) /\ k[1] = "complete"
      <4>1. c \in begun'
        BY <1>1, <1>3, <1>8, <3>3 DEF Means, Child
      <4> QED BY <1>1, <1>5, <1>7, <2>2, <3>3, <4>1, KeptCancelled
    <3> QED BY <3>1, <3>2, <3>3
  <2> QED BY <2>1, <2>2
<1>10. \A d : Orphaned(d) => Orphaned(d)'
  BY <1>5, InvMeans, MarksStay DEF Inv, TypeOK, ReqOK
<1>11. \A m \in Messages : \/ msg'[m] = msg[m]
                           \/ /\ k = <<"input", m>> /\ msg[m].state = "absent" /\ msg'[m].state = "queued"
  <2> SUFFICES ASSUME NEW m \in Messages, msg'[m] # msg[m]
               PROVE  k = <<"input", m>> /\ msg[m].state = "absent" /\ msg'[m].state = "queued"
    OBVIOUS
  <2>1. PICK p : /\ k[1] = "input" /\ k[2] = m /\ msg[m].state = "absent"
                 /\ msg' = [msg EXCEPT ![m] = [state |-> "queued", to |-> p]]
    BY <1>1, <1>2 DEF Replay
  <2>2. msg'[m].state = "queued"
    BY <1>1, <2>1
  <2> QED BY <2>1, <2>2 DEF Keys
<1>12. Sent'
  <2> SUFFICES ASSUME NEW m \in Messages, msg'[m].state # "absent", parent[To[m]] = None
               PROVE  Orphaned(To[m])'
    BY <1>1 DEF Sent
  <2>1. CASE msg'[m] = msg[m]
    BY <1>10, <2>1 DEF WInv, Sent
  <2>2. CASE k = <<"input", m>>
    <3>1. To[m] \in Edged /\ (Before => Leased.plan.edges[To[m]].old # None)
      BY <1>1, <1>2, <2>2 DEF RInv, PlanInv, Asks
    <3>2. Leased.stage = "authority_committed" /\ Leased.plan.edges[To[m]].new = None
      BY <1>1, <3>1 DEF RInv, PlanInv, Sited, Before, Crossed
    <3>3. Orphaned(To[m])
      BY <1>1, <3>1, <3>2, PlannedIn DEF Orphaned, Committed, Edged
    <3> QED BY <1>10, <3>3
  <2> QED BY <1>11, <2>1, <2>2
<1>13. drv'.pc \in {"fail", "note"} /\ drv'.key = k
  <2>1. Goto("fail") \/ Goto("note")
    BY DEF Replay
  <2> QED BY <1>2, <2>1, PcSet
<1>14. NoteKept'
  <2> SUFFICES ASSUME k[1] \in Wakes PROVE Kept(c)'
    BY <1>3, <1>13 DEF NoteKept, Kept, Child
  <2>1. CASE parent[c] # None
    BY <1>9, <2>1
  <2>2. CASE parent[c] = None
    <3>1. c = To[k[2]] /\ k[2] \in Messages /\ msg[k[2]].state # "absent"
      BY <1>3, <1>8, WakeKeys DEF Means
    <3>2. Orphaned(c)'
      BY <1>10, <2>2, <3>1 DEF WInv, Sent
    <3> QED BY <3>2 DEF Kept
  <2> QED BY <2>1, <2>2
<1>15. BoxWake' /\ Got'
  <2>1. \A m \in Messages : msg[m].state = "queued" => msg'[m] = msg[m]
    BY <1>11
  <2>2. BoxWake'
    BY <1>1, <1>5, <2>1, BoxStaysWake DEF WInv
  <2> QED BY <1>13, <2>2 DEF Got
<1>16. \A m \in Messages : ~LooseMsg(m)
  BY <1>6 DEF LooseMsg
<1> QED BY <1>1, <1>4, <1>5, <1>9, <1>11, <1>12, <1>14, <1>15, <1>16, WakeStep

-----------------------------------------------------------------------------
(* No wake is lost *)

LEMMA InitWakes == Init => WInv
<1> SUFFICES ASSUME Init PROVE WInv
  OBVIOUS
<1>1. /\ lease = 0 /\ Indices = {} /\ drv.pc = "idle" /\ box.m = None
      /\ \A m \in Messages : msg[m].state = "absent"
  BY EmptySeq DEF Init, Indices, Idle, NoBox
<1> QED BY <1>1 DEF WInv, Sent, PlanSent, Got, Named, Finished, DoneKept, NoteKept, BoxWake, Delivered

LEMMA NextWakes ==
  ASSUME Inv, RInv, WInv, Inv', [Next]_vars
  PROVE  WInv'
<1>1. CASE UNCHANGED vars
  <2>1. UNCHANGED <<parent, req, lease, wake, msg, drv, box, begun>>
    BY <1>1 DEF vars
  <2> QED BY <2>1, SameAside, WakeQuiet
<1>2. CASE Consent
  <2>1. SamePlan
    BY <1>2, ConsentRecords DEF SamePlan, Crossed, Loose
  <2> QED BY <1>2, <2>1, ConsentRecords, WakeQuiet
<1>3. CASE Traffic \/ Delivery
  BY <1>3, TrafficWakes, DeliveryWakes
<1>4. CASE Acquire
  BY <1>4, DrivenAcquire, DrivenWakes, AcquireNewWakes DEF Acquire
<1>5. CASE Drive \/ Repair \/ QueueFails \/ Crash
  <2>1. CASE QuiesceQueue \/ \E target \in Parents : Retarget(target)
    BY <2>1, QuiesceQueueWakes, RetargetWakes
  <2>2. CASE At("routing_quiesced") /\ EdgesMove /\ UNCHANGED <<lease, wake, msg, mail, box, begun>>
    BY <2>2, EdgesMoveWakes
  <2>3. CASE Collect \/ Replay \/ ReplayNoted \/ (Release /\ ~UNCHANGED lease)
    BY <2>3, CollectWakes, ReplayWakes, NotedWakes, EndWakes
  <2> QED BY <1>5, <2>1, <2>2, <2>3, DriveSplit, DrivenWakes
<1> QED BY <1>1, <1>2, <1>3, <1>4, <1>5 DEF Next

LEMMA WakesMean ==
  ASSUME Inv, RInv, WInv
  PROVE  WakeNotLost
<1> SUFFICES ASSUME NEW m \in Messages, NEW c \in Sessions, c = To[m],
                    ~Straddles(m), ~Orphaned(c), msg[m].state = "delivered", parent[c] # None,
                    ~SessionFenced(c), c \notin begun
             PROVE  \E w \in DOMAIN wake : wake[w].child = c /\ wake[w].on
  BY ReparentAssumption DEF WakeNotLost, WakeKept
<1>1. lease # 0 => /\ c \notin Affected(Leased) /\ c \notin Edged /\ Range(Leased.intents) \subseteq Keys
  <2> SUFFICES ASSUME lease # 0 PROVE /\ c \notin Affected(Leased) /\ c \notin Edged
                                      /\ Range(Leased.intents) \subseteq Keys
    OBVIOUS
  <2>1. lease \in Indices /\ Fenced(Leased) /\ Leased = req[lease]
    BY InvMeans, LeasedType DEF Leased
  <2>2. c \notin Affected(Leased)
    BY <2>1 DEF SessionFenced, FencesSession
  <2> QED BY <2>1, <2>2, EdgedAffected, IntentKeys
<1>2. ~Coming(m)
  <2>1. ~LooseMsg(m)
    BY <1>1, PlannedIn DEF LooseMsg
  <2>2. ~(drv.pc = "route" /\ m \in drv.got)
    BY <1>1, PlannedIn, InvMeans DEF WInv, Got, DrvOK
  <2>3. ASSUME lease # 0, NEW k \in Range(Leased.intents), k[1] \in Wakes, k[2] = m PROVE FALSE
    <3>1. Means(k) /\ Child(k) = c
      BY <1>1, <2>3, WakeKeys DEF WInv, Named
    <3> QED BY <1>1, <2>3, <3>1 DEF Means
  <2> QED BY <2>1, <2>2, <2>3 DEF Coming
<1>3. Kept(c)
  BY <1>2 DEF WInv, Delivered, Safe
<1>4. \A w \in DOMAIN wake : wake[w].child = c => ~LooseWake(w)
  BY <1>1, PlannedIn DEF LooseWake
<1> QED BY <1>3, <1>4 DEF Kept

\* Whenever an input is delivered, before, during or after a transaction, and wherever
\* that one is interrupted, resumed or rolled back, the wake of its session's parent is
\* registered when the session is free again (complete_runtime_message_delivery_raw,
\* retarget_parent_routing and the replay of deferred and planned wakes); the exceptions
\* are those of WakeNotLost.
THEOREM WakesStay == Spec => []WakeNotLost
<1>1. Init => RInv /\ WInv
  BY InitRoutes, InitWakes
<1>2. Inv /\ RInv /\ WInv /\ Inv' /\ [Next]_vars => RInv' /\ WInv'
  BY NextRoutes, NextWakes
<1>3. Inv /\ RInv /\ WInv => WakeNotLost
  BY WakesMean
<1> QED BY <1>1, <1>2, <1>3, Invariance, PTL DEF Spec
=============================================================================
