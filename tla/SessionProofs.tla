--------------------------- MODULE SessionProofs -----------------------------
(***************************************************************************)
(* What is proved of the records of sessions and of what is read from them:*)
(* the registry of roles (RoleRegistry), the pages and polls of the HTTP   *)
(* interface (HttpReads), attached terminals (MobileTerminal) and context  *)
(* alerts (ContextMonitor), for every set of sessions, clients and         *)
(* devices and every bound.                                                *)
(***************************************************************************)
EXTENDS RoleRegistry, HttpReads, MobileTerminal, ContextMonitor, FiniteSetTheorems, SequenceTheorems, TLAPS

-----------------------------------------------------------------------------
(* The registry as one record *)

Anyone == Members \union {NoOne}
RegistryRecords == [holder : [Roles -> Anyone], maintainer : Anyone, last : [Roles -> Anyone]]

\* Both ways to read the maintainer of a registry agree
AgreesIn(g) == g.holder["maintainer"] # NoOne => g.maintainer = g.holder["maintainer"]

\* A role of a live session in g is with the same session in h
KeepsLive(g, h) ==
  \A r \in Roles : (g.holder[r] # NoOne /\ LiveForRegistry(g.holder[r])) => h.holder[r] = g.holder[r]

\* The roles are the two that RoleOrder lists
LEMMA RolesAre == Roles = {"lead", "maintainer"}
  BY DEF Roles, RoleOrder

\* The variables make up a registry
LEMMA RegistryTyped == RoleTypeOK => Registry \in RegistryRecords
  BY DEF RoleTypeOK, Registry, RegistryRecords, Anyone

\* SyncMaintainerAlias makes the alias agree and changes nothing else
LEMMA SyncAgrees ==
  ASSUME NEW g \in RegistryRecords
  PROVE  /\ SyncMaintainerAlias(g) \in RegistryRecords
         /\ AgreesIn(SyncMaintainerAlias(g))
         /\ SyncMaintainerAlias(g).holder = g.holder
         /\ SyncMaintainerAlias(g).last = g.last
  BY RolesAre DEF RegistryRecords, SyncMaintainerAlias, AgreesIn

\* A registration changes one role and leaves the alias right
LEMMA RegisteredIs ==
  ASSUME NEW g \in RegistryRecords, NEW m \in Members, NEW r \in Roles
  PROVE  /\ Registered(g, m, r) \in RegistryRecords
         /\ AgreesIn(Registered(g, m, r))
         /\ Registered(g, m, r).holder = [g.holder EXCEPT ![r] = m]
         /\ Registered(g, m, r).last = g.last
<1> DEFINE h == [g EXCEPT !.holder[r] = m]
<1>1. h \in RegistryRecords /\ h.holder = [g.holder EXCEPT ![r] = m] /\ h.last = g.last
  BY DEF RegistryRecords, Anyone
<1>2. Registered(g, m, r) = SyncMaintainerAlias(h)
  BY DEF Registered
<1> HIDE DEF h
<1> QED BY <1>1, <1>2, SyncAgrees

\* A role given up is nobody's, and nobody's afterwards
LEMMA GivenUpIs ==
  ASSUME NEW g \in RegistryRecords, NEW r \in Roles
  PROVE  /\ GivenUp(g, r) \in RegistryRecords
         /\ AgreesIn(GivenUp(g, r))
         /\ GivenUp(g, r).holder = [g.holder EXCEPT ![r] = NoOne]
         /\ GivenUp(g, r).last = [g.last EXCEPT ![r] = NoOne]
<1> DEFINE h == [g EXCEPT !.holder[r] = NoOne, !.last[r] = NoOne]
<1>1. /\ h \in RegistryRecords /\ h.holder = [g.holder EXCEPT ![r] = NoOne]
      /\ h.last = [g.last EXCEPT ![r] = NoOne]
  BY DEF RegistryRecords, Anyone
<1>2. GivenUp(g, r) = SyncMaintainerAlias(h)
  BY DEF GivenUp
<1> HIDE DEF h
<1> QED BY <1>1, <1>2, SyncAgrees

\* Installing a maintainer
LEMMA InstalledIs ==
  ASSUME NEW g \in RegistryRecords, NEW m \in Members, g.holder["maintainer"] = NoOne
  PROVE  /\ Installed(g, m) \in RegistryRecords
         /\ AgreesIn(Installed(g, m))
         /\ KeepsLive(g, Installed(g, m))
<1>0. "maintainer" \in Roles
  BY RolesAre
<1> DEFINE h == Registered(g, m, "maintainer")
<1>1. h \in RegistryRecords /\ AgreesIn(h) /\ h.holder = [g.holder EXCEPT !["maintainer"] = m]
  BY <1>0, RegisteredIs
<1>2. Installed(g, m) = [h EXCEPT !.last["maintainer"] = m]
  BY DEF Installed
<1> HIDE DEF h
<1>3. /\ Installed(g, m) \in RegistryRecords
      /\ Installed(g, m).holder = h.holder /\ Installed(g, m).maintainer = h.maintainer
  BY <1>0, <1>1, <1>2 DEF RegistryRecords, Anyone
<1>4. g.holder \in [Roles -> Anyone]
  BY DEF RegistryRecords
<1> QED BY <1>0, <1>1, <1>3, <1>4 DEF AgreesIn, KeepsLive

\* Recovery of the maintainer takes no role from anybody
LEMMA RecoverIs ==
  ASSUME NEW g \in RegistryRecords, AgreesIn(g)
  PROVE  /\ RecoverMaintainer(g) \in RegistryRecords
         /\ AgreesIn(RecoverMaintainer(g))
         /\ KeepsLive(g, RecoverMaintainer(g))
<1>1. CASE g.holder["maintainer"] # NoOne
  <2>1. RecoverMaintainer(g) = g
    BY <1>1 DEF RecoverMaintainer
  <2> QED BY <2>1 DEF KeepsLive
<1>2. CASE g.holder["maintainer"] = NoOne /\ LiveForRegistry(g.maintainer)
  <2>1. RecoverMaintainer(g) = Installed(g, g.maintainer) /\ g.maintainer \in Members
    BY <1>2 DEF RecoverMaintainer, LiveForRegistry
  <2> QED BY <1>2, <2>1, InstalledIs
<1>3. CASE /\ g.holder["maintainer"] = NoOne /\ ~LiveForRegistry(g.maintainer)
           /\ LiveForRegistry(g.last["maintainer"]) /\ MaintainerIdentity(g.last["maintainer"])
  <2>1. RecoverMaintainer(g) = Installed(g, g.last["maintainer"]) /\ g.last["maintainer"] \in Members
    BY <1>3 DEF RecoverMaintainer, LiveForRegistry
  <2> QED BY <1>3, <2>1, InstalledIs
<1>4. CASE /\ g.holder["maintainer"] = NoOne /\ ~LiveForRegistry(g.maintainer)
           /\ ~(LiveForRegistry(g.last["maintainer"]) /\ MaintainerIdentity(g.last["maintainer"]))
  <2>1. CASE g.maintainer = NoOne
    <3>1. RecoverMaintainer(g) = g
      BY <1>4, <2>1 DEF RecoverMaintainer
    <3> QED BY <3>1 DEF KeepsLive
  <2>2. CASE g.maintainer # NoOne
    <3> DEFINE h == [g EXCEPT !.last["maintainer"] = g.maintainer]
    <3>1. h \in RegistryRecords /\ h.holder = g.holder
      BY DEF RegistryRecords
    <3>2. RecoverMaintainer(g) = SyncMaintainerAlias(h)
      BY <1>4, <2>2 DEF RecoverMaintainer
    <3> HIDE DEF h
    <3> QED BY <3>1, <3>2, SyncAgrees DEF KeepsLive
  <2> QED BY <2>1, <2>2
<1> QED BY <1>1, <1>2, <1>3, <1>4

\* Pruning takes a role only from a session that is not live
LEMMA PruneIs ==
  ASSUME NEW g \in RegistryRecords, AgreesIn(g)
  PROVE  /\ PruneRegistrations(g) \in RegistryRecords
         /\ AgreesIn(PruneRegistrations(g))
         /\ KeepsLive(g, PruneRegistrations(g))
<1> DEFINE dead == {r \in Roles : g.holder[r] # NoOne /\ ~LiveForRegistry(g.holder[r])}
           h == [g EXCEPT !.holder = [r \in Roles |-> IF r \in dead THEN NoOne ELSE g.holder[r]],
                          !.last = [r \in Roles |-> IF r \in dead THEN g.holder[r] ELSE g.last[r]]]
<1>1. CASE dead = {}
  <2>1. PruneRegistrations(g) = g
    BY <1>1 DEF PruneRegistrations
  <2> QED BY <2>1 DEF KeepsLive
<1>2. CASE dead # {}
  <2>1. PruneRegistrations(g) = SyncMaintainerAlias(h)
    BY <1>2 DEF PruneRegistrations
  <2>2. h.holder = [r \in Roles |-> IF r \in dead THEN NoOne ELSE g.holder[r]]
    BY DEF RegistryRecords
  <2>3. h \in RegistryRecords
    BY DEF RegistryRecords, Anyone
  <2>4. KeepsLive(g, h)
    BY <2>2 DEF KeepsLive
  <2> HIDE DEF h
  <2> QED BY <2>1, <2>3, <2>4, SyncAgrees DEF KeepsLive
<1> QED BY <1>1, <1>2

\* What whoever looks at the registry finds
LEMMA RefreshedIs ==
  ASSUME RoleTypeOK, MaintainerAgrees
  PROVE  /\ Refreshed \in RegistryRecords
         /\ AgreesIn(Refreshed)
         /\ KeepsLive(Registry, Refreshed)
<1>1. Registry \in RegistryRecords /\ AgreesIn(Registry)
  BY RegistryTyped DEF MaintainerAgrees, AgreesIn, Registry
<1> DEFINE g == RecoverMaintainer(Registry)
<1>2. g \in RegistryRecords /\ AgreesIn(g) /\ KeepsLive(Registry, g)
  BY <1>1, RecoverIs
<1> HIDE DEF g
<1>3. /\ PruneRegistrations(g) \in RegistryRecords /\ AgreesIn(PruneRegistrations(g))
      /\ KeepsLive(g, PruneRegistrations(g))
  BY <1>2, PruneIs
<1>4. Refreshed = PruneRegistrations(g)
  BY DEF Refreshed, g
<1> QED BY <1>2, <1>3, <1>4 DEF KeepsLive

-----------------------------------------------------------------------------
(* The invariant and the action property *)

\* The registry part of the type invariant
RegistryTypeOK ==
  /\ holder \in [Roles -> Anyone] /\ lastHolder \in [Roles -> Anyone] /\ maintainerIs \in Anyone

\* What a step may do to the roles
RolesKeptStep ==
  \A r \in Roles : LET m == holder[r] IN
    (m # NoOne /\ LiveForRegistry(m) /\ holder'[r] # m) =>
      holder'[r] = NoOne /\ lastHolder'[r] = NoOne

\* A registry that is saved is typed and agrees
LEMMA SavedIs ==
  ASSUME NEW g, g \in RegistryRecords, AgreesIn(g), Saved(g)
  PROVE  RegistryTypeOK' /\ MaintainerAgrees'
  BY DEF RegistryRecords, AgreesIn, Saved, RegistryTypeOK, MaintainerAgrees, Anyone

\* A saved registry in which a session that is live keeps its roles
LEMMA SavedKeeps ==
  ASSUME NEW g, Saved(g), KeepsLive(Registry, g)
  PROVE  RolesKeptStep
  BY DEF KeepsLive, Registry, Saved, RolesKeptStep

\* What every step does to the roles: it leaves them alone, or saves a registry
LEMMA RegistryStep ==
  ASSUME RoleTypeOK, MaintainerAgrees, RoleNext
  PROVE  RegistryTypeOK' /\ MaintainerAgrees' /\ RolesKeptStep
<1> DEFINE g == Refreshed
<1>1. g \in RegistryRecords /\ AgreesIn(g) /\ KeepsLive(Registry, g)
  BY RefreshedIs
<1>2. \A r \in Roles : (holder[r] # NoOne /\ LiveForRegistry(holder[r])) => g.holder[r] = holder[r]
  BY <1>1 DEF KeepsLive, Registry
<1>3. "maintainer" \in Roles
  BY RolesAre
<1> HIDE DEF g
<1>4. ASSUME NEW m \in Members, NEW r \in Roles, MayRegister(g, m, r), Saved(Registered(g, m, r))
      PROVE  RegistryTypeOK' /\ MaintainerAgrees' /\ RolesKeptStep
  <2>1. /\ Registered(g, m, r) \in RegistryRecords /\ AgreesIn(Registered(g, m, r))
        /\ Registered(g, m, r).holder = [g.holder EXCEPT ![r] = m]
    BY <1>1, RegisteredIs
  <2>2. g.holder \in [Roles -> Anyone] /\ g.holder[r] \in {NoOne, m}
    BY <1>1, <1>4 DEF RegistryRecords, MayRegister
  <2>3. holder' = [g.holder EXCEPT ![r] = m]
    BY <1>4, <2>1 DEF Saved
  <2>4. RolesKeptStep
    BY <1>2, <2>2, <2>3 DEF RolesKeptStep
  <2> QED BY <1>4, <2>1, <2>4, SavedIs
<1>5. ASSUME NEW m \in Members, NEW r \in Roles, g.holder[r] = m, Saved(GivenUp(g, r))
      PROVE  RegistryTypeOK' /\ MaintainerAgrees' /\ RolesKeptStep
  <2>1. /\ GivenUp(g, r) \in RegistryRecords /\ AgreesIn(GivenUp(g, r))
        /\ GivenUp(g, r).holder = [g.holder EXCEPT ![r] = NoOne]
        /\ GivenUp(g, r).last = [g.last EXCEPT ![r] = NoOne]
    BY <1>1, GivenUpIs
  <2>2. g.holder \in [Roles -> Anyone] /\ g.last \in [Roles -> Anyone]
    BY <1>1 DEF RegistryRecords
  <2>3. holder' = [g.holder EXCEPT ![r] = NoOne] /\ lastHolder' = [g.last EXCEPT ![r] = NoOne]
    BY <1>5, <2>1 DEF Saved
  <2>4. RolesKeptStep
    BY <1>2, <2>2, <2>3 DEF RolesKeptStep
  <2> QED BY <1>5, <2>1, <2>4, SavedIs
<1>6. ASSUME Saved(g)
      PROVE  RegistryTypeOK' /\ MaintainerAgrees' /\ RolesKeptStep
  BY <1>1, <1>6, SavedIs, SavedKeeps
<1>7. ASSUME UNCHANGED registryOf
      PROVE  RegistryTypeOK' /\ MaintainerAgrees' /\ RolesKeptStep
  BY <1>7 DEF registryOf, RoleTypeOK, RegistryTypeOK, Anyone, MaintainerAgrees, RolesKeptStep
<1> USE DEF g
<1>8. CASE LookupRegistry
  BY <1>6, <1>8 DEF LookupRegistry
<1>9. ASSUME NEW m \in Members, NEW r \in Roles, RegisterAgentRole(m, r)
      PROVE  RegistryTypeOK' /\ MaintainerAgrees' /\ RolesKeptStep
  BY <1>4, <1>9 DEF RegisterAgentRole
<1>10. ASSUME NEW m \in Members, NEW r \in Roles, UnregisterAgentRole(m, r)
       PROVE  RegistryTypeOK' /\ MaintainerAgrees' /\ RolesKeptStep
  BY <1>5, <1>10 DEF UnregisterAgentRole
<1>11. ASSUME NEW m \in Members, NEW name \in Names, NEW em \in BOOLEAN, UpdateMetadata(m, name, em)
       PROVE  RegistryTypeOK' /\ MaintainerAgrees' /\ RolesKeptStep
  BY <1>6, <1>11 DEF UpdateMetadata
<1>12. ASSUME NEW m \in Members, SetMaintainer(m)
       PROVE  RegistryTypeOK' /\ MaintainerAgrees' /\ RolesKeptStep
  BY <1>3, <1>4, <1>12 DEF SetMaintainer
<1>13. ASSUME NEW m \in Members, ClearMaintainer(m)
       PROVE  RegistryTypeOK' /\ MaintainerAgrees' /\ RolesKeptStep
  BY <1>3, <1>5, <1>13 DEF ClearMaintainer
<1>14. ASSUME NEW m \in Members,
              \/ QueueNativeRename(m) \/ DeliverRename(m) \/ SyncNativeTitle(m)
              \/ SubagentStart(m, "a") \/ SubagentStop(m, "a") \/ StopOrRestore(m)
       PROVE  RegistryTypeOK' /\ MaintainerAgrees' /\ RolesKeptStep
  BY <1>7, <1>14 DEF QueueNativeRename, DeliverRename, SyncNativeTitle, SubagentStart, SubagentStop,
       StopOrRestore
<1> QED BY <1>8, <1>9, <1>10, <1>11, <1>12, <1>13, <1>14 DEF RoleNext

\* What every step does to the sessions' records
LEMMA MembersStep ==
  ASSUME RoleTypeOK, RoleNext
  PROVE  members' \in [Members -> [live : BOOLEAN, name : Names \union {"none"},
                                    role : {"none", "em"}, em : BOOLEAN]]
<1> DEFINE Record == [live : BOOLEAN, name : Names \union {"none"}, role : {"none", "em"}, em : BOOLEAN]
<1>1. members \in [Members -> Record]
  BY DEF RoleTypeOK
<1>2. ASSUME NEW m \in Members, NEW name \in Names, NEW em \in BOOLEAN, UpdateMetadata(m, name, em)
      PROVE  members' \in [Members -> Record]
  <2>1. members' = Renamed(m, name, em)
    BY <1>2 DEF UpdateMetadata
  <2>2. ASSUME NEW x \in Members
        PROVE  Renamed(m, name, em)[x] \in Record
    BY <1>1 DEF Renamed
  <2> QED BY <2>1, <2>2 DEF Renamed
<1>3. ASSUME NEW m \in Members, StopOrRestore(m)
      PROVE  members' \in [Members -> Record]
  BY <1>1, <1>3 DEF StopOrRestore
<1>4. CASE UNCHANGED members
  BY <1>1, <1>4
<1> QED BY <1>2, <1>3, <1>4 DEF RoleNext, LookupRegistry, RegisterAgentRole, UnregisterAgentRole,
      SetMaintainer, ClearMaintainer, QueueNativeRename, DeliverRename, SyncNativeTitle, SubagentStart,
      SubagentStop

\* The types, and the agreement of the two ways to read the maintainer, hold in every state:
\* the prunings, recoveries, registrations and restores of sessions.rs keep them.
THEOREM RolesTyped == RoleSpec => [](RoleTypeOK /\ MaintainerAgrees)
<1>1. RoleInit => RoleTypeOK /\ MaintainerAgrees
  BY RolesAre DEF RoleInit, RoleTypeOK, MaintainerAgrees
<1>2. RoleTypeOK /\ MaintainerAgrees /\ [RoleNext]_roleVars => (RoleTypeOK /\ MaintainerAgrees)'
  <2>1. CASE RoleNext
    BY <2>1, RegistryStep, MembersStep DEF RoleTypeOK, RegistryTypeOK, Anyone
  <2>2. CASE UNCHANGED roleVars
    BY <2>2 DEF roleVars, registryOf, RoleTypeOK, MaintainerAgrees
  <2> QED BY <2>1, <2>2
<1> QED BY <1>1, <1>2, PTL DEF RoleSpec

\* A role stays with its live session until that session gives it up, and the alias of the
\* maintainer follows the registration, for all sessions and all sequences of registrations,
\* look-ups, renames, stops and restores.
THEOREM RolesKept == RoleSpec => RolesAreKept
<1>1. RoleTypeOK /\ MaintainerAgrees /\ [RoleNext]_roleVars => [RolesKeptStep]_roleVars
  BY RegistryStep
<1>2. RoleSpec => [][RolesKeptStep]_roleVars
  BY <1>1, RolesTyped, PTL DEF RoleSpec
<1>3. RoleSpec => []MaintainerAgrees
  BY RolesTyped, PTL
<1> QED BY <1>2, <1>3, PTL DEF RolesAreKept, RoleKeptByLive, RolesKeptStep

-----------------------------------------------------------------------------
(* The shadow comparison *)

\* A request, whatever else the record says
RequestOf(e) == [surface |-> e.surface, arg |-> e.arg]

\* The types of what the comparison looks at
ShadowTypeOK ==
  /\ world \in Worlds /\ changes \in 0..MaxChanges
  /\ envelope.at \in Nat
  /\ compared.match \in BOOLEAN /\ compared.fresh \in BOOLEAN

\* Python answered as the handlers do, of the world as it was: as it is, if nothing changed
AnsweredAsServed ==
  envelope # NoEnvelope =>
    /\ RequestOf(envelope) \in Requests
    /\ envelope.at <= changes
    /\ envelope.at = changes /\ envelope.status \notin {401, 403} =>
         envelope.status = Serve(RequestOf(envelope), world)

\* The handlers read the request only
LEMMA ServesTheRequest ==
  ASSUME NEW e, NEW w
  PROVE  /\ Serve(e, w) = Serve(RequestOf(e), w)
         /\ \A s : Agrees(e, w, s) <=> Agrees(RequestOf(e), w, s)
         /\ Unpredicted(e) <=> Unpredicted(RequestOf(e))
  BY DEF RequestOf, Serve, ServeList, ServeProjection, ServeArtifact, ServeNode, ServeOutput, ServeToolCalls,
     ServeLog, Agrees, PredictWrite, PredictRead, PredictArtifact, PredictProjection, PredictSession,
     ProtectedRead, Unpredicted, ValidQuery

\* What is predicted is what is served, of every read and every world
LEMMA PredictedAsServed ==
  ASSUME NEW r \in Requests, NEW w \in Worlds, ~Unpredicted(r)
  PROVE  Agrees(r, w, Serve(r, w))
<1> USE DEF Requests, Unpredicted, Statics, Lists, Surfaces, SeatReads, Projections, Artifacts, NodeReads
<1>1. r.surface \in Surfaces \union NodeReads
  OBVIOUS
<1>2. CASE r.surface \in {"review", "cancel-review", "queue-job", "queue-job-log", "children"}
  BY <1>2 DEF Agrees, PredictWrite, PredictRead, PredictSession, Serve, ServeLog, ServeReview, OkIf
<1>3. CASE r.surface \in Statics \union Lists
  BY <1>3 DEF Agrees, PredictWrite, PredictRead, Serve, ServeList
<1>4. CASE r.surface \in Projections
  BY <1>4 DEF Agrees, PredictWrite, PredictRead, PredictProjection, Serve, ServeProjection
<1>5. CASE r.surface \in Artifacts
  BY <1>5 DEF Agrees, PredictWrite, PredictRead, PredictArtifact, Serve, ServeArtifact, OkIf, Worlds
<1>6. CASE r.surface \in NodeReads
  BY <1>6 DEF Agrees, PredictWrite, PredictRead, Serve
<1>7. CASE r.surface \in SeatReads
  BY <1>7 DEF Agrees, PredictWrite, PredictRead, PredictSession, Serve, ServeOutput, ServeToolCalls, OkIf, Worlds
<1> QED BY <1>1, <1>2, <1>3, <1>4, <1>5, <1>6, <1>7

LEMMA ShadowStep ==
  ASSUME ShadowTypeOK, AnsweredAsServed, ShadowAgrees, HttpNext
  PROVE  ShadowTypeOK' /\ AnsweredAsServed' /\ ShadowAgrees'
<1> USE DEF ShadowTypeOK, Worlds
<1>1. CASE Change
  BY <1>1, HttpReadsAssumption DEF Change, AnsweredAsServed, ShadowAgrees
<1>2. CASE PythonAnswers
  <2>1. PICK r \in Requests, status \in {0, 401, 403} :
          envelope' = [surface |-> r.surface, arg |-> r.arg, at |-> changes,
                       status |-> IF status = 0 THEN Serve(r, world) ELSE status]
    BY <1>2 DEF PythonAnswers
  <2>2. RequestOf(envelope') = RequestOf(r) /\ RequestOf(r) = r
    BY <2>1 DEF RequestOf, Requests
  <2> QED BY <1>2, <2>1, <2>2 DEF PythonAnswers, AnsweredAsServed, ShadowAgrees, NotCompared
<1>3. CASE ShadowHttp
  <2> DEFINE r == RequestOf(envelope)
  <2>1. r \in Requests /\ envelope # NoEnvelope
    BY <1>3 DEF ShadowHttp, AnsweredAsServed
  <2>2. compared'.match = Agrees(envelope, world, envelope.status) /\ compared'.surface = envelope.surface
        /\ compared'.arg = envelope.arg
        /\ compared'.fresh = (changes = envelope.at /\ envelope.status \notin {401, 403})
    BY <1>3 DEF ShadowHttp
  <2>3. ASSUME compared'.fresh, ~Unpredicted(compared')
        PROVE  compared'.match
    <3>1. ~Unpredicted(r) /\ envelope.status = Serve(r, world)
      BY <2>1, <2>2, <2>3, ZenonT(60) DEF AnsweredAsServed, Unpredicted, RequestOf
    <3>2. Agrees(r, world, envelope.status)
      BY <3>1, <2>1, PredictedAsServed
    <3> QED BY <3>2, <2>2, ServesTheRequest
  <2>4. envelope' = NoEnvelope /\ world' = world /\ changes' = changes
    BY <1>3 DEF ShadowHttp
  <2>5. compared'.match \in BOOLEAN /\ compared'.fresh \in BOOLEAN
    BY <2>2 DEF Agrees
  <2> QED BY <2>3, <2>4, <2>5 DEF AnsweredAsServed, ShadowAgrees, NoEnvelope
<1>4. CASE TmuxClientHook \/ Broadcast \/ EventsStream \/ Receive
  <2>1. UNCHANGED <<world, envelope, compared, changes>>
    BY <1>4 DEF TmuxClientHook, Broadcast, EventsStream, Receive, Shadow0
  <2> QED BY <2>1 DEF AnsweredAsServed, ShadowAgrees
<1> QED BY <1>1, <1>2, <1>3, <1>4 DEF HttpNext

(* The stream of events *)

EventsTypeOK ==
  /\ version \in 0..MaxHooks /\ posting \subseteq 1..version /\ Cardinality(posting) <= AtOnce
  /\ sent \in Seq(Nat) /\ \A i \in 1..Len(sent) : sent[i] \in 1..version
  /\ listener \in [pc : {"away", "subscribe", "hello", "follow"}, next : Nat, seen : 0..version]
  /\ listener.pc # "away" => listener.next \in 1..(Len(sent) + 1)

\* The latest version is in the channel at i, and the hooks handled at once with it do not push it out
LatestAt(i) == sent[i] = version /\ Len(sent) - i + Cardinality(posting) < AtOnce

\* What a listener does not know it will be sent
WillBeSent ==
  listener.pc \in {"hello", "follow"} /\ version \notin posting =>
    listener.seen = version \/ \E i \in 1..Len(sent) : listener.next <= i /\ LatestAt(i)

LEMMA PostingFinite ==
  ASSUME EventsTypeOK
  PROVE  IsFiniteSet(posting) /\ Cardinality(posting) \in Nat
<1>1. IsFiniteSet(1..version)
  BY FS_Interval DEF EventsTypeOK
<1> QED BY <1>1, FS_Subset, FS_CardinalityType DEF EventsTypeOK

LEMMA MaxOfTwo ==
  ASSUME NEW a \in Int, NEW b \in Int
  PROVE  Max({a, b}) \in {a, b} /\ Max({a, b}) >= a /\ Max({a, b}) >= b
<1>1. \E x \in {a, b} : \A y \in {a, b} : x >= y
  <2>1. CASE a >= b
    BY <2>1
  <2>2. CASE ~(a >= b)
    BY <2>2
  <2> QED BY <2>1, <2>2
<1> QED BY <1>1 DEF Max

LEMMA EventsStep ==
  ASSUME EventsTypeOK, WillBeSent, HttpNext
  PROVE  EventsTypeOK' /\ WillBeSent'
<1> USE DEF EventsTypeOK
<1>0. IsFiniteSet(posting) /\ Cardinality(posting) \in Nat /\ AtOnce \in Nat /\ Backlog \in Nat /\ AtOnce <= Backlog
      /\ MaxHooks \in Nat
  BY PostingFinite, HttpReadsAssumption
<1>1. CASE TmuxClientHook
  <2>1. version' = version + 1 /\ posting' = posting \union {version + 1} /\ UNCHANGED <<sent, listener>>
        /\ Cardinality(posting) < AtOnce /\ version < MaxHooks
    BY <1>1 DEF TmuxClientHook
  <2>2. Cardinality(posting') = Cardinality(posting) + 1
    <3>1. version + 1 \notin posting
      OBVIOUS
    <3>2. Cardinality(posting \union {version + 1}) = Cardinality(posting) + 1
      BY <3>1, <1>0, FS_AddElement
    <3> QED BY <3>2, <2>1
  <2>3. version + 1 \in 0..MaxHooks /\ \A i \in 1..Len(sent) : sent[i] \in 1..(version + 1)
    BY <2>1, <1>0
  <2> QED BY <2>1, <2>2, <2>3, <1>0 DEF WillBeSent
<1>2. CASE Broadcast
  <2>1. PICK v \in posting : posting' = posting \ {v} /\ sent' = Append(sent, v) /\ UNCHANGED <<version, listener>>
    BY <1>2 DEF Broadcast
  <2>2. Cardinality(posting') = Cardinality(posting) - 1 /\ Cardinality(posting) >= 1
    <3>1. Cardinality(posting \ {v}) = Cardinality(posting) - 1
      BY <1>0, FS_RemoveElement
    <3>2. Cardinality(posting \ {v}) \in Nat
      BY <1>0, FS_RemoveElement, FS_CardinalityType
    <3> QED BY <3>1, <3>2, <2>1, <1>0
  <2>3. /\ sent' \in Seq(Nat) /\ Len(sent') = Len(sent) + 1
        /\ sent'[Len(sent) + 1] = v /\ \A i \in 1..Len(sent) : sent'[i] = sent[i]
    BY <2>1
  <2>4. EventsTypeOK'
    BY <2>1, <2>2, <2>3, <1>0
  <2>5. WillBeSent'
    <3> SUFFICES ASSUME listener.pc \in {"hello", "follow"}, version \notin posting', listener.seen # version
                 PROVE  \E i \in 1..(Len(sent) + 1) : listener.next <= i /\ sent'[i] = version
                           /\ Len(sent) + 1 - i + Cardinality(posting') < AtOnce
      <4>1. listener' = listener /\ version' = version /\ Len(sent') = Len(sent) + 1
        BY <2>1, <2>3
      <4> QED BY <4>1 DEF WillBeSent, LatestAt
    <3>1. CASE v = version
      <4> WITNESS Len(sent) + 1 \in 1..(Len(sent) + 1)
      <4> QED BY <3>1, <2>2, <2>3, <1>0
    <3>2. CASE v # version
      <4>1. version \notin posting
        BY <3>2, <2>1
      <4>2. PICK i \in 1..Len(sent) : listener.next <= i /\ LatestAt(i)
        BY <4>1 DEF WillBeSent
      <4>3. i \in 1..(Len(sent) + 1) /\ sent'[i] = version
        BY <4>2, <2>3, SMTT(60) DEF LatestAt
      <4>4. Len(sent) + 1 - i + Cardinality(posting') < AtOnce
        BY <4>2, <2>2, <1>0 DEF LatestAt
      <4> QED BY <4>2, <4>3, <4>4
    <3> QED BY <3>1, <3>2
  <2> QED BY <2>4, <2>5
<1>3. CASE EventsStream
  <2>1. UNCHANGED <<version, posting, sent>> /\ listener.pc # "follow"
        /\ listener' = [listener EXCEPT !.pc = StreamOrder(listener.pc),
                      !.next = IF StreamOrder(listener.pc) = "subscribe" THEN Len(sent) + 1 ELSE @,
                      !.seen = IF StreamOrder(listener.pc) = "hello" THEN version ELSE @]
    BY <1>3 DEF EventsStream
  <2>2. CASE listener.pc = "away"
    <3>1. listener' = [pc |-> "subscribe", next |-> Len(sent) + 1, seen |-> listener.seen]
      BY <2>1, <2>2 DEF StreamOrder
    <3>2. listener'.pc = "subscribe" /\ listener' \in [pc : {"subscribe"}, next : 1..(Len(sent) + 1), seen : 0..version]
      BY <3>1
    <3> QED BY <2>1, <3>2 DEF WillBeSent
  <2>3. CASE listener.pc = "subscribe"
    <3>1. listener' = [pc |-> "hello", next |-> listener.next, seen |-> version]
      BY <2>1, <2>3 DEF StreamOrder
    <3>2. listener'.seen = version /\ listener' \in [pc : {"hello"}, next : 1..(Len(sent) + 1), seen : 0..version]
      BY <2>3, <3>1
    <3> QED BY <2>1, <3>2 DEF WillBeSent
  <2>4. CASE listener.pc = "hello"
    <3>1. listener' = [pc |-> "follow", next |-> listener.next, seen |-> listener.seen]
      BY <2>1, <2>4 DEF StreamOrder
    <3> QED BY <2>1, <2>4, <3>1 DEF WillBeSent, LatestAt
  <2> QED BY <2>1, <2>2, <2>3, <2>4
<1>4. CASE Receive
  <2> DEFINE i == Max({listener.next, Len(sent) - Backlog + 1})
  <2>1. UNCHANGED <<version, posting, sent>> /\ listener.pc = "follow" /\ listener.next <= Len(sent)
        /\ listener' = [listener EXCEPT !.next = i + 1, !.seen = Max({@, sent[i]})]
    BY <1>4 DEF Receive
  <2>2. i \in 1..Len(sent) /\ i >= listener.next /\ (i = listener.next \/ i = Len(sent) - Backlog + 1)
    <3>1. listener.next \in 1..Len(sent) /\ Len(sent) - Backlog + 1 \in Int /\ Len(sent) - Backlog + 1 <= Len(sent)
      BY <2>1, HttpReadsAssumption
    <3>3. listener.next \in Int
      BY <3>1
    <3>2. i \in {listener.next, Len(sent) - Backlog + 1} /\ i >= listener.next
      BY <3>1, <3>3, MaxOfTwo, Zenon
    <3> QED BY <3>1, <3>2
  <2>3. Max({listener.seen, sent[i]}) \in {listener.seen, sent[i]}
        /\ Max({listener.seen, sent[i]}) >= sent[i] /\ Max({listener.seen, sent[i]}) >= listener.seen
    <3>1. sent[i] \in 1..version /\ listener.seen \in 0..version
      BY <2>2
    <3> HIDE DEF i
    <3>2. sent[i] \in Int /\ listener.seen \in Int
      BY <3>1
    <3> QED BY <3>2, MaxOfTwo, Zenon
  <2>7. sent[i] \in 1..version
    BY <2>2
  <2> HIDE DEF i
  <2>4. listener'.pc = "follow" /\ listener'.next = i + 1 /\ listener'.seen = Max({listener.seen, sent[i]})
        /\ listener' \in [pc : {"follow"}, next : Nat, seen : 0..version]
    <3> DEFINE m == Max({listener.seen, sent[i]})
    <3>1. m \in 0..version
      BY <2>3, <2>7
    <3> HIDE DEF m
    <3>2. listener' = [listener EXCEPT !.next = i + 1, !.seen = m]
      BY <2>1 DEF m
    <3>4. listener' = [pc |-> "follow", next |-> i + 1, seen |-> m]
      BY <2>1, <3>2
    <3>5. i + 1 \in Nat
      BY <2>2
    <3>3. listener'.pc = "follow" /\ listener'.next = i + 1 /\ listener'.seen = m
          /\ listener' \in [pc : {"follow"}, next : Nat, seen : 0..version]
      BY <3>1, <3>4, <3>5
    <3> QED BY <3>3 DEF m
  <2>5. EventsTypeOK'
    BY <2>1, <2>2, <2>4, SMTT(60)
  <2>6. WillBeSent'
    <3> SUFFICES ASSUME version \notin posting
                 PROVE  listener'.seen = version \/ \E j \in 1..Len(sent) : i + 1 <= j /\ LatestAt(j)
      BY <2>1, <2>4 DEF WillBeSent, LatestAt
    <3>1. CASE listener.seen = version
      BY <3>1, <2>2, <2>3, <2>4
    <3>2. CASE listener.seen # version
      <4>1. PICK j \in 1..Len(sent) : listener.next <= j /\ LatestAt(j)
        BY <3>2, <2>1 DEF WillBeSent
      <4>2. i <= j
        BY <4>1, <2>2, <1>0 DEF LatestAt
      <4>3. CASE i = j
        <5>1. sent[i] = version
          BY <4>3, <4>1 DEF LatestAt
        <5>2. listener'.seen >= version /\ listener'.seen \in 0..version
          BY <5>1, <2>3, <2>4
        <5> QED BY <5>2
      <4>4. CASE i # j
        BY <4>4, <4>1, <4>2, <2>2
      <4> QED BY <4>3, <4>4
    <3> QED BY <3>1, <3>2
  <2> QED BY <2>5, <2>6
<1>5. CASE Change \/ PythonAnswers \/ ShadowHttp
  <2>1. UNCHANGED <<version, posting, sent, listener>>
    BY <1>5 DEF Change, PythonAnswers, ShadowHttp, Events0
  <2> QED BY <2>1 DEF WillBeSent, LatestAt
<1> QED BY <1>1, <1>2, <1>3, <1>4, <1>5 DEF HttpNext

\* The shadow comparison reports real differences only, whatever changes between Python's answer
\* and the comparison (shadow_http), and a listener of /events catches up with the latest version
\* although the hooks broadcast in any order and the channel forgets (events_stream), for every
\* number of hooks and every size of the channel that holds those handled at once.
THEOREM ReadsRight == HttpSpec => [](HttpTypeOK /\ ReadsAreRight)
<1> DEFINE Inv == ShadowTypeOK /\ AnsweredAsServed /\ ShadowAgrees /\ EventsTypeOK /\ WillBeSent
<1>1. HttpInit => Inv
  <2> SUFFICES ASSUME HttpInit PROVE Inv
    OBVIOUS
  <2>1. ShadowTypeOK /\ AnsweredAsServed /\ ShadowAgrees
    BY HttpReadsAssumption DEF HttpInit, ShadowTypeOK, AnsweredAsServed, ShadowAgrees, NoEnvelope, NotCompared, Worlds, SeatShapes
  <2>2. EventsTypeOK /\ WillBeSent
    BY FS_EmptySet, HttpReadsAssumption DEF HttpInit, EventsTypeOK, WillBeSent
  <2> QED BY <2>1, <2>2
<1>2. Inv /\ [HttpNext]_httpVars => Inv'
  <2>1. ASSUME Inv, HttpNext PROVE Inv'
    BY <2>1, ShadowStep, EventsStep
  <2>2. ASSUME Inv, UNCHANGED httpVars PROVE Inv'
    BY <2>2 DEF httpVars, ShadowTypeOK, AnsweredAsServed, ShadowAgrees, EventsTypeOK, WillBeSent, LatestAt
  <2> QED BY <2>1, <2>2
<1>3. Inv => HttpTypeOK /\ ReadsAreRight
  <2> SUFFICES ASSUME Inv PROVE HttpTypeOK /\ ReadsAreRight
    OBVIOUS
  <2>1. HttpTypeOK
    BY DEF ShadowTypeOK, EventsTypeOK, HttpTypeOK
  <2>2. ASSUME listener.pc = "follow", posting = {}, listener.next > Len(sent)
        PROVE  listener.seen = version
    BY <2>2 DEF WillBeSent, EventsTypeOK
  <2> QED BY <2>1, <2>2 DEF ReadsAreRight, ListenerCatchesUp
<1> QED BY <1>1, <1>2, <1>3, PTL DEF HttpSpec

-----------------------------------------------------------------------------
(* Attached terminals: MobileTerminal *)

Pairings == [state : {"none", "pending", "used", "expired"}, failed : Nat]
Enrollers == [pc : {"none", "sign", "read", "write"}, names : SUBSET Devices]
Revokers == [pc : {"none", "policy", "database", "keys", "tickets", "active", "stop"},
             names : SUBSET (Devices \union TicketIds)]
Spendings == [pairings : Nat, tickets : Nat, revokes : Nat, faults : Nat, restarts : Nat]

\* The phones: a token has failed at most as often as something failed, and a policy that was read
\* names devices
PhoneInv ==
  /\ enrolled \in [Devices -> {"none", "active", "revoked"}]
  /\ pairing \in Pairings /\ pairing.failed <= spent.faults
  /\ spent \in Spendings /\ spent.faults <= TerminalFaults /\ spent.tickets <= MaxTickets
  /\ enroller \in [Devices -> Enrollers] /\ allowlist \subseteq Devices
  /\ revoker \in [Devices -> Revokers]
  /\ \A d \in Devices : revoker[d].pc = "policy" => revoker[d].names \subseteq Devices

LEMMA SpentStep ==
  ASSUME spent \in Spendings, NEW what \in {"pairings", "tickets", "revokes", "faults", "restarts"},
         NEW bound \in Nat, Spend(what, bound)
  PROVE  /\ spent' \in Spendings
         /\ spent'.faults \in {spent.faults, spent.faults + 1}
         /\ what = "faults" => spent'.faults = spent.faults + 1 /\ spent.faults < bound
         /\ what # "faults" => spent'.faults = spent.faults
         /\ what = "tickets" => spent'.tickets = spent.tickets + 1 /\ spent.tickets < bound
         /\ what # "tickets" => spent'.tickets = spent.tickets
<1>1. CASE what = "pairings" BY <1>1 DEF Spend, Spendings
<1>2. CASE what = "tickets" BY <1>2 DEF Spend, Spendings
<1>3. CASE what = "revokes" BY <1>3 DEF Spend, Spendings
<1>4. CASE what = "faults" BY <1>4 DEF Spend, Spendings
<1>5. CASE what = "restarts" BY <1>5 DEF Spend, Spendings
<1> QED BY <1>1, <1>2, <1>3, <1>4, <1>5

LEMMA PhoneStep ==
  ASSUME PhoneInv, [MobileNext]_mobileVars, revokedKeys \subseteq Devices, active \subseteq TicketIds
  PROVE  PhoneInv'
<1> USE TerminalAssumption
<1>p. pairing.state \in {"none", "pending", "used", "expired"} /\ pairing.failed \in Nat
  BY DEF PhoneInv, Pairings
<1>s. spent.faults \in Nat /\ spent.tickets \in Nat BY DEF PhoneInv, Spendings
<1>n. NoHandler \in Enrollers /\ NoHandler \in Revokers BY DEF NoHandler, Enrollers, Revokers
<1>k. ASSUME enrolled' \in [Devices -> {"none", "active", "revoked"}], pairing' \in Pairings,
             pairing'.failed <= spent'.faults, spent' \in Spendings, spent'.faults <= TerminalFaults,
             spent'.tickets <= MaxTickets, enroller' \in [Devices -> Enrollers], allowlist' \subseteq Devices,
             revoker' = revoker
      PROVE  PhoneInv'
  BY <1>k DEF PhoneInv
<1>1. CASE CreatePairing
  <2>1. /\ spent' \in Spendings /\ spent'.faults = spent.faults /\ spent'.tickets = spent.tickets
    BY <1>1, SpentStep DEF CreatePairing, PhoneInv
  <2>2. pairing' \in Pairings /\ pairing'.failed = 0 BY <1>1 DEF CreatePairing, NewPairing, Pairings
  <2> QED BY <1>1, <1>k, <1>s, <2>1, <2>2 DEF CreatePairing, PhoneInv, terminalVars
<1>2. CASE PairingExpires
  <2>2. pairing' \in Pairings /\ pairing'.failed = pairing.failed BY <1>2 DEF PairingExpires, Pairings, PhoneInv
  <2> QED BY <1>2, <1>k, <2>2 DEF PairingExpires, PhoneInv, terminalVars
<1>3. CASE Disable BY <1>3 DEF Disable, phoneVars, PhoneInv
<1>4. CASE TerminalRestart
  <2>1. /\ spent' \in Spendings /\ spent'.faults = spent.faults /\ spent'.tickets = spent.tickets
    BY <1>4, SpentStep DEF TerminalRestart, PhoneInv
  <2>2. revoker' \in [Devices -> Revokers] /\ \A d \in Devices : revoker'[d].pc = "none"
    BY <1>4, <1>n DEF TerminalRestart, NoHandler
  <2> QED BY <1>4, <2>1, <2>2 DEF TerminalRestart, PhoneInv, phoneVars
<1>5. ASSUME NEW d \in Devices, EnrollBegin(d) PROVE PhoneInv'
  <2>1. [enroller[d] EXCEPT !.pc = "sign"] \in Enrollers BY DEF PhoneInv, Enrollers
  <2>2. enroller' = [enroller EXCEPT ![d] = [enroller[d] EXCEPT !.pc = "sign"]] BY <1>5 DEF EnrollBegin, PhoneInv
  <2>3. enroller' \in [Devices -> Enrollers] BY <2>1, <2>2 DEF PhoneInv
  <2> QED BY <1>5, <1>k, <2>3 DEF EnrollBegin, PhoneInv, terminalVars
<1>6. ASSUME NEW d \in Devices, EnrollRejected(d) PROVE PhoneInv'
  <2>1. /\ spent' \in Spendings /\ spent'.faults = spent.faults + 1 /\ spent.faults < TerminalFaults
        /\ spent'.tickets = spent.tickets
    BY <1>6, SpentStep DEF EnrollRejected, PhoneInv
  <2>2. enroller' \in [Devices -> Enrollers] BY <1>6, <1>n DEF EnrollRejected, PhoneInv
  <2>3. pairing' \in Pairings /\ pairing'.failed <= pairing.failed + 1
    BY <1>6, <1>p DEF EnrollRejected, FailureRecorded, Pairings, PhoneInv
  <2>4. pairing'.failed <= spent'.faults /\ spent'.faults <= TerminalFaults
    <3>1. pairing'.failed \in Nat BY <2>3 DEF Pairings
    <3> QED BY <2>1, <2>3, <3>1, <1>s, <1>p DEF PhoneInv
  <2> QED BY <1>6, <1>k, <2>1, <2>2, <2>3, <2>4 DEF EnrollRejected, PhoneInv, terminalVars
<1>7. ASSUME NEW d \in Devices, EnrollPair(d) PROVE PhoneInv'
  <2>1. [enroller[d] EXCEPT !.pc = "read"] \in Enrollers BY DEF PhoneInv, Enrollers
  <2>2. enroller' \in {[enroller EXCEPT ![d] = [enroller[d] EXCEPT !.pc = "read"]], [enroller EXCEPT ![d] = NoHandler]}
    BY <1>7 DEF EnrollPair, PhoneInv
  <2>3. enroller' \in [Devices -> Enrollers] BY <2>1, <2>2, <1>n DEF PhoneInv
  <2>4. pairing' \in Pairings /\ pairing'.failed = pairing.failed BY <1>7 DEF EnrollPair, Pairings, PhoneInv
  <2>5. enrolled' \in [Devices -> {"none", "active", "revoked"}] BY <1>7 DEF EnrollPair, PhoneInv
  <2> QED BY <1>7, <1>k, <2>3, <2>4, <2>5 DEF EnrollPair, PhoneInv, terminalVars
<1>8. ASSUME NEW d \in Devices, EnrollRead(d) PROVE PhoneInv'
  <2>1. [pc |-> "write", names |-> allowlist] \in Enrollers BY DEF PhoneInv, Enrollers
  <2>3. enroller' \in [Devices -> Enrollers] BY <1>8, <2>1 DEF EnrollRead, PhoneInv
  <2> QED BY <1>8, <1>k, <2>3 DEF EnrollRead, PhoneInv, terminalVars
<1>9. ASSUME NEW d \in Devices, EnrollWrite(d) PROVE PhoneInv'
  <2>1. enroller[d].names \subseteq Devices BY DEF PhoneInv, Enrollers
  <2>2. allowlist' \subseteq Devices BY <1>9, <2>1 DEF EnrollWrite, WithName
  <2>3. enroller' \in [Devices -> Enrollers] BY <1>9, <1>n DEF EnrollWrite, PhoneInv
  <2> QED BY <1>9, <1>k, <2>2, <2>3 DEF EnrollWrite, PhoneInv, terminalVars
<1>10. ASSUME NEW d \in Devices, EnrollPolicyFails(d) PROVE PhoneInv'
  <2>1. /\ spent' \in Spendings /\ spent'.faults = spent.faults + 1 /\ spent.faults < TerminalFaults
        /\ spent'.tickets = spent.tickets
    BY <1>10, SpentStep DEF EnrollPolicyFails, PhoneInv
  <2>2. enroller' \in [Devices -> Enrollers] BY <1>10, <1>n DEF EnrollPolicyFails, PhoneInv
  <2>3. enrolled' \in [Devices -> {"none", "active", "revoked"}] BY <1>10 DEF EnrollPolicyFails, PhoneInv
  <2>4. pairing' = pairing BY <1>10 DEF EnrollPolicyFails
  <2> QED BY <1>10, <1>k, <1>s, <1>p, <2>1, <2>2, <2>3, <2>4 DEF EnrollPolicyFails, PhoneInv, terminalVars
<1>11. ASSUME NEW d \in Devices, IssueAuthorize(d) PROVE PhoneInv'
  <2>1. /\ spent' \in Spendings /\ spent'.faults = spent.faults /\ spent'.tickets = spent.tickets + 1
        /\ spent.tickets < MaxTickets
    BY <1>11, SpentStep DEF IssueAuthorize, PhoneInv
  <2> QED BY <1>11, <1>k, <1>s, <2>1 DEF IssueAuthorize, PhoneInv, phoneVars
<1>12. ASSUME NEW d \in Devices, RevokeBegin(d) PROVE PhoneInv'
  <2>1. /\ spent' \in Spendings /\ spent'.faults = spent.faults /\ spent'.tickets = spent.tickets
    BY <1>12, SpentStep DEF RevokeBegin, PhoneInv
  <2>2. [pc |-> "policy", names |-> allowlist] \in Revokers BY DEF PhoneInv, Revokers
  <2>3. revoker' \in [Devices -> Revokers] BY <1>12, <2>2 DEF RevokeBegin, PhoneInv
  <2>4. \A e \in Devices : revoker'[e].pc = "policy" => revoker'[e].names \subseteq Devices
    BY <1>12 DEF RevokeBegin, PhoneInv
  <2> QED BY <1>12, <2>1, <2>3, <2>4 DEF RevokeBegin, PhoneInv, phoneVars
<1>13. ASSUME NEW d \in Devices, RevokePolicy(d) PROVE PhoneInv'
  <2>1. revoker' \in {[revoker EXCEPT ![d] = [NoHandler EXCEPT !.pc = "database"]], [revoker EXCEPT ![d] = NoHandler]}
    BY <1>13 DEF RevokePolicy
  <2>2. [NoHandler EXCEPT !.pc = "database"] = [pc |-> "database", names |-> {}] BY DEF NoHandler
  <2>3. [NoHandler EXCEPT !.pc = "database"] \in Revokers BY <2>2 DEF Revokers
  <2>4. revoker' \in [Devices -> Revokers] BY <2>1, <2>3, <1>n DEF PhoneInv
  <2>5. \A e \in Devices : revoker'[e].pc = "policy" => revoker'[e].names \subseteq Devices
    BY <2>1, <2>2 DEF PhoneInv, NoHandler
  <2>6. allowlist' \subseteq Devices BY <1>13 DEF RevokePolicy, WithName, PhoneInv
  <2>7. /\ spent' \in Spendings /\ spent'.tickets = spent.tickets
        /\ spent'.faults \in {spent.faults, spent.faults + 1} /\ spent'.faults <= TerminalFaults
    <3>1. CASE UNCHANGED spent BY <3>1 DEF PhoneInv
    <3>2. CASE Spend("faults", TerminalFaults) BY <3>2, SpentStep, <1>s DEF PhoneInv
    <3> QED BY <1>13, <3>1, <3>2 DEF RevokePolicy
  <2>8. pairing'.failed <= spent'.faults BY <1>13, <2>7, <1>p, <1>s DEF RevokePolicy, PhoneInv
  <2> QED BY <1>13, <2>4, <2>5, <2>6, <2>7, <2>8 DEF RevokePolicy, PhoneInv
<1>14. ASSUME NEW d \in Devices, RevokeDatabase(d) PROVE PhoneInv'
  <2>1. [revoker[d] EXCEPT !.pc = "keys"] \in Revokers /\ [revoker[d] EXCEPT !.pc = "keys"].pc = "keys"
    BY DEF PhoneInv, Revokers
  <2>2. revoker' = [revoker EXCEPT ![d] = [revoker[d] EXCEPT !.pc = "keys"]] BY <1>14 DEF RevokeDatabase, PhoneInv
  <2>3. revoker' \in [Devices -> Revokers] BY <2>1, <2>2 DEF PhoneInv
  <2>4. \A e \in Devices : revoker'[e].pc = "policy" => revoker'[e].names \subseteq Devices
    BY <2>1, <2>2 DEF PhoneInv
  <2>5. enrolled' \in [Devices -> {"none", "active", "revoked"}] BY <1>14 DEF RevokeDatabase, PhoneInv
  <2> QED BY <1>14, <2>3, <2>4, <2>5 DEF RevokeDatabase, PhoneInv
<1>15. ASSUME NEW d \in Devices, RevokeInState(d) PROVE PhoneInv'
  <2> PICK names : names = IF revoker[d].pc = "active" THEN active \intersect BridgesOf(d) ELSE revoker[d].names
    OBVIOUS
  <2> PICK pc : pc = AfterLock(revoker[d].pc) OBVIOUS
  <2>1. names \subseteq Devices \union TicketIds BY DEF PhoneInv, Revokers
  <2>2. pc \in {"tickets", "active", "stop"} BY DEF AfterLock
  <2>3. [pc |-> pc, names |-> names] \in Revokers BY <2>1, <2>2 DEF Revokers
  <2>4. revoker' = [revoker EXCEPT ![d] = [pc |-> pc, names |-> names]] BY <1>15 DEF RevokeInState, PhoneInv
  <2>5. revoker' \in [Devices -> Revokers] BY <2>3, <2>4 DEF PhoneInv
  <2>6. \A e \in Devices : revoker'[e].pc = "policy" => revoker'[e].names \subseteq Devices
    BY <2>2, <2>4 DEF PhoneInv
  <2> QED BY <1>15, <2>5, <2>6 DEF RevokeInState, PhoneInv, phoneVars
<1>16. ASSUME NEW d \in Devices, RevokeStop(d) PROVE PhoneInv'
  <2>1. revoker' \in [Devices -> Revokers] BY <1>16, <1>n DEF RevokeStop, PhoneInv
  <2>2. \A e \in Devices : revoker'[e].pc = "policy" => revoker'[e].names \subseteq Devices
    BY <1>16 DEF RevokeStop, PhoneInv, NoHandler
  <2> QED BY <1>16, <2>1, <2>2 DEF RevokeStop, PhoneInv, phoneVars
<1>17. ASSUME NEW d \in Devices, IssueTicket(d) \/ SocketAuth(d) \/ SocketCheck(d) \/ SocketAttach(d) PROVE PhoneInv'
  BY <1>17 DEF IssueTicket, SocketAuth, SocketCheck, SocketAttach, PhoneInv, phoneVars
<1>18. ASSUME NEW t \in TicketIds, \/ TicketExpires(t) \/ BridgeStart(t) \/ BridgeLeaves(t) \/ ClientFrame(t)
                                   \/ OrphanOutput(t) \/ BridgeEnds(t)
       PROVE PhoneInv'
  BY <1>18 DEF TicketExpires, BridgeStart, BridgeLeaves, ClientFrame, OrphanOutput, BridgeEnds, PhoneInv, phoneVars
<1>19. ASSUME NEW t \in TicketIds, BadFrame(t) PROVE PhoneInv'
  <2>1. /\ spent' \in Spendings /\ spent'.faults = spent.faults + 1 /\ spent.faults < TerminalFaults
        /\ spent'.tickets = spent.tickets
    BY <1>19, SpentStep DEF BadFrame, PhoneInv
  <2>2. pairing' = pairing BY <1>19 DEF BadFrame, phoneVars
  <2> QED BY <1>19, <1>k, <1>s, <1>p, <2>1, <2>2 DEF BadFrame, PhoneInv, phoneVars
<1>20. CASE UNCHANGED mobileVars BY <1>20 DEF mobileVars, phoneVars, terminalVars, PhoneInv
<1> QED BY <1>1, <1>2, <1>3, <1>4, <1>5, <1>6, <1>7, <1>8, <1>9, <1>10, <1>11, <1>12, <1>13, <1>14, <1>15, <1>16,
           <1>17, <1>18, <1>19, <1>20 DEF MobileNext

Sockets == [pc : {"none", "ticket", "checked"}, ticket : 0 .. MaxTickets]
Bridges == [pc : {"none", "starting", "attached", "ending", "gone"}, device : Devices \union {"nobody"},
            stop : BOOLEAN, client : BOOLEAN]
Running == {"starting", "attached"}

\* The types of the terminals
TerminalTypeOK ==
  /\ revokedKeys \subseteq Devices
  /\ DOMAIN tickets \subseteq TicketIds /\ tickets \in [DOMAIN tickets -> Devices]
  /\ issuer \in [Devices -> 0 .. MaxTickets] /\ socket \in [Devices -> Sockets]
  /\ active \subseteq TicketIds /\ bridge \in [TicketIds -> Bridges]

\* A number is the number of one ticket: the ones that wait have no bridge, and the ones about to be
\* issued are neither waiting, nor held by a socket, nor traded
TicketsFresh ==
  /\ \A t \in DOMAIN tickets : t <= spent.tickets /\ bridge[t].pc = "none"
  /\ \A t \in TicketIds : bridge[t].pc # "none" => t <= spent.tickets
  /\ \A d \in Devices : socket[d].pc # "none" => socket[d].ticket \in 1 .. spent.tickets
  /\ \A d \in Devices : issuer[d] # 0 =>
       /\ issuer[d] \in 1 .. spent.tickets /\ issuer[d] \notin DOMAIN tickets /\ bridge[issuer[d]].pc = "none"
       /\ \A e \in Devices : /\ socket[e].pc # "none" => socket[e].ticket # issuer[d]
                             /\ e # d => issuer[e] # issuer[d]

\* A socket of a revoked device that was let through has lost its ticket
CheckedIsCut ==
  \A d \in revokedKeys :
    revoker[d].pc # "tickets" /\ socket[d].pc = "checked" => socket[d].ticket \notin TicketsOf(d)

\* A revoked device has no attach
RevokedNotActive ==
  \A d \in revokedKeys : revoker[d].pc \notin {"tickets", "active"} => \A t \in active : bridge[t].device # d

\* A bridge that lost its place is stopped, or its revocation is about to stop it
LostIsStopped ==
  \A t \in TicketIds : bridge[t].pc \in Running /\ t \notin active =>
    \/ bridge[t].stop \/ disabled
    \/ /\ bridge[t].device \in Devices /\ revoker[bridge[t].device].pc = "stop"
       /\ t \in revoker[bridge[t].device].names

TerminalInv ==
  /\ TerminalTypeOK /\ TicketsFresh /\ CheckedIsCut /\ RevokedNotActive /\ LostIsStopped
  /\ SlotsAreLive /\ Cardinality(active) <= AttachLimit

\* The invariant is what the property needs
LEMMA TerminalsFollow ==
  ASSUME TerminalInv PROVE TerminalsAreCut
<1>1. RevokedIsCut
  BY DEF TerminalInv, TerminalTypeOK, RevokedIsCut, RevokedNotActive, LostIsStopped, BridgesOf, Running
<1>2. \A t \in active : t \notin DOMAIN tickets
  BY DEF TerminalInv, TerminalTypeOK, SlotsAreLive, TicketsFresh, Live
<1> QED BY <1>1, <1>2 DEF TerminalInv, TerminalsAreCut, AttachesBounded

LEMMA TicketsFinite == IsFiniteSet(TicketIds)
  BY FS_Interval, TerminalAssumption DEF TicketIds

\* The attaches are finite in number, and removing some does not raise it
LEMMA FewerAttaches ==
  ASSUME active \subseteq TicketIds, active' \subseteq active, Cardinality(active) <= AttachLimit
  PROVE  Cardinality(active') <= AttachLimit
<1>2. IsFiniteSet(active) BY TicketsFinite, FS_Subset
<1>3. Cardinality(active') <= Cardinality(active) BY <1>2, FS_Subset
<1>4. Cardinality(active') \in Nat /\ Cardinality(active) \in Nat BY <1>2, FS_Subset, FS_CardinalityType
<1> QED BY <1>3, <1>4, TerminalAssumption

\* A bridge goes on its way: nothing else moves, and the place it may give up is its own
LEMMA BridgeMoves ==
  ASSUME TerminalInv, NEW t \in TicketIds, NEW b \in Bridges, bridge' = [bridge EXCEPT ![t] = b],
         bridge[t].pc # "none", b.pc # "none", b.device = bridge[t].device,
         b.pc \in Running => bridge[t].pc \in Running /\ (bridge[t].stop => b.stop),
         active' = (IF b.pc = "gone" THEN active \ {t} ELSE active), 
         UNCHANGED <<revokedKeys, revoker, disabled, tickets, issuer, socket>>, spent'.tickets = spent.tickets
  PROVE  TerminalInv'
<1>1. TerminalTypeOK' BY DEF TerminalInv, TerminalTypeOK
<1>b. /\ bridge'[t] = b /\ \A u \in TicketIds \ {t} : bridge'[u] = bridge[u]
  BY DEF TerminalInv, TerminalTypeOK
<1>i. \A d \in Devices : issuer[d] # 0 => issuer[d] \in TicketIds
  BY DEF TerminalInv, TerminalTypeOK, TicketIds
<1>2. TicketsFresh'
  <2>1. \A u \in DOMAIN tickets' : u <= spent'.tickets /\ bridge'[u].pc = "none"
    BY <1>b DEF TerminalInv, TerminalTypeOK, TicketsFresh
  <2>2. \A u \in TicketIds : bridge'[u].pc # "none" => u <= spent'.tickets
    BY <1>b DEF TerminalInv, TicketsFresh
  <2>3. \A d \in Devices : issuer'[d] # 0 => bridge'[issuer'[d]].pc = "none"
    BY <1>b, <1>i DEF TerminalInv, TicketsFresh
  <2> QED BY <2>1, <2>2, <2>3 DEF TerminalInv, TicketsFresh
<1>3. CheckedIsCut' BY DEF TerminalInv, CheckedIsCut, TicketsOf
<1>4. RevokedNotActive' BY <1>b DEF TerminalInv, TerminalTypeOK, RevokedNotActive
<1>5. LostIsStopped' BY <1>b DEF TerminalInv, TerminalTypeOK, LostIsStopped, Running
<1>6. SlotsAreLive' BY <1>b DEF TerminalInv, TerminalTypeOK, SlotsAreLive, Live, Bridges
<1>7. Cardinality(active') <= AttachLimit BY FewerAttaches DEF TerminalInv, TerminalTypeOK
<1> QED BY <1>1, <1>2, <1>3, <1>4, <1>5, <1>6, <1>7 DEF TerminalInv

\* Nothing the terminals' invariant reads has moved but the handlers of revocation: they moved on
\* before the keys, or ended without a bridge to stop
LEMMA TerminalsRest ==
  ASSUME TerminalInv, UNCHANGED <<revokedKeys, disabled, tickets, issuer, socket, active, bridge>>,
         spent'.tickets = spent.tickets,
         \A d \in Devices : \/ revoker'[d] = revoker[d]
                            \/ /\ revoker[d].pc \notin {"tickets", "active", "stop"}
                               /\ revoker'[d].pc \notin {"tickets", "active", "stop"}
  PROVE  TerminalInv'
<1>1. TerminalTypeOK' /\ TicketsFresh' BY DEF TerminalInv, TerminalTypeOK, TicketsFresh
<1>2. CheckedIsCut' BY DEF TerminalInv, TerminalTypeOK, CheckedIsCut, TicketsOf
<1>3. RevokedNotActive' BY DEF TerminalInv, TerminalTypeOK, RevokedNotActive
<1>4. LostIsStopped' BY DEF TerminalInv, LostIsStopped
<1>5. SlotsAreLive' BY DEF TerminalInv, SlotsAreLive, Live
<1> QED BY <1>1, <1>2, <1>3, <1>4, <1>5 DEF TerminalInv

\* Tickets are dropped, and nothing else moves
LEMMA TicketsDropped ==
  ASSUME TerminalInv, NEW ts, tickets' = Without(ts), spent'.tickets = spent.tickets,
         UNCHANGED <<revokedKeys, disabled, issuer, socket, active, bridge, revoker>>
  PROVE  TerminalInv'
<1>1. DOMAIN tickets' \subseteq DOMAIN tickets /\ \A t \in DOMAIN tickets' : tickets'[t] = tickets[t]
  BY DEF Without
<1>2. TerminalTypeOK' /\ TicketsFresh'
  <2>1. tickets' \in [DOMAIN tickets' -> Devices] BY <1>1 DEF Without, TerminalInv, TerminalTypeOK
  <2> QED BY <1>1, <2>1 DEF TerminalInv, TerminalTypeOK, TicketsFresh
<1>3. CheckedIsCut' BY <1>1 DEF TerminalInv, CheckedIsCut, TicketsOf
<1>4. RevokedNotActive' BY DEF TerminalInv, RevokedNotActive
<1>5. LostIsStopped' BY DEF TerminalInv, LostIsStopped
<1>6. SlotsAreLive' BY DEF TerminalInv, SlotsAreLive, Live
<1> QED BY <1>2, <1>3, <1>4, <1>5, <1>6 DEF TerminalInv

\* The stop flags of some bridges are raised
LEMMA StopsRaised ==
  ASSUME TerminalInv, NEW ts, bridge' = StopOf(ts)
  PROVE  /\ bridge' \in [TicketIds -> Bridges]
         /\ \A t \in TicketIds : /\ bridge'[t].pc = bridge[t].pc /\ bridge'[t].device = bridge[t].device
                                 /\ bridge[t].stop => bridge'[t].stop
                                 /\ t \in ts /\ Live(t) => bridge'[t].stop
<1> USE DEF TerminalInv, TerminalTypeOK
<1>1. ASSUME NEW t \in TicketIds
      PROVE  /\ bridge'[t] \in Bridges
             /\ bridge'[t].pc = bridge[t].pc /\ bridge'[t].device = bridge[t].device
             /\ bridge[t].stop => bridge'[t].stop
             /\ t \in ts /\ Live(t) => bridge'[t].stop
  <2>1. CASE t \in ts /\ Live(t)
    <3>1. bridge'[t] = [bridge[t] EXCEPT !.stop = TRUE] BY <2>1 DEF StopOf
    <3> QED BY <3>1 DEF Bridges
  <2>2. CASE ~(t \in ts /\ Live(t))
    <3>1. bridge'[t] = bridge[t] BY <2>2 DEF StopOf
    <3> QED BY <3>1, <2>2
  <2> QED BY <2>1, <2>2
<1>2. bridge' \in [TicketIds -> Bridges] BY <1>1 DEF StopOf
<1> QED BY <1>1, <1>2

\* So are some bridges stopped, whose revocation may be over then
LEMMA BridgesStopped ==
  ASSUME TerminalInv, NEW ts, bridge' = StopOf(ts),
         UNCHANGED <<revokedKeys, disabled, tickets, issuer, socket, active>>, spent'.tickets = spent.tickets,
         \A d \in Devices : \/ revoker'[d] = revoker[d]
                            \/ revoker[d].pc = "stop" /\ revoker[d].names = ts /\ revoker'[d].pc = "none"
  PROVE  TerminalInv'
<1>s. /\ bridge' \in [TicketIds -> Bridges]
      /\ \A t \in TicketIds : /\ bridge'[t].pc = bridge[t].pc /\ bridge'[t].device = bridge[t].device
                              /\ bridge[t].stop => bridge'[t].stop
                              /\ t \in ts /\ Live(t) => bridge'[t].stop
  BY StopsRaised
<1>1. TerminalTypeOK' BY <1>s DEF TerminalInv, TerminalTypeOK
<1>i. \A d \in Devices : issuer[d] # 0 => issuer[d] \in TicketIds
  BY TerminalAssumption DEF TerminalInv, TerminalTypeOK, TicketIds
<1>2. TicketsFresh'
  <2>1. \A u \in DOMAIN tickets' : u <= spent'.tickets /\ bridge'[u].pc = "none"
    BY <1>s DEF TerminalInv, TerminalTypeOK, TicketsFresh
  <2>2. \A u \in TicketIds : bridge'[u].pc # "none" => u <= spent'.tickets
    BY <1>s DEF TerminalInv, TicketsFresh
  <2>3. \A d \in Devices : issuer'[d] # 0 => bridge'[issuer'[d]].pc = "none"
    BY <1>s, <1>i DEF TerminalInv, TicketsFresh
  <2> QED BY <2>1, <2>2, <2>3 DEF TerminalInv, TicketsFresh
<1>3. CheckedIsCut' BY DEF TerminalInv, TerminalTypeOK, CheckedIsCut, TicketsOf
<1>4. RevokedNotActive' BY <1>s DEF TerminalInv, TerminalTypeOK, RevokedNotActive
<1>5. LostIsStopped'
  <2> SUFFICES ASSUME NEW t \in TicketIds, bridge'[t].pc \in Running, t \notin active', ~bridge'[t].stop, ~disabled'
               PROVE  /\ bridge'[t].device \in Devices /\ revoker'[bridge'[t].device].pc = "stop"
                      /\ t \in revoker'[bridge'[t].device].names
    BY DEF LostIsStopped
  <2>1. /\ bridge[t].device \in Devices /\ revoker[bridge[t].device].pc = "stop"
        /\ t \in revoker[bridge[t].device].names
    BY <1>s DEF TerminalInv, LostIsStopped
  <2>2. Live(t) BY <1>s DEF Live, Running
  <2>3. t \notin ts BY <2>2, <1>s
  <2> QED BY <2>1, <2>3, <1>s
<1>6. SlotsAreLive' BY <1>s DEF TerminalInv, TerminalTypeOK, SlotsAreLive, Live
<1> QED BY <1>1, <1>2, <1>3, <1>4, <1>5, <1>6 DEF TerminalInv

\* The phones, and the handlers of a revocation that has not come to the terminals, leave them alone
LEMMA PhonesLeaveTerminals ==
  ASSUME TerminalInv, PhoneInv, NEW d \in Devices,
         \/ CreatePairing \/ PairingExpires \/ EnrollBegin(d) \/ EnrollRejected(d) \/ EnrollPair(d) \/ EnrollRead(d)
         \/ EnrollWrite(d) \/ EnrollPolicyFails(d) \/ RevokeBegin(d) \/ RevokePolicy(d) \/ RevokeDatabase(d)
  PROVE  TerminalInv'
<1> USE TerminalAssumption
<1>1. spent'.tickets = spent.tickets
  <2>1. CASE UNCHANGED spent BY <2>1
  <2>2. CASE Spend("pairings", MaxPairings) \/ Spend("faults", TerminalFaults) \/ Spend("revokes", MaxRevokes)
    BY <2>2, SpentStep DEF PhoneInv
  <2> QED BY <2>1, <2>2 DEF CreatePairing, PairingExpires, EnrollBegin, EnrollRejected, EnrollPair, EnrollRead,
                            EnrollWrite, EnrollPolicyFails, RevokeBegin, RevokePolicy, RevokeDatabase
<1>2. \A e \in Devices : \/ revoker'[e] = revoker[e]
                         \/ /\ revoker[e].pc \notin {"tickets", "active", "stop"}
                            /\ revoker'[e].pc \notin {"tickets", "active", "stop"}
  <2>1. CASE UNCHANGED revoker BY <2>1
  <2>2. CASE RevokeBegin(d) BY <2>2 DEF RevokeBegin, PhoneInv
  <2>3. CASE RevokePolicy(d)
    <3>1. revoker' \in {[revoker EXCEPT ![d] = [NoHandler EXCEPT !.pc = "database"]], [revoker EXCEPT ![d] = NoHandler]}
      BY <2>3 DEF RevokePolicy
    <3>2. [NoHandler EXCEPT !.pc = "database"].pc = "database" /\ NoHandler.pc = "none" BY DEF NoHandler
    <3>3. revoker[d].pc = "policy" BY <2>3 DEF RevokePolicy
    <3> QED BY <3>1, <3>2, <3>3 DEF PhoneInv
  <2>4. CASE RevokeDatabase(d)
    <3>1. [revoker[d] EXCEPT !.pc = "keys"].pc = "keys" BY DEF PhoneInv, Revokers
    <3>2. revoker' = [revoker EXCEPT ![d] = [revoker[d] EXCEPT !.pc = "keys"]] BY <2>4 DEF RevokeDatabase, PhoneInv
    <3>3. revoker[d].pc = "database" BY <2>4 DEF RevokeDatabase
    <3> QED BY <3>1, <3>2, <3>3 DEF PhoneInv
  <2> QED BY <2>1, <2>2, <2>3, <2>4 DEF CreatePairing, PairingExpires, EnrollBegin, EnrollRejected, EnrollPair,
                            EnrollRead, EnrollWrite, EnrollPolicyFails, terminalVars
<1>3. UNCHANGED <<revokedKeys, disabled, tickets, issuer, socket, active, bridge>>
  BY DEF CreatePairing, PairingExpires, EnrollBegin, EnrollRejected, EnrollPair, EnrollRead,
         EnrollWrite, EnrollPolicyFails, RevokeBegin, RevokePolicy, RevokeDatabase, terminalVars
<1> QED BY <1>1, <1>2, <1>3, TerminalsRest

\* A ticket number is taken, and the ticket issued under it
LEMMA Issuing ==
  ASSUME TerminalInv, PhoneInv, NEW d \in Devices, IssueAuthorize(d) \/ IssueTicket(d)
  PROVE  TerminalInv'
<1> USE TerminalAssumption
<1>n. spent.tickets \in Nat /\ spent.tickets <= MaxTickets BY DEF PhoneInv, Spendings
<1>1. CASE IssueAuthorize(d)
  <2>1. spent'.tickets = spent.tickets + 1 /\ spent.tickets < MaxTickets
    BY <1>1, SpentStep DEF IssueAuthorize, PhoneInv
  <2>2. /\ issuer' = [issuer EXCEPT ![d] = spent.tickets + 1]
        /\ UNCHANGED <<revokedKeys, revoker, disabled, tickets, socket, active, bridge>>
    BY <1>1 DEF IssueAuthorize
  <2>3. issuer' \in [Devices -> 0 .. MaxTickets] /\ issuer'[d] = spent.tickets + 1
        /\ \A e \in Devices \ {d} : issuer'[e] = issuer[e]
    BY <2>1, <2>2, <1>n DEF TerminalInv, TerminalTypeOK
  <2>4. TerminalTypeOK' BY <2>2, <2>3 DEF TerminalInv, TerminalTypeOK
  <2>5. TicketsFresh'
    <3>1. \A t \in DOMAIN tickets' : t <= spent'.tickets /\ bridge'[t].pc = "none"
      BY <2>1, <2>2, <1>n DEF TerminalInv, TerminalTypeOK, TicketsFresh, TicketIds
    <3>2. \A t \in TicketIds : bridge'[t].pc # "none" => t <= spent'.tickets
      BY <2>1, <2>2, <1>n DEF TerminalInv, TicketsFresh, TicketIds
    <3>3. \A e \in Devices : socket'[e].pc # "none" => socket'[e].ticket \in 1 .. spent'.tickets
      BY <2>1, <2>2, <1>n DEF TerminalInv, TicketsFresh
    <3>4. ASSUME NEW e \in Devices, issuer'[e] # 0
          PROVE  /\ issuer'[e] \in 1 .. spent'.tickets /\ issuer'[e] \notin DOMAIN tickets'
                 /\ bridge'[issuer'[e]].pc = "none"
                 /\ \A f \in Devices : /\ socket'[f].pc # "none" => socket'[f].ticket # issuer'[e]
                                       /\ f # e => issuer'[f] # issuer'[e]
      <4>1. CASE e = d
        <5>1. issuer'[e] = spent.tickets + 1 /\ issuer'[e] \in TicketIds BY <4>1, <2>1, <2>3, <1>n DEF TicketIds
        <5>2. issuer'[e] \in 1 .. spent'.tickets BY <5>1, <2>1, <1>n
        <5>3. issuer'[e] \notin DOMAIN tickets BY <5>1, <1>n DEF TerminalInv, TerminalTypeOK, TicketsFresh, TicketIds
        <5>4. bridge[issuer'[e]].pc = "none" BY <5>1, <1>n DEF TerminalInv, TicketsFresh
        <5>5. \A f \in Devices : socket[f].pc # "none" => socket[f].ticket # issuer'[e]
          BY <5>1, <1>n DEF TerminalInv, TicketsFresh
        <5>6. \A f \in Devices : f # e => issuer'[f] # issuer'[e]
          BY <4>1, <5>1, <2>3, <1>n DEF TerminalInv, TicketsFresh
        <5> QED BY <5>2, <5>3, <5>4, <5>5, <5>6, <2>2
      <4>2. CASE e # d
        <5>1. issuer'[e] = issuer[e] BY <4>2, <2>3
        <5>2. issuer[e] \in 1 .. spent.tickets BY <3>4, <5>1 DEF TerminalInv, TicketsFresh
        <5>3. \A f \in Devices : f # e => issuer'[f] # issuer'[e]
          BY <3>4, <5>1, <5>2, <2>3, <1>n DEF TerminalInv, TicketsFresh
        <5> QED BY <3>4, <5>1, <5>2, <5>3, <2>1, <2>2, <1>n DEF TerminalInv, TicketsFresh
      <4> QED BY <4>1, <4>2
    <3> QED BY <3>1, <3>2, <3>3, <3>4 DEF TicketsFresh
  <2>6. CheckedIsCut' /\ RevokedNotActive' /\ LostIsStopped' /\ SlotsAreLive' /\ Cardinality(active') <= AttachLimit
    BY <2>2 DEF TerminalInv, CheckedIsCut, RevokedNotActive, LostIsStopped, SlotsAreLive, TicketsOf, Live
  <2> QED BY <2>4, <2>5, <2>6 DEF TerminalInv
<1>2. CASE IssueTicket(d)
  <2> PICK id : id = issuer[d] OBVIOUS
  <2> PICK others : others = Without(TicketsOf(d)) OBVIOUS
  <2>1. id \in 1 .. spent.tickets /\ id \in TicketIds /\ id \notin DOMAIN tickets /\ bridge[id].pc = "none"
        /\ \A e \in Devices : socket[e].pc # "none" => socket[e].ticket # id
    BY <1>2, <1>n DEF IssueTicket, TerminalInv, TicketsFresh, TicketIds
  <2>2. DOMAIN others \subseteq DOMAIN tickets /\ \A t \in DOMAIN others : others[t] = tickets[t]
    BY DEF Without
  <2>3. \/ tickets' = others
        \/ tickets' = [t \in DOMAIN others \union {id} |-> IF t = id THEN d ELSE others[t]]
    BY <1>2 DEF IssueTicket
  <2>4. /\ DOMAIN tickets' \subseteq DOMAIN tickets \union {id}
        /\ \A t \in DOMAIN tickets' : tickets'[t] = IF t = id THEN d ELSE tickets[t]
    BY <2>1, <2>2, <2>3
  <2>5. tickets' \in [DOMAIN tickets' -> Devices]
    <3>1. DOMAIN others \subseteq DOMAIN tickets /\ others \in [DOMAIN others -> Devices]
      BY <2>2 DEF Without, TerminalInv, TerminalTypeOK
    <3> QED BY <3>1, <2>3
  <2>6. /\ issuer' = [issuer EXCEPT ![d] = 0]
        /\ UNCHANGED <<revokedKeys, revoker, disabled, socket, active, bridge, spent>>
    BY <1>2 DEF IssueTicket
  <2>7. /\ issuer' \in [Devices -> 0 .. MaxTickets] /\ issuer'[d] = 0
        /\ \A e \in Devices \ {d} : issuer'[e] = issuer[e]
    BY <2>6 DEF TerminalInv, TerminalTypeOK
  <2>8. TerminalTypeOK' BY <2>1, <2>4, <2>5, <2>6, <2>7 DEF TerminalInv, TerminalTypeOK
  <2>9. TicketsFresh'
    <3>1. \A t \in DOMAIN tickets' : t <= spent'.tickets /\ bridge'[t].pc = "none"
      BY <2>1, <2>4, <2>6, <1>n DEF TerminalInv, TicketsFresh
    <3>2. \A e \in Devices : issuer'[e] # 0 => issuer'[e] = issuer[e] /\ issuer[e] # id /\ e # d
      BY <2>7, <1>2 DEF TerminalInv, TicketsFresh, IssueTicket
    <3>3. \A e \in Devices : issuer'[e] # 0 => issuer'[e] \notin DOMAIN tickets'
      BY <3>2, <2>4 DEF TerminalInv, TicketsFresh
    <3>4. \A e, f \in Devices : issuer'[e] # 0 /\ f # e => issuer'[f] # issuer'[e]
      BY <3>2, <2>7 DEF TerminalInv, TicketsFresh
    <3>5. \A e \in Devices : issuer'[e] # 0 =>
            /\ issuer'[e] \in 1 .. spent'.tickets /\ bridge'[issuer'[e]].pc = "none"
            /\ \A f \in Devices : socket'[f].pc # "none" => socket'[f].ticket # issuer'[e]
      BY <3>2, <2>6 DEF TerminalInv, TicketsFresh
    <3>6. /\ \A t \in TicketIds : bridge'[t].pc # "none" => t <= spent'.tickets
          /\ \A e \in Devices : socket'[e].pc # "none" => socket'[e].ticket \in 1 .. spent'.tickets
      BY <2>6 DEF TerminalInv, TicketsFresh
    <3> QED BY <3>1, <3>3, <3>4, <3>5, <3>6 DEF TicketsFresh
  <2>10. CheckedIsCut'
    BY <2>1, <2>4, <2>6 DEF TerminalInv, TerminalTypeOK, CheckedIsCut, TicketsOf
  <2>11. RevokedNotActive' /\ LostIsStopped' /\ SlotsAreLive' /\ Cardinality(active') <= AttachLimit
    BY <2>6 DEF TerminalInv, RevokedNotActive, LostIsStopped, SlotsAreLive, Live
  <2> QED BY <2>8, <2>9, <2>10, <2>11 DEF TerminalInv
<1> QED BY <1>1, <1>2

\* A web socket finds its ticket, is let through, or is not
LEMMA SocketMoves ==
  ASSUME TerminalInv, PhoneInv, NEW d \in Devices, SocketAuth(d) \/ SocketCheck(d)
  PROVE  TerminalInv'
<1> USE TerminalAssumption
<1>n. spent.tickets \in Nat /\ spent.tickets <= MaxTickets BY DEF PhoneInv, Spendings
<1>u. UNCHANGED <<revokedKeys, revoker, disabled, tickets, issuer, active, bridge, spent>>
  BY DEF SocketAuth, SocketCheck
<1>1. PICK s \in Sockets : /\ socket' = [socket EXCEPT ![d] = s]
                           /\ s.pc # "none" => s.ticket \in DOMAIN tickets \/ (socket[d].pc # "none" /\ s.ticket = socket[d].ticket)
                           /\ s.pc = "checked" => d \notin revokedKeys
  <2>1. CASE SocketAuth(d)
    <3>1. PICK t \in TicketsOf(d) : socket' = [socket EXCEPT ![d] = [pc |-> "ticket", ticket |-> t]]
      BY <2>1 DEF SocketAuth
    <3>2. t \in DOMAIN tickets /\ t \in 0 .. MaxTickets BY DEF TicketsOf, TerminalInv, TerminalTypeOK, TicketIds
    <3>3. [pc |-> "ticket", ticket |-> t] \in Sockets BY <3>2 DEF Sockets
    <3> QED BY <3>1, <3>2, <3>3
  <2>2. CASE SocketCheck(d)
    <3>1. CASE KeyRegistered(d) /\ ~disabled
      <4>1. socket' = [socket EXCEPT ![d] = [socket[d] EXCEPT !.pc = "checked"]]
        BY <2>2, <3>1 DEF SocketCheck, TerminalInv, TerminalTypeOK
      <4>2. [socket[d] EXCEPT !.pc = "checked"] = [pc |-> "checked", ticket |-> socket[d].ticket]
        BY DEF TerminalInv, TerminalTypeOK, Sockets
      <4>3. socket[d].ticket \in 0 .. MaxTickets BY DEF TerminalInv, TerminalTypeOK, Sockets
      <4>4. [pc |-> "checked", ticket |-> socket[d].ticket] \in Sockets BY <4>3 DEF Sockets
      <4>5. socket[d].pc # "none" BY <2>2 DEF SocketCheck
      <4>6. d \notin revokedKeys BY <3>1 DEF KeyRegistered
      <4> QED BY <4>1, <4>2, <4>4, <4>5, <4>6
    <3>2. CASE ~(KeyRegistered(d) /\ ~disabled)
      <4>1. socket' = [socket EXCEPT ![d] = NoSocket] BY <2>2, <3>2 DEF SocketCheck, TerminalInv, TerminalTypeOK
      <4>2. NoSocket \in Sockets /\ NoSocket.pc = "none" BY DEF Sockets, NoSocket
      <4> QED BY <4>1, <4>2
    <3> QED BY <3>1, <3>2
  <2> QED BY <2>1, <2>2
<1>2. socket' \in [Devices -> Sockets] /\ socket'[d] = s /\ \A e \in Devices \ {d} : socket'[e] = socket[e]
  BY <1>1 DEF TerminalInv, TerminalTypeOK
<1>3. TerminalTypeOK' BY <1>u, <1>2 DEF TerminalInv, TerminalTypeOK
<1>4. TicketsFresh'
  <2>1. \A e \in Devices : socket'[e].pc # "none" => socket'[e].ticket \in 1 .. spent.tickets
    <3>1. \A t \in DOMAIN tickets : t \in 1 .. spent.tickets
      BY <1>n DEF TerminalInv, TerminalTypeOK, TicketsFresh, TicketIds
    <3> QED BY <1>1, <1>2, <3>1 DEF TerminalInv, TicketsFresh
  <2>2. \A e \in Devices : issuer[e] # 0 => \A f \in Devices : socket'[f].pc # "none" => socket'[f].ticket # issuer[e]
    BY <1>1, <1>2 DEF TerminalInv, TicketsFresh
  <2> QED BY <1>u, <2>1, <2>2 DEF TerminalInv, TicketsFresh
<1>5. CheckedIsCut' BY <1>u, <1>1, <1>2 DEF TerminalInv, TerminalTypeOK, CheckedIsCut, TicketsOf
<1>6. RevokedNotActive' /\ LostIsStopped' /\ SlotsAreLive' /\ Cardinality(active') <= AttachLimit
  BY <1>u DEF TerminalInv, RevokedNotActive, LostIsStopped, SlotsAreLive, Live
<1> QED BY <1>3, <1>4, <1>5, <1>6 DEF TerminalInv

\* A ticket is traded for an attach
LEMMA Attaching ==
  ASSUME TerminalInv, PhoneInv, NEW d \in Devices, SocketAttach(d)
  PROVE  TerminalInv'
<1> USE TerminalAssumption
<1>n. spent.tickets \in Nat /\ spent.tickets <= MaxTickets BY DEF PhoneInv, Spendings
<1> PICK t : t = socket[d].ticket OBVIOUS
<1>u. UNCHANGED <<revokedKeys, revoker, disabled, issuer, spent>> BY DEF SocketAttach
<1>s. /\ socket' \in [Devices -> Sockets] /\ socket'[d] = NoSocket /\ NoSocket.pc = "none"
      /\ \A e \in Devices \ {d} : socket'[e] = socket[e]
      /\ socket[d].pc = "checked"
  <2>1. NoSocket \in Sockets /\ NoSocket.pc = "none" BY DEF NoSocket, Sockets
  <2> QED BY <2>1 DEF SocketAttach, TerminalInv, TerminalTypeOK
<1>1. CASE StillIssued(d, t) /\ Cardinality(active) < AttachLimit
  <2> PICK b : b = [NoBridge EXCEPT !.pc = "starting", !.device = d] OBVIOUS
  <2>a. NoBridge \in Bridges BY DEF NoBridge, Bridges
  <2>c. b \in Bridges /\ b.pc = "starting" /\ b.device = d BY <2>a DEF Bridges
  <2>1. /\ tickets' = Without({t}) /\ active' = active \union {t} /\ bridge' = [bridge EXCEPT ![t] = b]
    BY <1>1 DEF SocketAttach
  <2>2. t \in DOMAIN tickets /\ tickets[t] = d /\ t \in TicketIds /\ bridge[t].pc = "none" /\ t <= spent.tickets
    BY <1>1 DEF StillIssued, TicketsOf, TerminalInv, TerminalTypeOK, TicketsFresh
  <2>3. /\ DOMAIN tickets' = DOMAIN tickets \ {t} /\ tickets' \in [DOMAIN tickets' -> Devices]
        /\ \A u \in DOMAIN tickets' : tickets'[u] = tickets[u]
    BY <2>1 DEF Without, TerminalInv, TerminalTypeOK
  <2>4. bridge' \in [TicketIds -> Bridges] /\ bridge'[t] = b /\ \A u \in TicketIds \ {t} : bridge'[u] = bridge[u]
    BY <2>1, <2>2, <2>c DEF TerminalInv, TerminalTypeOK
  <2>5. TerminalTypeOK' BY <1>u, <1>s, <2>1, <2>2, <2>3, <2>4 DEF TerminalInv, TerminalTypeOK
  <2>6. TicketsFresh'
    <3>1. \A u \in DOMAIN tickets' : u <= spent'.tickets /\ bridge'[u].pc = "none"
      BY <1>u, <2>3, <2>4 DEF TerminalInv, TerminalTypeOK, TicketsFresh
    <3>2. \A u \in TicketIds : bridge'[u].pc # "none" => u <= spent'.tickets
      BY <1>u, <2>2, <2>4 DEF TerminalInv, TicketsFresh
    <3>3. \A e \in Devices : socket'[e].pc # "none" => socket'[e].ticket \in 1 .. spent'.tickets
      BY <1>u, <1>s DEF TerminalInv, TicketsFresh
    <3>4. \A e \in Devices : issuer[e] # 0 => issuer[e] # t /\ issuer[e] \in TicketIds
      BY <2>2 DEF TerminalInv, TerminalTypeOK, TicketsFresh, TicketIds
    <3>5. \A e \in Devices : issuer'[e] # 0 => bridge'[issuer'[e]].pc = "none" /\ issuer'[e] \notin DOMAIN tickets'
      BY <1>u, <3>4, <2>3, <2>4 DEF TerminalInv, TicketsFresh
    <3>6. \A e \in Devices : issuer'[e] # 0 =>
            /\ issuer'[e] \in 1 .. spent'.tickets
            /\ \A f \in Devices : /\ socket'[f].pc # "none" => socket'[f].ticket # issuer'[e]
                                  /\ f # e => issuer'[f] # issuer'[e]
      BY <1>u, <1>s DEF TerminalInv, TicketsFresh
    <3> QED BY <3>1, <3>2, <3>3, <3>5, <3>6 DEF TicketsFresh
  <2>7. CheckedIsCut' BY <1>u, <1>s, <2>3 DEF TerminalInv, TerminalTypeOK, CheckedIsCut, TicketsOf
  <2>8. RevokedNotActive'
    <3>1. d \in revokedKeys => revoker[d].pc = "tickets"
      BY <1>1, <1>s DEF TerminalInv, CheckedIsCut, StillIssued
    <3> QED BY <3>1, <1>u, <2>1, <2>2, <2>4, <2>c DEF TerminalInv, TerminalTypeOK, RevokedNotActive
  <2>9. LostIsStopped' BY <1>u, <2>1, <2>4, <2>c DEF TerminalInv, LostIsStopped
  <2>10. SlotsAreLive' BY <2>1, <2>4, <2>c DEF TerminalInv, TerminalTypeOK, SlotsAreLive, Live
  <2>11. Cardinality(active') <= AttachLimit
    <3>1. IsFiniteSet(active) BY TicketsFinite, FS_Subset DEF TerminalInv, TerminalTypeOK
    <3>2. Cardinality(active) \in Nat BY <3>1, FS_CardinalityType
    <3>3. Cardinality(active \union {t}) \in {Cardinality(active), Cardinality(active) + 1} BY <3>1, FS_AddElement
    <3> QED BY <1>1, <2>1, <3>2, <3>3
  <2> QED BY <2>5, <2>6, <2>7, <2>8, <2>9, <2>10, <2>11 DEF TerminalInv
<1>2. CASE ~(StillIssued(d, t) /\ Cardinality(active) < AttachLimit)
  <2>1. UNCHANGED <<tickets, active, bridge>> BY <1>2 DEF SocketAttach
  <2>2. TerminalTypeOK' BY <1>u, <1>s, <2>1 DEF TerminalInv, TerminalTypeOK
  <2>3. TicketsFresh' BY <1>u, <1>s, <2>1 DEF TerminalInv, TicketsFresh
  <2>4. CheckedIsCut' BY <1>u, <1>s, <2>1 DEF TerminalInv, TerminalTypeOK, CheckedIsCut, TicketsOf
  <2>5. RevokedNotActive' /\ LostIsStopped' /\ SlotsAreLive' /\ Cardinality(active') <= AttachLimit
    BY <1>u, <2>1 DEF TerminalInv, RevokedNotActive, LostIsStopped, SlotsAreLive, Live
  <2> QED BY <2>2, <2>3, <2>4, <2>5 DEF TerminalInv
<1> QED BY <1>1, <1>2

\* What a bridge does
LEMMA BridgeSteps ==
  ASSUME TerminalInv, PhoneInv, NEW t \in TicketIds,
         BridgeStart(t) \/ BridgeLeaves(t) \/ ClientFrame(t) \/ BadFrame(t) \/ OrphanOutput(t) \/ BridgeEnds(t)
  PROVE  TerminalInv'
<1> USE TerminalAssumption
<1>t. bridge \in [TicketIds -> Bridges] /\ bridge[t] \in Bridges BY DEF TerminalInv, TerminalTypeOK
<1>u. UNCHANGED <<revokedKeys, revoker, disabled, tickets, issuer, socket>>
  BY DEF BridgeStart, BridgeLeaves, ClientFrame, BadFrame, OrphanOutput, BridgeEnds
<1>n. spent'.tickets = spent.tickets
  BY SpentStep DEF BridgeStart, BridgeLeaves, ClientFrame, BadFrame, OrphanOutput, BridgeEnds, PhoneInv
<1>f. UNCHANGED bridge /\ UNCHANGED active => TerminalInv'
  BY <1>u, <1>n DEF TerminalInv, TerminalTypeOK, TicketsFresh, CheckedIsCut, RevokedNotActive, LostIsStopped,
                    SlotsAreLive, TicketsOf, Live
<1>1. CASE BridgeStart(t)
  <2>1. CASE bridge' = [bridge EXCEPT ![t].pc = "attached", ![t].client = TRUE]
    <3> PICK b : b = [bridge[t] EXCEPT !.pc = "attached", !.client = TRUE] OBVIOUS
    <3>1. /\ b \in Bridges /\ b.pc = "attached" /\ b.device = bridge[t].device /\ b.stop = bridge[t].stop
      BY <1>t DEF Bridges
    <3>2. bridge' = [bridge EXCEPT ![t] = b] BY <2>1, <1>t
    <3> QED BY <3>1, <3>2, <1>1, <1>u, <1>n, BridgeMoves DEF BridgeStart, Running
  <2>2. CASE bridge' = [bridge EXCEPT ![t].pc = "ending"]
    <3> PICK b : b = [bridge[t] EXCEPT !.pc = "ending"] OBVIOUS
    <3>1. /\ b \in Bridges /\ b.pc = "ending" /\ b.device = bridge[t].device BY <1>t DEF Bridges
    <3>2. bridge' = [bridge EXCEPT ![t] = b] BY <2>2, <1>t
    <3> QED BY <3>1, <3>2, <1>1, <1>u, <1>n, BridgeMoves DEF BridgeStart, Running
  <2> QED BY <1>1, <2>1, <2>2 DEF BridgeStart
<1>2. ASSUME bridge[t].pc = "attached", bridge' = LeftLoop(t), UNCHANGED active PROVE TerminalInv'
  <2> PICK b : b = [bridge[t] EXCEPT !.pc = "ending", !.stop = TRUE, !.client = FALSE] OBVIOUS
  <2>1. /\ b \in Bridges /\ b.pc = "ending" /\ b.device = bridge[t].device BY <1>t DEF Bridges
  <2>2. bridge' = [bridge EXCEPT ![t] = b] BY <1>2, <1>t DEF LeftLoop
  <2> QED BY <2>1, <2>2, <1>2, <1>u, <1>n, BridgeMoves DEF Running
<1>3. CASE BridgeLeaves(t) BY <1>2, <1>3 DEF BridgeLeaves
<1>4. CASE ClientFrame(t)
  <2>1. bridge' = LeftLoop(t) \/ bridge' = bridge BY <1>4 DEF ClientFrame
  <2> QED BY <2>1, <1>f, <1>2, <1>4 DEF ClientFrame
<1>5. CASE BadFrame(t)
  <2> PICK b : b = [bridge[t] EXCEPT !.pc = "ending"] OBVIOUS
  <2>1. /\ b \in Bridges /\ b.pc = "ending" /\ b.device = bridge[t].device BY <1>t DEF Bridges
  <2>2. bridge' = [bridge EXCEPT ![t] = b] BY <1>5, <1>t DEF BadFrame
  <2> QED BY <2>1, <2>2, <1>5, <1>u, <1>n, BridgeMoves DEF BadFrame, Running
<1>6. CASE OrphanOutput(t)
  <2> PICK b : b = [bridge[t] EXCEPT !.client = FALSE] OBVIOUS
  <2>1. /\ b \in Bridges /\ b.pc = bridge[t].pc /\ b.device = bridge[t].device /\ b.stop = bridge[t].stop
    BY <1>t DEF Bridges
  <2>2. bridge' = [bridge EXCEPT ![t] = b] BY <1>6, <1>t DEF OrphanOutput
  <2>3. bridge[t].pc = "gone" => t \notin active BY DEF TerminalInv, SlotsAreLive, Live
  <2>4. active' = IF b.pc = "gone" THEN active \ {t} ELSE active BY <1>6, <2>1, <2>3 DEF OrphanOutput
  <2> QED BY <2>1, <2>2, <2>4, <1>6, <1>u, <1>n, BridgeMoves DEF OrphanOutput, Running
<1>7. CASE BridgeEnds(t)
  <2> PICK b : b = [bridge[t] EXCEPT !.pc = "gone"] OBVIOUS
  <2>1. /\ b \in Bridges /\ b.pc = "gone" /\ b.device = bridge[t].device BY <1>t DEF Bridges
  <2>2. bridge' = [bridge EXCEPT ![t] = b] BY <1>7, <1>t DEF BridgeEnds
  <2> QED BY <2>1, <2>2, <1>7, <1>u, <1>n, BridgeMoves DEF BridgeEnds, Freed, Running
<1> QED BY <1>1, <1>3, <1>4, <1>5, <1>6, <1>7

\* revoke_mobile_terminal_device_in_state, one lock after the other
LEMMA Cutting ==
  ASSUME TerminalInv, PhoneInv, NEW d \in Devices, RevokeInState(d)
  PROVE  TerminalInv'
<1> USE TerminalAssumption
<1> PICK pc0, pc, names : /\ pc0 = revoker[d].pc /\ pc = AfterLock(pc0)
                          /\ names = IF pc0 = "active" THEN active \intersect BridgesOf(d) ELSE revoker[d].names
  OBVIOUS
<1>p. \/ pc0 = "keys" /\ pc = "tickets"
      \/ pc0 = "tickets" /\ pc = "active"
      \/ pc0 = "active" /\ pc = "stop" /\ names = active \intersect BridgesOf(d)
  BY DEF RevokeInState, AfterLock
<1>r. /\ revoker'[d].pc = pc /\ revoker'[d].names = names /\ revoker[d].pc = pc0
      /\ \A e \in Devices \ {d} : revoker'[e] = revoker[e]
  BY DEF RevokeInState, PhoneInv
<1>u. UNCHANGED <<disabled, issuer, socket, bridge, spent>> BY DEF RevokeInState
<1>k. revokedKeys' = IF pc0 = "keys" THEN revokedKeys \union {d} ELSE revokedKeys BY DEF RevokeInState
<1>t. tickets' = IF pc0 = "tickets" THEN Without(TicketsOf(d)) ELSE tickets BY DEF RevokeInState
<1>a. active' = IF pc0 = "active" THEN active \ BridgesOf(d) ELSE active BY DEF RevokeInState
<1>1. /\ DOMAIN tickets' \subseteq DOMAIN tickets /\ \A t \in DOMAIN tickets' : tickets'[t] = tickets[t]
      /\ tickets' \in [DOMAIN tickets' -> Devices]
      /\ pc0 = "tickets" => \A t \in DOMAIN tickets' : tickets'[t] # d
  BY <1>t DEF Without, TicketsOf, TerminalInv, TerminalTypeOK
<1>2. active' \subseteq active BY <1>a
<1>3. TerminalTypeOK' BY <1>u, <1>k, <1>1, <1>2 DEF TerminalInv, TerminalTypeOK
<1>4. TicketsFresh' BY <1>u, <1>1 DEF TerminalInv, TicketsFresh
<1>5. CheckedIsCut'
  <2> SUFFICES ASSUME NEW e \in revokedKeys', revoker'[e].pc # "tickets", socket'[e].pc = "checked"
               PROVE  socket'[e].ticket \notin TicketsOf(e)'
    BY DEF CheckedIsCut
  <2>1. e \in Devices BY <1>3 DEF TerminalTypeOK
  <2>2. CASE e # d BY <2>1, <2>2, <1>r, <1>u, <1>k, <1>1 DEF TerminalInv, CheckedIsCut, TicketsOf
  <2>3. CASE e = d
    <3>1. pc0 \in {"tickets", "active"} /\ e \in revokedKeys BY <2>3, <1>p, <1>r, <1>k
    <3>2. CASE pc0 = "tickets" BY <3>2, <2>3, <1>1 DEF TicketsOf
    <3>3. CASE pc0 = "active" BY <3>3, <3>1, <2>3, <1>r, <1>u, <1>1 DEF TerminalInv, CheckedIsCut, TicketsOf
    <3> QED BY <3>1, <3>2, <3>3
  <2> QED BY <2>2, <2>3
<1>6. RevokedNotActive'
  <2> SUFFICES ASSUME NEW e \in revokedKeys', revoker'[e].pc \notin {"tickets", "active"}, NEW t \in active'
               PROVE  bridge'[t].device # e
    BY DEF RevokedNotActive
  <2>1. e \in Devices BY <1>3 DEF TerminalTypeOK
  <2>2. CASE e # d BY <2>1, <2>2, <1>r, <1>u, <1>k, <1>2 DEF TerminalInv, RevokedNotActive
  <2>3. CASE e = d
    <3>1. pc0 = "active" BY <2>3, <1>p, <1>r
    <3> QED BY <3>1, <2>3, <1>a, <1>u, <1>2 DEF BridgesOf, TerminalInv, TerminalTypeOK
  <2> QED BY <2>2, <2>3
<1>7. LostIsStopped'
  <2> SUFFICES ASSUME NEW t \in TicketIds, bridge'[t].pc \in Running, t \notin active', ~bridge'[t].stop, ~disabled'
               PROVE  /\ bridge'[t].device \in Devices /\ revoker'[bridge'[t].device].pc = "stop"
                      /\ t \in revoker'[bridge'[t].device].names
    BY DEF LostIsStopped
  <2>1. CASE t \in active
    <3>1. pc0 = "active" /\ t \in BridgesOf(d) BY <2>1, <1>a
    <3>2. bridge[t].device = d /\ t \in names /\ pc = "stop" BY <3>1, <2>1, <1>p DEF BridgesOf
    <3> QED BY <3>2, <1>r, <1>u
  <2>2. CASE t \notin active
    <3>1. /\ bridge[t].device \in Devices /\ revoker[bridge[t].device].pc = "stop"
          /\ t \in revoker[bridge[t].device].names
      BY <2>2, <1>u DEF TerminalInv, LostIsStopped
    <3>2. bridge[t].device # d BY <3>1, <1>p, <1>r
    <3> QED BY <3>1, <3>2, <1>r, <1>u
  <2> QED BY <2>1, <2>2
<1>8. SlotsAreLive' BY <1>u, <1>2 DEF TerminalInv, SlotsAreLive, Live
<1>9. Cardinality(active') <= AttachLimit BY <1>2, FewerAttaches DEF TerminalInv, TerminalTypeOK
<1> QED BY <1>3, <1>4, <1>5, <1>6, <1>7, <1>8, <1>9 DEF TerminalInv

\* The switch, one lock after the other
LEMMA Disabling ==
  ASSUME TerminalInv, Disable, disabler.pc # "none" => disabled
  PROVE  TerminalInv' /\ (disabler'.pc # "none" => disabled')
<1> USE TerminalAssumption
<1>u. UNCHANGED <<revokedKeys, revoker, issuer, socket, spent>> BY DEF Disable
<1>1. CASE disabler.pc = "none"
  <2>1. disabled' = TRUE /\ UNCHANGED <<tickets, active, bridge>> BY <1>1 DEF Disable
  <2>2. TerminalTypeOK' /\ TicketsFresh' BY <1>u, <2>1 DEF TerminalInv, TerminalTypeOK, TicketsFresh
  <2>3. CheckedIsCut' /\ RevokedNotActive' /\ LostIsStopped' /\ SlotsAreLive' /\ Cardinality(active') <= AttachLimit
    BY <1>u, <2>1 DEF TerminalInv, CheckedIsCut, RevokedNotActive, LostIsStopped, SlotsAreLive, TicketsOf, Live
  <2> QED BY <2>1, <2>2, <2>3 DEF TerminalInv
<1>2. CASE disabler.pc = "tickets"
  <2>1. tickets' = Without(DOMAIN tickets) /\ UNCHANGED <<disabled, active, bridge>> BY <1>2 DEF Disable
  <2>2. TerminalInv' BY <1>u, <2>1, TicketsDropped
  <2> QED BY <1>2, <2>1, <2>2
<1>3. CASE disabler.pc = "active"
  <2>1. active' = {} /\ UNCHANGED <<disabled, tickets, bridge>> BY <1>3 DEF Disable
  <2>2. TerminalTypeOK' /\ TicketsFresh' BY <1>u, <2>1 DEF TerminalInv, TerminalTypeOK, TicketsFresh
  <2>3. CheckedIsCut' /\ RevokedNotActive' /\ SlotsAreLive'
    BY <1>u, <2>1 DEF TerminalInv, CheckedIsCut, RevokedNotActive, SlotsAreLive, TicketsOf
  <2>4. LostIsStopped' BY <1>3, <2>1 DEF LostIsStopped
  <2>5. Cardinality(active') <= AttachLimit BY <2>1, FewerAttaches DEF TerminalInv, TerminalTypeOK
  <2> QED BY <1>3, <2>1, <2>2, <2>3, <2>4, <2>5 DEF TerminalInv
<1>4. CASE disabler.pc = "stop"
  <2>1. bridge' = StopOf(disabler.names) /\ disabler' = NoHandler /\ UNCHANGED <<disabled, tickets, active>>
    BY <1>4 DEF Disable
  <2>2. TerminalInv' BY <1>u, <2>1, BridgesStopped
  <2> QED BY <2>1, <2>2 DEF NoHandler
<1> QED BY <1>1, <1>2, <1>3, <1>4 DEF Disable

\* Everything but the numbers of the tickets is forgotten
LEMMA Restarting ==
  ASSUME TerminalInv, PhoneInv, TerminalRestart
  PROVE  TerminalInv'
<1> USE TerminalAssumption
<1>n. spent'.tickets = spent.tickets BY SpentStep DEF TerminalRestart, PhoneInv
<1>b. /\ bridge' \in [TicketIds -> Bridges]
      /\ \A t \in TicketIds : bridge'[t].pc \in {"none", "gone"} /\ (bridge'[t].pc # "none" => bridge[t].pc # "none")
  <2>1. ASSUME NEW t \in TicketIds
        PROVE  /\ bridge'[t] \in Bridges /\ bridge'[t].pc \in {"none", "gone"}
               /\ (bridge'[t].pc # "none" => bridge[t].pc # "none")
    <3>1. CASE bridge[t].pc = "none"
      <4>1. bridge'[t] = NoBridge BY <3>1 DEF TerminalRestart
      <4>2. NoBridge \in Bridges /\ NoBridge.pc = "none" BY DEF NoBridge, Bridges
      <4> QED BY <4>1, <4>2
    <3>2. CASE bridge[t].pc # "none"
      <4>1. bridge'[t] = [bridge[t] EXCEPT !.pc = "gone", !.client = FALSE] BY <3>2 DEF TerminalRestart
      <4>2. bridge'[t] \in Bridges /\ bridge'[t].pc = "gone" BY <4>1 DEF TerminalInv, TerminalTypeOK, Bridges
      <4> QED BY <3>2, <4>2
    <3> QED BY <3>1, <3>2
  <2>2. bridge' \in [TicketIds -> Bridges] BY <2>1 DEF TerminalRestart
  <2> QED BY <2>1, <2>2
<1>r. /\ revokedKeys' = {} /\ tickets' = <<>> /\ active' = {}
      /\ issuer' = [d \in Devices |-> 0] /\ socket' = [d \in Devices |-> NoSocket]
  BY DEF TerminalRestart
<1>s. socket' \in [Devices -> Sockets] /\ \A d \in Devices : socket'[d].pc = "none"
  <2>1. NoSocket \in Sockets /\ NoSocket.pc = "none" BY DEF NoSocket, Sockets
  <2> QED BY <2>1, <1>r
<1>t. DOMAIN tickets' = {} /\ tickets' \in [DOMAIN tickets' -> Devices] BY <1>r
<1>1. TerminalTypeOK' BY <1>b, <1>r, <1>s, <1>t DEF TerminalTypeOK
<1>2. TicketsFresh' BY <1>b, <1>r, <1>s, <1>t, <1>n DEF TicketsFresh, TerminalInv
<1>3. CheckedIsCut' /\ RevokedNotActive' /\ SlotsAreLive' BY <1>r DEF CheckedIsCut, RevokedNotActive, SlotsAreLive
<1>4. LostIsStopped' BY <1>b DEF LostIsStopped, Running
<1>5. Cardinality(active') <= AttachLimit BY <1>r, FewerAttaches DEF TerminalInv, TerminalTypeOK
<1> QED BY <1>1, <1>2, <1>3, <1>4, <1>5 DEF TerminalInv

\* revoke_mobile_terminal_device_in_state cuts the key, the tickets and the attaches of a device under
\* three locks, while sockets and tickets of the device are on their way; whatever they do, and however
\* bridges end, the device has no running terminal left when the revocation has answered, a place of
\* max_concurrent_attaches is held by a bridge that runs, and no more are held than there are.
THEOREM TerminalsCut == MobileSpec => [](MobileTypeOK /\ TerminalsAreCut)
<1> DEFINE Inv == PhoneInv /\ TerminalInv /\ (disabler.pc # "none" => disabled)
<1>1. MobileInit => Inv
  <2> SUFFICES ASSUME MobileInit PROVE Inv OBVIOUS
  <2> USE TerminalAssumption
  <2>1. PhoneInv
    <3>1. NoHandler \in Enrollers /\ NoHandler \in Revokers /\ NoHandler.pc = "none"
      BY DEF NoHandler, Enrollers, Revokers
    <3>2. enroller \in [Devices -> Enrollers] /\ revoker \in [Devices -> Revokers]
          /\ \A d \in Devices : revoker[d].pc = "none"
      BY <3>1 DEF MobileInit
    <3>3. pairing \in Pairings /\ pairing.failed = 0 BY DEF MobileInit, Pairings
    <3>4. spent \in Spendings /\ spent.faults = 0 /\ spent.tickets = 0 BY DEF MobileInit, Spendings
    <3>5. enrolled \in [Devices -> {"none", "active", "revoked"}] /\ allowlist \subseteq Devices BY DEF MobileInit
    <3> QED BY <3>2, <3>3, <3>4, <3>5 DEF PhoneInv
  <2>2. NoSocket \in Sockets /\ NoSocket.pc = "none" /\ NoBridge \in Bridges /\ NoBridge.pc = "none"
    BY DEF NoSocket, Sockets, NoBridge, Bridges
  <2>3. /\ revokedKeys = {} /\ active = {} /\ DOMAIN tickets = {} /\ tickets \in [DOMAIN tickets -> Devices]
        /\ \A d \in Devices : issuer[d] = 0 /\ socket[d].pc = "none"
        /\ \A t \in TicketIds : bridge[t].pc = "none"
    BY <2>2 DEF MobileInit
  <2>4. TerminalTypeOK BY <2>2, <2>3 DEF MobileInit, TerminalTypeOK
  <2>5. TicketsFresh /\ CheckedIsCut /\ RevokedNotActive /\ LostIsStopped /\ SlotsAreLive
    BY <2>3 DEF TicketsFresh, CheckedIsCut, RevokedNotActive, LostIsStopped, SlotsAreLive, Running
  <2>6. Cardinality(active) <= AttachLimit BY <2>3, FS_EmptySet
  <2> QED BY <2>1, <2>4, <2>5, <2>6 DEF TerminalInv, MobileInit, NoHandler
<1>2. Inv /\ [MobileNext]_mobileVars => Inv'
  <2> SUFFICES ASSUME Inv, [MobileNext]_mobileVars PROVE Inv' OBVIOUS
  <2>0. PhoneInv /\ TerminalInv /\ (disabler.pc # "none" => disabled) OBVIOUS
  <2> HIDE DEF Inv
  <2>1. PhoneInv' BY <2>0, PhoneStep DEF TerminalInv, TerminalTypeOK
  <2>2. TerminalInv' /\ (disabler'.pc # "none" => disabled')
    <3>1. CASE Disable BY <2>0, <3>1, Disabling
    <3>2. CASE TerminalRestart
      <4>1. disabler'.pc = "none" BY <3>2 DEF TerminalRestart, NoHandler
      <4> QED BY <2>0, <3>2, <4>1, Restarting
    <3>3. CASE CreatePairing \/ PairingExpires
      <4>2. UNCHANGED terminalVars /\ spent'.tickets = spent.tickets
        BY <2>0, <3>3, SpentStep, TerminalAssumption DEF CreatePairing, PairingExpires, PhoneInv
      <4>3. TerminalInv' BY <2>0, <4>2, TerminalsRest DEF terminalVars
      <4> QED BY <2>0, <4>2, <4>3 DEF terminalVars
    <3>4. ASSUME NEW d \in Devices,
                 \/ EnrollBegin(d) \/ EnrollRejected(d) \/ EnrollPair(d) \/ EnrollRead(d) \/ EnrollWrite(d)
                 \/ EnrollPolicyFails(d) \/ RevokeBegin(d) \/ RevokePolicy(d) \/ RevokeDatabase(d)
          PROVE  TerminalInv' /\ UNCHANGED <<disabled, disabler>>
      <4>1. TerminalInv' BY <2>0, <3>4, PhonesLeaveTerminals
      <4> QED BY <3>4, <4>1 DEF EnrollBegin, EnrollRejected, EnrollPair, EnrollRead, EnrollWrite, EnrollPolicyFails,
                RevokeBegin, RevokePolicy, RevokeDatabase, terminalVars
    <3>5. ASSUME NEW d \in Devices, IssueAuthorize(d) \/ IssueTicket(d)
          PROVE  TerminalInv' /\ UNCHANGED <<disabled, disabler>>
      BY <2>0, <3>5, Issuing DEF IssueAuthorize, IssueTicket
    <3>6. ASSUME NEW d \in Devices, SocketAuth(d) \/ SocketCheck(d)
          PROVE  TerminalInv' /\ UNCHANGED <<disabled, disabler>>
      BY <2>0, <3>6, SocketMoves DEF SocketAuth, SocketCheck
    <3>7. ASSUME NEW d \in Devices, SocketAttach(d)
          PROVE  TerminalInv' /\ UNCHANGED <<disabled, disabler>>
      BY <2>0, <3>7, Attaching DEF SocketAttach
    <3>8. ASSUME NEW d \in Devices, RevokeInState(d)
          PROVE  TerminalInv' /\ UNCHANGED <<disabled, disabler>>
      BY <2>0, <3>8, Cutting DEF RevokeInState
    <3>9. ASSUME NEW d \in Devices, RevokeStop(d)
          PROVE  TerminalInv' /\ UNCHANGED <<disabled, disabler>>
      <4>1. \A e \in Devices :
              \/ revoker'[e] = revoker[e]
              \/ revoker[e].pc = "stop" /\ revoker[e].names = revoker[d].names /\ revoker'[e].pc = "none"
        BY <2>0, <3>9 DEF RevokeStop, PhoneInv, NoHandler
      <4>2. bridge' = StopOf(revoker[d].names) BY <3>9 DEF RevokeStop
      <4> QED BY <2>0, <3>9, <4>1, <4>2, BridgesStopped DEF RevokeStop
    <3>10. ASSUME NEW t \in TicketIds, TicketExpires(t)
           PROVE  TerminalInv' /\ UNCHANGED <<disabled, disabler>>
      BY <2>0, <3>10, TicketsDropped DEF TicketExpires
    <3>11. ASSUME NEW t \in TicketIds, \/ BridgeStart(t) \/ BridgeLeaves(t) \/ ClientFrame(t) \/ BadFrame(t)
                                       \/ OrphanOutput(t) \/ BridgeEnds(t)
           PROVE  TerminalInv' /\ UNCHANGED <<disabled, disabler>>
      BY <2>0, <3>11, BridgeSteps DEF BridgeStart, BridgeLeaves, ClientFrame, BadFrame, OrphanOutput, BridgeEnds
    <3>12. CASE UNCHANGED mobileVars
      BY <2>0, <3>12, TerminalsRest DEF mobileVars, terminalVars
    <3> QED BY <2>0, <3>1, <3>2, <3>3, <3>4, <3>5, <3>6, <3>7, <3>8, <3>9, <3>10, <3>11, <3>12 DEF MobileNext
  <2> QED BY <2>1, <2>2 DEF Inv
<1>3. Inv => MobileTypeOK /\ TerminalsAreCut
  <2> SUFFICES ASSUME Inv PROVE MobileTypeOK /\ TerminalsAreCut OBVIOUS
  <2>1. pairing.state \in {"none", "pending", "used", "expired"} /\ pairing.failed \in Nat BY DEF PhoneInv, Pairings
  <2>2. spent.faults \in Nat BY DEF PhoneInv, Spendings
  <2>3. pairing.failed \in 0 .. TerminalFaults BY <2>1, <2>2, TerminalAssumption DEF PhoneInv
  <2>4. \A t \in TicketIds : bridge[t].pc \in {"none", "starting", "attached", "ending", "gone"}
    BY DEF TerminalInv, TerminalTypeOK, Bridges
  <2>5. MobileTypeOK BY <2>1, <2>3, <2>4 DEF MobileTypeOK, PhoneInv, TerminalInv, TerminalTypeOK
  <2> QED BY <2>5, TerminalsFollow
<1> QED BY <1>1, <1>2, <1>3, PTL DEF MobileSpec

-----------------------------------------------------------------------------
(* Context alerts: ContextMonitor *)

HookKinds == {"none", "compaction", "compact", "complete", "reset"}
Readings == [level : 0 .. MaxLevel, at : Nat, context : Nat]
Gauges == [provider : MonitorProviders, level : 0 .. MaxLevel, context : Nat]
Monitors == [enabled : BOOLEAN, reported : SUBSET Thresholds, boundary : Nat, level : -1 .. MaxLevel, at : Nat,
             compacting : BOOLEAN]

\* The types of the monitor's state, in full
MonitorTypes ==
  /\ gauge \in Gauges /\ hook \in [kind : HookKinds, at : Nat] /\ samples \subseteq Readings
  /\ stream \in Seq(Readings) /\ mon \in Monitors /\ alertRows \subseteq Readings /\ told \in Seq(Readings)
  /\ sample \in Readings /\ blind \in BOOLEAN /\ {stamp, switches, monitorCrashes} \subseteq Nat
  /\ \A a \in alertRows : a.level # 0

\* The alerts there are, queued or delivered
Alerts == alertRows \union {told[i] : i \in DOMAIN told}

\* The thresholds a level reaches
Reach(level) == {t \in Thresholds : t <= level}

\* Where samples, hooks and streams stand to the stamps and the contexts
Bearings ==
  /\ gauge.provider # "claude" => hook = NoHook /\ samples = {}
  /\ gauge.provider = "claude" => stream = <<>>
  /\ sample.at <= stamp /\ mon.boundary <= stamp /\ hook.at <= stamp
  /\ gauge.provider = "claude" => mon.at <= stamp
  /\ switches = 0 => ~mon.enabled
  /\ sample.at = 0 => sample.level = 0
  /\ sample.context <= gauge.context
  /\ \A s \in samples : s.at \in 1 .. stamp /\ s.context <= gauge.context /\ (sample.at # 0 => s = sample \/ s.at < sample.at)
  /\ \A a \in Alerts : a.context <= gauge.context
  /\ hook.kind = "none" => hook = NoHook
  /\ hook.kind # "none" => hook.at > 0 /\ \A s \in samples : s.at < hook.at
  /\ hook.kind \in {"complete", "reset"} =>
       sample.context < gauge.context /\ \A s \in samples \union Alerts : s.context < gauge.context

\* While Claude compacts, what it sent before is older than the boundary
BoundaryHolds ==
  ~blind /\ hook.kind \in {"compact", "complete"} => \A s \in samples : mon.boundary # 0 /\ s.at <= mon.boundary

\* The stream is written in order: levels grow within a context, and fall to nothing with the next
InSequence ==
  /\ \A i, k \in DOMAIN stream : i < k =>
       /\ stream[i].context <= stream[k].context
       /\ stream[i].context = stream[k].context => stream[i].level <= stream[k].level
       /\ stream[i].context # stream[k].context => \E j \in (i + 1) .. k : stream[j].level = 0
       /\ k = i + 1 /\ stream[i].context # stream[k].context => stream[i].level > 0
  /\ \A i \in DOMAIN stream :
       /\ stream[i].context <= gauge.context
       /\ stream[i].context = gauge.context => stream[i].level <= gauge.level
       /\ i = Len(stream) => stream[i].context = gauge.context /\ (sample.at # 0 => stream[i] = sample)
       /\ \A a \in Alerts : a.context <= stream[i].context

\* Codex: what was read is what the monitor keeps
ReadSoFar ==
  gauge.provider # "claude" =>
    /\ \A t \in mon.reported : t <= mon.level
    /\ stream = <<>> /\ sample.at # 0 => mon.level = sample.level

\* Two alerts tell apart what they announce
Differ(a, b) == a.context = b.context => \E t \in Thresholds : (t <= a.level) # (t <= b.level)

AllDiffer ==
  /\ \A i, j \in DOMAIN told : i # j => Differ(told[i], told[j])
  /\ \A a \in alertRows : \A i \in DOMAIN told : Differ(a, told[i])
  /\ \A a, b \in alertRows : a # b => Differ(a, b)

\* A sample that counts finds what its context has announced among the reported
OnceInv ==
  switches <= 1 /\ ~blind =>
    /\ ~mon.enabled => Alerts = {}
    /\ AllDiffer
    /\ \A s \in samples : Stale(s) \/ \A a \in Alerts : a.context = s.context => Reach(a.level) \subseteq mon.reported
    /\ hook.kind # "compact" => \A a \in Alerts : a.context = gauge.context => Reach(a.level) \subseteq mon.reported
    /\ gauge.provider # "claude" =>
         /\ \A a \in Alerts : \A i \in DOMAIN stream : a.context = stream[i].context =>
              Reach(a.level) \subseteq mon.reported /\ \A j \in 1 .. i : stream[j].level >= mon.level
         /\ \A a \in Alerts : a.context = gauge.context =>
              gauge.level >= mon.level /\ \A j \in DOMAIN stream : stream[j].level >= mon.level

\* Every reported threshold has its alert in the context c
Backed(c) == \A t \in mon.reported : \E a \in Alerts : a.context = c /\ a.level >= t

\* What counts is announced, and the last sample is on its way or counted
ToldInv ==
  mon.enabled /\ ~blind =>
    /\ gauge.provider = "claude" =>
         /\ hook.kind # "reset" => Backed(gauge.context)
         /\ hook.kind \in {"compact", "complete"} => mon.reported = {}
         /\ hook.kind # "reset" => \A s \in samples : Stale(s) \/ s.context = gauge.context
         /\ sample.at # 0 /\ sample.context = gauge.context /\ hook.kind # "compact" =>
              (sample \in samples /\ ~Stale(sample)) \/ Reach(sample.level) \subseteq mon.reported
    /\ gauge.provider # "claude" =>
         /\ stream = <<>> => Backed(gauge.context) /\ (sample.at # 0 => Reach(sample.level) \subseteq mon.reported)
         /\ stream # <<>> => stream[1].level < mon.level \/ Backed(stream[1].context)

\* The inductive invariant of the context monitor
MonitorInv ==
  MonitorTypes /\ Bearings /\ BoundaryHolds /\ InSequence /\ ReadSoFar /\ OnceInv /\ ToldInv

LEMMA MonitorNumbers ==
  /\ MaxLevel \in Nat /\ MaxLevel # 0 /\ Thresholds \subseteq 1 .. MaxLevel /\ MonitorProviders \subseteq {"claude", "codex-fork"}
  /\ \A t \in Thresholds : t \in Int /\ t >= 1
<1>1. MaxLevel \in Nat /\ MaxLevel # 0 /\ Thresholds \subseteq 1 .. MaxLevel /\ MonitorProviders \subseteq {"claude", "codex-fork"}
  BY MonitorAssumption
<1> QED
  BY <1>1

LEMMA ReadingFields ==
  ASSUME NEW s \in Readings
  PROVE  s.level \in 0 .. MaxLevel /\ s.level \in Int /\ s.level >= 0 /\ s.at \in Nat /\ s.context \in Nat
  BY MonitorNumbers DEF Readings

\* What the types say of each part
LEMMA MonitorTyped ==
  ASSUME MonitorTypes
  PROVE  /\ gauge \in Gauges /\ gauge.level \in 0 .. MaxLevel /\ gauge.level \in Int /\ gauge.level >= 0 /\ gauge.context \in Nat
         /\ gauge.provider \in {"claude", "codex-fork"}
         /\ mon \in Monitors /\ mon.level \in Int /\ mon.at \in Nat /\ mon.boundary \in Nat /\ mon.reported \subseteq Thresholds
         /\ hook.at \in Nat /\ hook.kind \in HookKinds /\ stamp \in Nat /\ switches \in Nat
         /\ sample \in Readings /\ (\A s \in samples : s \in Readings)
         /\ (\A i \in DOMAIN stream : stream[i] \in Readings) /\ (\A a \in Alerts : a \in Readings)
         /\ stream \in Seq(Readings) /\ told \in Seq(Readings)
         /\ Len(stream) \in Nat /\ DOMAIN stream = 1 .. Len(stream) /\ Len(told) \in Nat /\ DOMAIN told = 1 .. Len(told)
<1>1. stream \in Seq(Readings) /\ told \in Seq(Readings)
  BY DEF MonitorTypes
<1>2. /\ Len(stream) \in Nat /\ DOMAIN stream = 1 .. Len(stream) /\ Len(told) \in Nat /\ DOMAIN told = 1 .. Len(told)
      /\ (\A i \in DOMAIN stream : stream[i] \in Readings) /\ (\A i \in DOMAIN told : told[i] \in Readings)
  BY <1>1, LenProperties, ElementOfSeq
<1>3. \A a \in Alerts : a \in Readings
  BY <1>2 DEF Alerts, MonitorTypes
<1>6. gauge \in Gauges /\ gauge.level \in 0 .. MaxLevel /\ gauge.context \in Nat /\ gauge.provider \in MonitorProviders
  BY DEF MonitorTypes, Gauges
<1>7. gauge.provider \in {"claude", "codex-fork"}
  BY <1>6, MonitorNumbers, Zenon
<1>8. gauge.level \in Int /\ gauge.level >= 0
  BY <1>6, MonitorNumbers
<1>4. /\ gauge \in Gauges /\ gauge.level \in 0 .. MaxLevel /\ gauge.level \in Int /\ gauge.level >= 0 /\ gauge.context \in Nat
      /\ gauge.provider \in {"claude", "codex-fork"}
  BY <1>6, <1>7, <1>8, Zenon
<1>5. mon \in Monitors /\ mon.level \in Int /\ mon.at \in Nat /\ mon.boundary \in Nat /\ mon.reported \subseteq Thresholds
  BY MonitorNumbers DEF MonitorTypes, Monitors
<1> QED
  BY <1>1, <1>2, <1>3, <1>4, <1>5 DEF MonitorTypes

\* A step that touches neither the monitor nor the alerts
LEMMA MonitorRests ==
  ASSUME UNCHANGED <<alertRows, told, mon>>
  PROVE  /\ Alerts' = Alerts
         /\ \A s : Stale(s)' <=> Stale(s)
         /\ \A c : Backed(c)' <=> Backed(c)
<1>1. Alerts' = Alerts
  BY DEF Alerts
<1> QED
  BY <1>1 DEF Stale, Backed

\* The agent fills its context
LEMMA Filling ==
  ASSUME MonitorInv, Fills
  PROVE  MonitorInv'
<1> USE MonitorNumbers DEF MonitorInv
<1>g. gauge' = [gauge EXCEPT !.level = @ + 1] /\ gauge \in Gauges /\ gauge.level < MaxLevel
      /\ UNCHANGED <<hook, samples, stream, mon, alertRows, told, sample, blind, stamp, switches, monitorCrashes>>
  BY DEF Fills, MonitorTypes
<1>h. gauge' \in Gauges /\ gauge'.level = gauge.level + 1 /\ gauge'.context = gauge.context /\ gauge'.provider = gauge.provider
  BY <1>g DEF Gauges
<1>r. Alerts' = Alerts /\ (\A s : Stale(s)' <=> Stale(s)) /\ (\A c : Backed(c)' <=> Backed(c))
  BY <1>g, MonitorRests
<1>t. MonitorTypes'
  BY <1>g, <1>h DEF MonitorTypes
<1>1. Bearings' /\ BoundaryHolds'
  BY <1>g, <1>h, <1>r DEF Bearings, BoundaryHolds
<1>l. \A i \in DOMAIN stream : stream[i].level \in Int
  BY MonitorTyped, ReadingFields
<1>i. gauge.level \in Int /\ mon.level \in Int
  BY MonitorTyped
<1>2. InSequence'
  BY <1>g, <1>h, <1>r, <1>l, <1>i DEF InSequence
<1>3. ReadSoFar'
  BY <1>g, <1>h DEF ReadSoFar
<1>4. OnceInv'
  BY <1>g, <1>h, <1>r, <1>i DEF OnceInv, AllDiffer
<1>5. ToldInv'
  BY <1>g, <1>h, <1>r DEF ToldInv
<1> QED
  BY <1>t, <1>1, <1>2, <1>3, <1>4, <1>5

\* A status line is rendered, or a usage is written; Codex also writes one when it compacts
LEMMA Writing ==
  ASSUME MonitorInv, NEW next \in Readings,
         next.at = stamp + 1, stamp' = stamp + 1, sample' = next, stream' = Append(stream, next), gauge' \in Gauges,
         gauge.provider # "claude", gauge'.provider = gauge.provider,
         next.level = gauge'.level, next.context = gauge'.context,
         \/ gauge' = gauge
         \/ /\ next.level = 0 /\ gauge'.context = gauge.context + 1 /\ gauge.level > 0
            /\ sample.context = gauge.context /\ sample.level = gauge.level,
         UNCHANGED <<hook, samples, mon, alertRows, told, blind, switches, monitorCrashes>>
  PROVE  MonitorInv'
<1> USE MonitorNumbers DEF MonitorInv
<1>r. Alerts' = Alerts /\ (\A s : Stale(s)' <=> Stale(s)) /\ (\A c : Backed(c)' <=> Backed(c))
  BY MonitorRests
<1>T. MonitorTypes
  OBVIOUS
<1>y. /\ gauge.level \in Int /\ gauge.context \in Nat /\ mon.level \in Int /\ stamp \in Nat /\ mon.at \in Nat /\ mon.boundary \in Nat
      /\ hook.at \in Nat /\ mon.reported \subseteq Thresholds
      /\ stream \in Seq(Readings) /\ Len(stream) \in Nat /\ DOMAIN stream = 1 .. Len(stream) /\ sample \in Readings
  BY <1>T, MonitorTyped
<1>f. /\ \A i \in DOMAIN stream : stream[i].level \in Int /\ stream[i].level >= 0 /\ stream[i].context \in Nat
      /\ \A a \in Alerts : a.context \in Nat /\ a.level \in Int
      /\ next.level \in Int /\ next.level >= 0 /\ next.context \in Nat /\ gauge'.context \in Nat /\ gauge'.level \in Int
  BY <1>T, MonitorTyped, ReadingFields
<1>a. /\ stream' \in Seq(Readings) /\ Len(stream') = Len(stream) + 1 /\ DOMAIN stream' = 1 .. (Len(stream) + 1)
      /\ \A i \in DOMAIN stream : stream'[i] = stream[i]
      /\ stream'[Len(stream) + 1] = next
  BY <1>y, AppendProperties
<1>t. MonitorTypes'
  BY <1>a, <1>y DEF MonitorTypes
<1>h. hook = NoHook /\ samples = {}
  BY DEF Bearings
<1>1. Bearings' /\ BoundaryHolds'
  BY <1>h, <1>y, <1>f, <1>r DEF Bearings, BoundaryHolds, NoHook
<1>s. gauge' # gauge => sample.at # 0 /\ sample.context = gauge.context /\ gauge.level > 0 /\ sample.level = gauge.level
  BY <1>y DEF Bearings
<1>n. stream # <<>> <=> Len(stream) > 0
  BY <1>y, EmptySeq
<1>2. InSequence'
  <2>1. \A i \in DOMAIN stream : stream[i].context <= next.context /\ (stream[i].context = next.context => stream[i].level <= next.level)
    BY <1>f, <1>y, SMTT(60) DEF InSequence
  <2>2. \A i \in DOMAIN stream : stream[i].context # next.context => \E j \in (i + 1) .. (Len(stream) + 1) : stream'[j].level = 0
    <3> SUFFICES ASSUME NEW i \in DOMAIN stream, stream[i].context # next.context
                 PROVE  \E j \in (i + 1) .. (Len(stream) + 1) : stream'[j].level = 0
      OBVIOUS
    <3>1. CASE gauge' # gauge
      BY <3>1, <1>a, <1>y, SMTT(60)
    <3>2. CASE gauge' = gauge
      <4>1. Len(stream) \in DOMAIN stream /\ stream[Len(stream)].context = gauge.context
        BY <1>y, <1>n DEF InSequence
      <4>2. i < Len(stream)
        BY <4>1, <3>2, <1>y
      <4>3. PICK j \in (i + 1) .. Len(stream) : stream[j].level = 0
        BY <4>1, <4>2, <3>2 DEF InSequence
      <4>4. j \in DOMAIN stream /\ j \in (i + 1) .. (Len(stream) + 1)
        BY <4>3, <1>y
      <4> QED
        BY <4>3, <4>4, <1>a
    <3> QED
      BY <3>1, <3>2
  <2>3. \A i \in DOMAIN stream : Len(stream) + 1 = i + 1 /\ stream[i].context # next.context => stream[i].level > 0
    <3> SUFFICES ASSUME NEW i \in DOMAIN stream, i = Len(stream), stream[i].context # next.context PROVE stream[i].level > 0
      BY <1>y
    <3>1. stream[i].context = gauge.context /\ (sample.at # 0 => stream[i] = sample)
      BY DEF InSequence
    <3> QED
      BY <3>1, <1>s
  <2>4. \A a \in Alerts : a.context <= next.context
    BY <1>f, <1>y DEF Bearings
  <2>5. ASSUME NEW i \in 1 .. (Len(stream) + 1), NEW k \in 1 .. (Len(stream) + 1), i < k
        PROVE  /\ stream'[i].context <= stream'[k].context
               /\ stream'[i].context = stream'[k].context => stream'[i].level <= stream'[k].level
               /\ stream'[i].context # stream'[k].context => \E j \in (i + 1) .. k : stream'[j].level = 0
               /\ k = i + 1 /\ stream'[i].context # stream'[k].context => stream'[i].level > 0
    <3>1. i \in DOMAIN stream /\ stream'[i] = stream[i]
      BY <2>5, <1>y, <1>a
    <3>2. CASE k = Len(stream) + 1
      BY <3>1, <3>2, <1>a, <2>1, <2>2, <2>3
    <3>3. CASE k # Len(stream) + 1
      <4>1. k \in DOMAIN stream /\ stream'[k] = stream[k]
        BY <3>3, <1>y, <1>a
      <4>2. /\ stream[i].context <= stream[k].context
            /\ stream[i].context = stream[k].context => stream[i].level <= stream[k].level
            /\ stream[i].context # stream[k].context => \E j \in (i + 1) .. k : stream[j].level = 0
            /\ k = i + 1 /\ stream[i].context # stream[k].context => stream[i].level > 0
        BY <2>5, <3>1, <4>1 DEF InSequence
      <4>3. \A j \in (i + 1) .. k : j \in DOMAIN stream /\ stream'[j] = stream[j]
        BY <3>1, <4>1, <1>y, <1>a
      <4> QED
        BY <3>1, <4>1, <4>2, <4>3
    <3> QED
      BY <3>2, <3>3
  <2>6. ASSUME NEW i \in 1 .. (Len(stream) + 1)
        PROVE  /\ stream'[i].context <= gauge'.context
               /\ stream'[i].context = gauge'.context => stream'[i].level <= gauge'.level
               /\ i = Len(stream) + 1 => stream'[i].context = gauge'.context /\ stream'[i] = sample'
               /\ \A a \in Alerts : a.context <= stream'[i].context
    <3>1. CASE i = Len(stream) + 1
      BY <3>1, <1>a, <1>f, <2>4
    <3>2. CASE i # Len(stream) + 1
      <4>1. i \in DOMAIN stream /\ stream'[i] = stream[i]
        BY <3>2, <1>y, <1>a
      <4>2. \A a \in Alerts : a.context <= stream[i].context
        BY <4>1 DEF InSequence
      <4> QED
        BY <3>2, <4>1, <4>2, <2>1
    <3> QED
      BY <3>1, <3>2
  <2> QED
    BY <2>5, <2>6, <1>a, <1>r DEF InSequence
<1>3. ReadSoFar'
  BY <1>n, <1>a, <1>y DEF ReadSoFar
<1>4. OnceInv'
  <2> SUFFICES ASSUME switches <= 1, ~blind
               PROVE  /\ ~mon.enabled => Alerts = {}
                      /\ AllDiffer
                      /\ \A a \in Alerts : a.context = gauge'.context => Reach(a.level) \subseteq mon.reported
                      /\ \A a \in Alerts : \A i \in DOMAIN stream' : a.context = stream'[i].context =>
                           Reach(a.level) \subseteq mon.reported /\ \A j \in 1 .. i : stream'[j].level >= mon.level
                      /\ \A a \in Alerts : a.context = gauge'.context =>
                           gauge'.level >= mon.level /\ \A j \in DOMAIN stream' : stream'[j].level >= mon.level
    BY <1>h, <1>r DEF OnceInv, AllDiffer, Reach
  <2>o. /\ ~mon.enabled => Alerts = {}
        /\ AllDiffer
        /\ \A a \in Alerts : a.context = gauge.context => Reach(a.level) \subseteq mon.reported
        /\ \A a \in Alerts : \A i \in DOMAIN stream : a.context = stream[i].context =>
             Reach(a.level) \subseteq mon.reported /\ \A j \in 1 .. i : stream[j].level >= mon.level
        /\ \A a \in Alerts : a.context = gauge.context =>
             gauge.level >= mon.level /\ \A j \in DOMAIN stream : stream[j].level >= mon.level
    BY <1>h DEF OnceInv, NoHook
  <2>1. \A a \in Alerts : a.context = gauge'.context => a.context = gauge.context /\ gauge' = gauge
    BY <1>f, <1>y DEF Bearings
  <2>2. \A a \in Alerts : a.context = gauge'.context =>
          gauge'.level >= mon.level /\ \A j \in DOMAIN stream' : stream'[j].level >= mon.level
    <3> SUFFICES ASSUME NEW a \in Alerts, a.context = gauge'.context, NEW j \in 1 .. (Len(stream) + 1)
                 PROVE  gauge'.level >= mon.level /\ stream'[j].level >= mon.level
      BY <1>a, <1>y
    <3>1. gauge' = gauge /\ gauge.level >= mon.level /\ \A i \in DOMAIN stream : stream[i].level >= mon.level
      BY <2>1, <2>o
    <3>2. CASE j = Len(stream) + 1
      BY <3>1, <3>2, <1>a
    <3>3. CASE j # Len(stream) + 1
      BY <3>1, <3>3, <1>a, <1>y
    <3> QED
      BY <3>2, <3>3
  <2>3. ASSUME NEW a \in Alerts, NEW i \in DOMAIN stream', a.context = stream'[i].context
        PROVE  Reach(a.level) \subseteq mon.reported /\ \A j \in 1 .. i : stream'[j].level >= mon.level
    <3>1. CASE i = Len(stream) + 1
      <4>1. a.context = gauge'.context
        BY <2>3, <3>1, <1>a
      <4>2. \A j \in 1 .. i : j \in DOMAIN stream'
        BY <3>1, <1>a, <1>y
      <4> QED
        BY <4>1, <4>2, <2>1, <2>2, <2>o
    <3>2. CASE i # Len(stream) + 1
      <4>1. i \in DOMAIN stream /\ stream'[i] = stream[i] /\ \A j \in 1 .. i : j \in DOMAIN stream /\ stream'[j] = stream[j]
        BY <3>2, <1>a, <1>y
      <4> QED
        BY <4>1, <2>3, <2>o
    <3> QED
      BY <3>1, <3>2
  <2> QED
    BY <2>o, <2>1, <2>2, <2>3
<1>5. ToldInv'
  <2> SUFFICES ASSUME mon.enabled, ~blind PROVE stream'[1].level < mon.level \/ Backed(stream'[1].context)
    BY <1>r, <1>a, <1>n, <1>y DEF ToldInv, Backed
  <2>1. CASE stream = <<>>
    <3>1. stream'[1] = next /\ Backed(gauge.context)
      BY <2>1, <1>a DEF ToldInv
    <3>2. CASE gauge' # gauge
      <4>1. mon.level = sample.level
        BY <2>1, <3>2, <1>s DEF ReadSoFar
      <4> QED
        BY <3>1, <3>2, <4>1, <1>s
    <3> QED
      BY <3>1, <3>2
  <2>2. CASE stream # <<>>
    <3>1. 1 \in DOMAIN stream /\ stream'[1] = stream[1]
      BY <2>2, <1>n, <1>y, <1>a
    <3> QED
      BY <3>1, <2>2 DEF ToldInv
  <2> QED
    BY <2>1, <2>2
<1> QED
  BY <1>t, <1>1, <1>2, <1>3, <1>4, <1>5

\* Claude renders its status line: the sample goes its own way
LEMMA Rendering ==
  ASSUME MonitorInv, Reports, gauge.provider = "claude"
  PROVE  MonitorInv'
<1> USE MonitorNumbers DEF MonitorInv
<1>T. MonitorTypes
  OBVIOUS
<1>y. /\ gauge \in Gauges /\ gauge.level \in 0 .. MaxLevel /\ gauge.context \in Nat /\ stamp \in Nat /\ mon.at \in Nat /\ mon.boundary \in Nat
      /\ sample \in Readings /\ hook.at \in Nat /\ \A s \in samples : s.at \in Nat
  BY <1>T, MonitorTyped, ReadingFields
<1>1. PICK new \in Readings : /\ new.level = gauge.level /\ new.at = stamp + 1 /\ new.context = gauge.context
                              /\ sample' = new /\ samples' = samples \union {new}
  <2>1. [level |-> gauge.level, at |-> stamp + 1, context |-> gauge.context] \in Readings
    BY <1>y DEF Readings
  <2> QED
    BY <2>1 DEF Reports
<1>2. hook = NoHook /\ stamp' = stamp + 1 /\ UNCHANGED <<gauge, hook, stream, mon, alertRows, told, blind, switches, monitorCrashes>>
  BY DEF Reports
<1>r. Alerts' = Alerts /\ (\A s : Stale(s)' <=> Stale(s)) /\ (\A c : Backed(c)' <=> Backed(c))
  BY <1>2, MonitorRests
<1>n. ~Stale(new) /\ hook.kind = "none"
  BY <1>1, <1>2, <1>y DEF Stale, Bearings, NoHook
<1>t. MonitorTypes'
  BY <1>1, <1>2, <1>y DEF MonitorTypes
<1>4. Bearings' /\ BoundaryHolds'
  <2>1. \A s \in samples : s.at < new.at /\ s.at \in 1 .. (stamp + 1) /\ s.context <= gauge.context
    BY <1>1, <1>y DEF Bearings
  <2>2. new.at \in 1 .. (stamp + 1) /\ new.at # 0 /\ new.context <= gauge.context /\ new.at <= stamp + 1
    BY <1>1, <1>y
  <2>3. mon.boundary <= stamp + 1 /\ hook.at <= stamp + 1 /\ mon.at <= stamp + 1
    BY <1>y DEF Bearings
  <2>4. gauge.provider = "claude" => stream = <<>>
    BY DEF Bearings
  <2> QED
    BY <1>1, <1>2, <1>n, <1>r, <2>1, <2>2, <2>3, <2>4 DEF Bearings, BoundaryHolds
<1>e. stream = <<>> /\ DOMAIN stream = {}
  BY DEF Bearings
<1>5. InSequence' /\ ReadSoFar'
  BY <1>e, <1>2 DEF InSequence, ReadSoFar
<1>6. OnceInv'
  BY <1>1, <1>2, <1>n, <1>r DEF OnceInv, AllDiffer
<1>7. ToldInv'
  BY <1>1, <1>2, <1>n, <1>r DEF ToldInv
<1> QED
  BY <1>t, <1>4, <1>5, <1>6, <1>7

\* Claude announces that it compacts, or that it has cleared
LEMMA Announcing ==
  ASSUME MonitorInv, NEW kind \in {"compaction", "reset"}, Announces(kind)
  PROVE  MonitorInv'
<1> USE MonitorNumbers DEF MonitorInv
<1>T. MonitorTypes
  OBVIOUS
<1>y. /\ gauge \in Gauges /\ gauge.level \in 0 .. MaxLevel /\ gauge.context \in Nat /\ stamp \in Nat /\ mon.at \in Nat /\ mon.boundary \in Nat
      /\ sample \in Readings /\ (\A s \in samples : s.at \in Nat /\ s.context \in Nat) /\ (\A a \in Alerts : a.context \in Nat)
      /\ sample.at \in Nat /\ sample.context \in Nat /\ hook.at \in Nat
  BY <1>T, MonitorTyped, ReadingFields
<1>1. /\ hook = NoHook /\ gauge.provider = "claude" /\ stamp' = stamp + 1 /\ hook' = [kind |-> kind, at |-> stamp + 1]
      /\ hook'.kind = kind /\ hook'.at = stamp + 1 /\ hook.kind = "none"
      /\ UNCHANGED <<samples, stream, mon, alertRows, told, sample, blind, switches, monitorCrashes>>
  BY DEF Announces, NoHook
<1>2. /\ gauge' \in Gauges /\ gauge'.provider = "claude"
      /\ kind = "reset" => gauge'.context = gauge.context + 1
      /\ kind # "reset" => gauge' = gauge
  <2>0. 0 \in 0 .. MaxLevel /\ gauge.context + 1 \in Nat
    BY <1>y
  <2>1. [gauge EXCEPT !.level = 0, !.context = gauge.context + 1] \in Gauges
        /\ [gauge EXCEPT !.level = 0, !.context = gauge.context + 1].provider = gauge.provider
        /\ [gauge EXCEPT !.level = 0, !.context = gauge.context + 1].context = gauge.context + 1
    BY <1>y, <2>0 DEF Gauges
  <2>2. CASE kind = "reset"
    <3>1. gauge' = [gauge EXCEPT !.level = 0, !.context = gauge.context + 1]
      BY <2>2 DEF Announces
    <3> QED
      BY <1>1, <2>1, <2>2, <3>1
  <2>3. CASE kind # "reset"
    <3>1. gauge' = gauge
      BY <2>3 DEF Announces
    <3> QED
      BY <1>1, <1>y, <2>3, <3>1
  <2> QED
    BY <2>2, <2>3
<1>r. Alerts' = Alerts /\ (\A s : Stale(s)' <=> Stale(s)) /\ (\A c : Backed(c)' <=> Backed(c))
  BY <1>1, MonitorRests
<1>t. MonitorTypes'
  BY <1>1, <1>2, <1>y, SMTT(60) DEF MonitorTypes, HookKinds
<1>4. Bearings' /\ BoundaryHolds'
  <2>1. CASE kind = "reset"
    <3>1. /\ sample.context < gauge'.context /\ (\A s \in samples \union Alerts : s.context < gauge'.context)
          /\ sample.context <= gauge'.context /\ (\A s \in samples \union Alerts : s.context <= gauge'.context)
      BY <2>1, <1>2, <1>y DEF Bearings
    <3>2. /\ sample.at <= stamp' /\ mon.boundary <= stamp' /\ hook'.at <= stamp' /\ mon.at <= stamp' /\ hook'.at > 0
          /\ \A s \in samples : s.at \in 1 .. stamp' /\ s.at < hook'.at
      BY <1>1, <1>y DEF Bearings
    <3>3. BoundaryHolds'
      BY <2>1, <1>1 DEF BoundaryHolds
    <3>4. Bearings'
      BY <2>1, <1>1, <1>2, <1>r, <3>1, <3>2 DEF Bearings
    <3> QED
      BY <3>3, <3>4
  <2>2. CASE kind # "reset"
    BY <2>2, <1>1, <1>2, <1>y, <1>r DEF Bearings, BoundaryHolds
  <2> QED
    BY <2>1, <2>2
<1>e. stream = <<>> /\ DOMAIN stream = {}
  BY <1>1 DEF Bearings
<1>5. InSequence' /\ ReadSoFar'
  BY <1>e, <1>1, <1>2 DEF InSequence, ReadSoFar
<1>c. \A a \in Alerts : kind = "reset" => a.context # gauge'.context
  BY <1>2, <1>y DEF Bearings
<1>d. kind = "reset" => sample.context # gauge'.context
  BY <1>2, <1>y DEF Bearings
<1>6. OnceInv'
  BY <1>1, <1>2, <1>c, <1>r DEF OnceInv, AllDiffer
<1>7. ToldInv'
  BY <1>1, <1>2, <1>d, <1>r DEF ToldInv
<1> QED
  BY <1>t, <1>4, <1>5, <1>6, <1>7

\* Claude has compacted
LEMMA Compacting ==
  ASSUME MonitorInv, Compacts
  PROVE  MonitorInv'
<1> USE MonitorNumbers DEF MonitorInv
<1>T. MonitorTypes
  OBVIOUS
<1>y. /\ gauge \in Gauges /\ gauge.level \in 0 .. MaxLevel /\ gauge.context \in Nat /\ stamp \in Nat /\ mon.at \in Nat /\ mon.boundary \in Nat
      /\ sample \in Readings /\ (\A s \in samples : s.at \in Nat /\ s.context \in Nat) /\ (\A a \in Alerts : a.context \in Nat)
      /\ sample.at \in Nat /\ sample.context \in Nat /\ hook.at \in Nat
  BY <1>T, MonitorTyped, ReadingFields
<1>1. /\ hook.kind = "compact" /\ hook' = [kind |-> "complete", at |-> hook.at]
      /\ hook'.kind = "complete" /\ hook'.at = hook.at
      /\ UNCHANGED <<samples, stream, mon, alertRows, told, sample, blind, stamp, switches, monitorCrashes>>
  BY DEF Compacts
<1>2. gauge' \in Gauges /\ gauge'.provider = gauge.provider /\ gauge'.context = gauge.context + 1
  <2>1. PICK l \in 0 .. gauge.level : gauge' = [gauge EXCEPT !.level = l, !.context = gauge.context + 1]
    BY DEF Compacts
  <2>2. l \in 0 .. MaxLevel /\ gauge.context + 1 \in Nat
    BY <1>y
  <2> QED
    BY <2>1, <2>2, <1>y DEF Gauges
<1>3. gauge.provider = "claude"
  BY <1>1 DEF Bearings, NoHook
<1>r. Alerts' = Alerts /\ (\A s : Stale(s)' <=> Stale(s)) /\ (\A c : Backed(c)' <=> Backed(c))
  BY <1>1, MonitorRests
<1>t. MonitorTypes'
  BY <1>1, <1>2, <1>y DEF MonitorTypes, HookKinds
<1>4. Bearings' /\ BoundaryHolds'
  BY <1>1, <1>2, <1>3, <1>y, <1>r DEF Bearings, BoundaryHolds
<1>e. stream = <<>> /\ DOMAIN stream = {}
  BY <1>3 DEF Bearings
<1>5. InSequence' /\ ReadSoFar'
  BY <1>e, <1>1, <1>2, <1>3 DEF InSequence, ReadSoFar
<1>c. (\A a \in Alerts : a.context # gauge'.context) /\ sample.context # gauge'.context
  BY <1>2, <1>y DEF Bearings
<1>6. OnceInv'
  BY <1>1, <1>2, <1>3, <1>c, <1>r DEF OnceInv, AllDiffer
<1>7. ToldInv'
  <2> SUFFICES ASSUME mon.enabled, ~blind PROVE Backed(gauge'.context) /\ mon.reported = {} /\ \A s \in samples : Stale(s)
    BY <1>1, <1>2, <1>3, <1>c, <1>r DEF ToldInv, Backed
  <2>1. mon.reported = {}
    BY <1>1, <1>3 DEF ToldInv
  <2> QED
    BY <2>1, <1>1 DEF Backed, BoundaryHolds, Stale
<1> QED
  BY <1>t, <1>4, <1>5, <1>6, <1>7

\* What latching does to the monitor and to the queue
LEMMA Latching ==
  ASSUME MonitorTypes, NEW m \in Monitors, NEW rows \in SUBSET alertRows, NEW s \in Readings, Latch(m, rows, s)
  PROVE  /\ mon' \in Monitors /\ alertRows' \subseteq Readings /\ \A a \in alertRows' : a.level # 0
         /\ mon'.enabled = m.enabled /\ mon'.boundary = m.boundary /\ mon'.level = m.level /\ mon'.at = m.at
         /\ m.enabled => Reach(s.level) \subseteq mon'.reported
         /\ \/ alertRows' = rows /\ mon'.reported = m.reported
            \/ /\ alertRows' = rows \union {s} /\ m.enabled /\ mon'.reported = m.reported \union Reach(s.level)
               /\ \E t \in Reach(s.level) : t \notin m.reported
<1> DEFINE crossed == IF m.enabled THEN Crossed(m, s.level) ELSE {}
<1>1. alertRows' = (IF crossed = {} THEN rows ELSE rows \union {s}) /\ mon' = [m EXCEPT !.reported = m.reported \union crossed]
  BY DEF Latch
<1>2. crossed \subseteq Thresholds /\ crossed \subseteq Reach(s.level) /\ (m.enabled => crossed = Reach(s.level) \ m.reported)
      /\ (~m.enabled => crossed = {})
  BY DEF Crossed, Reach
<1> HIDE DEF crossed
<1>3. m.reported \subseteq Thresholds /\ m.reported \union crossed \in SUBSET Thresholds
  BY <1>2 DEF Monitors
<1>4. /\ mon' \in Monitors /\ mon'.enabled = m.enabled /\ mon'.boundary = m.boundary /\ mon'.level = m.level /\ mon'.at = m.at
      /\ mon'.reported = m.reported \union crossed
  BY <1>1, <1>3 DEF Monitors
<1>5. crossed # {} => s.level # 0
  <2>1. \A t \in Reach(s.level) : s.level # 0
    BY MonitorNumbers, ReadingFields DEF Reach
  <2> QED
    BY <1>2, <2>1
<1>6. alertRows' \subseteq Readings /\ \A a \in alertRows' : a.level # 0
  BY <1>1, <1>5 DEF MonitorTypes
<1> QED
  BY <1>1, <1>2, <1>4, <1>6

\* An alert that announces a threshold no alert of its context has announced
LEMMA NewAlert ==
  ASSUME MonitorTypes, AllDiffer, UNCHANGED told, NEW rows \in SUBSET alertRows, NEW s \in Readings, NEW R,
         \A a \in rows \union {told[i] : i \in DOMAIN told} : a.context = s.context => Reach(a.level) \subseteq R,
         \/ alertRows' = rows
         \/ alertRows' = rows \union {s} /\ \E t \in Reach(s.level) : t \notin R
  PROVE  AllDiffer'
<1>1. CASE alertRows' = rows
  BY <1>1 DEF AllDiffer
<1>2. CASE alertRows' = rows \union {s} /\ \E t \in Reach(s.level) : t \notin R
  <2>1. PICK t \in Reach(s.level) : t \notin R
    BY <1>2
  <2>2. \A a \in rows \union {told[i] : i \in DOMAIN told} : a.context = s.context => ~(t <= a.level)
    BY <2>1 DEF Reach
  <2>3. t \in Thresholds /\ t <= s.level
    BY <2>1 DEF Reach
  <2>4. \A a \in rows \union {told[i] : i \in DOMAIN told} : Differ(a, s) /\ Differ(s, a)
    BY <2>2, <2>3 DEF Differ
  <2> QED
    BY <1>2, <2>4 DEF AllDiffer
<1> QED
  BY <1>1, <1>2

\* A step of Claude that leaves the monitor and the alerts alone: a sample is gone, which was stale or is forgotten
LEMMA SampleGone ==
  ASSUME MonitorInv, NEW s \in samples, samples' = samples \ {s},
         \/ sample' = sample /\ (Stale(s) \/ s # sample)
         \/ sample' = NoSample,
         UNCHANGED <<gauge, hook, stream, mon, alertRows, told, blind, stamp, switches, monitorCrashes>>
  PROVE  MonitorInv'
<1> USE MonitorNumbers DEF MonitorInv
<1>T. MonitorTypes
  OBVIOUS
<1>p. gauge.provider = "claude"
  BY DEF Bearings
<1>e. stream = <<>> /\ DOMAIN stream = {}
  BY <1>p DEF Bearings
<1>n. NoSample \in Readings /\ NoSample.at = 0 /\ NoSample.level = 0 /\ NoSample.context = 0
  BY DEF Readings, NoSample
<1>y. gauge.context \in Nat /\ stamp \in Nat /\ \A x \in samples : x.context \in Nat
  BY <1>T, MonitorTyped, ReadingFields
<1>r. Alerts' = Alerts /\ (\A x : Stale(x)' <=> Stale(x)) /\ (\A c : Backed(c)' <=> Backed(c))
  BY MonitorRests
<1>t. MonitorTypes'
  BY <1>n DEF MonitorTypes
<1>1. BoundaryHolds' /\ InSequence' /\ ReadSoFar' /\ OnceInv'
  <2>1. BoundaryHolds'
    BY DEF BoundaryHolds
  <2>2. InSequence' /\ ReadSoFar'
    BY <1>e, <1>p DEF InSequence, ReadSoFar
  <2>3. OnceInv'
    BY <1>r DEF OnceInv, AllDiffer
  <2> QED
    BY <2>1, <2>2, <2>3
<1>2. Bearings'
  <2>1. CASE sample' = sample
    BY <2>1, <1>r DEF Bearings
  <2>2. CASE sample' = NoSample
    <3>1. hook.kind \in {"complete", "reset"} => 0 < gauge.context
      BY <1>y DEF Bearings
    <3> QED
      BY <2>2, <3>1, <1>n, <1>y, <1>r DEF Bearings
  <2> QED
    BY <2>1, <2>2
<1>3. ToldInv'
  <2>1. CASE sample' = sample /\ (Stale(s) \/ s # sample)
    BY <2>1, <1>r DEF ToldInv
  <2>2. CASE sample' = NoSample
    BY <2>2, <1>n, <1>r, <1>p DEF ToldInv
  <2> QED
    BY <2>1, <2>2
<1> QED
  BY <1>t, <1>1, <1>2, <1>3

\* A sample arrives
LEMMA Arriving ==
  ASSUME MonitorInv, NEW s \in samples, SampleArrives(s)
  PROVE  MonitorInv'
<1> USE MonitorNumbers DEF MonitorInv
<1>T. MonitorTypes
  OBVIOUS
<1>u. samples' = samples \ {s} /\ UNCHANGED <<gauge, hook, stream, told, sample, blind, stamp, switches, monitorCrashes>>
  BY DEF SampleArrives
<1>1. CASE Stale(s)
  <2>1. UNCHANGED <<mon, alertRows>>
    BY <1>1 DEF SampleArrives
  <2> QED
    BY <1>1, <1>u, <2>1, SampleGone
<1>2. CASE ~Stale(s)
  <2>p. gauge.provider = "claude" /\ stream = <<>> /\ DOMAIN stream = {}
    BY DEF Bearings
  <2>y. /\ mon \in Monitors /\ mon.level \in Int /\ mon.at \in Nat /\ mon.boundary \in Nat /\ mon.reported \subseteq Thresholds
        /\ stamp \in Nat /\ s \in Readings /\ s.level \in 0 .. MaxLevel /\ s.level \in Int /\ s.at \in Nat /\ s.context \in Nat /\ gauge.context \in Nat
        /\ (\A x \in samples : x.at \in Nat /\ x.context \in Nat) /\ (\A a \in Alerts : a.context \in Nat)
        /\ sample \in Readings /\ sample.at \in Nat /\ sample.context \in Nat
    BY <1>T, MonitorTyped, ReadingFields
  <2>m. PICK m \in Monitors : /\ m.enabled = mon.enabled /\ m.reported = mon.reported /\ m.boundary = mon.boundary /\ m.level = s.level
                              /\ m.at = s.at /\ Latch(m, alertRows, s)
    <3>1. s.level \in -1 .. MaxLevel
      BY <2>y
    <3>2. [mon EXCEPT !.level = s.level, !.at = s.at, !.compacting = FALSE] \in Monitors
      BY <2>y, <3>1 DEF Monitors
    <3> QED
      BY <1>2, <2>y, <3>2 DEF SampleArrives, Monitors
  <2>l. /\ mon' \in Monitors /\ alertRows' \subseteq Readings /\ \A a \in alertRows' : a.level # 0
        /\ mon'.enabled = mon.enabled /\ mon'.boundary = mon.boundary /\ mon'.at = s.at
        /\ mon.enabled => Reach(s.level) \subseteq mon'.reported
        /\ \/ alertRows' = alertRows /\ mon'.reported = mon.reported
           \/ /\ alertRows' = alertRows \union {s} /\ mon.enabled /\ mon'.reported = mon.reported \union Reach(s.level)
              /\ \E t \in Reach(s.level) : t \notin mon.reported
    <3>1. alertRows \in SUBSET alertRows
      OBVIOUS
    <3>2. /\ mon' \in Monitors /\ alertRows' \subseteq Readings /\ \A a \in alertRows' : a.level # 0
          /\ mon'.enabled = m.enabled /\ mon'.boundary = m.boundary /\ mon'.level = m.level /\ mon'.at = m.at
          /\ m.enabled => Reach(s.level) \subseteq mon'.reported
          /\ \/ alertRows' = alertRows /\ mon'.reported = m.reported
             \/ /\ alertRows' = alertRows \union {s} /\ m.enabled /\ mon'.reported = m.reported \union Reach(s.level)
                /\ \E t \in Reach(s.level) : t \notin m.reported
      BY <2>m, <3>1, <1>T, <2>y, Latching
    <3> QED
      BY <2>m, <3>2, Zenon
  <2>A. \/ Alerts' = Alerts /\ mon'.reported = mon.reported
        \/ Alerts' = Alerts \union {s} /\ mon.enabled /\ mon'.reported = mon.reported \union Reach(s.level)
    BY <2>l, <1>u DEF Alerts
  <2>s. \A x \in samples : Stale(x) => Stale(x)'
    BY <2>y, <2>l, <1>2 DEF Stale, Bearings
  <2>t. MonitorTypes'
    BY <2>l, <1>u DEF MonitorTypes
  <2>1. Bearings' /\ BoundaryHolds'
    <3>1. \A a \in Alerts' : a.context <= gauge.context /\ (hook.kind \in {"complete", "reset"} => a.context < gauge.context)
      BY <2>A DEF Bearings
    <3>2. s.at <= stamp
      BY DEF Bearings
    <3>3. BoundaryHolds'
      BY <1>u, <2>l DEF BoundaryHolds
    <3>4. sample.at <= stamp /\ mon'.boundary <= stamp /\ hook.at <= stamp /\ mon'.at <= stamp
      BY <2>l, <3>2 DEF Bearings
    <3> QED
      BY <1>u, <2>l, <3>1, <3>3, <3>4, <2>p DEF Bearings
  <2>2. InSequence' /\ ReadSoFar'
    BY <2>p, <1>u DEF InSequence, ReadSoFar
  <2>3. OnceInv'
    <3> SUFFICES ASSUME switches <= 1, ~blind
                 PROVE  /\ ~mon.enabled => Alerts' = {}
                        /\ AllDiffer'
                        /\ \A x \in samples' : Stale(x)' \/ \A a \in Alerts' : a.context = x.context => Reach(a.level) \subseteq mon'.reported
                        /\ hook.kind # "compact" => \A a \in Alerts' : a.context = gauge.context => Reach(a.level) \subseteq mon'.reported
      BY <1>u, <2>l, <2>p DEF OnceInv, Reach
    <3>o. /\ ~mon.enabled => Alerts = {}
          /\ AllDiffer
          /\ \A x \in samples : Stale(x) \/ \A a \in Alerts : a.context = x.context => Reach(a.level) \subseteq mon.reported
          /\ hook.kind # "compact" => \A a \in Alerts : a.context = gauge.context => Reach(a.level) \subseteq mon.reported
      BY DEF OnceInv
    <3>1. \A a \in alertRows \union {told[i] : i \in DOMAIN told} : a.context = s.context => Reach(a.level) \subseteq mon.reported
      BY <1>2, <3>o DEF Alerts
    <3>2. AllDiffer'
      <4>1. alertRows \in SUBSET alertRows
        OBVIOUS
      <4>2. UNCHANGED told
        BY <1>u
      <4>3. \/ alertRows' = alertRows
            \/ alertRows' = alertRows \union {s} /\ \E t \in Reach(s.level) : t \notin mon.reported
        BY <2>l
      <4>4. AllDiffer /\ s \in Readings
        BY <3>o, <2>y
      <4> QED
        BY <1>T, <3>1, <4>1, <4>2, <4>3, <4>4, NewAlert
    <3> QED
      BY <3>o, <3>2, <2>A, <2>s, <1>u
  <2>4. ToldInv'
    <3> SUFFICES ASSUME mon.enabled, ~blind
                 PROVE  /\ hook.kind # "reset" => Backed(gauge.context)'
                        /\ hook.kind \in {"compact", "complete"} => mon'.reported = {}
                        /\ hook.kind # "reset" => \A x \in samples' : Stale(x)' \/ x.context = gauge.context
                        /\ sample.at # 0 /\ sample.context = gauge.context /\ hook.kind # "compact" =>
                             (sample \in samples' /\ ~Stale(sample)') \/ Reach(sample.level) \subseteq mon'.reported
      BY <1>u, <2>l, <2>p DEF ToldInv, Reach, Backed, Stale
    <3>o. /\ hook.kind # "reset" => Backed(gauge.context)
          /\ hook.kind # "reset" => \A x \in samples : Stale(x) \/ x.context = gauge.context
          /\ sample.at # 0 /\ sample.context = gauge.context /\ hook.kind # "compact" =>
               (sample \in samples /\ ~Stale(sample)) \/ Reach(sample.level) \subseteq mon.reported
      BY <2>p DEF ToldInv
    <3>1. hook.kind \notin {"compact", "complete"}
      BY <1>2 DEF BoundaryHolds, Stale
    <3>2. hook.kind # "reset" => Backed(gauge.context)'
      <4>1. \A t \in Reach(s.level) : s.level >= t
        BY <2>y DEF Reach
      <4> QED
        BY <2>A, <3>o, <1>2, <1>u, <4>1 DEF Backed
    <3>3. ASSUME sample.at # 0, sample \in samples, ~Stale(sample)
          PROVE  (sample \in samples' /\ ~Stale(sample)') \/ Reach(sample.level) \subseteq mon'.reported
      <4>1. CASE s = sample
        BY <4>1, <2>l
      <4>2. CASE s # sample
        <5>1. s.at < sample.at
          BY <4>2, <3>3 DEF Bearings
        <5> QED
          BY <4>2, <3>3, <5>1, <2>l, <2>y, <1>u DEF Stale
      <4> QED
        BY <4>1, <4>2
    <3> QED
      BY <3>o, <3>1, <3>2, <3>3, <2>s, <2>A, <1>u
  <2> QED
    BY <2>t, <2>1, <2>2, <2>3, <2>4
<1> QED
  BY <1>1, <1>2

\* What forgetting the snapshot leaves
LEMMA Forgetting ==
  ASSUME NEW m \in Monitors
  PROVE  /\ Forgotten(m) \in Monitors /\ Forgotten(m).enabled = m.enabled /\ Forgotten(m).reported = m.reported
         /\ Forgotten(m).boundary = m.boundary /\ Forgotten(m).at = 0
<1>1. -1 \in -1 .. MaxLevel
  BY MonitorNumbers
<1> QED
  BY <1>1 DEF Forgotten, Monitors

\* A hook of Claude is handled: the next cycle opens, or the snapshot is forgotten
LEMMA Hooking ==
  ASSUME MonitorInv, CompactionHook \/ CompleteHook \/ ContextResetHook
  PROVE  MonitorInv'
<1> USE MonitorNumbers DEF MonitorInv
<1>T. MonitorTypes
  OBVIOUS
<1>p. gauge.provider = "claude" /\ stream = <<>> /\ DOMAIN stream = {} /\ hook.kind # "none"
  BY DEF Bearings, NoHook, CompactionHook, CompleteHook, ContextResetHook
<1>y. /\ mon \in Monitors /\ mon.level \in Int /\ mon.at \in Nat /\ mon.boundary \in Nat /\ mon.reported \subseteq Thresholds
      /\ stamp \in Nat /\ hook.at \in Nat /\ hook \in [kind : HookKinds, at : Nat]
      /\ (\A x \in samples : x.at \in Nat /\ x.context \in Nat)
  BY <1>T, MonitorTyped, ReadingFields DEF MonitorTypes
<1>u. UNCHANGED <<gauge, samples, stream, told, sample, blind, stamp, switches, monitorCrashes>> /\ alertRows' \subseteq alertRows
  BY DEF CompactionHook, CompleteHook, ContextResetHook
<1>A. Alerts' \subseteq Alerts
  BY <1>u DEF Alerts
<1>h. NoHook \in [kind : HookKinds, at : Nat] /\ NoHook.kind = "none" /\ NoHook.at = 0
  BY DEF HookKinds, NoHook
<1>1. CASE CompactionHook
  <2>m. mon' \in Monitors /\ mon'.enabled = mon.enabled /\ mon'.reported = {} /\ mon'.boundary = hook.at /\ mon'.at = mon.at
    BY <1>1, <1>y DEF CompactionHook, Rearmed, Monitors
  <2>k. hook'.kind = "compact" /\ hook'.at = hook.at /\ hook' \in [kind : HookKinds, at : Nat] /\ alertRows' = alertRows /\ hook.kind = "compaction"
    BY <1>1, <1>y DEF CompactionHook, HookKinds
  <2>b. \A s \in samples : s.at <= hook.at /\ hook.at # 0
    BY <1>p, <1>y DEF Bearings
  <2>s. \A s \in samples : Stale(s)'
    BY <2>b, <2>m DEF Stale
  <2>a. Alerts' = Alerts
    BY <2>k, <1>u DEF Alerts
  <2>t. MonitorTypes'
    BY <2>m, <2>k, <1>u DEF MonitorTypes
  <2>1. Bearings' /\ BoundaryHolds'
    BY <2>m, <2>k, <2>b, <1>u, <2>a, <1>p DEF Bearings, BoundaryHolds
  <2>2. InSequence' /\ ReadSoFar'
    BY <1>p, <1>u DEF InSequence, ReadSoFar
  <2>3. AllDiffer => AllDiffer'
    BY <1>u, <2>k DEF AllDiffer
  <2>4. OnceInv'
    BY <2>3, <2>m, <2>k, <2>s, <2>a, <1>u, <1>p DEF OnceInv
  <2>5. ToldInv'
    BY <2>m, <2>k, <2>s, <1>u, <1>p DEF ToldInv, Backed
  <2> QED
    BY <2>t, <2>1, <2>2, <2>4, <2>5
<1>2. CASE CompleteHook
  <2>m. mon' \in Monitors /\ mon'.enabled = mon.enabled /\ mon'.reported = mon.reported /\ mon'.boundary = mon.boundary /\ mon'.at = 0
    <3>1. PICK m \in Monitors : m.enabled = mon.enabled /\ m.reported = mon.reported /\ m.boundary = mon.boundary /\ mon' = Forgotten(m)
      <4>1. /\ [mon EXCEPT !.compacting = FALSE] \in Monitors /\ [mon EXCEPT !.compacting = FALSE].enabled = mon.enabled
            /\ [mon EXCEPT !.compacting = FALSE].reported = mon.reported /\ [mon EXCEPT !.compacting = FALSE].boundary = mon.boundary
        BY <1>y DEF Monitors
      <4> QED
        BY <4>1, <1>2 DEF CompleteHook
    <3> QED
      BY <3>1, Forgetting
  <2>k. hook' = NoHook /\ alertRows' = alertRows /\ hook.kind = "complete"
    BY <1>2 DEF CompleteHook
  <2>s. ~blind => \A s \in samples : Stale(s)'
    BY <2>m, <2>k DEF Stale, BoundaryHolds
  <2>a. Alerts' = Alerts
    BY <2>k, <1>u DEF Alerts
  <2>t. MonitorTypes'
    BY <2>m, <2>k, <1>u, <1>h DEF MonitorTypes
  <2>1. Bearings' /\ BoundaryHolds'
    BY <2>m, <2>k, <1>u, <2>a, <1>p, <1>h, <1>y DEF Bearings, BoundaryHolds
  <2>2. InSequence' /\ ReadSoFar'
    BY <1>p, <1>u DEF InSequence, ReadSoFar
  <2>3. AllDiffer => AllDiffer'
    BY <1>u, <2>k DEF AllDiffer
  <2>c. sample.context # gauge.context /\ \A a \in Alerts : a.context # gauge.context
    BY <2>k, <1>T, MonitorTyped, ReadingFields DEF Bearings
  <2>4. OnceInv'
    BY <2>3, <2>m, <2>k, <2>s, <2>a, <2>c, <1>u, <1>p, <1>h DEF OnceInv
  <2>5. ToldInv'
    <3> SUFFICES ASSUME mon.enabled, ~blind PROVE mon'.reported = {}
      BY <2>m, <2>k, <2>s, <2>c, <1>u, <1>p, <1>h DEF ToldInv, Backed
    <3> QED
      BY <2>m, <2>k, <1>p DEF ToldInv
  <2> QED
    BY <2>t, <2>1, <2>2, <2>4, <2>5
<1>3. CASE ContextResetHook
  <2>m. mon' \in Monitors /\ mon'.enabled = mon.enabled /\ mon'.reported = {} /\ mon'.boundary = hook.at /\ mon'.at = 0
    <3>1. PICK m \in Monitors : m.enabled = mon.enabled /\ m.reported = {} /\ m.boundary = hook.at /\ mon' = Forgotten(m)
      <4> DEFINE m == [Rearmed(mon) EXCEPT !.boundary = hook.at, !.compacting = FALSE]
      <4>1. m \in Monitors /\ m.enabled = mon.enabled /\ m.reported = {} /\ m.boundary = hook.at
        BY <1>y DEF Rearmed, Monitors
      <4> QED
        BY <4>1, <1>3 DEF ContextResetHook
    <3> QED
      BY <3>1, Forgetting
  <2>k. hook' = NoHook /\ alertRows' = {} /\ hook.kind = "reset"
    BY <1>3 DEF ContextResetHook
  <2>b. \A s \in samples : s.at <= hook.at /\ hook.at # 0
    BY <1>p, <1>y DEF Bearings
  <2>s. \A s \in samples : Stale(s)'
    BY <2>b, <2>m DEF Stale
  <2>t. MonitorTypes'
    BY <2>m, <2>k, <1>u, <1>h DEF MonitorTypes
  <2>1. Bearings' /\ BoundaryHolds'
    BY <2>m, <2>k, <1>u, <1>A, <1>p, <1>h, <1>y DEF Bearings, BoundaryHolds
  <2>2. InSequence' /\ ReadSoFar'
    BY <1>p, <1>u DEF InSequence, ReadSoFar
  <2>3. AllDiffer => AllDiffer'
    BY <1>u, <2>k DEF AllDiffer
  <2>c. sample.context # gauge.context /\ \A a \in Alerts : a.context # gauge.context
    BY <2>k, <1>T, MonitorTyped, ReadingFields DEF Bearings
  <2>4. OnceInv'
    BY <2>3, <2>m, <2>k, <2>s, <1>A, <2>c, <1>u, <1>p, <1>h DEF OnceInv
  <2>5. ToldInv'
    BY <2>m, <2>k, <2>s, <2>c, <1>u, <1>p, <1>h DEF ToldInv, Backed
  <2> QED
    BY <2>t, <2>1, <2>2, <2>4, <2>5
<1> QED
  BY <1>1, <1>2, <1>3

\* The monitor is switched on or off
LEMMA Switching ==
  ASSUME MonitorInv, NEW on \in BOOLEAN, SetContextMonitor(on)
  PROVE  MonitorInv'
<1> USE MonitorNumbers DEF MonitorInv
<1>T. MonitorTypes
  OBVIOUS
<1>y. /\ mon \in Monitors /\ mon.level \in Int /\ mon.at \in Nat /\ mon.boundary \in Nat /\ mon.reported \subseteq Thresholds
      /\ stamp \in Nat /\ switches \in Nat /\ gauge.context \in Nat /\ sample.context \in Nat
      /\ (\A x \in samples : x.at \in Nat /\ x.context \in Nat)
  BY <1>T, MonitorTyped, ReadingFields
<1>n. NoSample \in Readings /\ NoSample.at = 0 /\ NoSample.level = 0 /\ NoSample.context = 0
  BY DEF Readings, NoSample
<1>u. /\ UNCHANGED <<gauge, hook, samples, stream, told, stamp, monitorCrashes>> /\ switches' = switches + 1
      /\ alertRows' \subseteq alertRows /\ blind' \in BOOLEAN
      /\ ~blind' => ~blind /\ (on => samples = {})
      /\ on => sample' = NoSample /\ alertRows' = alertRows
      /\ ~on => sample' = sample /\ alertRows' = {}
  BY DEF SetContextMonitor, MonitorTypes
<1>A. Alerts' \subseteq Alerts
  BY <1>u DEF Alerts
<1>o. switches' <= 1 => switches = 0 /\ switches <= 1 /\ ~mon.enabled
  BY <1>u, <1>y DEF Bearings
<1>z. switches' # 0
  BY <1>u, <1>y
<1>e. switches' <= 1 /\ ~blind' => Alerts' = {} /\ (\A i \in DOMAIN told' : FALSE) /\ alertRows' = {}
  BY <1>o, <1>u, <1>A DEF OnceInv, Alerts
<1>m. /\ mon' \in Monitors /\ mon'.at = mon.at /\ mon'.level = mon.level
      /\ on => mon'.enabled /\ mon'.reported = {} /\ mon'.boundary = 0
      /\ ~on => ~mon'.enabled /\ mon'.reported = mon.reported /\ mon'.boundary = mon.boundary
  <2>1. CASE on
    BY <2>1, <1>y DEF SetContextMonitor, Rearmed, Monitors
  <2>2. CASE ~on
    BY <2>2, <1>y DEF SetContextMonitor, Monitors
  <2> QED
    BY <2>1, <2>2
<1>t. MonitorTypes'
  BY <1>m, <1>u, <1>n, <1>y, SMTT(60) DEF MonitorTypes
<1>1. Bearings' /\ BoundaryHolds'
  <2>0. mon'.boundary <= stamp
    BY <1>m, <1>y DEF Bearings
  <2>1. CASE on
    <3>1. hook.kind \in {"complete", "reset"} => 0 < gauge.context
      BY <1>y DEF Bearings
    <3> QED
      BY <2>0, <2>1, <3>1, <1>m, <1>u, <1>A, <1>y, <1>n, <1>z DEF Bearings, BoundaryHolds
  <2>2. CASE ~on
    BY <2>0, <2>2, <1>m, <1>u, <1>A, <1>z DEF Bearings, BoundaryHolds
  <2> QED
    BY <2>1, <2>2
<1>2. InSequence'
  <2>1. sample' = sample \/ sample'.at = 0
    BY <1>u, <1>n
  <2> QED
    BY <1>u, <1>A, <2>1 DEF InSequence
<1>3. ReadSoFar'
  <2>1. CASE on
    BY <2>1, <1>m, <1>u, <1>n DEF ReadSoFar
  <2>2. CASE ~on
    BY <2>2, <1>m, <1>u DEF ReadSoFar
  <2> QED
    BY <2>1, <2>2
<1>4. OnceInv'
  <2> SUFFICES ASSUME switches' <= 1, ~blind' PROVE AllDiffer' /\ Alerts' = {}
    BY DEF OnceInv
  <2> QED
    BY <1>e DEF AllDiffer
<1>5. ToldInv'
  <2>1. CASE on
    BY <2>1, <1>m, <1>u, <1>n DEF ToldInv, Backed, Reach
  <2>2. CASE ~on
    BY <2>2, <1>m DEF ToldInv
  <2> QED
    BY <2>1, <2>2
<1> QED
  BY <1>t, <1>1, <1>2, <1>3, <1>4, <1>5

\* An alert is delivered: it is an alert still
LEMMA Alerting ==
  ASSUME MonitorInv, NEW a \in alertRows, AlertDelivered(a)
  PROVE  MonitorInv'
<1> USE MonitorNumbers DEF MonitorInv
<1>T. MonitorTypes
  OBVIOUS
<1>y. told \in Seq(Readings) /\ Len(told) \in Nat /\ DOMAIN told = 1 .. Len(told) /\ a \in Readings
  BY <1>T, MonitorTyped DEF MonitorTypes
<1>u. /\ UNCHANGED <<gauge, hook, samples, stream, mon, sample, blind, stamp, switches, monitorCrashes>>
      /\ alertRows' = alertRows \ {a} /\ told' = Append(told, a)
  BY DEF AlertDelivered
<1>a. /\ told' \in Seq(Readings) /\ DOMAIN told' = 1 .. (Len(told) + 1)
      /\ (\A i \in DOMAIN told : told'[i] = told[i]) /\ told'[Len(told) + 1] = a
  BY <1>u, <1>y, AppendProperties
<1>d. /\ \A i \in DOMAIN told' : i \in DOMAIN told \/ i = Len(told) + 1
      /\ \A i \in DOMAIN told : i \in DOMAIN told' /\ i # Len(told) + 1
      /\ Len(told) + 1 \in DOMAIN told'
  BY <1>a, <1>y
<1>A. Alerts' = Alerts
  BY <1>a, <1>d, <1>u DEF Alerts
<1>r. (\A s : Stale(s)' <=> Stale(s)) /\ (\A c : Backed(c)' <=> Backed(c))
  BY <1>A, <1>u DEF Stale, Backed
<1>t. MonitorTypes'
  BY <1>u, <1>a DEF MonitorTypes
<1>1. Bearings' /\ BoundaryHolds' /\ InSequence' /\ ReadSoFar'
  BY <1>u, <1>A DEF Bearings, BoundaryHolds, InSequence, ReadSoFar
<1>2. AllDiffer => AllDiffer'
  <2> SUFFICES ASSUME AllDiffer PROVE AllDiffer'
    OBVIOUS
  <2>1. \A b \in alertRows' : b \in alertRows /\ b # a
    BY <1>u
  <2>2. \A b, c : Differ(b, c) <=> Differ(c, b)
    BY DEF Differ
  <2>3. \A b \in alertRows' : \A i \in DOMAIN told' : Differ(b, told'[i])
    BY <1>a, <1>d, <2>1 DEF AllDiffer
  <2>4. \A i, j \in DOMAIN told' : i # j => Differ(told'[i], told'[j])
    BY <1>a, <1>d, <2>2 DEF AllDiffer
  <2>5. \A b, c \in alertRows' : b # c => Differ(b, c)
    BY <2>1 DEF AllDiffer
  <2> QED
    BY <2>3, <2>4, <2>5 DEF AllDiffer, Differ
<1>3. OnceInv'
  BY <1>u, <1>A, <1>r, <1>2 DEF OnceInv
<1>4. ToldInv'
  BY <1>u, <1>A, <1>r DEF ToldInv
<1> QED
  BY <1>t, <1>1, <1>3, <1>4

\* A usage of Codex is read: a smaller one begins the next cycle
LEMMA UsageReading ==
  ASSUME MonitorTypes, NEW s \in Readings, UsageRead(s), UNCHANGED told,
         \A t \in mon.reported : t <= mon.level
  PROVE  /\ mon' \in Monitors /\ alertRows' \subseteq Readings /\ \A a \in alertRows' : a.level # 0
         /\ mon'.enabled = mon.enabled /\ mon'.level = s.level /\ mon'.boundary \in {0, mon.boundary}
         /\ mon.enabled => Reach(s.level) \subseteq mon'.reported
         /\ \A t \in mon'.reported : t <= s.level
         /\ Alerts' \subseteq Alerts \union {s} /\ (~mon.enabled => Alerts' \subseteq Alerts)
         /\ s \in Alerts' \ Alerts => Reach(s.level) \subseteq mon'.reported
         /\ s.level >= mon.level => mon.reported \subseteq mon'.reported
         /\ s.level < mon.level \/ Backed(s.context) => Backed(s.context)'
         /\ AllDiffer /\ (\A a \in Alerts : a.context = s.context => Reach(a.level) \subseteq mon.reported /\ s.level >= mon.level)
              => AllDiffer'
<1> USE MonitorNumbers
<1>y. mon \in Monitors /\ mon.level \in Int /\ mon.reported \subseteq Thresholds /\ s.level \in Int /\ s.level \in 0 .. MaxLevel /\ s.at \in Nat
      /\ \A t \in Thresholds : t \in Int
  BY MonitorTyped, ReadingFields
<1> DEFINE rows == IF s.level < mon.level THEN {} ELSE alertRows
<1>m. PICK m \in Monitors : /\ m.enabled = mon.enabled /\ m.level = s.level /\ m.boundary \in {0, mon.boundary}
                            /\ m.reported = (IF s.level < mon.level THEN {} ELSE mon.reported)
                            /\ Latch(m, rows, s)
  <2>0. s.level \in -1 .. MaxLevel
    BY <1>y
  <2>1. CASE s.level < mon.level
    <3>1. NextCycle(mon, s) = Rearmed(mon)
      BY <2>1 DEF NextCycle
    <3> DEFINE m == [Rearmed(mon) EXCEPT !.level = s.level, !.at = s.at]
    <3>2. m \in Monitors /\ m.enabled = mon.enabled /\ m.level = s.level /\ m.boundary = 0 /\ m.reported = {}
      BY <1>y, <2>0 DEF Rearmed, Monitors
    <3> QED
      BY <2>1, <3>1, <3>2 DEF UsageRead
  <2>2. CASE ~(s.level < mon.level)
    <3>1. NextCycle(mon, s) = mon
      BY <2>2 DEF NextCycle
    <3> DEFINE m == [mon EXCEPT !.level = s.level, !.at = s.at]
    <3>2. m \in Monitors /\ m.enabled = mon.enabled /\ m.level = s.level /\ m.boundary = mon.boundary /\ m.reported = mon.reported
      BY <1>y, <2>0 DEF Monitors
    <3> QED
      BY <2>2, <3>1, <3>2 DEF UsageRead
  <2> QED
    BY <2>1, <2>2
<1>1. rows \in SUBSET alertRows
  OBVIOUS
<1> HIDE DEF rows
<1>l. /\ mon' \in Monitors /\ alertRows' \subseteq Readings /\ \A a \in alertRows' : a.level # 0
      /\ mon'.enabled = m.enabled /\ mon'.boundary = m.boundary /\ mon'.level = m.level
      /\ m.enabled => Reach(s.level) \subseteq mon'.reported
      /\ \/ alertRows' = rows /\ mon'.reported = m.reported
         \/ /\ alertRows' = rows \union {s} /\ m.enabled /\ mon'.reported = m.reported \union Reach(s.level)
            /\ \E t \in Reach(s.level) : t \notin m.reported
  BY <1>m, <1>1, Latching
<1>2. Alerts' \subseteq Alerts \union {s} /\ (~mon.enabled => Alerts' \subseteq Alerts)
      /\ (s \in Alerts' \ Alerts => Reach(s.level) \subseteq mon'.reported)
  BY <1>l, <1>1, <1>m DEF Alerts
<1>3. \A t \in mon'.reported : t <= s.level
  <2>1. \A t \in Reach(s.level) : t <= s.level
    BY DEF Reach
  <2>2. \A t \in m.reported : t <= s.level
    BY <1>m, <1>y
  <2> QED
    BY <2>1, <2>2, <1>l
<1>4. s.level >= mon.level => mon.reported \subseteq mon'.reported
  <2>1. s.level >= mon.level => m.reported = mon.reported
    BY <1>m, <1>y
  <2> QED
    BY <2>1, <1>l
<1>5. s.level < mon.level \/ Backed(s.context) => Backed(s.context)'
  <2>1. ASSUME s.level < mon.level \/ Backed(s.context), NEW t \in mon'.reported
        PROVE  \E a \in Alerts' : a.context = s.context /\ a.level >= t
    <3>1. CASE t \in m.reported
      <4>1. ~(s.level < mon.level) /\ t \in mon.reported
        BY <3>1, <1>m
      <4>2. Alerts \subseteq Alerts'
        BY <4>1, <1>l DEF rows, Alerts
      <4> QED
        BY <4>1, <4>2, <2>1 DEF Backed
    <3>2. CASE t \notin m.reported
      <4>1. t \in Reach(s.level) /\ s \in Alerts'
        BY <3>2, <1>l DEF Alerts
      <4>2. s.level >= t
        BY <4>1, <1>y DEF Reach
      <4> QED
        BY <4>1, <4>2
    <3> QED
      BY <3>1, <3>2
  <2> QED
    BY <2>1 DEF Backed
<1>6. ASSUME AllDiffer, \A a \in Alerts : a.context = s.context => Reach(a.level) \subseteq mon.reported /\ s.level >= mon.level
      PROVE  AllDiffer'
  <2>1. \A a \in rows \union {told[i] : i \in DOMAIN told} : a.context = s.context => Reach(a.level) \subseteq m.reported
    <3> SUFFICES ASSUME NEW a \in rows \union {told[i] : i \in DOMAIN told}, a.context = s.context PROVE Reach(a.level) \subseteq m.reported
      OBVIOUS
    <3>1. a \in Alerts
      BY <1>1 DEF Alerts
    <3>2. Reach(a.level) \subseteq mon.reported /\ s.level >= mon.level
      BY <3>1, <1>6
    <3>3. m.reported = mon.reported
      BY <3>2, <1>m, <1>y
    <3> QED
      BY <3>2, <3>3
  <2>2. \/ alertRows' = rows
        \/ alertRows' = rows \union {s} /\ \E t \in Reach(s.level) : t \notin m.reported
    BY <1>l
  <2> QED
    BY <1>1, <2>1, <2>2, <1>6, NewAlert
<1> QED
  BY <1>l, <1>m, <1>2, <1>3, <1>4, <1>5, <1>6

\* Codex's next event is read
LEMMA Streaming ==
  ASSUME MonitorInv, StreamRead
  PROVE  MonitorInv'
<1> USE MonitorNumbers DEF MonitorInv
<1>T. MonitorTypes
  OBVIOUS
<1>u. /\ stream # <<>> /\ stream' = Tail(stream) /\ UsageRead(Head(stream))
      /\ UNCHANGED <<gauge, hook, samples, told, sample, blind, stamp, switches, monitorCrashes>>
  BY DEF StreamRead
<1>p. gauge.provider # "claude" /\ hook = NoHook /\ hook.kind = "none" /\ samples = {}
  BY <1>u DEF Bearings, NoHook
<1>y. /\ gauge.level \in Int /\ gauge.context \in Nat /\ mon.level \in Int /\ mon.boundary \in Nat /\ stamp \in Nat
      /\ stream \in Seq(Readings) /\ Len(stream) \in Nat /\ DOMAIN stream = 1 .. Len(stream)
  BY <1>T, MonitorTyped
<1>f. /\ \A i \in DOMAIN stream : stream[i] \in Readings /\ stream[i].level \in Int /\ stream[i].level >= 0 /\ stream[i].context \in Nat
      /\ \A a \in Alerts : a.context \in Nat
  BY <1>T, MonitorTyped, ReadingFields
<1>n. Len(stream) > 0 /\ 1 \in DOMAIN stream /\ Len(stream) \in DOMAIN stream
  BY <1>u, <1>y, EmptySeq
<1>h. /\ Head(stream) = stream[1] /\ stream' \in Seq(Readings) /\ Len(stream') = Len(stream) - 1
      /\ DOMAIN stream' = 1 .. (Len(stream) - 1)
  BY <1>u, <1>y, HeadTailProperties, LenProperties
<1>i. \A i \in DOMAIN stream' : i + 1 \in DOMAIN stream /\ stream'[i] = stream[i + 1]
  BY <1>u, <1>y, <1>h, HeadTailProperties
<1>o. stream' = <<>> <=> Len(stream) = 1
  BY <1>h, <1>y, EmptySeq
<1>q. PICK s \in Readings : s = stream[1] /\ UsageRead(s)
  BY <1>h, <1>n, <1>f, <1>u
<1>R. \A t \in mon.reported : t <= mon.level
  BY <1>p DEF ReadSoFar
<1>l. /\ mon' \in Monitors /\ alertRows' \subseteq Readings /\ \A a \in alertRows' : a.level # 0
      /\ mon'.enabled = mon.enabled /\ mon'.level = s.level /\ mon'.boundary \in {0, mon.boundary}
      /\ mon.enabled => Reach(s.level) \subseteq mon'.reported
      /\ \A t \in mon'.reported : t <= s.level
      /\ Alerts' \subseteq Alerts \union {s} /\ (~mon.enabled => Alerts' \subseteq Alerts)
      /\ s \in Alerts' \ Alerts => Reach(s.level) \subseteq mon'.reported
      /\ s.level >= mon.level => mon.reported \subseteq mon'.reported
      /\ s.level < mon.level \/ Backed(s.context) => Backed(s.context)'
      /\ AllDiffer /\ (\A a \in Alerts : a.context = s.context => Reach(a.level) \subseteq mon.reported /\ s.level >= mon.level)
           => AllDiffer'
  BY <1>T, <1>R, <1>q, <1>u, UsageReading
<1>s. s.level \in Int /\ s.level >= 0 /\ s.context \in Nat /\ s.context <= gauge.context /\ (s.context = gauge.context => s.level <= gauge.level)
  BY <1>q, <1>n, <1>f DEF InSequence
<1>k. \A k \in DOMAIN stream : s.context <= stream[k].context /\ (s.context = stream[k].context => s.level <= stream[k].level)
  <2> SUFFICES ASSUME NEW k \in DOMAIN stream
               PROVE  s.context <= stream[k].context /\ (s.context = stream[k].context => s.level <= stream[k].level)
    OBVIOUS
  <2>1. CASE k = 1
    BY <2>1, <1>q, <1>s
  <2>2. CASE k # 1
    BY <2>2, <1>q, <1>n, <1>y DEF InSequence
  <2> QED
    BY <2>1, <2>2
<1>A. \A a \in Alerts' : a.context \in Nat /\ a.context <= s.context
  BY <1>l, <1>f, <1>n, <1>q, <1>s DEF InSequence
<1>t. MonitorTypes'
  BY <1>u, <1>l, <1>h DEF MonitorTypes
<1>1. Bearings' /\ BoundaryHolds'
  <2>1. \A a \in Alerts' : a.context <= gauge.context
    BY <1>A, <1>s, <1>y
  <2>2. mon'.boundary <= stamp
    BY <1>l, <1>y DEF Bearings
  <2> QED
    BY <2>1, <2>2, <1>u, <1>p, <1>l DEF Bearings, BoundaryHolds
<1>2. InSequence'
  <2>1. ASSUME NEW i \in DOMAIN stream', NEW k \in DOMAIN stream', i < k
        PROVE  /\ stream'[i].context <= stream'[k].context
               /\ stream'[i].context = stream'[k].context => stream'[i].level <= stream'[k].level
               /\ stream'[i].context # stream'[k].context => \E j \in (i + 1) .. k : stream'[j].level = 0
               /\ k = i + 1 /\ stream'[i].context # stream'[k].context => stream'[i].level > 0
    <3>1. /\ i + 1 \in DOMAIN stream /\ k + 1 \in DOMAIN stream /\ i + 1 < k + 1 /\ stream'[i] = stream[i + 1] /\ stream'[k] = stream[k + 1]
          /\ (k = i + 1 => k + 1 = (i + 1) + 1)
      BY <2>1, <1>i, <1>h, <1>y
    <3>2. /\ stream[i + 1].context <= stream[k + 1].context
          /\ stream[i + 1].context = stream[k + 1].context => stream[i + 1].level <= stream[k + 1].level
          /\ stream[i + 1].context # stream[k + 1].context => \E j \in ((i + 1) + 1) .. (k + 1) : stream[j].level = 0
          /\ k + 1 = (i + 1) + 1 /\ stream[i + 1].context # stream[k + 1].context => stream[i + 1].level > 0
      BY <3>1 DEF InSequence
    <3>3. ASSUME stream[i + 1].context # stream[k + 1].context PROVE \E j \in (i + 1) .. k : stream'[j].level = 0
      <4>1. PICK j \in ((i + 1) + 1) .. (k + 1) : stream[j].level = 0
        BY <3>2, <3>3
      <4>2. j - 1 \in (i + 1) .. k /\ j - 1 \in DOMAIN stream' /\ (j - 1) + 1 = j
        BY <2>1, <1>h, <1>y
      <4>3. stream'[j - 1] = stream[j]
        BY <4>2, <1>i
      <4> QED
        BY <4>1, <4>2, <4>3
    <3> QED
      BY <3>1, <3>2, <3>3
  <2>2. ASSUME NEW i \in DOMAIN stream'
        PROVE  /\ stream'[i].context <= gauge.context
               /\ stream'[i].context = gauge.context => stream'[i].level <= gauge.level
               /\ i = Len(stream') => stream'[i].context = gauge.context /\ (sample.at # 0 => stream'[i] = sample)
               /\ \A a \in Alerts' : a.context <= stream'[i].context
    <3>1. i + 1 \in DOMAIN stream /\ stream'[i] = stream[i + 1] /\ (i = Len(stream') => i + 1 = Len(stream))
      BY <1>i, <1>h, <1>y
    <3>2. \A a \in Alerts' : a.context <= stream[i + 1].context
      BY <3>1, <1>A, <1>k, <1>f, <1>s
    <3> QED
      BY <3>1, <3>2 DEF InSequence
  <2> QED
    BY <2>1, <2>2, <1>u DEF InSequence
<1>3. ReadSoFar'
  <2>1. Len(stream) = 1 /\ sample.at # 0 => s = sample
    BY <1>q, <1>n DEF InSequence
  <2> QED
    BY <2>1, <1>o, <1>l, <1>u DEF ReadSoFar
<1>4. OnceInv'
  <2> SUFFICES ASSUME switches <= 1, ~blind
               PROVE  /\ ~mon'.enabled => Alerts' = {}
                      /\ AllDiffer'
                      /\ \A a \in Alerts' : a.context = gauge.context => Reach(a.level) \subseteq mon'.reported
                      /\ \A a \in Alerts' : \A i \in DOMAIN stream' : a.context = stream'[i].context =>
                           Reach(a.level) \subseteq mon'.reported /\ \A j \in 1 .. i : stream'[j].level >= mon'.level
                      /\ \A a \in Alerts' : a.context = gauge.context =>
                           gauge.level >= mon'.level /\ \A j \in DOMAIN stream' : stream'[j].level >= mon'.level
    BY <1>u, <1>p DEF OnceInv, Reach
  <2>o. /\ ~mon.enabled => Alerts = {}
        /\ AllDiffer
        /\ \A a \in Alerts : a.context = s.context => Reach(a.level) \subseteq mon.reported /\ s.level >= mon.level
    <3>1. 1 \in 1 .. 1
      OBVIOUS
    <3> QED
      BY <3>1, <1>p, <1>q, <1>n DEF OnceInv
  <2>1. \A a \in Alerts' : a.context = s.context => Reach(a.level) \subseteq mon'.reported
    BY <2>o, <1>l
  <2>2. ASSUME NEW a \in Alerts', NEW c \in Nat, a.context = c, s.context <= c PROVE s.context = c
    BY <2>2, <1>A, <1>s
  <2>3. ASSUME NEW a \in Alerts', NEW i \in DOMAIN stream', a.context = stream'[i].context
        PROVE  Reach(a.level) \subseteq mon'.reported /\ \A j \in 1 .. i : stream'[j].level >= mon'.level
    <3>1. i + 1 \in DOMAIN stream /\ stream'[i] = stream[i + 1]
      BY <1>i
    <3>2. s.context = stream[i + 1].context /\ a.context = s.context
      BY <3>1, <2>2, <2>3, <1>k, <1>f
    <3>3. ASSUME NEW j \in 1 .. i PROVE stream'[j].level >= mon'.level
      <4>1. j \in DOMAIN stream' /\ j + 1 \in DOMAIN stream /\ stream'[j] = stream[j + 1]
        BY <1>i, <1>h, <1>y
      <4>2. stream[j + 1].context <= stream[i + 1].context
        <5>1. CASE j = i
          BY <5>1, <3>1, <1>f
        <5>2. CASE j # i
          <6>1. j + 1 < i + 1
            BY <5>2, <1>h, <1>y
          <6> QED
            BY <6>1, <3>1, <4>1 DEF InSequence
        <5> QED
          BY <5>1, <5>2
      <4>3. s.context = stream[j + 1].context
        BY <4>1, <4>2, <3>2, <1>k, <1>f, <1>s
      <4> QED
        BY <4>1, <4>3, <1>k, <1>l, <1>s, <1>f
    <3> QED
      BY <3>2, <3>3, <2>1
  <2>4. ASSUME NEW a \in Alerts', a.context = gauge.context
        PROVE  /\ Reach(a.level) \subseteq mon'.reported
               /\ gauge.level >= mon'.level /\ \A j \in DOMAIN stream' : stream'[j].level >= mon'.level
    <3>1. s.context = gauge.context
      BY <2>4, <2>2, <1>s, <1>y
    <3>2. gauge.level >= mon'.level
      BY <3>1, <1>s, <1>l, <1>y
    <3>3. ASSUME NEW j \in DOMAIN stream' PROVE stream'[j].level >= mon'.level
      <4>1. j + 1 \in DOMAIN stream /\ stream'[j] = stream[j + 1]
        BY <1>i
      <4>2. stream[j + 1].context <= gauge.context
        BY <4>1 DEF InSequence
      <4>3. s.context = stream[j + 1].context
        BY <4>1, <4>2, <3>1, <1>k, <1>f, <1>y
      <4> QED
        BY <4>1, <4>3, <1>k, <1>l, <1>s, <1>f
    <3> QED
      BY <3>1, <3>2, <3>3, <2>1, <2>4
  <2> QED
    BY <2>o, <2>3, <2>4, <1>l
<1>5. ToldInv'
  <2> SUFFICES ASSUME mon.enabled, ~blind
               PROVE  /\ stream' = <<>> => Backed(gauge.context)' /\ (sample.at # 0 => Reach(sample.level) \subseteq mon'.reported)
                      /\ stream' # <<>> => stream'[1].level < mon'.level \/ Backed(stream[1].context)'
    BY <1>u, <1>p, <1>l DEF ToldInv, Reach, Backed
  <2>1. Backed(s.context)'
    BY <1>l, <1>u, <1>q, <1>p DEF ToldInv
  <2>2. CASE stream' = <<>>
    <3>1. s.context = gauge.context /\ (sample.at # 0 => s = sample)
      BY <2>2, <1>o, <1>q, <1>n DEF InSequence
    <3> QED
      BY <2>1, <2>2, <3>1, <1>l, <1>u DEF Backed
  <2>3. CASE stream' # <<>>
    <3>1. 1 \in DOMAIN stream' /\ 2 \in DOMAIN stream /\ stream'[1] = stream[2]
      <4>1. 1 \in DOMAIN stream'
        BY <2>3, <1>o, <1>h, <1>n, <1>y
      <4>2. 1 + 1 = 2
        OBVIOUS
      <4> QED
        BY <4>1, <4>2, <1>i
    <3>2. CASE stream[2].context = s.context
      BY <3>1, <3>2, <2>1 DEF Backed
    <3>3. CASE stream[2].context # s.context
      <4>1. /\ \E j \in (1 + 1) .. 2 : stream[j].level = 0
            /\ stream[1].level > 0
        <5>1. 1 < 2 /\ 2 = 1 + 1
          OBVIOUS
        <5> QED
          BY <3>1, <3>3, <5>1, <1>n, <1>q DEF InSequence
      <4>2. stream[2].level = 0
        BY <4>1
      <4> QED
        BY <4>1, <4>2, <3>1, <1>l, <1>q
    <3> QED
      BY <3>2, <3>3
  <2> QED
    BY <2>2, <2>3
<1> QED
  BY <1>t, <1>1, <1>2, <1>3, <1>4, <1>5

\* The server restarts: the hook of Claude fails, and Codex's last usage is read
LEMMA MonitorRestarting ==
  ASSUME MonitorInv, MonitorCrash
  PROVE  MonitorInv'
<1> USE MonitorNumbers DEF MonitorInv
<1>T. MonitorTypes
  OBVIOUS
<1>u. /\ stream' = <<>> /\ monitorCrashes' = monitorCrashes + 1 /\ UNCHANGED <<gauge, samples, told, sample, stamp, switches>>
      /\ blind' = (blind \/ hook.kind \in {"compaction", "reset"} \/ \E i \in DOMAIN stream : stream[i].level < mon.level)
  BY DEF MonitorCrash
<1>b. /\ blind' \in BOOLEAN /\ monitorCrashes' \in Nat
      /\ ~blind' => ~blind /\ hook.kind \notin {"compaction", "reset"} /\ \A i \in DOMAIN stream : ~(stream[i].level < mon.level)
  <2>1. monitorCrashes' \in Nat
    BY <1>u DEF MonitorTypes
  <2>2. /\ blind' \in BOOLEAN
        /\ ~blind' => ~blind /\ hook.kind \notin {"compaction", "reset"} /\ \A i \in DOMAIN stream : ~(stream[i].level < mon.level)
    BY <1>u, Zenon
  <2> QED
    BY <2>1, <2>2
<1>h. NoHook \in [kind : HookKinds, at : Nat] /\ NoHook.kind = "none" /\ NoHook.at = 0
  BY DEF HookKinds, NoHook
<1>k. /\ hook' \in [kind : HookKinds, at : Nat]
      /\ hook.kind \in {"compaction", "compact"} => hook'.kind = "compact" /\ hook'.at = hook.at
      /\ hook.kind \notin {"compaction", "compact"} => hook' = NoHook
  <2>1. hook \in [kind : HookKinds, at : Nat]
    BY DEF MonitorTypes
  <2>2. /\ [hook EXCEPT !.kind = "compact"] \in [kind : HookKinds, at : Nat]
        /\ [hook EXCEPT !.kind = "compact"].kind = "compact" /\ [hook EXCEPT !.kind = "compact"].at = hook.at
    BY <2>1 DEF HookKinds
  <2> QED
    BY <2>1, <2>2, <1>h DEF MonitorCrash
<1>s. stream' \in Seq(Readings) /\ DOMAIN stream' = {}
  BY <1>u, EmptySeq
<1>2. InSequence'
  BY <1>s DEF InSequence
<1>y. /\ gauge.level \in Int /\ gauge.context \in Nat /\ mon.level \in Int /\ mon.boundary \in Nat /\ stamp \in Nat /\ hook.at \in Nat
      /\ stream \in Seq(Readings) /\ Len(stream) \in Nat /\ DOMAIN stream = 1 .. Len(stream) /\ mon.reported \subseteq Thresholds
  BY <1>T, MonitorTyped
<1>f. /\ \A i \in DOMAIN stream : stream[i] \in Readings /\ stream[i].level \in Int /\ stream[i].level >= 0 /\ stream[i].context \in Nat
      /\ \A a \in Alerts : a.context \in Nat
  BY <1>T, MonitorTyped, ReadingFields
<1>3. CASE stream = <<>>
  <2>u. UNCHANGED <<mon, alertRows>>
    BY <1>3 DEF MonitorCrash
  <2>r. Alerts' = Alerts /\ (\A x : Stale(x)' <=> Stale(x)) /\ (\A c : Backed(c)' <=> Backed(c)) /\ (AllDiffer => AllDiffer')
    BY <2>u, <1>u, MonitorRests DEF AllDiffer
  <2>t. MonitorTypes'
    BY <2>u, <1>u, <1>b, <1>k, <1>s DEF MonitorTypes
  <2>1. Bearings' /\ BoundaryHolds' /\ ReadSoFar'
    <3>1. Bearings'
      BY <2>u, <2>r, <1>u, <1>h, <1>k, <1>y DEF Bearings, NoHook
    <3>2. BoundaryHolds'
      BY <2>u, <1>u, <1>b, <1>h, <1>k DEF BoundaryHolds
    <3>3. ReadSoFar'
      BY <2>u, <1>u, <1>3 DEF ReadSoFar
    <3> QED
      BY <3>1, <3>2, <3>3
  <2>c. hook.kind = "complete" => sample.context # gauge.context /\ \A a \in Alerts : a.context # gauge.context
    BY <1>T, MonitorTyped, ReadingFields DEF Bearings
  <2>2. OnceInv'
    BY <2>u, <2>r, <2>c, <1>u, <1>b, <1>h, <1>k, <1>s DEF OnceInv, Reach
  <2>3. ToldInv'
    BY <2>u, <2>r, <2>c, <1>u, <1>b, <1>h, <1>k, <1>3 DEF ToldInv, Reach
  <2> QED
    BY <2>t, <2>1, <2>2, <2>3, <1>2
<1>4. CASE stream # <<>>
  <2>p. gauge.provider # "claude" /\ hook = NoHook /\ hook.kind = "none" /\ samples = {} /\ hook' = NoHook
    BY <1>4, <1>k DEF Bearings, NoHook
  <2>n. Len(stream) > 0 /\ 1 \in DOMAIN stream /\ Len(stream) \in DOMAIN stream
    BY <1>4, <1>y, EmptySeq
  <2>q. PICK s \in Readings : s = stream[Len(stream)] /\ UsageRead(s)
    BY <1>4, <2>n, <1>f DEF MonitorCrash, Last
  <2>R. \A t \in mon.reported : t <= mon.level
    BY <2>p DEF ReadSoFar
  <2>l. /\ mon' \in Monitors /\ alertRows' \subseteq Readings /\ \A a \in alertRows' : a.level # 0
        /\ mon'.enabled = mon.enabled /\ mon'.level = s.level /\ mon'.boundary \in {0, mon.boundary}
        /\ mon.enabled => Reach(s.level) \subseteq mon'.reported
        /\ \A t \in mon'.reported : t <= s.level
        /\ Alerts' \subseteq Alerts \union {s} /\ (~mon.enabled => Alerts' \subseteq Alerts)
        /\ s \in Alerts' \ Alerts => Reach(s.level) \subseteq mon'.reported
        /\ s.level >= mon.level => mon.reported \subseteq mon'.reported
        /\ s.level < mon.level \/ Backed(s.context) => Backed(s.context)'
        /\ AllDiffer /\ (\A a \in Alerts : a.context = s.context => Reach(a.level) \subseteq mon.reported /\ s.level >= mon.level)
             => AllDiffer'
    BY <1>T, <2>R, <2>q, <1>u, UsageReading
  <2>s. /\ s.level \in Int /\ s.level >= 0 /\ s.context \in Nat /\ s.context = gauge.context /\ s.level <= gauge.level
        /\ (sample.at # 0 => s = sample)
    BY <2>q, <2>n, <1>f DEF InSequence
  <2>A. \A a \in Alerts' : a.context <= gauge.context
    BY <2>l, <2>s, <1>y DEF Bearings
  <2>t. MonitorTypes'
    BY <1>u, <1>b, <1>k, <1>s, <2>l DEF MonitorTypes
  <2>1. Bearings' /\ BoundaryHolds' /\ ReadSoFar'
    <3>1. mon'.boundary <= stamp
      BY <2>l, <1>y DEF Bearings
    <3>2. Bearings'
      BY <3>1, <2>A, <2>p, <1>h, <1>u, <2>l DEF Bearings
    <3>3. BoundaryHolds'
      BY <2>p, <1>h DEF BoundaryHolds
    <3>4. ReadSoFar'
      BY <2>l, <2>s, <1>u DEF ReadSoFar
    <3> QED
      BY <3>2, <3>3, <3>4
  <2>g. ~blind' => s.level >= mon.level
    BY <1>b, <2>q, <2>n, <1>y, <2>s
  <2>2. OnceInv'
    <3> SUFFICES ASSUME switches <= 1, ~blind'
                 PROVE  /\ ~mon'.enabled => Alerts' = {}
                        /\ AllDiffer'
                        /\ \A a \in Alerts' : a.context = gauge.context => Reach(a.level) \subseteq mon'.reported /\ gauge.level >= mon'.level
      BY <1>u, <1>s, <2>p DEF OnceInv, Reach
    <3>1. /\ ~mon.enabled => Alerts = {}
          /\ AllDiffer
          /\ \A a \in Alerts : a.context = s.context => Reach(a.level) \subseteq mon.reported
      BY <1>b, <2>p, <2>s DEF OnceInv
    <3>2. AllDiffer'
      BY <3>1, <2>g, <2>l
    <3> QED
      BY <3>1, <3>2, <2>g, <2>l, <2>s, <1>y
  <2>3. ToldInv'
    <3> SUFFICES ASSUME mon.enabled, ~blind' PROVE Backed(s.context) /\ Reach(s.level) \subseteq mon'.reported
      <4>1. ASSUME mon.enabled, ~blind' PROVE Backed(gauge.context)' /\ (sample.at # 0 => Reach(sample.level) \subseteq mon'.reported)
        BY <4>1, <2>l, <2>s, <1>u DEF Backed
      <4> QED
        BY <4>1, <1>u, <2>p, <2>l DEF ToldInv, Reach, Backed
    <3>1. Backed(stream[1].context)
      BY <1>4, <1>b, <2>p, <2>n DEF ToldInv
    <3>2. CASE stream[1].context = s.context
      BY <3>1, <3>2, <2>l
    <3>3. CASE stream[1].context # s.context
      <4>1. 1 < Len(stream)
        BY <3>3, <2>q, <2>n, <1>y
      <4>2. PICK j \in (1 + 1) .. Len(stream) : stream[j].level = 0
        BY <3>3, <4>1, <2>n, <2>q DEF InSequence
      <4>3. j \in DOMAIN stream
        BY <1>y
      <4>4. ~(0 < mon.level)
        BY <4>2, <4>3, <1>b
      <4>5. mon.reported = {}
        <5>1. \A t \in mon.reported : t \in Int /\ t >= 1
          BY <1>y
        <5>2. mon.level <= 0
          BY <4>4, <1>y
        <5> QED
          BY <5>1, <5>2, <2>R, <1>y
      <4> QED
        BY <4>5, <2>l DEF Backed
    <3> QED
      BY <3>2, <3>3
  <2> QED
    BY <2>t, <2>1, <2>2, <2>3, <1>2
<1> QED
  BY <1>3, <1>4

LEMMA MonitorStarts == MonitorInit => MonitorInv
<1> SUFFICES ASSUME MonitorInit PROVE MonitorInv
  OBVIOUS
<1> USE MonitorNumbers
<1>1. PICK p \in MonitorProviders : gauge = [provider |-> p, level |-> 0, context |-> 0]
  BY DEF MonitorInit
<1>2. gauge \in Gauges /\ gauge.level = 0 /\ gauge.context = 0
  BY <1>1 DEF Gauges
<1>3. NoSample \in Readings /\ NoSample.at = 0 /\ NoSample.level = 0 /\ NoSample.context = 0
  BY DEF Readings, NoSample
<1>4. NoHook \in [kind : HookKinds, at : Nat] /\ NoHook.kind = "none" /\ NoHook.at = 0
  BY DEF HookKinds, NoHook
<1>5. mon \in Monitors /\ mon.enabled = FALSE /\ mon.reported = {} /\ mon.boundary = 0 /\ mon.at = 0
  <2>1. -1 \in -1 .. MaxLevel
    OBVIOUS
  <2> QED
    BY <2>1 DEF MonitorInit, Monitors
<1>6. /\ hook = NoHook /\ samples = {} /\ stream = <<>> /\ alertRows = {} /\ told = <<>> /\ sample = NoSample /\ blind = FALSE
      /\ stamp = 0 /\ switches = 0 /\ monitorCrashes = 0
  BY DEF MonitorInit
<1>7. stream \in Seq(Readings) /\ told \in Seq(Readings) /\ DOMAIN stream = {} /\ DOMAIN told = {}
  BY <1>6, EmptySeq
<1>8. Alerts = {}
  BY <1>6, <1>7 DEF Alerts
<1>t. MonitorTypes
  BY <1>2, <1>3, <1>4, <1>5, <1>6, <1>7 DEF MonitorTypes
<1>9. Bearings /\ BoundaryHolds /\ InSequence /\ ReadSoFar
  BY <1>2, <1>3, <1>4, <1>5, <1>6, <1>7, <1>8 DEF Bearings, BoundaryHolds, InSequence, ReadSoFar
<1>10. OnceInv /\ ToldInv
  BY <1>3, <1>4, <1>5, <1>6, <1>7, <1>8 DEF OnceInv, ToldInv, AllDiffer, Backed
<1> QED
  BY <1>t, <1>9, <1>10 DEF MonitorInv

LEMMA MonitorSteps == MonitorInv /\ [MonitorNext]_monitorVars => MonitorInv'
<1> SUFFICES ASSUME MonitorInv, [MonitorNext]_monitorVars PROVE MonitorInv'
  OBVIOUS
<1>T. MonitorTypes
  BY DEF MonitorInv
<1>y. gauge \in Gauges /\ gauge.level \in 0 .. MaxLevel /\ gauge.context \in Nat /\ stamp \in Nat /\ gauge.provider \in {"claude", "codex-fork"}
  BY <1>T, MonitorTyped
<1>1. CASE Fills
  BY <1>1, Filling
<1>2. CASE Reports
  <2>1. CASE gauge.provider = "claude"
    BY <1>2, <2>1, Rendering
  <2>2. CASE gauge.provider # "claude"
    <3>1. PICK next \in Readings : next.level = gauge.level /\ next.at = stamp + 1 /\ next.context = gauge.context /\ sample' = next
      <4>1. [level |-> gauge.level, at |-> stamp + 1, context |-> gauge.context] \in Readings
        BY <1>y DEF Readings
      <4> QED
        BY <4>1, <1>2 DEF Reports
    <3>2. /\ stream' = Append(stream, next) /\ stamp' = stamp + 1 /\ gauge' = gauge
          /\ UNCHANGED <<hook, samples, mon, alertRows, told, blind, switches, monitorCrashes>>
      BY <1>2, <2>2, <3>1 DEF Reports
    <3>3. gauge' \in Gauges /\ gauge'.provider = gauge.provider /\ next.level = gauge'.level /\ next.context = gauge'.context
      BY <3>1, <3>2, <1>y
    <3> QED
      BY <2>2, <3>1, <3>2, <3>3, Writing
  <2> QED
    BY <2>1, <2>2
<1>3. CASE Compacts
  BY <1>3, Compacting
<1>4. CASE Shrinks
  <2>1. PICK next \in Readings : next.level = 0 /\ next.at = stamp + 1 /\ next.context = gauge.context + 1 /\ sample' = next
    <3>1. 0 \in 0 .. MaxLevel /\ gauge.context + 1 \in Nat /\ stamp + 1 \in Nat
      BY <1>y, MonitorNumbers
    <3>2. [level |-> 0, at |-> stamp + 1, context |-> gauge.context + 1] \in Readings
      BY <3>1 DEF Readings
    <3> QED
      BY <3>2, <1>4 DEF Shrinks
  <2>2. gauge' \in Gauges /\ gauge'.provider = gauge.provider /\ gauge'.level = 0 /\ gauge'.context = gauge.context + 1
    <3>1. 0 \in 0 .. MaxLevel /\ gauge.context + 1 \in Nat
      BY <1>y, MonitorNumbers
    <3>2. gauge' = [gauge EXCEPT !.level = 0, !.context = gauge.context + 1]
      BY <1>4 DEF Shrinks
    <3> QED
      BY <3>1, <3>2, <1>y DEF Gauges
  <2>3. /\ stream' = Append(stream, next) /\ stamp' = stamp + 1 /\ gauge.provider # "claude"
        /\ gauge.level > 0 /\ sample.context = gauge.context /\ sample.level = gauge.level
        /\ UNCHANGED <<hook, samples, mon, alertRows, told, blind, switches, monitorCrashes>>
    BY <1>4, <2>1 DEF Shrinks
  <2> QED
    BY <2>1, <2>2, <2>3, Writing
<1>5. ASSUME NEW k \in {"compaction", "reset"}, Announces(k) PROVE MonitorInv'
  BY <1>5, Announcing
<1>6. ASSUME NEW s \in samples, SampleArrives(s) PROVE MonitorInv'
  BY <1>6, Arriving
<1>7. ASSUME NEW s \in samples, SampleLost(s) PROVE MonitorInv'
  <2>1. /\ samples' = samples \ {s} /\ UNCHANGED <<gauge, hook, stream, mon, alertRows, told, blind, stamp, switches, monitorCrashes>>
        /\ (sample' = sample /\ s # sample) \/ sample' = NoSample
    BY <1>7 DEF SampleLost
  <2> QED
    BY <2>1, SampleGone
<1>8. CASE CompactionHook \/ CompleteHook \/ ContextResetHook
  BY <1>8, Hooking
<1>9. CASE StreamRead
  BY <1>9, Streaming
<1>10. ASSUME NEW on \in BOOLEAN, SetContextMonitor(on) PROVE MonitorInv'
  BY <1>10, Switching
<1>11. ASSUME NEW a \in alertRows, AlertDelivered(a) PROVE MonitorInv'
  BY <1>11, Alerting
<1>12. CASE MonitorCrash
  BY <1>12, MonitorRestarting
<1>13. CASE UNCHANGED monitorVars
  <2>1. UNCHANGED <<gauge, hook, samples, stream, mon, alertRows, told, sample, blind, stamp, switches, monitorCrashes>>
    BY <1>13 DEF monitorVars
  <2>2. Alerts' = Alerts /\ (\A x : Stale(x)' <=> Stale(x)) /\ (\A c : Backed(c)' <=> Backed(c)) /\ (AllDiffer <=> AllDiffer')
    BY <2>1, MonitorRests DEF AllDiffer
  <2> QED
    BY <2>1, <2>2 DEF MonitorInv, MonitorTypes, Bearings, BoundaryHolds, InSequence, ReadSoFar, OnceInv, ToldInv
<1> QED
  BY <1>1, <1>2, <1>3, <1>4, <1>5, <1>6, <1>7, <1>8, <1>9, <1>10, <1>11, <1>12, <1>13 DEF MonitorNext

LEMMA MonitorKeeps == MonitorInv => MonitorTypeOK /\ AlertsAreExact
<1> SUFFICES ASSUME MonitorInv PROVE MonitorTypeOK /\ AlertsAreExact
  OBVIOUS
<1>T. MonitorTypes
  BY DEF MonitorInv
<1>y. /\ gauge.level \in 0 .. MaxLevel /\ mon \in Monitors /\ mon.level \in Int /\ hook.kind \in HookKinds
      /\ gauge.provider \in {"claude", "codex-fork"} /\ sample \in Readings
      /\ \A a \in alertRows : a \in Readings /\ a.level # 0
  BY <1>T, MonitorTyped DEF MonitorTypes
<1>1. MonitorTypeOK
  <2>1. \A a \in alertRows : a.level \in 1 .. MaxLevel
    BY <1>y, ReadingFields, MonitorNumbers
  <2>2. mon.level \in -1 .. MaxLevel /\ mon.reported \subseteq Thresholds
    BY <1>y DEF Monitors
  <2> QED
    BY <1>y, <2>1, <2>2 DEF MonitorTypeOK, HookKinds
<1>2. ThresholdAnnounced
  <2> SUFFICES ASSUME mon.enabled, ~blind, samples = {}, stream = <<>>, hook = NoHook, sample.at # 0, sample.context = gauge.context,
                      NEW t \in Thresholds, t <= sample.level
               PROVE  \E a \in Alerts : a.context = gauge.context /\ a.level >= t
    BY DEF ThresholdAnnounced, Alerts, Range
  <2>1. t \in Reach(sample.level)
    BY DEF Reach
  <2>2. Backed(gauge.context) /\ Reach(sample.level) \subseteq mon.reported
    BY <1>y DEF MonitorInv, ToldInv, NoHook
  <2> QED
    BY <2>1, <2>2 DEF Backed
<1>3. AnnouncedOnce
  BY DEF AnnouncedOnce, MonitorInv, OnceInv, AllDiffer, Differ
<1> QED
  BY <1>1, <1>2, <1>3 DEF AlertsAreExact

\* Every threshold a context reaches is announced for it, and once: apply_context_usage_update,
\* apply_compaction_event, apply_context_reset_event, the Codex stream and set_context_monitor,
\* for every interleaving of samples, hooks, deliveries and restarts.
THEOREM AlertsExact == MonitorSpec => [](MonitorTypeOK /\ AlertsAreExact)
<1>1. MonitorSpec => []MonitorInv
  BY MonitorStarts, MonitorSteps, PTL DEF MonitorSpec
<1> QED
  BY <1>1, MonitorKeeps, PTL
=============================================================================
