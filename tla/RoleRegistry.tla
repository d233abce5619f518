---------------------------- MODULE RoleRegistry ----------------------------
(***************************************************************************)
(* Names, roles, statuses and subagents of sessions.  A role belongs to    *)
(* one session; roles of sessions that stopped are pruned by whoever looks *)
(* next, and the maintainer that comes back is found again.  A friendly    *)
(* name is also given to the provider, by a message of its own.            *)
(***************************************************************************)
EXTENDS Integers, SequencesExt, FiniteSetsExt

CONSTANTS
  Members,         \* session ids
  Names,           \* normalised friendly names; a role may be one of them
  HumanNames,      \* names reserved for people
  MaxRegistry,     \* bound: operations on roles and names
  MaxSubagents,    \* bound: subagent hooks
  MaxStops         \* bound: sessions stopped and restored

ASSUME RegistryAssumption ==
  {MaxRegistry, MaxSubagents, MaxStops} \subseteq Nat

VARIABLES
  members,        \* per session: [live, name, role, em]
  holder,         \* agent_registrations: per role a session or nobody
  maintainerIs,   \* maintainer_session_id
  lastHolder,     \* agent_role_last_session_ids
  titles,         \* per session: [native, provider], as recorded and as the provider has it
  renames,        \* per session: pending native_rename messages
  renamer,        \* per session: the name a handler has stored and not yet passed on
  subagents,      \* per session: the subagents as recorded
  registrySpent   \* what the bounds count

registryOf == <<holder, maintainerIs, lastHolder>>
namesOf == <<titles, renames, renamer>>
roleVars == <<members, registryOf, namesOf, subagents, registrySpent>>

NoOne == "nobody"

\* Two roles, in the order of their names
RoleOrder == <<"lead", "maintainer">>
Roles == {RoleOrder[i] : i \in 1..Len(RoleOrder)}

Registry == [holder |-> holder, maintainer |-> maintainerIs, last |-> lastHolder]

Uses(what, bound) == registrySpent[what] < bound /\ registrySpent' = [registrySpent EXCEPT ![what] = @ + 1]

-----------------------------------------------------------------------------
(* Roles *)

LiveForRegistry(m) == m \in Members /\ members[m].live

\* The alias of the maintainer follows its registration
SyncMaintainerAlias(g) == [g EXCEPT !.maintainer = g.holder["maintainer"]]

\* A session was the maintainer by its name or its role
MaintainerIdentity(m) == "maintainer" \in {members[m].name, members[m].role}

\* A role is entered for a session
Registered(g, m, r) == SyncMaintainerAlias([g EXCEPT !.holder[r] = m])

Installed(g, m) == [Registered(g, m, "maintainer") EXCEPT !.last["maintainer"] = m]

\* Without a maintainer, the one of the alias, or the last one if it bears the name, is
\* installed when it is live; an alias of one that is not is only remembered
RecoverMaintainer(g) ==
  IF g.holder["maintainer"] # NoOne THEN g
  ELSE IF LiveForRegistry(g.maintainer) THEN Installed(g, g.maintainer)
  ELSE IF LiveForRegistry(g.last["maintainer"]) /\ MaintainerIdentity(g.last["maintainer"])
         THEN Installed(g, g.last["maintainer"])
  ELSE IF g.maintainer # NoOne THEN SyncMaintainerAlias([g EXCEPT !.last["maintainer"] = g.maintainer])
  ELSE g

\* The roles of sessions that are not live are dropped, and remembered
PruneRegistrations(g) ==
  LET dead == {r \in Roles : g.holder[r] # NoOne /\ ~LiveForRegistry(g.holder[r])}
      pruned == [g EXCEPT !.holder = [r \in Roles |-> IF r \in dead THEN NoOne ELSE g.holder[r]],
                          !.last = [r \in Roles |-> IF r \in dead THEN g.holder[r] ELSE g.last[r]]]
  IN IF dead = {} THEN g ELSE SyncMaintainerAlias(pruned)

Refreshed == PruneRegistrations(RecoverMaintainer(Registry))

Saved(g) == holder' = g.holder /\ maintainerIs' = g.maintainer /\ lastHolder' = g.last

\* Listing the roles, or looking one up, refreshes the registry
LookupRegistry ==
  /\ Uses("ops", MaxRegistry) /\ Refreshed # Registry /\ Saved(Refreshed)
  /\ UNCHANGED <<members, namesOf, subagents>>

\* Mutant: a role that somebody holds is taken over.
MayTake(g, m, r) == LiveForRegistry(m)

\* A session takes a role that nobody else holds; a refusal saves nothing
MayRegister(g, m, r) == LiveForRegistry(m) /\ g.holder[r] \in {NoOne, m}

\* sm register
RegisterAgentRole(m, r) ==
  /\ r # "maintainer"
  /\ Uses("ops", MaxRegistry) /\ MayRegister(Refreshed, m, r)
  /\ Saved(Registered(Refreshed, m, r))
  /\ UNCHANGED <<members, namesOf, subagents>>

\* sm maintainer
SetMaintainer(m) ==
  /\ Uses("ops", MaxRegistry) /\ MayRegister(Refreshed, m, "maintainer")
  /\ Saved(Registered(Refreshed, m, "maintainer"))
  /\ UNCHANGED <<members, namesOf, subagents>>

\* A role that is given up is forgotten
GivenUp(g, r) == SyncMaintainerAlias([g EXCEPT !.holder[r] = NoOne, !.last[r] = NoOne])

\* sm unregister
UnregisterAgentRole(m, r) ==
  /\ r # "maintainer"
  /\ Uses("ops", MaxRegistry) /\ Refreshed.holder[r] = m
  /\ Saved(GivenUp(Refreshed, r))
  /\ UNCHANGED <<members, namesOf, subagents>>

\* sm maintainer --clear
ClearMaintainer(m) ==
  /\ Uses("ops", MaxRegistry) /\ Refreshed.holder["maintainer"] = m
  /\ Saved(GivenUp(Refreshed, "maintainer"))
  /\ UNCHANGED <<members, namesOf, subagents>>

-----------------------------------------------------------------------------
(* Names *)

\* The aliases of a session: the roles it holds while it is live
AliasesOf(g, m) ==
  {r \in Roles : LiveForRegistry(m) /\ (g.holder[r] = m \/ (r = "maintainer" /\ g.maintainer = m))}

\* The first of them in order
PrimaryAlias(g, m) ==
  IF AliasesOf(g, m) = {} THEN NoOne
  ELSE SelectSeq(RoleOrder, LAMBDA r : r \in AliasesOf(g, m))[1]

\* A session that has a role is named for the first one; the names of roles and of people
\* are taken
NameAllowed(g, m, name) ==
  /\ PrimaryAlias(g, m) # NoOne => name = PrimaryAlias(g, m)
  /\ name \in {"maintainer"} \union {r \in Roles : g.holder[r] # NoOne} => name = PrimaryAlias(g, m)
  /\ name \notin HumanNames

\* The name is stored, and the flag of the manager: one session has it
Renamed(m, name, em) ==
  [x \in Members |->
       IF x = m THEN [members[x] EXCEPT !.name = name, !.em = em,
                                        !.role = IF em THEN "em" ELSE IF @ = "em" THEN "none" ELSE @]
       ELSE IF em /\ members[x].em
         THEN [members[x] EXCEPT !.em = FALSE, !.role = IF @ = "em" THEN "none" ELSE @]
       ELSE members[x]]

\* sm name; the name is passed on to the provider afterwards, outside the lock
UpdateMetadata(m, name, em) ==
  /\ Uses("ops", MaxRegistry)
  /\ NameAllowed(Refreshed, m, name) /\ renamer[m] = "none"
  /\ members' = Renamed(m, name, em)
  /\ renamer' = [renamer EXCEPT ![m] = name]
  /\ Saved(Refreshed)
  /\ UNCHANGED <<titles, renames, subagents>>

\* Older renames are withdrawn; a title the provider is known to have is not sent again
QueueNativeRename(m) ==
  /\ renamer[m] # "none"
  /\ renames' = [renames EXCEPT ![m] =
       IF ~members[m].live THEN @
       ELSE IF titles[m].native = renamer[m] THEN <<>> ELSE <<renamer[m]>>]
  /\ renamer' = [renamer EXCEPT ![m] = "none"]
  /\ UNCHANGED <<members, registryOf, titles, subagents, registrySpent>>

\* The message is typed, alone, and not again when that fails
DeliverRename(m) ==
  /\ renames[m] # <<>> /\ members[m].live
  /\ \E done \in BOOLEAN : titles' = [titles EXCEPT ![m].provider = IF done THEN Head(renames[m]) ELSE @]
  /\ renames' = [renames EXCEPT ![m] = Tail(@)]
  /\ UNCHANGED <<members, registryOf, renamer, subagents, registrySpent>>

\* A Stop hook brings the title the transcript has
SyncNativeTitle(m) ==
  /\ titles[m].native # titles[m].provider
  /\ titles' = [titles EXCEPT ![m].native = titles[m].provider]
  /\ UNCHANGED <<members, registryOf, renames, renamer, subagents, registrySpent>>

-----------------------------------------------------------------------------
(* Subagents, and sessions that stop and come back *)

\* The start hook of a subagent appends a record
SubagentStart(m, a) ==
  /\ Uses("hooks", MaxSubagents)
  /\ subagents' = [subagents EXCEPT ![m] = Append(@, [id |-> a, running |-> TRUE])]
  /\ UNCHANGED <<members, registryOf, namesOf>>

\* The stop hook closes the first record of the subagent
SubagentStop(m, a) ==
  /\ Uses("hooks", MaxSubagents)
  /\ \E i \in DOMAIN subagents[m] :
       /\ subagents[m][i].id = a /\ \A j \in 1..(i - 1) : subagents[m][j].id # a
       /\ subagents' = [subagents EXCEPT ![m][i].running = FALSE]
  /\ UNCHANGED <<members, registryOf, namesOf>>

\* A session stops, or is restored
StopOrRestore(m) ==
  /\ Uses("stops", MaxStops)
  /\ members' = [members EXCEPT ![m].live = ~@]
  /\ UNCHANGED <<registryOf, namesOf, subagents>>

-----------------------------------------------------------------------------
\* A file of the earlier service names a maintainer without a registration
RoleInit ==
  /\ members = [m \in Members |-> [live |-> TRUE, name |-> "none", role |-> "none", em |-> FALSE]]
  /\ holder = [r \in Roles |-> NoOne] /\ lastHolder = holder
  /\ maintainerIs \in Members \union {NoOne}
  /\ titles = [m \in Members |-> [native |-> "none", provider |-> "none"]]
  /\ renames = [m \in Members |-> <<>>] /\ renamer = [m \in Members |-> "none"]
  /\ subagents = [m \in Members |-> <<>>]
  /\ registrySpent = [ops |-> 0, hooks |-> 0, stops |-> 0]

RoleNext ==
  \/ LookupRegistry
  \/ \E m \in Members :
       \/ \E r \in Roles : RegisterAgentRole(m, r) \/ UnregisterAgentRole(m, r)
       \/ \E name \in Names, em \in BOOLEAN : UpdateMetadata(m, name, em)
       \/ SetMaintainer(m) \/ ClearMaintainer(m)
       \/ QueueNativeRename(m) \/ DeliverRename(m) \/ SyncNativeTitle(m)
       \/ SubagentStart(m, "a") \/ SubagentStop(m, "a") \/ StopOrRestore(m)

RoleSpec == RoleInit /\ [][RoleNext]_roleVars

-----------------------------------------------------------------------------
\* The types of the variables
RoleTypeOK ==
  /\ members \in [Members -> [live : BOOLEAN, name : Names \union {"none"},
                              role : {"none", "em"}, em : BOOLEAN]]
  /\ holder \in [Roles -> Members \union {NoOne}] /\ lastHolder \in [Roles -> Members \union {NoOne}]
  /\ maintainerIs \in Members \union {NoOne}

\* A role stays with its session while that is live, whoever else registers, looks up,
\* stops or comes back, unless the session gives it up itself
RoleKeptByLive ==
  [][\A r \in Roles : LET m == holder[r] IN
       (m # NoOne /\ LiveForRegistry(m) /\ holder'[r] # m) =>
         holder'[r] = NoOne /\ lastHolder'[r] = NoOne]_roleVars

\* Once there is a registered maintainer, the alias that older readers use names the same
\* session, through pruning, recovery and restores
MaintainerAgrees == holder["maintainer"] # NoOne => maintainerIs = holder["maintainer"]

\* The registry gives a role to one live session at a time and both ways to read it agree.
RolesAreKept == RoleKeptByLive /\ []MaintainerAgrees
=============================================================================
