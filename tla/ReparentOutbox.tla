--------------------------- MODULE ReparentOutbox ---------------------------
(***************************************************************************)
(* The notices about reparent requests (sessions.rs): an outbox that every *)
(* write of the requests carries, and that a pass copies into the message  *)
(* queue and marks.  The background worker and every handler of requests   *)
(* run passes; decisions, expiry and the server's death come between their *)
(* steps.  Reparent models how a request is applied; here it only moves    *)
(* from status to status.                                                  *)
(***************************************************************************)
EXTENDS Integers, FiniteSets, FiniteSetsExt, SequencesExt

CONSTANTS
  Petitions,      \* the requests
  Approvers,      \* the sessions whose approval every request needs
  Initiator,      \* the session that asks
  Reasons,        \* what an apply may fail with
  HumanToo,       \* the requests need a human's approval
  MaxRepairs,     \* bound: repairs by the operator
  OutboxCrashes   \* bound: server crashes

ASSUME OutboxAssumption ==
  /\ Initiator \notin Approvers /\ Reasons # {} /\ HumanToo \in BOOLEAN
  /\ IsFiniteSet(Petitions) /\ IsFiniteSet(Approvers) /\ "nobody" \notin Petitions
  /\ {MaxRepairs, OutboxCrashes} \subseteq Nat

VARIABLES
  petition,    \* reparent_requests with their notification intents
  notices,     \* message_queue: the rows of the category
  pass,        \* the pass that holds the apply lock
  applying,    \* the request being applied, under the same lock
  repairs,     \* the repairs so far
  outboxFalls  \* the crashes so far

outboxVars == <<petition, notices, pass, applying, repairs, outboxFalls>>

Parties == Approvers \union {Initiator}
Closed == {"applied", "rejected", "expired", "stale", "superseded", "repaired"}
NoPetition == [status |-> "none", stage |-> "", yes |-> {}, reason |-> "", intents |-> {}]
NoPass == [pc |-> "idle", todo |-> <<>>, text |-> ""]
NoParty == "nobody"

-----------------------------------------------------------------------------
(* What should be told *)

\* reparent_notification: the key of an intent is its event and its recipient
Notice(event, to, text) == [event |-> event, to |-> to, text |-> text]

\* The statuses that are outcomes
IsOutcome(status) == status \in Closed

\* The event of an outcome
OutcomeEvent(p) == <<"terminal", p.status>>

\* desired_reparent_notifications
Desired(p) ==
  LET missing == Approvers \ p.yes
      waiting == <<"approval", missing>>
  IN  CASE p.status = "pending" ->
             {Notice(waiting, a, "approve") : a \in missing}
             \union (IF Cardinality(p.yes) > 1 THEN {Notice(waiting, a, "progress") : a \in Parties \ missing} ELSE {})
        [] IsOutcome(p.status) -> {Notice(OutcomeEvent(p), a, p.reason) : a \in Parties}
        [] p.status = "failed" /\ ~IsOutcome(p.status) ->
             {Notice(<<"quarantined", p.stage>>, a, p.reason) : a \in Parties}
        [] OTHER -> {}

SameKey(n, m) == n.event = m.event /\ n.to = m.to

\* reconcile_reparent_notification_intents: an intent that is queued stays, as does one that is
\* not an outcome; the desired ones are added
Projected(p) ==
  LET kept == {i \in p.intents : \/ i.queued \/ i.event[1] # "terminal"
                                 \/ \E d \in Desired(p) : SameKey(d, i)}
      new  == {d \in Desired(p) : \A i \in kept : ~SameKey(d, i)}
  IN  [p EXCEPT !.intents = kept \union {[event |-> d.event, to |-> d.to, queued |-> FALSE] : d \in new}]

\* store_reparent_request_records: every write of a request carries its outbox
Store(r, p) == petition' = [petition EXCEPT ![r] = Projected(p)]

-----------------------------------------------------------------------------
(* The requests *)

LockFree == pass.pc = "idle" /\ applying = NoParty

\* create_reparent_request and create_reparent_tree_request: the initiator has consented
CreatePetition(r) ==
  /\ petition[r].status = "none"
  /\ Store(r, [NoPetition EXCEPT !.status = "pending", !.yes = {Initiator}])
  /\ UNCHANGED <<notices, pass, applying, repairs, outboxFalls>>

\* All who are asked have approved
Granted(p) == Approvers \subseteq p.yes /\ (HumanToo => "human" \in p.yes)

\* approve_reparent_request, reject_reparent_request
AgentDecides(r) ==
  /\ petition[r].status = "pending"
  /\ \E a \in Approvers \ petition[r].yes, ok \in BOOLEAN :
       Store(r, IF ok THEN [petition[r] EXCEPT !.yes = @ \union {a}]
                ELSE [petition[r] EXCEPT !.status = "rejected"])
  /\ UNCHANGED <<notices, pass, applying, repairs, outboxFalls>>

\* decide_reparent_request_as_human: once, on a request that needs it
HumanDecides(r) ==
  /\ HumanToo /\ petition[r].status = "pending" /\ "human" \notin petition[r].yes
  /\ \E ok \in BOOLEAN :
       Store(r, IF ok THEN [petition[r] EXCEPT !.yes = @ \union {"human"}]
                ELSE [petition[r] EXCEPT !.status = "rejected"])
  /\ UNCHANGED <<notices, pass, applying, repairs, outboxFalls>>

\* A request expires, or its edges change, or another one wins
Lapses(r) ==
  /\ petition[r].status = "pending" /\ applying # r
  /\ \E s \in {"expired", "stale", "superseded"} : Store(r, [petition[r] EXCEPT !.status = s])
  /\ UNCHANGED <<notices, pass, applying, repairs, outboxFalls>>

\* acquire_reparent_apply_lease
ApplyStarts(r) ==
  /\ LockFree /\ petition[r].status = "pending" /\ Granted(petition[r])
  /\ Store(r, [petition[r] EXCEPT !.status = "applying", !.stage = "leased"])
  /\ applying' = r
  /\ UNCHANGED <<notices, pass, repairs, outboxFalls>>

\* The apply of Reparent: done, given up before it began, or quarantined
ApplyEnds(r) ==
  /\ applying = r
  /\ \/ Store(r, [petition[r] EXCEPT !.status = "applied"])
     \/ Store(r, [petition[r] EXCEPT !.status = "stale"])
     \/ \E why \in Reasons : Store(r, [petition[r] EXCEPT !.status = "failed", !.reason = why])
  /\ applying' = NoParty
  /\ UNCHANGED <<notices, pass, repairs, outboxFalls>>

\* An apply that a crash cut off goes on
ApplyResumes(r) ==
  /\ LockFree /\ petition[r].status = "applying"
  /\ applying' = r
  /\ UNCHANGED <<petition, notices, pass, repairs, outboxFalls>>

\* repair_reparent_request: the operator resumes a quarantined request or rolls it back
Repair(r) ==
  /\ LockFree /\ petition[r].status = "failed" /\ repairs < MaxRepairs
  /\ repairs' = repairs + 1
  /\ \/ Store(r, [petition[r] EXCEPT !.status = "applying"]) /\ applying' = r
     \/ Store(r, [petition[r] EXCEPT !.status = "repaired"]) /\ UNCHANGED applying
  /\ UNCHANGED <<notices, pass, outboxFalls>>

-----------------------------------------------------------------------------
(* A pass: reconcile_reparent_notifications *)

\* The intents that are desired and not marked, in some order
PendingPetitions ==
  {job \in UNION {{<<r, d>> : d \in Desired(petition[r])} : r \in Petitions} :
     \E i \in petition[job[1]].intents : SameKey(i, job[2]) /\ ~i.queued}

\* Takes the apply lock, brings the outbox up to date and lists the work
PassStart ==
  /\ LockFree /\ PendingPetitions # {}
  /\ petition' = [r \in Petitions |-> Projected(petition[r])]
  /\ pass' = [pc |-> "check", todo |-> SetToSeq(PendingPetitions), text |-> ""]
  /\ UNCHANGED <<notices, applying, repairs, outboxFalls>>

Job == Head(pass.todo)

\* The next piece of work, or the end
NextJob == IF Len(pass.todo) > 1 THEN [pc |-> "check", todo |-> Tail(pass.todo), text |-> ""] ELSE NoPass

\* Marks an intent as queued
Mark(r, n) ==
  [petition EXCEPT ![r].intents = {IF SameKey(i, n) THEN [i EXCEPT !.queued = TRUE] ELSE i : i \in @}]

\* The requests as the check leaves them
AsChecked(r, n) == petition

\* A request that has moved on is not told its past
PassCheck ==
  /\ pass.pc = "check"
  /\ LET now == {d \in Desired(petition[Job[1]]) : SameKey(d, Job[2])}
     IN  IF now = {} THEN pass' = NextJob /\ UNCHANGED petition
         ELSE /\ pass' = [pass EXCEPT !.pc = "queue", !.text = (CHOOSE d \in now : TRUE).text]
              /\ petition' = AsChecked(Job[1], Job[2])
  /\ UNCHANGED <<notices, applying, repairs, outboxFalls>>

\* enqueue_message_once: a row whose key exists is not queued again
AddOnce(row) ==
  IF \E n \in notices : n.from = row.from /\ SameKey(n, row) THEN notices ELSE notices \union {row}

\* The row, whatever became of the request; a key with another text fails the pass
PassQueue ==
  /\ pass.pc = "queue"
  /\ LET row == [from |-> Job[1], event |-> Job[2].event, to |-> Job[2].to, text |-> pass.text]
     IN  IF \E n \in notices : n.from = row.from /\ SameKey(n, row) /\ n.text # row.text
         THEN pass' = NoPass /\ UNCHANGED notices
         ELSE pass' = [pass EXCEPT !.pc = "mark"] /\ notices' = AddOnce(row)
  /\ UNCHANGED <<petition, applying, repairs, outboxFalls>>

PassMark ==
  /\ pass.pc = "mark"
  /\ petition' = Mark(Job[1], Job[2])
  /\ pass' = NextJob
  /\ UNCHANGED <<notices, applying, repairs, outboxFalls>>

\* The server stops; what it was doing is lost and its locks are free
OutboxCrash ==
  /\ outboxFalls < OutboxCrashes
  /\ outboxFalls' = outboxFalls + 1
  /\ pass' = NoPass /\ applying' = NoParty
  /\ UNCHANGED <<petition, notices, repairs>>

OutboxInit ==
  /\ petition = [r \in Petitions |-> NoPetition] /\ notices = {}
  /\ pass = NoPass /\ applying = NoParty /\ repairs = 0 /\ outboxFalls = 0

PassStep == PassStart \/ PassCheck \/ PassQueue \/ PassMark

\* reconcile_reparent_requests: the apply of a request goes on
ApplyStep == \E r \in Petitions : ApplyStarts(r) \/ ApplyEnds(r) \/ ApplyResumes(r)

OutboxNext ==
  \/ \E r \in Petitions : CreatePetition(r) \/ AgentDecides(r) \/ HumanDecides(r) \/ Lapses(r) \/ Repair(r)
  \/ ApplyStep \/ PassStep \/ OutboxCrash

\* reconcile_reparent_background repeats both, every few seconds
OutboxFairness == SF_outboxVars(PassStep) /\ SF_outboxVars(ApplyStep)

OutboxSpec == OutboxInit /\ [][OutboxNext]_outboxVars /\ OutboxFairness

-----------------------------------------------------------------------------
(* Properties *)

OutboxTypeOK ==
  /\ \A r \in Petitions : /\ petition[r].status \in {"none", "pending", "applying", "failed"} \union Closed
                          /\ petition[r].yes \subseteq Parties \union {"human"}
                          /\ \A i \in petition[r].intents : i.to \in Parties /\ i.queued \in BOOLEAN
  /\ pass.pc \in {"idle", "check", "queue", "mark"} /\ applying \in Petitions \union {NoParty}
  /\ repairs \in 0..MaxRepairs /\ outboxFalls \in 0..OutboxCrashes

\* Nobody is told twice how a request ended, nor two different endings, whichever crashes, repairs
\* and decisions come between a pass's choice of a notice and its queueing (sessions.rs, the comment
\* in desired_reparent_notifications on contradictory notifications)
OutcomeToldOnce ==
  \A m, n \in notices : m.from = n.from /\ m.to = n.to /\ m.event[1] = "terminal" /\ n.event[1] = "terminal"
                          => m = n /\ m.event = OutcomeEvent(petition[m.from])

HasOutcome(r) == IsOutcome(petition[r].status)
AllTold(r) ==
  \A a \in Parties : \E n \in notices : n.from = r /\ n.to = a /\ n.event = OutcomeEvent(petition[r])

\* When a request has ended all its parties are told: a crash between the outbox and the queue
\* loses no notice
OutcomeTold == \A r \in Petitions : HasOutcome(r) ~> AllTold(r)
=============================================================================
