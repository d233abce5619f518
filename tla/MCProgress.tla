----------------------------- MODULE MCProgress -----------------------------
(***************************************************************************)
(* The parts of the server that promise to come to an end with something,  *)
(* for TLC, under their fairness.  As in MCServices a behaviour looks at    *)
(* one of them and the others rest.                                        *)
(***************************************************************************)
EXTENDS SeatRuntime, ChildLaunch, StudioSsh, PaneInput, Delivery, Notices, SideQuestion

CONSTANT Focus   \* the parts a run looks at

VARIABLE focus   \* the part a behaviour looks at

seatSideVars == <<seatVars, launchVars, studioVars, paneVars>>
messageVars == <<deliveryVars, reviewVars, outboxVars, btwVars>>
vars == <<focus, seatSideVars, messageVars>>

\* A part with several initial states has one of them fixed while it rests
Rests(part, chosen) == focus = part \/ chosen

Init ==
  /\ focus \in Focus
  /\ SeatInit /\ Rests("seat", prov = CHOOSE p \in [Seats -> Providers] : TRUE)
  /\ LaunchInit /\ Rests("launch", launchCase = CaseOf(CHOOSE c \in LaunchCases : TRUE))
  /\ DeliveryInit /\ Rests("delivery", workload = CHOOSE w \in Workloads : TRUE)
  /\ BtwInit /\ Rests("btw", btwCase = CHOOSE c \in [provider : BtwProviders, may : BtwCases] : TRUE)
  /\ StudioInit /\ PaneInit /\ ReviewInit /\ OutboxInit

Seat ==
  /\ focus = "seat" /\ SeatNext
  /\ UNCHANGED <<focus, messageVars, launchVars, studioVars, paneVars>>

Launch ==
  /\ focus = "launch" /\ LaunchNext
  /\ UNCHANGED <<focus, messageVars, seatVars, studioVars, paneVars>>

Studio ==
  /\ focus = "studio" /\ StudioNext
  /\ UNCHANGED <<focus, messageVars, seatVars, launchVars, paneVars>>

Pane ==
  /\ focus = "pane" /\ PaneNext
  /\ UNCHANGED <<focus, messageVars, seatVars, launchVars, studioVars>>

Deliver ==
  /\ focus = "delivery" /\ DeliveryNext
  /\ UNCHANGED <<focus, seatSideVars, reviewVars, outboxVars, btwVars>>

Review ==
  /\ focus = "review" /\ ReviewNext
  /\ UNCHANGED <<focus, seatSideVars, deliveryVars, outboxVars, btwVars>>

Outbox ==
  /\ focus = "outbox" /\ OutboxNext
  /\ UNCHANGED <<focus, seatSideVars, deliveryVars, reviewVars, btwVars>>

Btw ==
  /\ focus = "btw" /\ BtwNext
  /\ UNCHANGED <<focus, seatSideVars, deliveryVars, reviewVars, outboxVars>>

Next ==
  \/ Seat \/ Launch \/ Studio \/ Pane
  \/ Deliver \/ Review \/ Outbox \/ Btw

Spec == Init /\ [][Next]_vars

NthOf(S, k) == SetToSeq(S)[k]

\* The k-th step of a part that is taken if it is possible again and again, by its fairness:
\* the strong conditions of SeatFairness, DeliveryFairness and OutboxFairness
Insistent(k) ==
  \/ /\ focus = "seat" /\ k <= Cardinality(Seats) /\ WorkerStep(NthOf(Seats, k))
     /\ UNCHANGED <<mailVars, outboxVars>>
  \/ focus = "delivery" /\ k = 1 /\ DispatchDrain /\ UNCHANGED <<seatVars, outboxVars>>
  \/ /\ focus = "delivery" /\ k > 1 /\ DrainCompletionWakes(NthOf(Agents, k - 1))
     /\ UNCHANGED <<seatVars, outboxVars>>
  \/ focus = "outbox" /\ k = 1 /\ PassStep /\ UNCHANGED <<seatVars, mailVars>>
  \/ focus = "outbox" /\ k = 2 /\ ApplyStep /\ UNCHANGED <<seatVars, mailVars>>

\* A part has its fairness while a behaviour looks at it: SeatFairness, DeliveryFairness, ...
FairSpec ==
  /\ Spec
  /\ \A k \in 1..(1 + Cardinality(Agents)) : SF_<<seatVars, mailVars, outboxVars>>(Insistent(k))
  /\ WF_seatVars(focus = "seat" /\ HeldStep) /\ WF_seatVars(focus = "seat" /\ StartupRecover)
  /\ WF_seatVars(focus = "seat" /\ StartupDone)
  /\ WF_mailVars(focus = "delivery" /\ Drain) /\ WF_mailVars(focus = "delivery" /\ RetireSteps)
  /\ WF_mailVars(focus = "delivery" /\ Dispatcher)
  /\ \A i \in 1..MaxRequests : WF_reviewVars(focus = "review" /\ WatchStep(i))
  /\ \A q \in Questions : WF_btwVars(focus = "btw" /\ BtwStep(q))
  /\ WF_btwVars(focus = "btw" /\ PaneAnswers) /\ WF_btwVars(focus = "btw" /\ (CleanFail \/ CleanKey))
  /\ \A c \in Children : /\ WF_launchVars(focus = "launch" /\ MonitorFires(c))
                         /\ WF_launchVars(focus = "launch" /\ MonitorLooks(c))
                         /\ WF_launchVars(focus = "launch" /\ PrNotifierFires(c))
  /\ \A c \in Callers : WF_studioVars(focus = "studio" /\ (Call(c) \/ RecordWish(c)))
  /\ \A a \in LaunchAgents : WF_studioVars(focus = "studio" /\ ComesUp(a))
  /\ WF_studioVars(focus = "studio" /\ ReconcileTick)
  /\ \A c \in Handlers : WF_paneVars(focus = "pane" /\ SendStep(c))

\* The k-th thing that is under way in the part a behaviour looks at, and what ends it
Begun(k) ==
  \/ focus = "seat" /\ k <= MaxRotations /\ RotationIs(k, {"relaunching"})
  \/ focus = "delivery" /\ k <= MaxRows /\ WakeWaits(k)
  \/ focus = "delivery" /\ k > MaxRows /\ ReminderOpen(k - MaxRows)
  \/ focus = "pane" /\ k <= Cardinality(Handlers) /\ SendBegun(NthOf(Handlers, k))
  \/ focus = "btw" /\ k \in Questions /\ Asked(k)
  \/ focus = "launch" /\ k \in Children /\ WaitedFor(k)
  \/ focus = "review" /\ k <= MaxRequests /\ Unreported(k)
  \/ focus = "outbox" /\ k <= Cardinality(Petitions) /\ HasOutcome(NthOf(Petitions, k))

Over(k) ==
  \/ focus = "seat" /\ k <= MaxRotations /\ RotationIs(k, {"applied", "failed"})
  \/ focus = "delivery" /\ k <= MaxRows /\ ~WakeWaits(k)
  \/ focus = "delivery" /\ k > MaxRows /\ ~ReminderOpen(k - MaxRows)
  \/ focus = "pane" /\ k <= Cardinality(Handlers) /\ SendOver(NthOf(Handlers, k))
  \/ focus = "btw" /\ k \in Questions /\ Answered(k)
  \/ focus = "launch" /\ k \in Children /\ WaitOver(k)
  \/ focus = "review" /\ k <= MaxRequests /\ ReviewSettled(k)
  \/ focus = "outbox" /\ k <= Cardinality(Petitions) /\ AllTold(NthOf(Petitions, k))

\* RotationEnds, WakeNotStuck, DueReminderSettled, SendsEnd, QuestionAnswered, WaitAnswered,
\* ReviewReported and OutcomeTold, each of the part a behaviour looks at, and StudioFollows: what the
\* server has begun it brings to an end, and whoever waits for it hears of it, although the server
\* may stop on the way.
WhatWasBegunEnds ==
  /\ \A k \in 1..(MaxRows + MaxReminders) : Begun(k) ~> Over(k)
  /\ focus = "studio" => StudioFollows
=============================================================================
