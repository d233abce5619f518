----------------------------- MODULE MCServices -----------------------------
(***************************************************************************)
(* The parts of the server beside the queue runner and reparenting, for    *)
(* TLC.  The parts share no state in the models, so a behaviour looks at   *)
(* one of them: focus names it, and the others rest in an initial state.   *)
(***************************************************************************)
EXTENDS SeatRuntime, SeatSessions, ChildLaunch, RoleRegistry, Activity, Delivery, Handoff,
        ContextMonitor, ForkHandoff, PaneInput, SideQuestion, UsageLedger, UsageReport,
        MobileTerminal, OwnerDesk, HttpReads

CONSTANT Focus   \* the parts a run looks at

VARIABLE focus   \* the part a behaviour looks at

sessionVars == <<seatVars, bindVars, launchVars, roleVars, actVars>>
messageVars == <<deliveryVars, handoffVars, monitorVars, forkVars, paneVars, btwVars>>
outsideVars == <<ledgerVars, reportVars, mobileVars, deskVars, httpVars>>
vars == <<focus, sessionVars, messageVars, outsideVars>>

\* A part with several initial states has one of them fixed while it rests
Rests(part, chosen) == focus = part \/ chosen

Init ==
  /\ focus \in Focus
  /\ SeatInit /\ Rests("seat", prov = CHOOSE p \in [Seats -> Providers] : TRUE)
  /\ BindInit /\ Rests("bind", kindOf = CHOOSE k \in [SeatOwners -> OwnerKinds] : TRUE)
  /\ LaunchInit /\ Rests("launch", launchCase = CaseOf(CHOOSE c \in LaunchCases : TRUE))
  /\ RoleInit /\ Rests("role", maintainerIs = NoOne)
  /\ ActInit /\ Rests("act", actCase = CHOOSE c \in ActCases : TRUE)
  /\ DeliveryInit /\ Rests("delivery", workload = CHOOSE w \in Workloads : TRUE)
  /\ MonitorInit /\ Rests("monitor", gauge.provider = CHOOSE p \in MonitorProviders : TRUE)
  /\ BtwInit /\ Rests("btw", btwCase = CHOOSE c \in [provider : BtwProviders, may : BtwCases] : TRUE)
  /\ LedgerInit /\ Rests("ledger", ledgerCase = CHOOSE c \in LedgerCases : TRUE)
  /\ ReportInit /\ Rests("report", meterCase = CHOOSE c \in MeterCases : TRUE)
  /\ DeskInit /\ Rests("desk", deskPart = CHOOSE p \in DeskParts : TRUE)
  /\ HttpInit /\ Rests("http", httpCase = CHOOSE c \in HttpCases : TRUE)
  /\ HandoffInit /\ ForkInit /\ PaneInit /\ MobileInit

Seat ==
  /\ focus = "seat" /\ SeatNext
  /\ UNCHANGED <<focus, messageVars, outsideVars, bindVars, launchVars, roleVars, actVars>>

Bind ==
  /\ focus = "bind" /\ BindNext
  /\ UNCHANGED <<focus, messageVars, outsideVars, seatVars, launchVars, roleVars, actVars>>

Launch ==
  /\ focus = "launch" /\ LaunchNext
  /\ UNCHANGED <<focus, messageVars, outsideVars, seatVars, bindVars, roleVars, actVars>>

Role ==
  /\ focus = "role" /\ RoleNext
  /\ UNCHANGED <<focus, messageVars, outsideVars, seatVars, bindVars, launchVars, actVars>>

Act ==
  /\ focus = "act" /\ ActNext
  /\ UNCHANGED <<focus, messageVars, outsideVars, seatVars, bindVars, launchVars, roleVars>>

Deliver ==
  /\ focus = "delivery" /\ DeliveryNext
  /\ UNCHANGED <<focus, sessionVars, outsideVars, handoffVars, monitorVars, forkVars, paneVars,
                 btwVars>>

Hand ==
  /\ focus = "handoff" /\ HandoffNext
  /\ UNCHANGED <<focus, sessionVars, outsideVars, deliveryVars, monitorVars, forkVars,
                 paneVars, btwVars>>

Monitor ==
  /\ focus = "monitor" /\ MonitorNext
  /\ UNCHANGED <<focus, sessionVars, outsideVars, deliveryVars, handoffVars, forkVars,
                 paneVars, btwVars>>

Fork ==
  /\ focus = "fork" /\ ForkNext
  /\ UNCHANGED <<focus, sessionVars, outsideVars, deliveryVars, handoffVars, monitorVars,
                 paneVars, btwVars>>

Pane ==
  /\ focus = "pane" /\ PaneNext
  /\ UNCHANGED <<focus, sessionVars, outsideVars, deliveryVars, handoffVars, monitorVars,
                 forkVars, btwVars>>

Btw ==
  /\ focus = "btw" /\ BtwNext
  /\ UNCHANGED <<focus, sessionVars, outsideVars, deliveryVars, handoffVars, monitorVars,
                 forkVars, paneVars>>

Ledger ==
  /\ focus = "ledger" /\ LedgerNext
  /\ UNCHANGED <<focus, sessionVars, messageVars, reportVars, mobileVars, deskVars, httpVars>>

Report ==
  /\ focus = "report" /\ ReportNext
  /\ UNCHANGED <<focus, sessionVars, messageVars, ledgerVars, mobileVars, deskVars, httpVars>>

Mobile ==
  /\ focus = "mobile" /\ MobileNext
  /\ UNCHANGED <<focus, sessionVars, messageVars, ledgerVars, reportVars, deskVars, httpVars>>

Desk ==
  /\ focus = "desk" /\ DeskNext
  /\ UNCHANGED <<focus, sessionVars, messageVars, ledgerVars, reportVars, mobileVars,
                 httpVars>>

Http ==
  /\ focus = "http" /\ HttpNext
  /\ UNCHANGED <<focus, sessionVars, messageVars, ledgerVars, reportVars, mobileVars,
                 deskVars>>

Next ==
  \/ Seat \/ Bind \/ Launch \/ Role \/ Act
  \/ Deliver \/ Hand \/ Monitor \/ Fork \/ Pane \/ Btw
  \/ Ledger \/ Report \/ Mobile \/ Desk \/ Http

Spec == Init /\ [][Next]_vars

\* A view that tells every two reachable states apart: the other parts do not move
Looked ==
  CASE focus = "seat" -> <<focus, seatVars>>
    [] focus = "bind" -> <<focus, bindVars>>
    [] focus = "launch" -> <<focus, launchVars>>
    [] focus = "role" -> <<focus, roleVars>>
    [] focus = "act" -> <<focus, actVars>>
    [] focus = "delivery" -> <<focus, deliveryVars>>
    [] focus = "handoff" -> <<focus, handoffVars>>
    [] focus = "monitor" -> <<focus, monitorVars>>
    [] focus = "fork" -> <<focus, forkVars>>
    [] focus = "pane" -> <<focus, paneVars>>
    [] focus = "btw" -> <<focus, btwVars>>
    [] focus = "ledger" -> <<focus, ledgerVars>>
    [] focus = "report" -> <<focus, reportVars>>
    [] focus = "mobile" -> <<focus, mobileVars>>
    [] focus = "desk" -> <<focus, deskVars>>
    [] focus = "http" -> <<focus, httpVars>>

\* The type invariant of the part a behaviour looks at
TypeOK ==
  /\ focus = "seat" => SeatTypeOK
  /\ focus = "bind" => BindTypeOK
  /\ focus = "launch" => LaunchTypeOK
  /\ focus = "role" => RoleTypeOK
  /\ focus = "act" => ActTypeOK
  /\ focus = "delivery" => DeliveryTypeOK
  /\ focus = "handoff" => HandoffTypeOK
  /\ focus = "monitor" => MonitorTypeOK
  /\ focus = "fork" => ForkTypeOK
  /\ focus = "pane" => PaneTypeOK
  /\ focus = "btw" => BtwTypeOK
  /\ focus = "ledger" => LedgerTypeOK
  /\ focus = "report" => ReportTypeOK
  /\ focus = "mobile" => MobileTypeOK
  /\ focus = "desk" => DeskTypeOK
  /\ focus = "http" => HttpTypeOK

Reply(req, side, total, speed, model) ==
  [id |-> "m", req |-> req, side |-> side, total |-> total, speed |-> speed, model |-> model]

\* One message in several lines: as it grows, of a side chain, of another request, and synthetic
MCReplies == {Reply("r1", FALSE, 1, FALSE, "opus"), Reply("r1", FALSE, 2, FALSE, "opus"),
              Reply("r2", TRUE, 1, FALSE, "opus"), Reply("r1", FALSE, 1, TRUE, "<synthetic>")}
=============================================================================
