------------------------------ MODULE OwnerDesk ------------------------------
(***************************************************************************)
(* What passes between the agents and the people they work for outside the  *)
(* terminal: email an agent sends and the replies that come back through    *)
(* the mail worker (email.rs, http.rs 2466-2772), bug reports of the app    *)
(* (bug_reports.rs, http.rs 2326-2434, 2774-2838) and the builds of the app *)
(* (app_artifacts.rs, http.rs 2913-3085).  A mail is the sequence of its    *)
(* lines; what a line says is left out.                                     *)
(***************************************************************************)
EXTENDS Integers, Sequences, FiniteSets, SequencesExt

CONSTANTS
  DeskAgents,     \* the agents, as they sign
  DeskParts,      \* the parts to look at: "mail", "bugs", "apps"
  Builds,         \* the builds of the app, by content
  KeptReports,    \* bug_reports.max_reports
  MaxMails,       \* bound: mails, and replies
  MaxBugs,        \* bound: bug reports
  MaxDeploys,     \* bound: deployments
  DeskFaults      \* bound: failed calls and crashes

ASSUME DeskAssumption ==
  /\ "nobody" \notin DeskAgents /\ {"none", "404"} \cap Builds = {}
  /\ KeptReports \in Nat \ {0} /\ {MaxMails, MaxBugs, MaxDeploys, DeskFaults} \subseteq Nat

VARIABLES
  deskPart,     \* the part that moves
  mails,        \* the mails sent: who wrote each, and its lines
  inbound,      \* the webhook's handler of each reply
  desk,         \* the sessions: running or stopped
  handedOver,   \* the replies given to an agent: [reply, agent]
  bugs,         \* bug_reports, oldest first, and the submissions under way
  apps,         \* the files and the metadata of the app's builds, and the deployments under way
  deskFaults    \* faults so far

deskVars == <<deskPart, mails, inbound, desk, handedOver, bugs, apps, deskFaults>>
deskMailVars == <<mails, inbound, desk, handedOver>>

DeskFault == deskFaults < DeskFaults /\ deskFaults' = deskFaults + 1

-----------------------------------------------------------------------------
(* The text of a mail.  A line is text, blank, "--", a footer, or a quoted line *)

Footer(a) == [kind |-> "footer", of |-> a]
Quoted(line) == [kind |-> "quote", of |-> line.of]
Line(kind) == [kind |-> kind, of |-> "nobody"]

\* build_routing_footer and append_routing_footer
WithFooter(lines, a) == lines \o <<Line("blank"), Line("dashes"), Footer(a)>>

\* Mutant: the first signature found
FirstRouted(lines) ==
  LET signed == {i \in DOMAIN lines : lines[i].of # "nobody"}
  IN IF signed = {} THEN "nobody" ELSE lines[CHOOSE i \in signed : \A j \in signed : i <= j].of

\* extract_routed_session_id: the last line that is a footer, quoted or not
RoutedSession(lines) ==
  LET signed == {i \in DOMAIN lines : lines[i].of # "nobody"}
  IN IF signed = {} THEN "nobody" ELSE lines[CHOOSE i \in signed : \A j \in signed : j <= i].of

\* The lines before the first that quotes, or introduces a quotation
BeforeQuote(lines) ==
  LET marks == {i \in DOMAIN lines : lines[i].kind \in {"quote", "wrote"}}
  IN IF marks = {} THEN lines ELSE SubSeq(lines, 1, (CHOOSE i \in marks : \A j \in marks : i <= j) - 1)

\* The lines without the blank ones at the end
Trimmed(lines) ==
  LET kept == {i \in DOMAIN lines : lines[i].kind # "blank"}
  IN IF kept = {} THEN <<>> ELSE SubSeq(lines, 1, CHOOSE i \in kept : \A j \in kept : j <= i)

WithoutLast(lines, kind) ==
  IF lines # <<>> /\ Last(lines).kind = kind THEN Trimmed(Front(lines)) ELSE lines

\* extract_reply_message_body: what the person wrote, without the signature of the answered mail
ReplyBody(lines) ==
  LET body == Trimmed(BeforeQuote(lines))
  IN IF body # <<>> /\ Last(body).kind = "footer" THEN WithoutLast(WithoutLast(body, "footer"), "dashes") ELSE body

\* A reply to a mail, as mail programs write them: quoted, introduced, or just above it
ReplyTo(mail, style) ==
  <<Line("text")>> \o
    CASE style = "quoted" -> [i \in DOMAIN mail |-> Quoted(mail[i])]
      [] style = "wrote" -> <<Line("wrote")>> \o mail
      [] style = "above" -> <<Line("blank")>> \o mail
      [] OTHER -> <<>>

Styles == {"quoted", "wrote", "above", "bare"}

\* extract_mime_text and extract_multipart_text: the first plain part that is no attachment and
\* not empty, or else the first such HTML part
MailText(parts) ==
  LET Usable(i, type) == parts[i].type = type /\ ~parts[i].attached /\ parts[i].lines # <<>>
      FirstOf(type) == {i \in DOMAIN parts : Usable(i, type) /\ \A j \in 1..(i - 1) : ~Usable(j, type)}
      chosen == IF FirstOf("plain") # {} THEN FirstOf("plain") ELSE FirstOf("html")
  IN IF chosen = {} THEN <<>> ELSE parts[CHOOSE i \in chosen : TRUE].lines

\* How the raw mail may carry a text: alone, with its HTML form, or beside an attached mail of
\* another agent
Part(type, attached, lines) == [type |-> type, attached |-> attached, lines |-> lines]
RawMails(lines) ==
  {<<Part("plain", FALSE, lines)>>, <<Part("html", FALSE, lines)>>, <<>>}
    \union {<<Part("plain", TRUE, <<Footer(a)>>), Part("html", FALSE, lines),
              Part("plain", FALSE, lines)>> : a \in DeskAgents}

\* inbound_email_webhook: the text of the raw mail, unless the worker's text is all there is or
\* alone has the signature
BodyOf(raw, parsed) ==
  IF parsed # <<>> /\ (raw = <<>> \/ (RoutedSession(raw) = "nobody" /\ RoutedSession(parsed) # "nobody"))
    THEN parsed ELSE raw

-----------------------------------------------------------------------------
(* Mail *)

\* lookup_human, lookup_human_email_user, resolve_users: one address, or no mail
Addressed(found) == Cardinality(found) = 1

\* send_agent_email: what goes to the mail service
Composed(a, passedOn) == [from |-> a, lines |-> WithFooter(<<Line("text")>> \o passedOn, a)]

\* send_human_email, send_registered_email: an agent writes, of its own or
\* passing on what another agent signed, and the mail service may refuse
SendMail(a) ==
  /\ deskPart = "mail" /\ Len(mails) < MaxMails /\ desk[a] = "running"
  /\ \E found \in SUBSET {"owner"}, passedOn \in {<<>>} \union {<<Footer(b)>> : b \in DeskAgents} :
       \/ /\ Addressed(found)
          /\ mails' = Append(mails, Composed(a, passedOn))
          /\ UNCHANGED deskFaults
       \/ ~Addressed(found) /\ DeskFault /\ UNCHANGED mails
  /\ UNCHANGED <<deskPart, inbound, desk, handedOver, bugs, apps>>

\* The owner replies and the mail worker posts it: with the session when the reply address names
\* it, without when all replies go to one address
PostReply(i) ==
  /\ deskPart = "mail" /\ i \in DOMAIN mails /\ inbound[i].pc = "none"
  /\ \E style \in Styles, header \in {mails[i].from, "nobody"} :
       LET text == ReplyTo(mails[i].lines, style) IN
       \E raw \in RawMails(text), parsed \in {<<>>, text} :
         inbound' = [inbound EXCEPT ![i] = [pc |-> "received", lines |-> BodyOf(MailText(raw), parsed),
                                            header |-> header, session |-> "nobody"]]
  /\ UNCHANGED <<deskPart, mails, desk, handedOver, bugs, apps, deskFaults>>

\* inbound_email_webhook: the trusted header, or the signature in the text, says whose it is
Route(i) == IF inbound[i].header # "nobody" THEN inbound[i].header ELSE RoutedSession(inbound[i].lines)

\* The sender and the secret have been checked; a reply for nobody, or without text, is ignored
InboundRead(i) ==
  /\ inbound[i].pc = "received"
  /\ inbound' = [inbound EXCEPT ![i] = [@ EXCEPT !.session = Route(i),
       !.pc = IF Route(i) = "nobody" \/ ReplyBody(inbound[i].lines) = <<>> THEN "ignored" ELSE "find"]]
  /\ UNCHANGED <<deskPart, mails, desk, handedOver, bugs, apps, deskFaults>>

\* The session is looked up; one that is stopped is restored first, if that can be done
InboundFind(i) ==
  /\ inbound[i].pc = "find"
  /\ LET a == inbound[i].session IN
       \/ desk[a] = "running" /\ inbound' = [inbound EXCEPT ![i].pc = "send"] /\ UNCHANGED <<desk, deskFaults>>
       \/ /\ desk[a] = "stopped"
          /\ desk' = [desk EXCEPT ![a] = "running"] /\ inbound' = [inbound EXCEPT ![i].pc = "send"]
          /\ UNCHANGED deskFaults
       \/ desk[a] = "stopped" /\ DeskFault /\ inbound' = [inbound EXCEPT ![i].pc = "refused"] /\ UNCHANGED desk
  /\ UNCHANGED <<deskPart, mails, handedOver, bugs, apps>>

\* send_core_input_with_runtime: typed or queued; refused when the session stopped meanwhile
InboundSend(i) ==
  /\ inbound[i].pc = "send"
  /\ IF desk[inbound[i].session] = "running"
       THEN /\ handedOver' = handedOver \union {[reply |-> i, agent |-> inbound[i].session,
                                                  lines |-> ReplyBody(inbound[i].lines)]}
            /\ inbound' = [inbound EXCEPT ![i].pc = "sent"]
       ELSE inbound' = [inbound EXCEPT ![i].pc = "refused"] /\ UNCHANGED handedOver
  /\ UNCHANGED <<deskPart, mails, desk, bugs, apps, deskFaults>>

\* The worker gets an error and posts the reply again
PostAgain(i) ==
  /\ inbound[i].pc = "refused"
  /\ inbound' = [inbound EXCEPT ![i].pc = "received"]
  /\ UNCHANGED <<deskPart, mails, desk, handedOver, bugs, apps, deskFaults>>

\* The session stops, as it may at any time
DeskStops(a) ==
  /\ deskPart = "mail" /\ desk[a] = "running" /\ DeskFault
  /\ desk' = [desk EXCEPT ![a] = "stopped"]
  /\ UNCHANGED <<deskPart, mails, inbound, handedOver, bugs, apps>>

-----------------------------------------------------------------------------
(* Bug reports *)

\* Mutant: one report too many is kept
PrunedLate(rows) == IF Len(rows) > KeptReports + 1 THEN SubSeq(rows, Len(rows) - KeptReports, Len(rows)) ELSE rows

\* prune_locked: the oldest beyond the limit go
Pruned(rows) == IF Len(rows) > KeptReports THEN SubSeq(rows, Len(rows) - KeptReports + 1, Len(rows)) ELSE rows

\* create_report: the row and the pruning, in one transaction
Recorded(rows, b) == Pruned(Append(rows, [bug |-> b, result |-> "none"]))

\* submit_client_bug_report; the maintainer is told after the report is kept
SubmitReport(b) ==
  /\ deskPart = "bugs" /\ bugs.pc[b] = "none"
  /\ bugs' = [bugs EXCEPT !.rows = Recorded(@, b), !.pc[b] = "notify"]
  /\ UNCHANGED <<deskPart, deskMailVars, apps, deskFaults>>

\* notify_maintainer_of_bug_report: nobody, a message, or a maintainer who is stopped
MaintainerAnswer == {"maintainer_not_found", "delivered", "queued", "stopped"}

NotifyMaintainer(b) ==
  /\ bugs.pc[b] = "notify"
  /\ \E result \in MaintainerAnswer \union {"failed"} :
       bugs' = [bugs EXCEPT !.pc[b] = result]
  /\ UNCHANGED <<deskPart, deskMailVars, apps, deskFaults>>

\* update_delivery_result: of a row that may have been pruned meanwhile
RecordDelivery(b) ==
  /\ bugs.pc[b] \in MaintainerAnswer \union {"failed"}
  /\ bugs' = [bugs EXCEPT !.rows = [i \in DOMAIN @ |-> IF @[i].bug = b THEN [@[i] EXCEPT !.result = bugs.pc[b]] ELSE @[i]],
                          !.pc[b] = "done"]
  /\ UNCHANGED <<deskPart, deskMailVars, apps, deskFaults>>

-----------------------------------------------------------------------------
(* The builds of the app *)

\* deploy_app_artifact has read the upload and checked it
DeployBegin(n) ==
  /\ deskPart = "apps" /\ apps.deploy[n].pc = "none"
  /\ \E build \in Builds : apps' = [apps EXCEPT !.deploy[n] = [pc |-> "latest", build |-> build]]
  /\ UNCHANGED <<deskPart, deskMailVars, bugs, deskFaults>>

\* store_artifact: the latest build, the copy under its hash, the metadata, each put in place whole
DeployOrder(pc) == CASE pc = "latest" -> "hashed" [] pc = "hashed" -> "meta" [] OTHER -> "done"

\* write_atomically: one file of the deployment
DeployWrite(n) ==
  /\ apps.deploy[n].pc \in {"latest", "hashed", "meta"}
  /\ LET pc == apps.deploy[n].pc
         build == apps.deploy[n].build
     IN apps' = [apps EXCEPT !.latest = IF pc = "latest" THEN build ELSE @,
                             !.copies = IF pc = "hashed" THEN @ \union {build} ELSE @,
                             !.meta = IF pc = "meta" THEN build ELSE @,
                             !.deploy[n].pc = DeployOrder(pc)]
  /\ UNCHANGED <<deskPart, deskMailVars, bugs, deskFaults>>

\* The disk is full or the server is killed in the middle
DeployFails(n) ==
  /\ apps.deploy[n].pc \in {"latest", "hashed", "meta"} /\ DeskFault
  /\ apps' = [apps EXCEPT !.deploy[n].pc = "failed"]
  /\ UNCHANGED <<deskPart, deskMailVars, bugs>>

\* get_latest_app_artifact sends the phone to the copy the metadata names, which
\* get_hashed_app_artifact then reads; the phone may ask for it after another deployment
Download(n) ==
  /\ deskPart = "apps"
  /\ \/ apps.phone = "none" /\ apps.meta # "none" /\ apps' = [apps EXCEPT !.phone = apps.meta]
     \/ apps.phone \in Builds /\ apps' = [apps EXCEPT !.phone = IF apps.phone \in apps.copies THEN "none" ELSE "404"]
  /\ UNCHANGED <<deskPart, deskMailVars, bugs, deskFaults>>

-----------------------------------------------------------------------------
NoReply == [pc |-> "none", lines |-> <<>>, header |-> "nobody", session |-> "nobody"]

DeskInit ==
  /\ deskPart \in DeskParts
  /\ mails = <<>> /\ inbound = [i \in 1..MaxMails |-> NoReply]
  /\ desk = [a \in DeskAgents |-> "running"] /\ handedOver = {}
  /\ bugs = [rows |-> <<>>, pc |-> [b \in 1..MaxBugs |-> "none"]]
  /\ apps = [latest |-> "none", copies |-> {}, meta |-> "none", phone |-> "none",
             deploy |-> [n \in 1..MaxDeploys |-> [pc |-> "none", build |-> "none"]]]
  /\ deskFaults = 0

DeskNext ==
  \/ \E a \in DeskAgents : SendMail(a) \/ DeskStops(a)
  \/ \E i \in 1..MaxMails : PostReply(i) \/ InboundRead(i) \/ InboundFind(i) \/ InboundSend(i) \/ PostAgain(i)
  \/ \E b \in 1..MaxBugs : SubmitReport(b) \/ NotifyMaintainer(b) \/ RecordDelivery(b)
  \/ \E n \in 1..MaxDeploys : DeployBegin(n) \/ DeployWrite(n) \/ DeployFails(n) \/ Download(n)

DeskSpec == DeskInit /\ [][DeskNext]_deskVars

-----------------------------------------------------------------------------
(* Properties *)

\* The types of the desk's state
DeskTypeOK ==
  /\ desk \in [DeskAgents -> {"running", "stopped"}] /\ Len(mails) <= MaxMails
  /\ \A i \in DOMAIN inbound : inbound[i].pc \in {"none", "received", "ignored", "find", "send", "sent", "refused"}
  /\ Len(bugs.rows) <= KeptReports /\ apps.copies \subseteq Builds /\ deskFaults \in 0..DeskFaults

\* A reply reaches the agent that wrote the mail it answers: whether the worker knows the session
\* or the text alone says it, however the mail program quotes, also when the mail passes on what
\* another agent signed, and when the session was stopped and had to be restored
ReplyReachesSender == \A h \in handedOver : h.agent = mails[h.reply].from

\* The build that the metadata names can be downloaded, whatever deployments interleave and
\* wherever one of them stops
ArtifactServed == apps.phone # "404" /\ (apps.meta # "none" => apps.meta \in apps.copies)

\* What the owner sends arrives at the agent it is for, and what the phone is told to download is
\* there.
DeskIsRight == ReplyReachesSender /\ ArtifactServed
=============================================================================
