--------------------------- MODULE MessageProofs -----------------------------
(***************************************************************************)
(* What is proved of the messages about agents and the ways to them: the   *)
(* handoffs of codex-fork seats (ForkHandoff), the owner's desk            *)
(* (OwnerDesk), the notices of reviews and of reparent requests (Notices)  *)
(* and side questions (SideQuestion), for every set of notes, agents,      *)
(* requests and questions and every bound.                                 *)
(***************************************************************************)
EXTENDS ForkHandoff, OwnerDesk, Notices, SideQuestion, FiniteSetTheorems, SequenceTheorems, TLAPS

-----------------------------------------------------------------------------
(* Handoffs of codex-fork seats *)

WatchPcs == {"none", "down", "check", "read", "begin", "clear", "wait", "commit", "ending", "failing", "failed"}

Note == Notes \union {NoNote}
Watch == [pc : WatchPcs, offset : Nat, turns : Int, path : Note, since : Nat, ok : BOOLEAN]

\* The types of the variables, with those ForkTypeOK leaves out
ForkTypes ==
  /\ asked \in [path : Note, offset : Nat] /\ asked.offset <= Len(forkStream)
  /\ forkStream \in Seq({"turn", "thread"}) /\ requests \in Seq(Notes)
  /\ prompted \in Note /\ ended \in BOOLEAN /\ watching \in BOOLEAN
  /\ forkWatch \in Watch

\* What stands is the last request
AskedIsLast == asked = NothingAsked \/ (requests # <<>> /\ asked.path = requests[Len(requests)])

\* A monitor that typed a prompt knows which
TypedIsKnown ==
  (forkWatch.pc = "wait" \/ (forkWatch.pc = "commit" /\ forkWatch.ok)) => prompted = forkWatch.path

\* A request stands as long as its handoff is tried: only the outcome takes it back
StandsWhileTried == forkWatch.pc \in {"clear", "wait", "commit"} => asked # NothingAsked

\* The set of monitors holds the seat as long as its monitor lives
WatchingIsTrue == watching <=> forkWatch.pc \notin {"none", "failed", "down"}

\* The inductive invariant
ForkInv ==
  /\ ForkTypes /\ AskedIsLast /\ TypedIsKnown /\ StandsWhileTried /\ WatchingIsTrue /\ LastIsCarriedOut
  /\ ~AskWhileEnding => AskedIsWatched

\* The number of turns that ended is a number
LEMMA TurnsTyped ==
  ASSUME forkStream \in Seq({"turn", "thread"}), NEW from \in Nat
  PROVE  TurnsIn(from) \in Nat
<1>1. IsFiniteSet((from + 1)..Len(forkStream))
  BY FS_Interval
<1>2. {i \in (from + 1)..Len(forkStream) : forkStream[i] = "turn"} \subseteq (from + 1)..Len(forkStream)
  OBVIOUS
<1> QED BY <1>1, <1>2, FS_Subset, FS_CardinalityType DEF TurnsIn

\* A monitor whose fields are set is a monitor
LEMMA WatchFields ==
  ASSUME NEW w \in Watch, NEW pc \in WatchPcs
  PROVE  /\ [w EXCEPT !.pc = pc] \in Watch
         /\ \A n \in Nat : [w EXCEPT !.pc = pc, !.offset = n] \in Watch
         /\ \A t \in Int, n \in Nat : [w EXCEPT !.pc = pc, !.turns = t, !.offset = n] \in Watch
         /\ \A p \in Note, n \in Nat : [w EXCEPT !.pc = pc, !.path = p, !.since = n] \in Watch
         /\ \A ok \in BOOLEAN : [w EXCEPT !.pc = pc, !.ok = ok] \in Watch
         /\ \A t \in Int, p \in Note, ok \in BOOLEAN :
              [w EXCEPT !.turns = t, !.pc = pc, !.path = p, !.ok = ok] \in Watch
  BY DEF Watch

LEMMA NoWatchTyped == NoWatch \in Watch /\ NothingAsked \in [path : Note, offset : Nat]
  BY DEF NoWatch, NothingAsked, Watch, WatchPcs, Note

LEMMA NextTryTyped ==
  ASSUME NEW w \in Watch
  PROVE  NextTry(w) \in Watch
<1>1. w.turns - 1 \in Int /\ (IF w.turns > 1 THEN "begin" ELSE "check") \in WatchPcs /\ NoNote \in Note
  BY DEF Watch, WatchPcs, Note
<1> QED BY <1>1, WatchFields DEF NextTry

\* Every step keeps the types
LEMMA ForkTypesStep ==
  ASSUME ForkTypes, ForkNext
  PROVE  ForkTypes'
<1>0. /\ \A pc \in WatchPcs : [forkWatch EXCEPT !.pc = pc] \in Watch /\ [NoWatch EXCEPT !.pc = pc] \in Watch
      /\ \A pc \in WatchPcs, n \in Nat : [NoWatch EXCEPT !.pc = pc, !.offset = n] \in Watch
      /\ \A pc \in WatchPcs, ok \in BOOLEAN : [forkWatch EXCEPT !.pc = pc, !.ok = ok] \in Watch
      /\ NoWatch \in Watch /\ NextTry(forkWatch) \in Watch /\ NothingAsked \in [path : Note, offset : Nat]
  BY WatchFields, NoWatchTyped, NextTryTyped DEF ForkTypes
<1>a. {"down", "check", "read", "begin", "clear", "wait", "commit", "ending", "failing", "failed"} \subseteq WatchPcs
  BY DEF WatchPcs
<1>b. Len(forkStream) \in Nat /\ asked.offset \in Nat /\ asked.path \in Note /\ forkWatch.path \in Note
  BY DEF ForkTypes, Watch
<1>1. ASSUME NEW p \in Notes, AskHandoff(p)
      PROVE  ForkTypes'
  <2>a. [NoWatch EXCEPT !.pc = "check", !.offset = Len(forkStream)] \in Watch
    BY <1>0, <1>a, <1>b
  <2>1. forkWatch' \in Watch /\ watching' \in BOOLEAN
    BY <1>1, <2>a DEF AskHandoff, StartMonitor, ForkTypes
  <2>2. asked' \in [path : Note, offset : Nat] /\ asked'.offset <= Len(forkStream')
    BY <1>1, <1>b DEF AskHandoff, Note
  <2>3. requests' \in Seq(Notes)
    BY <1>1 DEF AskHandoff, ForkTypes
  <2> QED BY <1>1, <2>1, <2>2, <2>3 DEF AskHandoff, ForkTypes
<1>2. CASE ForkTurnEnds
  BY <1>2, <1>b DEF ForkTurnEnds, ForkTypes
<1>3. CASE CheckPending
  <2> DEFINE pc == IF asked = NothingAsked THEN "ending" ELSE "read"
  <2>a. pc \in WatchPcs
    BY <1>a
  <2>b. [forkWatch EXCEPT !.pc = pc] \in Watch /\ [forkWatch EXCEPT !.pc = "failing"] \in Watch
    BY <1>0, <1>a, <2>a
  <2>1. forkWatch' \in Watch
    BY <1>3, <2>b DEF CheckPending
  <2> QED BY <1>3, <2>1 DEF CheckPending, ForkTypes
<1>4. CASE ReadStream
  <2>1. TurnsIn(forkWatch.offset) \in Nat
    BY TurnsTyped DEF ForkTypes, Watch
  <2> DEFINE turns == TurnsIn(forkWatch.offset)
             pc == IF turns = 0 THEN "check" ELSE "begin"
  <2>a. pc \in WatchPcs /\ turns \in Int
    BY <1>a, <2>1
  <2>b. [forkWatch EXCEPT !.pc = pc, !.turns = turns, !.offset = Len(forkStream)] \in Watch
    BY <1>b, <2>a, WatchFields DEF ForkTypes
  <2>2. forkWatch' \in Watch
    BY <1>4, <2>b DEF ReadStream
  <2> QED BY <1>4, <2>2 DEF ReadStream, ForkTypes
<1>5. CASE BeginHandoff
  <2>1. [forkWatch EXCEPT !.pc = "clear", !.path = asked.path, !.since = Len(forkStream)] \in Watch
    BY <1>a, <1>b, WatchFields DEF ForkTypes
  <2>2. forkWatch' \in Watch
    BY <1>0, <1>5, <2>1 DEF BeginHandoff
  <2> QED BY <1>5, <2>2 DEF BeginHandoff, ForkTypes
<1>6. CASE ClearAndPrompt
  <2>1. forkWatch' \in Watch
    <3>1. /\ [forkWatch EXCEPT !.pc = "wait"] \in Watch
          /\ [forkWatch EXCEPT !.pc = "commit", !.ok = FALSE] \in Watch
      BY <1>0, <1>a
    <3> QED BY <1>6, <3>1 DEF ClearAndPrompt
  <2>2. /\ forkStream' \in Seq({"turn", "thread"}) /\ Len(forkStream') >= Len(forkStream)
        /\ prompted' \in Note
    <3>1. CASE forkStream' = Append(forkStream, "thread") /\ prompted' = forkWatch.path
      BY <1>b, <3>1 DEF ForkTypes
    <3>2. CASE UNCHANGED <<forkStream, prompted>>
      BY <1>b, <3>2 DEF ForkTypes
    <3> QED BY <1>6, <3>1, <3>2 DEF ClearAndPrompt
  <2> QED BY <1>b, <1>6, <2>1, <2>2 DEF ClearAndPrompt, ForkTypes
<1>7. CASE AwaitThread
  <2>1. forkWatch' \in Watch
    <3> DEFINE ok == "thread" \in {forkStream[i] : i \in (forkWatch.since + 1)..Len(forkStream)}
    <3>0. ok \in BOOLEAN
      OBVIOUS
    <3> HIDE DEF ok
    <3>1. /\ [forkWatch EXCEPT !.pc = "commit", !.ok = ok] \in Watch
          /\ [forkWatch EXCEPT !.pc = "commit", !.ok = FALSE] \in Watch
      BY <1>0, <1>a, <3>0
    <3> QED BY <1>7, <3>1 DEF AwaitThread, ok
  <2> QED BY <1>7, <2>1 DEF AwaitThread, ForkTypes
<1>8. CASE CommitHandoff
  <2>1. forkWatch' \in Watch
    <3>1. [forkWatch EXCEPT !.pc = "ending"] \in Watch
      BY <1>0, <1>a
    <3> QED BY <1>0, <1>8, <3>1 DEF CommitHandoff
  <2>2. asked' \in [path : Note, offset : Nat] /\ asked'.offset <= Len(forkStream)
    <3>1. NothingAsked.offset = 0
      BY DEF NothingAsked
    <3>2. asked' = NothingAsked \/ asked' = asked
      BY <1>8 DEF CommitHandoff
    <3>3. asked.offset <= Len(forkStream) /\ asked \in [path : Note, offset : Nat] /\ 0 <= Len(forkStream)
      BY <1>b DEF ForkTypes
    <3>4. NothingAsked \in [path : Note, offset : Nat]
      BY NoWatchTyped
    <3> QED BY <3>1, <3>2, <3>3, <3>4
  <2> QED BY <1>8, <2>1, <2>2 DEF CommitHandoff, ForkTypes
<1>9. CASE EndMonitor
  <2>1. forkWatch' \in Watch
    <3>1. [NoWatch EXCEPT !.pc = "failed"] \in Watch
      BY <1>0, <1>a
    <3> QED BY <1>0, <1>9, <3>1 DEF EndMonitor
  <2> QED BY <1>9, <2>1 DEF EndMonitor, ForkTypes
<1>10. CASE EndSeat \/ ReviveSeat
  BY <1>10 DEF EndSeat, ReviveSeat, ForkTypes
<1>11. CASE ServerFalls
  <2>1. forkWatch' \in Watch
    BY <1>0, <1>a, <1>11 DEF ServerFalls
  <2> QED BY <1>11, <2>1 DEF ServerFalls, ForkTypes
<1>12. CASE RecoverHandoffs
  <2>1. forkWatch' \in Watch /\ watching' \in BOOLEAN
    <3>1. [NoWatch EXCEPT !.pc = "check", !.offset = asked.offset] \in Watch
      BY <1>0, <1>a, <1>b
    <3> QED BY <1>0, <1>12, <3>1 DEF RecoverHandoffs, ToTakeUp
  <2> QED BY <1>12, <2>1 DEF RecoverHandoffs, ForkTypes
<1> QED BY <1>1, <1>2, <1>3, <1>4, <1>5, <1>6, <1>7, <1>8, <1>9, <1>10, <1>11, <1>12 DEF ForkNext

\* Every step keeps the invariant
LEMMA ForkInvStep ==
  ASSUME ForkInv, ForkNext
  PROVE  ForkInv'
<1>0. ForkTypes /\ ForkTypes'
  BY ForkTypesStep DEF ForkInv
<1> DEFINE Kept == AskedIsLast' /\ TypedIsKnown' /\ StandsWhileTried' /\ WatchingIsTrue' /\ LastIsCarriedOut'
                     /\ (~AskWhileEnding => AskedIsWatched')
<1> USE <1>0 DEF ForkInv, ForkTypes, AskedIsLast, TypedIsKnown, StandsWhileTried, WatchingIsTrue, LastIsCarriedOut,
                 AskedIsWatched, NoWatch, NothingAsked, WatchPcs, Watch
<1>1. ASSUME NEW p \in Notes, AskHandoff(p)
      PROVE  Kept
  <2>1. p # NoNote
    BY ForkHandoffAssumption DEF NoNote
  <2>2. requests' # <<>> /\ requests'[Len(requests')] = p /\ asked' # NothingAsked /\ asked'.path = p
    BY <1>1, <2>1 DEF AskHandoff
  <2> QED BY <1>1, <2>2 DEF AskHandoff, StartMonitor
<1>2. CASE ForkTurnEnds
  BY <1>2 DEF ForkTurnEnds
<1>3. CASE CheckPending
  BY <1>3 DEF CheckPending, Fault1
<1>4. CASE ReadStream
  BY <1>4 DEF ReadStream
<1>5. CASE BeginHandoff
  BY <1>5 DEF BeginHandoff, NextTry
<1>6. CASE ClearAndPrompt
  <2>1. CASE forkWatch' = [forkWatch EXCEPT !.pc = "wait"] /\ prompted' = forkWatch.path
    <3>1. forkWatch'.pc = "wait" /\ forkWatch'.path = forkWatch.path
      BY <2>1
    <3> QED BY <1>6, <2>1, <3>1 DEF ClearAndPrompt
  <2>2. CASE forkWatch' = [forkWatch EXCEPT !.pc = "commit", !.ok = FALSE]
    <3>1. forkWatch'.pc = "commit" /\ forkWatch'.ok = FALSE
      BY <2>2
    <3> QED BY <1>6, <3>1 DEF ClearAndPrompt
  <2> QED BY <1>6, <2>1, <2>2 DEF ClearAndPrompt
<1>7. CASE AwaitThread
  BY <1>7, ZenonT(60) DEF AwaitThread, Fault1
<1>8. CASE CommitHandoff
  <2>1. CASE ~ended /\ Carried(forkWatch)
    <3>1. asked.path = forkWatch.path /\ prompted = forkWatch.path
      BY <1>8, <2>1 DEF CommitHandoff, Carried
    <3>2. asked' = NothingAsked /\ forkWatch'.pc = "ending" /\ prompted' = prompted /\ requests' = requests
      BY <1>8, <2>1 DEF CommitHandoff
    <3> QED BY <1>8, <3>1, <3>2 DEF CommitHandoff
  <2>2. CASE ended \/ ~Carried(forkWatch)
    <3>1. forkWatch'.pc \in {"begin", "check"} /\ asked' = asked
      BY <1>8, <2>2 DEF CommitHandoff, NextTry
    <3> QED BY <1>8, <3>1 DEF CommitHandoff
  <2> QED BY <2>1, <2>2
<1>9. CASE EndMonitor
  BY <1>9 DEF EndMonitor
<1>10. CASE EndSeat \/ ReviveSeat
  BY <1>10 DEF EndSeat, ReviveSeat
<1>11. CASE ServerFalls
  BY <1>11 DEF ServerFalls
<1>12. CASE RecoverHandoffs
  BY <1>12 DEF RecoverHandoffs, ToTakeUp
<1> QED BY <1>1, <1>2, <1>3, <1>4, <1>5, <1>6, <1>7, <1>8, <1>9, <1>10, <1>11, <1>12 DEF ForkNext

\* The invariant holds in every state
LEMMA ForkInvariant == ForkSpec => []ForkInv
<1>1. ForkInit => ForkInv
  <2>1. ForkInit => ForkTypes
    <3>1. NothingAsked.offset = 0 /\ <<>> \in Seq({"turn", "thread"}) /\ <<>> \in Seq(Notes) /\ Len(<<>>) = 0
      BY DEF NothingAsked
    <3>2. SUFFICES ASSUME ForkInit PROVE ForkTypes
      OBVIOUS
    <3>3. asked \in [path : Note, offset : Nat] /\ forkWatch \in Watch /\ prompted \in Note
      BY <3>2, NoWatchTyped DEF ForkInit, Note
    <3>4. asked.offset <= Len(forkStream)
      BY <3>1, <3>2 DEF ForkInit
    <3>5. ended \in BOOLEAN /\ watching \in BOOLEAN
      BY <3>2 DEF ForkInit
    <3> QED BY <3>1, <3>2, <3>3, <3>4, <3>5 DEF ForkInit, ForkTypes
  <2>2. NoWatch.pc = "none"
    BY DEF NoWatch
  <2> QED BY <2>1, <2>2 DEF ForkInit, ForkInv, AskedIsLast, TypedIsKnown, StandsWhileTried, WatchingIsTrue,
               LastIsCarriedOut, AskedIsWatched
<1>2. ForkInv /\ [ForkNext]_forkVars => ForkInv'
  <2>1. CASE ForkNext
    BY <2>1, ForkInvStep
  <2>2. CASE UNCHANGED forkVars
    BY <2>2 DEF forkVars, ForkInv, ForkTypes, AskedIsLast, TypedIsKnown, StandsWhileTried, WatchingIsTrue,
         LastIsCarriedOut, AskedIsWatched
  <2> QED BY <2>1, <2>2
<1> QED BY <1>1, <1>2, PTL DEF ForkSpec

\* The types of ForkHandoff hold in every state.
THEOREM ForkTyped == ForkSpec => []ForkTypeOK
<1>1. ForkInv => ForkTypeOK
  BY DEF ForkInv, ForkTypes, ForkTypeOK, WatchPcs, Watch, Note
<1> QED BY <1>1, ForkInvariant, PTL

\* Whatever requests, turns, stops, restores, failures and restarts come between the steps of the
\* monitor, no request is dropped in favour of an older one: when none stands, the running
\* conversation was started with the note of the last.
THEOREM LastHandoffDone == ForkSpec => []LastIsCarriedOut
<1>1. ForkInv => LastIsCarriedOut
  BY DEF ForkInv
<1> QED BY <1>1, ForkInvariant, PTL

\* Every request has its monitor until it is carried out, provided that none comes while a monitor
\* that found nothing more to do has not yet left the set of monitors: start_codex_fork_handoff_monitor
\* takes that one for a monitor of the new request.
THEOREM HandoffsWatched == AskWhileEnding = FALSE => (ForkSpec => []HandoffWatched)
<1>1. AskWhileEnding = FALSE /\ ForkInv => HandoffWatched
  BY DEF ForkInv, HandoffWatched
<1>2. AskWhileEnding = FALSE => [](AskWhileEnding = FALSE)
  OBVIOUS
<1> QED BY <1>1, <1>2, ForkInvariant, PTL

-----------------------------------------------------------------------------
(* The text of a mail *)

MailLines == [kind : {"text", "blank", "dashes", "footer", "quote", "wrote"}, of : DeskAgents \union {"nobody"}]

\* The last element of a sequence that was put behind another
LEMMA ConcatLast ==
  ASSUME NEW S, NEW s \in Seq(S), NEW t \in Seq(S), Len(t) >= 1
  PROVE  /\ s \o t \in Seq(S) /\ Len(s \o t) >= 1
         /\ (s \o t)[Len(s \o t)] = t[Len(t)]
<1>1. /\ s \o t \in Seq(S) /\ Len(s \o t) = Len(s) + Len(t)
      /\ \A i \in 1..(Len(s) + Len(t)) : (s \o t)[i] = IF i <= Len(s) THEN s[i] ELSE t[i - Len(s)]
  BY ConcatProperties
<1>2. Len(s) \in Nat /\ Len(t) \in Nat
  OBVIOUS
<1>3. (s \o t)[Len(s) + Len(t)] = t[Len(s) + Len(t) - Len(s)] /\ Len(s) + Len(t) - Len(s) = Len(t)
  BY <1>1, <1>2
<1> QED BY <1>1, <1>2, <1>3

LEMMA OneLine ==
  ASSUME NEW line \in MailLines
  PROVE  <<line>> \in Seq(MailLines) /\ Len(<<line>>) = 1 /\ <<line>>[1] = line
  OBVIOUS

LEMMA LineTypes ==
  /\ \A k \in {"text", "blank", "dashes", "wrote"} : Line(k) \in MailLines /\ Line(k).of = "nobody"
  /\ \A a \in DeskAgents : Footer(a) \in MailLines /\ Footer(a).of = a
  BY DEF MailLines, Line, Footer

\* What an agent may write: its own text, or one with another's signature
LEMMA LinesAre ==
  ASSUME NEW a \in DeskAgents, NEW p \in {<<>>} \union {<<Footer(b)>> : b \in DeskAgents}
  PROVE  /\ Composed(a, p).from = a
         /\ Composed(a, p).lines \in Seq(MailLines)
         /\ Len(Composed(a, p).lines) >= 1
         /\ Composed(a, p).lines[Len(Composed(a, p).lines)].of = a
<1> DEFINE t == <<Line("text")>> \o p
           f == <<Line("blank"), Line("dashes"), Footer(a)>>
<1>1. p \in Seq(MailLines)
  <2>1. CASE p = <<>>
    BY <2>1
  <2>2. ASSUME NEW b \in DeskAgents, p = <<Footer(b)>>
        PROVE  p \in Seq(MailLines)
    BY <2>2, LineTypes, OneLine
  <2> QED BY <2>1, <2>2
<1>2. t \in Seq(MailLines)
  BY <1>1, LineTypes, OneLine, ConcatProperties
<1>3. f \in Seq(MailLines) /\ Len(f) >= 1 /\ f[Len(f)] = Footer(a)
  BY LineTypes
<1>4. Composed(a, p) = [from |-> a, lines |-> t \o f]
  BY DEF Composed, WithFooter
<1> HIDE DEF t, f
<1>5. t \o f \in Seq(MailLines) /\ Len(t \o f) >= 1 /\ (t \o f)[Len(t \o f)] = Footer(a)
  BY <1>2, <1>3, ConcatLast
<1> QED BY <1>4, <1>5, LineTypes

\* A text that ends with a signature belongs to who signed there
LEMMA LastSignature ==
  ASSUME NEW lines \in Seq(MailLines), Len(lines) >= 1, lines[Len(lines)].of # "nobody"
  PROVE  RoutedSession(lines) = lines[Len(lines)].of
<1> DEFINE signed == {i \in DOMAIN lines : lines[i].of # "nobody"}
<1>1. Len(lines) \in signed /\ \A j \in signed : j <= Len(lines) /\ j \in Nat
  OBVIOUS
<1>2. \A i \in signed : (\A j \in signed : j <= i) => i = Len(lines)
  BY <1>1
<1>3. (CHOOSE i \in signed : \A j \in signed : j <= i) = Len(lines)
  BY <1>1, <1>2
<1> QED BY <1>1, <1>3 DEF RoutedSession

LEMMA Unsigned ==
  ASSUME NEW lines \in Seq(MailLines), \A i \in 1..Len(lines) : lines[i].of = "nobody"
  PROVE  RoutedSession(lines) = "nobody"
  BY DEF RoutedSession

\* A reply to a mail of a, in every style, is routed to a or to nobody
LEMMA RepliesAreRouted ==
  ASSUME NEW a \in DeskAgents, NEW mail \in Seq(MailLines), Len(mail) >= 1, mail[Len(mail)].of = a,
         NEW style \in Styles
  PROVE  /\ ReplyTo(mail, style) \in Seq(MailLines) /\ ReplyTo(mail, style) # <<>>
         /\ RoutedSession(ReplyTo(mail, style)) \in {a, "nobody"}
<1> DEFINE head == <<Line("text")>>
           q == [i \in DOMAIN mail |-> Quoted(mail[i])]
<1>1. head \in Seq(MailLines) /\ Len(head) = 1 /\ head[1].of = "nobody" /\ a # "nobody"
  BY DeskAssumption, LineTypes, OneLine
<1>2. ASSUME NEW rest \in Seq(MailLines), Len(rest) >= 1, rest[Len(rest)].of = a
      PROVE  head \o rest \in Seq(MailLines) /\ head \o rest # <<>> /\ RoutedSession(head \o rest) = a
  <2> HIDE DEF head
  <2> DEFINE t == head \o rest
  <2>1. t \in Seq(MailLines) /\ Len(t) >= 1 /\ t[Len(t)] = rest[Len(rest)]
    BY <1>1, <1>2, ConcatLast
  <2> HIDE DEF t
  <2>2. RoutedSession(t) = a
    BY <1>1, <1>2, <2>1, LastSignature
  <2> QED BY <2>1, <2>2 DEF t
<1>3. CASE style = "quoted"
  <2>1. q \in Seq(MailLines) /\ Len(q) = Len(mail) /\ q[Len(q)].of = a
    <3>1. \A i \in 1..Len(mail) : Quoted(mail[i]) \in MailLines /\ Quoted(mail[i]).of = mail[i].of
      BY ElementOfSeq DEF Quoted, MailLines
    <3> QED BY <3>1
  <2>2. ReplyTo(mail, style) = head \o q
    BY <1>3 DEF ReplyTo
  <2> HIDE DEF q, head
  <2> QED BY <2>1, <2>2, <1>2
<1>4. CASE style = "wrote"
  <2> DEFINE h == <<Line("wrote")>>
  <2>1. h \in Seq(MailLines)
    BY LineTypes, OneLine
  <2>2. ReplyTo(mail, style) = head \o (h \o mail)
    BY <1>4 DEF ReplyTo
  <2> HIDE DEF h, head
  <2>3. h \o mail \in Seq(MailLines) /\ Len(h \o mail) >= 1 /\ (h \o mail)[Len(h \o mail)] = mail[Len(mail)]
    BY <2>1, ConcatLast
  <2> QED BY <2>2, <2>3, <1>2
<1>5. CASE style = "above"
  <2> DEFINE h == <<Line("blank")>>
  <2>1. h \in Seq(MailLines)
    BY LineTypes, OneLine
  <2>2. ReplyTo(mail, style) = head \o (h \o mail)
    BY <1>5 DEF ReplyTo
  <2> HIDE DEF h, head
  <2>3. h \o mail \in Seq(MailLines) /\ Len(h \o mail) >= 1 /\ (h \o mail)[Len(h \o mail)] = mail[Len(mail)]
    BY <2>1, ConcatLast
  <2> QED BY <2>2, <2>3, <1>2
<1>6. CASE style = "bare"
  <2>1. ReplyTo(mail, style) = head \o <<>>
    BY <1>6 DEF ReplyTo
  <2> HIDE DEF head
  <2>2. head \o <<>> = head
    BY <1>1, ConcatEmptySeq
  <2>3. RoutedSession(head) = "nobody"
    BY <1>1, Unsigned
  <2>4. head # <<>>
    <3>1. Len(<<>>) = 0
      OBVIOUS
    <3>2. head = <<>> => Len(head) = 0
      BY <3>1, Zenon
    <3> QED BY <1>1, <3>2
  <2> QED BY <1>1, <2>1, <2>2, <2>3, <2>4
<1> QED BY <1>3, <1>4, <1>5, <1>6 DEF Styles

\* The part that is read is no attachment, nor empty
LEMMA UsablePart ==
  ASSUME NEW parts, NEW text, \A i \in DOMAIN parts : parts[i].attached \/ parts[i].lines \in {<<>>, text}
  PROVE  MailText(parts) \in {<<>>, text}
<1> DEFINE Usable(i, type) == parts[i].type = type /\ ~parts[i].attached /\ parts[i].lines # <<>>
           FirstOf(type) == {i \in DOMAIN parts : Usable(i, type) /\ \A j \in 1..(i - 1) : ~Usable(j, type)}
           chosen == IF FirstOf("plain") # {} THEN FirstOf("plain") ELSE FirstOf("html")
<1>1. \A i \in chosen : i \in DOMAIN parts /\ parts[i].lines = text
  OBVIOUS
<1>2. MailText(parts) = IF chosen = {} THEN <<>> ELSE parts[CHOOSE i \in chosen : TRUE].lines
  BY DEF MailText
<1> HIDE DEF chosen
<1> QED BY <1>1, <1>2

\* However a mail carries a text, what is read of it is that text or nothing
LEMMA TextIsRead ==
  ASSUME NEW text, NEW raw \in RawMails(text), NEW parsed \in {<<>>, text}
  PROVE  BodyOf(MailText(raw), parsed) \in {<<>>, text}
<1>1. \A i \in DOMAIN raw : raw[i].attached \/ raw[i].lines \in {<<>>, text}
  <2>1. CASE raw = <<Part("plain", FALSE, text)>>
    BY <2>1 DEF Part
  <2>2. CASE raw = <<Part("html", FALSE, text)>>
    BY <2>2 DEF Part
  <2>3. CASE raw = <<>>
    BY <2>3
  <2>4. ASSUME NEW a \in DeskAgents,
               raw = <<Part("plain", TRUE, <<Footer(a)>>), Part("html", FALSE, text), Part("plain", FALSE, text)>>
        PROVE  \A i \in DOMAIN raw : raw[i].attached \/ raw[i].lines \in {<<>>, text}
    BY <2>4 DEF Part
  <2> QED BY <2>1, <2>2, <2>3, <2>4 DEF RawMails
<1>2. MailText(raw) \in {<<>>, text}
  BY <1>1, UsablePart
<1> QED BY <1>2 DEF BodyOf

(* Mail *)

Replies0 == [pc : {"none", "received", "ignored", "find", "send", "sent", "refused"}, lines : Seq(MailLines),
             header : DeskAgents \union {"nobody"}, session : DeskAgents \union {"nobody"}]

MailTypeOK ==
  /\ desk \in [DeskAgents -> {"running", "stopped"}]
  /\ mails \in Seq([from : DeskAgents, lines : Seq(MailLines)]) /\ Len(mails) <= MaxMails
  /\ inbound \in [1..MaxMails -> Replies0]

\* Every mail ends with the signature of its sender
MailsAreSigned ==
  \A k \in 1..Len(mails) : Len(mails[k].lines) >= 1 /\ mails[k].lines[Len(mails[k].lines)].of = mails[k].from

\* A reply is about a mail, and whatever says whose it is says its sender or nobody
RepliesAreKnown ==
  \A k \in 1..MaxMails : inbound[k].pc # "none" =>
    /\ k \in 1..Len(mails)
    /\ inbound[k].header \in {mails[k].from, "nobody"}
    /\ RoutedSession(inbound[k].lines) \in {mails[k].from, "nobody"}
    /\ inbound[k].pc \in {"find", "send"} => inbound[k].session = mails[k].from

\* What was handed over was handed to the sender
HandedToSender == \A h \in handedOver : h.reply \in 1..Len(mails) /\ h.agent = mails[h.reply].from

MailInv == MailTypeOK /\ MailsAreSigned /\ RepliesAreKnown /\ HandedToSender

LEMMA MailAt ==
  ASSUME MailTypeOK, NEW k \in 1..Len(mails)
  PROVE  mails[k] \in [from : DeskAgents, lines : Seq(MailLines)] /\ mails[k].from \in DeskAgents
<1>1. mails[k] \in [from : DeskAgents, lines : Seq(MailLines)]
  BY ElementOfSeq DEF MailTypeOK
<1> QED BY <1>1

LEMMA MailStep ==
  ASSUME MailInv, DeskNext
  PROVE  MailInv'
<1> USE DEF MailInv
<1>0. MaxMails \in Nat
  BY DeskAssumption
<1>1. ASSUME NEW a \in DeskAgents, SendMail(a)
      PROVE  MailInv'
  <2>0. UNCHANGED <<inbound, desk, handedOver>> /\ Len(mails) < MaxMails
    BY <1>1 DEF SendMail
  <2>1. CASE UNCHANGED mails
    BY <2>0, <2>1 DEF MailTypeOK, MailsAreSigned, RepliesAreKnown, HandedToSender
  <2>2. ASSUME NEW p \in {<<>>} \union {<<Footer(b)>> : b \in DeskAgents}, mails' = Append(mails, Composed(a, p))
        PROVE  MailInv'
    <3> DEFINE m == Composed(a, p)
    <3>1. m.from = a /\ m.lines \in Seq(MailLines) /\ Len(m.lines) >= 1 /\ m.lines[Len(m.lines)].of = a
      BY LinesAre
    <3>2. m \in [from : DeskAgents, lines : Seq(MailLines)]
      BY <3>1 DEF Composed
    <3> HIDE DEF m
    <3>3. /\ mails' \in Seq([from : DeskAgents, lines : Seq(MailLines)]) /\ Len(mails') = Len(mails) + 1
          /\ \A k \in 1..Len(mails) : mails'[k] = mails[k]
          /\ mails'[Len(mails) + 1] = m
      BY <2>2, <3>2, AppendProperties DEF MailTypeOK, m
    <3>4. MailTypeOK' /\ Len(mails) \in Nat
      BY <2>0, <3>3, <1>0 DEF MailTypeOK
    <3>5. MailsAreSigned'
      <4> SUFFICES ASSUME NEW k \in 1..(Len(mails) + 1)
                   PROVE  Len(mails'[k].lines) >= 1 /\ mails'[k].lines[Len(mails'[k].lines)].of = mails'[k].from
        BY <3>3 DEF MailsAreSigned
      <4>1. CASE k = Len(mails) + 1
        BY <4>1, <3>1, <3>3
      <4>2. CASE k \in 1..Len(mails)
        BY <4>2, <3>3 DEF MailsAreSigned
      <4> QED BY <4>1, <4>2, <3>4
    <3>6. RepliesAreKnown'
      <4>1. 1..Len(mails) \subseteq 1..Len(mails')
        BY <3>3, <3>4
      <4> QED BY <4>1, <2>0, <3>3 DEF RepliesAreKnown
    <3>7. HandedToSender'
      BY <2>0, <3>3, <3>4 DEF HandedToSender
    <3> QED BY <3>4, <3>5, <3>6, <3>7
  <2> QED BY <1>1, <2>1, <2>2 DEF SendMail
<1>2. ASSUME NEW i \in 1..MaxMails, PostReply(i)
      PROVE  MailInv'
  <2>1. PICK style \in Styles, header \in {mails[i].from, "nobody"} :
          \E raw \in RawMails(ReplyTo(mails[i].lines, style)), parsed \in {<<>>, ReplyTo(mails[i].lines, style)} :
            inbound' = [inbound EXCEPT ![i] = [pc |-> "received", lines |-> BodyOf(MailText(raw), parsed),
                                               header |-> header, session |-> "nobody"]]
    BY <1>2 DEF PostReply
  <2> DEFINE text == ReplyTo(mails[i].lines, style)
  <2>2. i \in 1..Len(mails) /\ UNCHANGED <<mails, desk, handedOver>>
    BY <1>2 DEF PostReply, MailTypeOK
  <2>3. mails[i] \in [from : DeskAgents, lines : Seq(MailLines)]
    BY <2>2, MailAt
  <2>4. text \in Seq(MailLines) /\ RoutedSession(text) \in {mails[i].from, "nobody"}
    BY <2>2, <2>3, RepliesAreRouted DEF MailsAreSigned
  <2> HIDE DEF text
  <2>5. PICK body \in {<<>>, text} :
          inbound' = [inbound EXCEPT ![i] = [pc |-> "received", lines |-> body, header |-> header, session |-> "nobody"]]
    <3>1. PICK raw \in RawMails(text), parsed \in {<<>>, text} :
            inbound' = [inbound EXCEPT ![i] = [pc |-> "received", lines |-> BodyOf(MailText(raw), parsed),
                                               header |-> header, session |-> "nobody"]]
      BY <2>1 DEF text
    <3>2. BodyOf(MailText(raw), parsed) \in {<<>>, text}
      BY TextIsRead
    <3> QED BY <3>1, <3>2
  <2>6. RoutedSession(<<>>) = "nobody"
    <3>1. {k \in DOMAIN <<>> : <<>>[k].of # "nobody"} = {}
      OBVIOUS
    <3> QED BY <3>1, Zenon DEF RoutedSession
  <2>7. body \in Seq(MailLines) /\ RoutedSession(body) \in {mails[i].from, "nobody"}
    <3>1. CASE body = <<>>
      BY <3>1, <2>6
    <3>2. CASE body = text
      BY <3>2, <2>4
    <3> QED BY <3>1, <3>2
  <2>8. MailTypeOK'
    BY <2>2, <2>3, <2>5, <2>7 DEF MailTypeOK, Replies0
  <2>9. RepliesAreKnown'
    <3> SUFFICES ASSUME NEW k \in 1..MaxMails, inbound'[k].pc # "none"
                 PROVE  /\ k \in 1..Len(mails)
                        /\ inbound'[k].header \in {mails[k].from, "nobody"}
                        /\ RoutedSession(inbound'[k].lines) \in {mails[k].from, "nobody"}
                        /\ inbound'[k].pc \in {"find", "send"} => inbound'[k].session = mails[k].from
      BY <2>2 DEF RepliesAreKnown
    <3>1. CASE k = i
      BY <3>1, <2>2, <2>3, <2>5, <2>7 DEF MailTypeOK
    <3>2. CASE k # i
      BY <3>2, <2>5 DEF MailTypeOK, RepliesAreKnown
    <3> QED BY <3>1, <3>2
  <2> QED BY <2>2, <2>8, <2>9 DEF MailsAreSigned, HandedToSender
<1>3. ASSUME NEW i \in 1..MaxMails, InboundRead(i)
      PROVE  MailInv'
  <2> DEFINE s == Route(i)
             pc == IF s = "nobody" \/ ReplyBody(inbound[i].lines) = <<>> THEN "ignored" ELSE "find"
  <2>1. /\ inbound[i].pc = "received" /\ UNCHANGED <<mails, desk, handedOver>>
        /\ inbound' = [inbound EXCEPT ![i] = [@ EXCEPT !.session = s, !.pc = pc]]
    BY <1>3 DEF InboundRead
  <2>2. s \in {mails[i].from, "nobody"} /\ i \in 1..Len(mails)
    BY <2>1 DEF Route, RepliesAreKnown
  <2>3. mails[i].from \in DeskAgents
    BY <2>2, MailAt
  <2>4. pc \in {"ignored", "find"} /\ (pc = "find" => s # "nobody")
    OBVIOUS
  <2> HIDE DEF s, pc
  <2>5. /\ inbound'[i].pc = pc /\ inbound'[i].session = s /\ inbound'[i].header = inbound[i].header
        /\ inbound'[i].lines = inbound[i].lines /\ inbound'[i] \in Replies0
        /\ \A k \in 1..MaxMails : k # i => inbound'[k] = inbound[k]
        /\ inbound' \in [1..MaxMails -> Replies0]
    BY <2>1, <2>2, <2>3, <2>4, ZenonT(60) DEF MailTypeOK, Replies0
  <2>6. RepliesAreKnown'
    BY <2>1, <2>2, <2>4, <2>5 DEF RepliesAreKnown
  <2> QED BY <2>1, <2>5, <2>6 DEF MailTypeOK, MailsAreSigned, HandedToSender
<1>4. ASSUME NEW i \in 1..MaxMails, InboundFind(i) \/ InboundSend(i) \/ PostAgain(i)
      PROVE  MailInv'
  <2>1. UNCHANGED mails /\ inbound[i].pc \in {"find", "send", "refused"}
    BY <1>4 DEF InboundFind, InboundSend, PostAgain
  <2>2. i \in 1..Len(mails) /\ mails[i].from \in DeskAgents
        /\ (inbound[i].pc \in {"find", "send"} => inbound[i].session = mails[i].from)
    <3>1. i \in 1..Len(mails) /\ (inbound[i].pc \in {"find", "send"} => inbound[i].session = mails[i].from)
      BY <2>1 DEF RepliesAreKnown
    <3>2. mails[i].from \in DeskAgents
      BY <3>1, MailAt
    <3> QED BY <3>1, <3>2
  <2>3. PICK pc \in {"send", "refused", "sent", "received"} : inbound' = [inbound EXCEPT ![i].pc = pc]
                /\ (pc = "send" => inbound[i].pc = "find")
    BY <1>4 DEF InboundFind, InboundSend, PostAgain
  <2>5. /\ inbound'[i].pc = pc /\ inbound'[i].session = inbound[i].session /\ inbound'[i].header = inbound[i].header
        /\ inbound'[i].lines = inbound[i].lines /\ inbound'[i] \in Replies0
        /\ \A k \in 1..MaxMails : k # i => inbound'[k] = inbound[k]
        /\ inbound' \in [1..MaxMails -> Replies0]
    BY <2>3 DEF MailTypeOK, Replies0
  <2>6. RepliesAreKnown'
    BY <2>1, <2>2, <2>3, <2>5 DEF RepliesAreKnown
  <2>7. desk' \in [DeskAgents -> {"running", "stopped"}]
    BY <1>4, <2>2 DEF InboundFind, InboundSend, PostAgain, MailTypeOK
  <2>8. HandedToSender'
    <3>1. \A h \in handedOver' : h \in handedOver \/ (h.reply = i /\ h.agent = inbound[i].session /\ inbound[i].pc = "send")
      BY <1>4 DEF InboundFind, InboundSend, PostAgain
    <3> QED BY <3>1, <2>1, <2>2 DEF HandedToSender
  <2> QED BY <2>1, <2>5, <2>6, <2>7, <2>8 DEF MailTypeOK, MailsAreSigned
<1>5. ASSUME NEW a \in DeskAgents, DeskStops(a)
      PROVE  MailInv'
  BY <1>5 DEF DeskStops, MailTypeOK, MailsAreSigned, RepliesAreKnown, HandedToSender
<1>6. CASE UNCHANGED deskMailVars
  BY <1>6 DEF deskMailVars, MailTypeOK, MailsAreSigned, RepliesAreKnown, HandedToSender
<1>7. ASSUME NEW b, SubmitReport(b) \/ NotifyMaintainer(b) \/ RecordDelivery(b) \/ DeployBegin(b) \/ DeployWrite(b)
                     \/ DeployFails(b) \/ Download(b)
      PROVE  UNCHANGED deskMailVars
  BY <1>7 DEF SubmitReport, NotifyMaintainer, RecordDelivery, DeployBegin, DeployWrite, DeployFails, Download, deskMailVars
<1> QED BY <1>1, <1>2, <1>3, <1>4, <1>5, <1>6, <1>7 DEF DeskNext

(* Bug reports, and the builds of the app *)

BugStates == {"none", "notify", "done", "failed"} \union MaintainerAnswer
ReportRows == [bug : 1..MaxBugs, result : BugStates]

\* The table of the reports is bounded
BugTypeOK ==
  /\ bugs \in [rows : Seq(ReportRows), pc : [1..MaxBugs -> BugStates]]
  /\ Len(bugs.rows) <= KeptReports

\* The metadata name a build that is there, and so do the deployment about to write them and the phone
Deployments == [pc : {"none", "latest", "hashed", "meta", "done", "failed"}, build : Builds \union {"none"}]
AppRecords == [latest : Builds \union {"none"}, copies : SUBSET Builds, meta : Builds \union {"none"},
               phone : Builds \union {"none"}, deploy : [1..MaxDeploys -> Deployments]]
AppInv ==
  /\ apps \in AppRecords
  /\ apps.meta # "none" => apps.meta \in apps.copies
  /\ apps.phone # "none" => apps.phone \in apps.copies
  /\ \A n \in 1..MaxDeploys : /\ apps.deploy[n].pc \in {"latest", "hashed", "meta"} => apps.deploy[n].build \in Builds
                              /\ apps.deploy[n].pc = "meta" => apps.deploy[n].build \in apps.copies

\* prune_locked leaves at most the limit
LEMMA PrunedIsBounded ==
  ASSUME NEW rows \in Seq(ReportRows)
  PROVE  Pruned(rows) \in Seq(ReportRows) /\ Len(Pruned(rows)) <= KeptReports
<1>1. KeptReports \in Nat \ {0} /\ Len(rows) \in Nat
  BY DeskAssumption
<1>2. CASE Len(rows) <= KeptReports
  BY <1>1, <1>2 DEF Pruned
<1>3. CASE Len(rows) > KeptReports
  <2> DEFINE from == Len(rows) - KeptReports + 1
  <2>1. from \in Int /\ Len(rows) \in Int /\ from \in 1..Len(rows)
    BY <1>1, <1>3
  <2>2. \A i \in from..Len(rows) : rows[i] \in ReportRows
    BY <2>1, ElementOfSeq
  <2>3. Pruned(rows) = SubSeq(rows, from, Len(rows))
    BY <1>3 DEF Pruned
  <2> HIDE DEF from
  <2>4. /\ SubSeq(rows, from, Len(rows)) \in Seq(ReportRows)
        /\ Len(SubSeq(rows, from, Len(rows))) = IF from <= Len(rows) THEN Len(rows) - from + 1 ELSE 0
    BY <2>1, <2>2, SubSeqProperties
  <2> QED BY <1>1, <1>3, <2>1, <2>3, <2>4 DEF from
<1> QED BY <1>1, <1>2, <1>3

LEMMA BugStep ==
  ASSUME BugTypeOK, DeskNext
  PROVE  BugTypeOK'
<1>0. /\ bugs.rows \in Seq(ReportRows) /\ Len(bugs.rows) <= KeptReports /\ bugs.pc \in [1..MaxBugs -> BugStates]
  BY DEF BugTypeOK
<1>a. ASSUME NEW rows \in Seq(ReportRows), Len(rows) <= KeptReports, NEW pc \in [1..MaxBugs -> BugStates],
             bugs' = [rows |-> rows, pc |-> pc]
      PROVE  BugTypeOK'
  BY <1>a DEF BugTypeOK
<1>1. ASSUME NEW b \in 1..MaxBugs, SubmitReport(b)
      PROVE  BugTypeOK'
  <2> DEFINE row == [bug |-> b, result |-> "none"]
             new == Pruned(Append(bugs.rows, row))
  <2>1. Append(bugs.rows, row) \in Seq(ReportRows)
    <3>1. row \in ReportRows
      BY DEF ReportRows, BugStates
    <3> HIDE DEF row
    <3> QED BY <1>0, <3>1, AppendProperties
  <2>2. new \in Seq(ReportRows) /\ Len(new) <= KeptReports
    BY <2>1, PrunedIsBounded
  <2>3. bugs' = [bugs EXCEPT !.rows = new, !.pc[b] = "notify"]
    BY <1>1 DEF SubmitReport, Recorded
  <2> HIDE DEF new
  <2>4. bugs' = [rows |-> new, pc |-> [bugs.pc EXCEPT ![b] = "notify"]]
    BY <2>3 DEF BugTypeOK
  <2>5. [bugs.pc EXCEPT ![b] = "notify"] \in [1..MaxBugs -> BugStates]
    BY <1>0 DEF BugStates
  <2> QED BY <2>2, <2>4, <2>5, <1>a
<1>2. ASSUME NEW b \in 1..MaxBugs, NotifyMaintainer(b)
      PROVE  BugTypeOK'
  <2>1. PICK result \in MaintainerAnswer \union {"failed"} : bugs' = [bugs EXCEPT !.pc[b] = result]
    BY <1>2 DEF NotifyMaintainer
  <2>2. bugs' = [rows |-> bugs.rows, pc |-> [bugs.pc EXCEPT ![b] = result]]
    BY <2>1 DEF BugTypeOK
  <2>3. [bugs.pc EXCEPT ![b] = result] \in [1..MaxBugs -> BugStates]
    BY <1>0 DEF BugStates
  <2> QED BY <1>0, <2>2, <2>3, <1>a
<1>3. ASSUME NEW b \in 1..MaxBugs, RecordDelivery(b)
      PROVE  BugTypeOK'
  <2> DEFINE new == [i \in DOMAIN bugs.rows |-> IF bugs.rows[i].bug = b THEN [bugs.rows[i] EXCEPT !.result = bugs.pc[b]]
                                                ELSE bugs.rows[i]]
  <2>1. \A i \in 1..Len(bugs.rows) : bugs.rows[i] \in ReportRows
    BY <1>0, ElementOfSeq
  <2>0. DOMAIN bugs.rows = 1..Len(bugs.rows) /\ Len(bugs.rows) \in Nat
    BY <1>0, LenProperties
  <2>2. new \in [1..Len(bugs.rows) -> ReportRows]
    BY <2>0, <2>1, <1>0 DEF ReportRows
  <2>3. new \in Seq(ReportRows) /\ Len(new) = Len(bugs.rows)
    <3> HIDE DEF new
    <3> QED BY <2>0, <2>2
  <2>4. bugs' = [bugs EXCEPT !.rows = new, !.pc[b] = "done"]
    BY <1>3 DEF RecordDelivery
  <2> HIDE DEF new
  <2>5. bugs' = [rows |-> new, pc |-> [bugs.pc EXCEPT ![b] = "done"]]
    BY <2>4 DEF BugTypeOK
  <2>6. [bugs.pc EXCEPT ![b] = "done"] \in [1..MaxBugs -> BugStates]
    BY <1>0 DEF BugStates
  <2> QED BY <1>0, <2>3, <2>5, <2>6, <1>a
<1>4. ASSUME NEW x, SendMail(x) \/ DeskStops(x) \/ PostReply(x) \/ InboundRead(x) \/ InboundFind(x) \/ InboundSend(x)
                    \/ PostAgain(x) \/ DeployBegin(x) \/ DeployWrite(x) \/ DeployFails(x) \/ Download(x)
      PROVE  BugTypeOK'
  BY <1>4 DEF SendMail, DeskStops, PostReply, InboundRead, InboundFind, InboundSend, PostAgain, DeployBegin, DeployWrite,
     DeployFails, Download, BugTypeOK
<1> QED BY <1>1, <1>2, <1>3, <1>4 DEF DeskNext

\* A deployment moves on, having put its files there before it says so
LEMMA DeployMoves ==
  ASSUME AppInv, NEW n \in 1..MaxDeploys, apps' \in AppRecords, apps'.phone = apps.phone,
         apps.copies \subseteq apps'.copies, apps'.meta = apps.meta \/ apps'.meta \in apps'.copies,
         \A k \in 1..MaxDeploys : k # n => apps'.deploy[k] = apps.deploy[k],
         apps'.deploy[n].pc \in {"latest", "hashed", "meta"} => apps'.deploy[n].build \in Builds,
         apps'.deploy[n].pc = "meta" => apps'.deploy[n].build \in apps'.copies
  PROVE  AppInv'
  BY DEF AppInv

LEMMA AppStep ==
  ASSUME AppInv, DeskNext
  PROVE  AppInv'
<1>0. "none" \notin Builds /\ "404" \notin Builds
  BY DeskAssumption
<1>a. apps \in AppRecords
  BY DEF AppInv
<1>1. ASSUME NEW n \in 1..MaxDeploys, DeployBegin(n)
      PROVE  AppInv'
  <2>1. PICK b \in Builds : apps' = [apps EXCEPT !.deploy[n] = [pc |-> "latest", build |-> b]]
    BY <1>1 DEF DeployBegin
  <2>2. /\ apps'.phone = apps.phone /\ apps'.copies = apps.copies /\ apps'.meta = apps.meta
        /\ apps'.deploy = [apps.deploy EXCEPT ![n] = [pc |-> "latest", build |-> b]]
    BY <2>1, <1>a DEF AppRecords
  <2>3. apps' \in AppRecords
    BY <2>1, <1>a DEF AppRecords, Deployments
  <2>4. apps'.deploy[n] = [pc |-> "latest", build |-> b] /\ \A k \in 1..MaxDeploys : k # n => apps'.deploy[k] = apps.deploy[k]
    BY <2>2, <1>a DEF AppRecords
  <2> QED BY <2>2, <2>3, <2>4, DeployMoves
<1>c. ASSUME NEW n \in 1..MaxDeploys
      PROVE  apps.deploy[n] \in Deployments /\ (apps.deploy[n].pc \in {"latest", "hashed", "meta"} => apps.deploy[n].build \in Builds)
  BY DEF AppInv, AppRecords
<1>2. ASSUME NEW n \in 1..MaxDeploys, DeployWrite(n)
      PROVE  AppInv'
  <2>0. PICK pc, b : pc = apps.deploy[n].pc /\ b = apps.deploy[n].build
    OBVIOUS
  <2>1. pc \in {"latest", "hashed", "meta"} /\ b \in Builds /\ DeployOrder(pc) \in {"hashed", "meta", "done"}
        /\ (DeployOrder(pc) = "meta" => pc = "hashed")
    BY <1>2, <2>0, <1>c DEF DeployWrite, DeployOrder
  <2>2. /\ apps'.latest = IF pc = "latest" THEN b ELSE apps.latest
        /\ apps'.copies = IF pc = "hashed" THEN apps.copies \union {b} ELSE apps.copies
        /\ apps'.meta = IF pc = "meta" THEN b ELSE apps.meta
        /\ apps'.phone = apps.phone
        /\ apps'.deploy = [apps.deploy EXCEPT ![n].pc = DeployOrder(pc)]
        /\ apps' = [latest |-> apps'.latest, copies |-> apps'.copies, meta |-> apps'.meta, phone |-> apps'.phone,
                    deploy |-> apps'.deploy]
    BY <1>2, <2>0, <1>a DEF DeployWrite, AppRecords
  <2>3. /\ apps'.deploy[n] = [pc |-> DeployOrder(pc), build |-> b]
        /\ \A k \in 1..MaxDeploys : k # n => apps'.deploy[k] = apps.deploy[k]
        /\ apps'.deploy \in [1..MaxDeploys -> Deployments]
    <3> DEFINE d == [pc |-> DeployOrder(pc), build |-> b]
    <3>1. [apps.deploy[n] EXCEPT !.pc = DeployOrder(pc)] = d
      BY <2>0, <1>c DEF Deployments
    <3>2. d \in Deployments
      BY <2>1 DEF Deployments
    <3>3. apps.deploy \in [1..MaxDeploys -> Deployments]
      BY <1>a DEF AppRecords
    <3>4. apps'.deploy = [apps.deploy EXCEPT ![n] = d]
      BY <2>2, <3>1, <3>3
    <3> HIDE DEF d
    <3> QED BY <3>2, <3>3, <3>4 DEF d
  <2>4. apps' \in AppRecords
    <3>1. /\ apps'.latest \in Builds \union {"none"} /\ apps'.copies \in SUBSET Builds
          /\ apps'.meta \in Builds \union {"none"} /\ apps'.phone \in Builds \union {"none"}
      BY <1>a, <2>1, <2>2 DEF AppRecords
    <3> QED BY <2>2, <2>3, <3>1 DEF AppRecords
  <2>5. pc = "meta" => b \in apps.copies
    BY <2>0 DEF AppInv
  <2> QED BY <2>1, <2>2, <2>3, <2>4, <2>5, DeployMoves
<1>3. ASSUME NEW n \in 1..MaxDeploys, DeployFails(n)
      PROVE  AppInv'
  <2>1. apps' = [apps EXCEPT !.deploy[n].pc = "failed"]
    BY <1>3 DEF DeployFails
  <2>2. /\ apps'.phone = apps.phone /\ apps'.copies = apps.copies /\ apps'.meta = apps.meta
        /\ apps'.deploy = [apps.deploy EXCEPT ![n].pc = "failed"]
    BY <2>1, <1>a DEF AppRecords
  <2>3. apps' \in AppRecords
    BY <2>1, <1>a, ZenonT(60) DEF AppRecords, Deployments
  <2>4. apps'.deploy[n].pc = "failed" /\ \A k \in 1..MaxDeploys : k # n => apps'.deploy[k] = apps.deploy[k]
    BY <2>2, <1>a DEF AppRecords, Deployments
  <2> QED BY <2>2, <2>3, <2>4, DeployMoves
<1>4. ASSUME NEW n \in 1..MaxDeploys, Download(n)
      PROVE  AppInv'
  BY <1>0, <1>4 DEF Download, AppInv, AppRecords
<1>5. ASSUME NEW x, SendMail(x) \/ DeskStops(x) \/ PostReply(x) \/ InboundRead(x) \/ InboundFind(x) \/ InboundSend(x)
                    \/ PostAgain(x) \/ SubmitReport(x) \/ NotifyMaintainer(x) \/ RecordDelivery(x)
      PROVE  AppInv'
  BY <1>5 DEF SendMail, DeskStops, PostReply, InboundRead, InboundFind, InboundSend, PostAgain, SubmitReport,
     NotifyMaintainer, RecordDelivery, AppInv
<1> QED BY <1>1, <1>2, <1>3, <1>4, <1>5 DEF DeskNext

\* A reply reaches the agent that wrote the mail, whatever the mail program, the worker, stops and
\* restores make of it (extract_routed_session_id, inbound_email_webhook), and the build the metadata
\* name can be downloaded whichever deployments interleave or fail (store_artifact), for all agents,
\* builds and numbers of mails and deployments.
\* No more bug reports are kept than the limit (prune_locked).
THEOREM DeskRight == DeskSpec => [](DeskTypeOK /\ DeskIsRight)
<1> DEFINE Faults == deskFaults \in 0..DeskFaults
           Inv == MailInv /\ AppInv /\ BugTypeOK /\ Faults
<1>1. DeskInit => Inv
  <2> SUFFICES ASSUME DeskInit PROVE Inv
    OBVIOUS
  <2>1. MailInv
    BY DeskAssumption DEF DeskInit, NoReply, MailInv, MailTypeOK, Replies0, MailsAreSigned, RepliesAreKnown, HandedToSender
  <2>2. AppInv
    BY DEF DeskInit, AppInv, AppRecords, Deployments
  <2>3. BugTypeOK
    BY DeskAssumption DEF DeskInit, BugTypeOK, BugStates
  <2>4. Faults
    BY DeskAssumption DEF DeskInit
  <2> QED BY <2>1, <2>2, <2>3, <2>4
<1>2. Inv /\ [DeskNext]_deskVars => Inv'
  <2>1. ASSUME Inv, DeskNext PROVE Inv'
    <3>1. Faults'
      <4>1. deskFaults' = deskFaults \/ DeskFault
        BY <2>1 DEF DeskNext, SendMail, DeskStops, PostReply, InboundRead, InboundFind, InboundSend, PostAgain,
           SubmitReport, NotifyMaintainer, RecordDelivery, DeployBegin, DeployWrite, DeployFails, Download
      <4> QED BY <2>1, <4>1, DeskAssumption DEF DeskFault
    <3> QED BY <2>1, <3>1, MailStep, AppStep, BugStep
  <2>2. ASSUME Inv, UNCHANGED deskVars PROVE Inv'
    BY <2>2 DEF deskVars, MailInv, MailTypeOK, MailsAreSigned, RepliesAreKnown, HandedToSender, AppInv, BugTypeOK
  <2> QED BY <2>1, <2>2
<1>3. Inv => DeskTypeOK
  BY DEF MailInv, MailTypeOK, Replies0, AppInv, AppRecords, BugTypeOK, DeskTypeOK
<1>4. Inv => DeskIsRight
  <2> SUFFICES ASSUME Inv PROVE DeskIsRight
    OBVIOUS
  <2>1. ReplyReachesSender
    BY DEF MailInv, HandedToSender, ReplyReachesSender
  <2>2. ArtifactServed
    BY DeskAssumption DEF AppInv, AppRecords, ArtifactServed
  <2> QED BY <2>1, <2>2 DEF DeskIsRight
<1> QED BY <1>1, <1>2, <1>3, <1>4, PTL DEF DeskSpec

-----------------------------------------------------------------------------
(* The outcome of a reparent request: ReparentOutbox *)

OutboxEvents == ({"approval"} \X SUBSET Approvers) \union ({"terminal"} \X Closed) \union ({"quarantined"} \X {"", "leased"})
Texts == {"approve", "progress", ""} \union Reasons
Tellings == [event : OutboxEvents, to : Parties, text : Texts]
Intents == [event : OutboxEvents, to : Parties, queued : BOOLEAN]
PetitionRows == [status : {"none", "pending", "applying", "failed"} \union Closed, stage : {"", "leased"},
                 yes : SUBSET (Parties \union {"human"}), reason : {""} \union Reasons, intents : SUBSET Intents]
PassRows == [pc : {"idle", "check", "queue", "mark"}, todo : Seq(Petitions \X Tellings),
             text : Texts]

OutboxTypes ==
  /\ petition \in [Petitions -> PetitionRows] /\ pass \in PassRows
  /\ pass.pc # "idle" => pass.todo # <<>>
  /\ applying \in Petitions \union {NoParty} /\ repairs \in 0 .. MaxRepairs /\ outboxFalls \in 0 .. OutboxCrashes

\* The request that is being applied is open
ApplyingIsOpen == applying \in Petitions => petition[applying].status = "applying"

\* The notice is about the ending of its request
TellsTheEnd(r, event) == IsOutcome(petition[r].status) /\ event = OutcomeEvent(petition[r])

NoticesFinal == \A n \in notices : n.from \in Petitions /\ (n.event[1] = "terminal" => TellsTheEnd(n.from, n.event))
NoticesOnce == \A m, n \in notices : m.from = n.from /\ SameKey(m, n) => m = n
ChosenIsFinal == pass.pc \in {"queue", "mark"} /\ Job[2].event[1] = "terminal" => TellsTheEnd(Job[1], Job[2].event)

OutboxInv == OutboxTypes /\ ApplyingIsOpen /\ NoticesFinal /\ NoticesOnce /\ ChosenIsFinal

\* What is to be told of a request: one notice to a party, of an ending only when it has ended
LEMMA DesiredAre ==
  ASSUME NEW p \in PetitionRows
  PROVE  /\ Desired(p) \subseteq Tellings
         /\ \A d \in Desired(p) : d.event[1] = "terminal" => IsOutcome(p.status) /\ d.event = OutcomeEvent(p)
         /\ \A d, e \in Desired(p) : d.to = e.to => d = e
<1>t. /\ p.status \in {"none", "pending", "applying", "failed"} \union Closed /\ p.stage \in {"", "leased"}
      /\ p.reason \in {""} \union Reasons
  BY DEF PetitionRows
<1>n. ASSUME NEW ev \in OutboxEvents, NEW a \in Parties, NEW text \in Texts
      PROVE  Notice(ev, a, text) \in Tellings /\ Notice(ev, a, text).event = ev /\ Notice(ev, a, text).to = a
  BY DEF Notice, Tellings
<1>r. p.reason \in Texts BY <1>t DEF Texts
<1>1. CASE p.status = "pending"
  <2>1. \A d \in Desired(p) :
          \/ \E a \in Approvers \ p.yes : d = Notice(<<"approval", Approvers \ p.yes>>, a, "approve")
          \/ \E a \in Parties \ (Approvers \ p.yes) : d = Notice(<<"approval", Approvers \ p.yes>>, a, "progress")
    BY <1>1 DEF Desired, IsOutcome, Closed
  <2> PICK missing : missing = Approvers \ p.yes OBVIOUS
  <2> PICK ev : ev = <<"approval", missing>> OBVIOUS
  <2>2. ev \in OutboxEvents /\ ev[1] = "approval"
    <3>1. missing \in SUBSET Approvers OBVIOUS
    <3> QED BY <3>1 DEF OutboxEvents
  <2>3. \A d \in Desired(p) : \E a \in Parties : \/ a \in missing /\ d = Notice(ev, a, "approve")
                                                 \/ a \notin missing /\ d = Notice(ev, a, "progress")
    BY <2>1 DEF Parties
  <2>x. "approve" \in Texts /\ "progress" \in Texts BY DEF Texts
  <2>4. \A d \in Desired(p) : d \in Tellings /\ d.event = ev
    <3> SUFFICES ASSUME NEW d \in Desired(p) PROVE d \in Tellings /\ d.event = ev OBVIOUS
    <3>1. PICK a \in Parties : d = Notice(ev, a, "approve") \/ d = Notice(ev, a, "progress") BY <2>3
    <3> QED BY <3>1, <2>2, <2>x, <1>n
  <2>5. \A d, e \in Desired(p) : d.to = e.to => d = e
    <3> SUFFICES ASSUME NEW d \in Desired(p), NEW e \in Desired(p), d.to = e.to PROVE d = e OBVIOUS
    <3>1. PICK a \in Parties : \/ a \in missing /\ d = Notice(ev, a, "approve")
                               \/ a \notin missing /\ d = Notice(ev, a, "progress")
      BY <2>3
    <3>2. PICK b \in Parties : \/ b \in missing /\ e = Notice(ev, b, "approve")
                               \/ b \notin missing /\ e = Notice(ev, b, "progress")
      BY <2>3
    <3>3. d.to = a /\ e.to = b BY <3>1, <3>2, <2>2, <2>x, <1>n
    <3> QED BY <3>1, <3>2, <3>3
  <2> QED BY <2>2, <2>4, <2>5
<1>2. ASSUME NEW ev \in OutboxEvents, Desired(p) = {Notice(ev, a, p.reason) : a \in Parties}
      PROVE  /\ Desired(p) \subseteq Tellings /\ \A d \in Desired(p) : d.event = ev
             /\ \A d, e \in Desired(p) : d.to = e.to => d = e
  <2>1. \A d \in Desired(p) : \E a \in Parties : d = Notice(ev, a, p.reason) BY <1>2
  <2>2. \A d \in Desired(p) : d \in Tellings /\ d.event = ev /\ d = Notice(ev, d.to, p.reason)
    BY <2>1, <1>n, <1>r
  <2> QED BY <2>2
<1>3. CASE IsOutcome(p.status)
  <2>1. Desired(p) = {Notice(OutcomeEvent(p), a, p.reason) : a \in Parties}
    BY <1>3 DEF Desired, IsOutcome, Closed
  <2>2. OutcomeEvent(p) \in OutboxEvents BY <1>3 DEF OutcomeEvent, OutboxEvents, IsOutcome
  <2> QED BY <1>2, <1>3, <2>1, <2>2
<1>5. CASE p.status = "failed"
  <2>1. Desired(p) = {Notice(<<"quarantined", p.stage>>, a, p.reason) : a \in Parties}
    BY <1>5 DEF Desired, IsOutcome, Closed
  <2>2. <<"quarantined", p.stage>> \in OutboxEvents BY <1>t DEF OutboxEvents
  <2>3. \A d \in Desired(p) : d.event = <<"quarantined", p.stage>> BY <1>2, <2>1, <2>2
  <2> QED BY <1>2, <2>1, <2>2, <2>3
<1>4. CASE p.status \in {"none", "applying"}
  <2>1. Desired(p) = {} BY <1>4 DEF Desired, IsOutcome, Closed
  <2> QED BY <2>1
<1> QED BY <1>t, <1>1, <1>3, <1>4, <1>5 DEF IsOutcome

\* A write changes the outbox of the request, and nothing else of it
LEMMA ProjectedIs ==
  ASSUME NEW p \in PetitionRows
  PROVE  /\ Projected(p) \in PetitionRows
         /\ Projected(p).status = p.status
<1> DEFINE kept == {i \in p.intents : \/ i.queued \/ i.event[1] # "terminal"
                                       \/ \E d \in Desired(p) : SameKey(d, i)}
           new == {d \in Desired(p) : \A i \in kept : ~SameKey(d, i)}
           more == {[event |-> d.event, to |-> d.to, queued |-> FALSE] : d \in new}
<1>1. Projected(p) = [p EXCEPT !.intents = kept \union more] BY DEF Projected
<1>2. kept \subseteq Intents BY DEF PetitionRows
<1>3. new \subseteq Tellings BY DesiredAre
<1> HIDE DEF kept, new
<1>4. more \subseteq Intents
  <2> SUFFICES ASSUME NEW d \in new PROVE [event |-> d.event, to |-> d.to, queued |-> FALSE] \in Intents OBVIOUS
  <2>1. d.event \in OutboxEvents /\ d.to \in Parties BY <1>3 DEF Tellings
  <2> QED BY <2>1 DEF Intents
<1> HIDE DEF more
<1>5. kept \union more \in SUBSET Intents BY <1>2, <1>4
<1> QED BY <1>1, <1>5 DEF PetitionRows

\* The work of a pass is finite, and listed in a sequence
LEMMA WorkIsFinite ==
  ASSUME petition \in [Petitions -> PetitionRows]
  PROVE  /\ PendingPetitions \subseteq Petitions \X Tellings
         /\ IsFiniteSet(PendingPetitions)
<1>0. ASSUME NEW j \in PendingPetitions
      PROVE  /\ j \in Petitions \X Tellings /\ j = <<j[1], j[2]>> /\ j[1] \in Petitions /\ j[2] \in Desired(petition[j[1]])
             /\ j[2].to \in Parties
  <2>1. PICK r \in Petitions : j \in {<<r, d>> : d \in Desired(petition[r])} BY DEF PendingPetitions
  <2>2. PICK d \in Desired(petition[r]) : j = <<r, d>> BY <2>1
  <2>3. petition[r] \in PetitionRows OBVIOUS
  <2>4. d \in Tellings BY <2>3, DesiredAre
  <2>5. d.to \in Parties BY <2>4 DEF Tellings
  <2> QED BY <2>2, <2>4, <2>5
<1>1. IsFiniteSet(Petitions \X Parties)
  <2>1. IsFiniteSet(Parties) BY OutboxAssumption, FS_AddElement DEF Parties
  <2> QED BY <2>1, OutboxAssumption, FS_Product
<1> DEFINE f == [j \in PendingPetitions |-> <<j[1], j[2].to>>]
<1>2. f \in Injection(PendingPetitions, Petitions \X Parties)
  <2>1. f \in [PendingPetitions -> Petitions \X Parties] BY <1>0
  <2>2. ASSUME NEW i \in PendingPetitions, NEW j \in PendingPetitions, f[i] = f[j] PROVE i = j
    <3>1. i[1] = j[1] /\ i[2].to = j[2].to BY <2>2
    <3>2. petition[i[1]] \in PetitionRows BY <1>0
    <3>3. i[2] = j[2] BY <3>1, <3>2, <1>0, DesiredAre
    <3> QED BY <3>1, <3>3, <1>0
  <2> QED BY <2>1, <2>2 DEF Injection, IsInjective
<1>3. IsFiniteSet(PendingPetitions) BY <1>1, <1>2, FS_Injection
<1> QED BY <1>0, <1>3

LEMMA WorkIsListed ==
  ASSUME NEW S, NEW T, S \subseteq T, IsFiniteSet(S)
  PROVE  SetToSeq(S) \in Seq(T) /\ (S # {} => SetToSeq(S) # <<>>)
<1> DEFINE n == Cardinality(S)
<1>1. n \in Nat /\ ExistsBijection(1 .. n, S) BY FS_CardinalityType
<1>2. PICK g : g \in Bijection(1 .. n, S) BY <1>1 DEF ExistsBijection
<1>3. g \in [1 .. n -> S] /\ IsInjective(g) BY <1>2 DEF Bijection, Injection
<1>4. SetToSeq(S) \in [1 .. n -> S] BY <1>3 DEF SetToSeq
<1>5. SetToSeq(S) \in Seq(T) /\ DOMAIN SetToSeq(S) = 1 .. n
  <2>1. SetToSeq(S) \in [1 .. n -> T] BY <1>4
  <2> QED BY <2>1, <1>1, SeqDef
<1>6. ASSUME S # {}, SetToSeq(S) = <<>> PROVE FALSE
  <2>1. n # 0 BY <1>6, FS_EmptySet
  <2>2. 1 \in 1 .. n BY <2>1, <1>1
  <2> QED BY <2>2, <1>5, <1>6
<1> QED BY <1>5, <1>6

\* The end of a request is final, so what was said of it stays true
LEMMA EndStays ==
  ASSUME OutboxInv, OutboxTypes', ApplyingIsOpen',
         \A r \in Petitions : IsOutcome(petition[r].status) => petition'[r].status = petition[r].status,
         UNCHANGED <<notices, pass>>
  PROVE  OutboxInv'
<1>1. \A r \in Petitions : \A e : TellsTheEnd(r, e) => TellsTheEnd(r, e)' BY DEF TellsTheEnd, OutcomeEvent
<1>2. NoticesFinal' BY <1>1 DEF OutboxInv, NoticesFinal
<1>3. NoticesOnce' BY DEF OutboxInv, NoticesOnce
<1>4. ChosenIsFinal'
  <2>1. pass.pc \in {"queue", "mark"} => Job[1] \in Petitions
    <3>1. pass.todo \in Seq(Petitions \X Tellings) BY DEF OutboxInv, OutboxTypes, PassRows
    <3>2. pass.pc \in {"queue", "mark"} => pass.todo # <<>> BY DEF OutboxInv, OutboxTypes
    <3> QED BY <3>1, <3>2, HeadTailProperties DEF Job
  <2> QED BY <2>1, <1>1 DEF OutboxInv, ChosenIsFinal, Job
<1> QED BY <1>2, <1>3, <1>4 DEF OutboxInv

\* A write of a request
LEMMA Storing ==
  ASSUME OutboxTypes, NEW r \in Petitions, NEW p \in PetitionRows, Store(r, p)
  PROVE  /\ petition' \in [Petitions -> PetitionRows] /\ petition'[r].status = p.status
         /\ \A q \in Petitions \ {r} : petition'[q] = petition[q]
<1>1. Projected(p) \in PetitionRows /\ Projected(p).status = p.status BY ProjectedIs
<1> QED BY <1>1 DEF OutboxTypes, Store

\* A request moves on, away from a status that is no ending
LEMMA Moving ==
  ASSUME OutboxInv, NEW r \in Petitions, NEW p \in PetitionRows, Store(r, p), ~IsOutcome(petition[r].status),
         UNCHANGED <<notices, pass, outboxFalls>>, repairs' \in 0 .. MaxRepairs,
         \/ applying' \in {applying, NoParty} /\ applying' # r
         \/ applying' = r /\ p.status = "applying"
  PROVE  OutboxInv'
<1>1. /\ petition' \in [Petitions -> PetitionRows] /\ petition'[r].status = p.status
      /\ \A q \in Petitions \ {r} : petition'[q] = petition[q]
  BY Storing DEF OutboxInv
<1>2. OutboxTypes'
  <2>1. applying' \in Petitions \union {NoParty} BY DEF OutboxInv, OutboxTypes
  <2> QED BY <1>1, <2>1 DEF OutboxInv, OutboxTypes
<1>3. ApplyingIsOpen'
  <2>1. NoParty \notin Petitions BY OutboxAssumption DEF NoParty
  <2> QED BY <1>1, <2>1 DEF OutboxInv, ApplyingIsOpen
<1>4. \A q \in Petitions : IsOutcome(petition[q].status) => petition'[q].status = petition[q].status BY <1>1
<1> QED BY <1>2, <1>3, <1>4, EndStays

LEMMA NoPetitionIs == NoPetition \in PetitionRows
<1>1. {} \in SUBSET (Parties \union {"human"}) /\ {} \in SUBSET Intents OBVIOUS
<1> QED BY <1>1 DEF NoPetition, PetitionRows

LEMMA PetitionSteps ==
  ASSUME OutboxInv, NEW r \in Petitions,
         \/ CreatePetition(r) \/ AgentDecides(r) \/ HumanDecides(r) \/ Lapses(r) \/ Repair(r)
         \/ ApplyStarts(r) \/ ApplyEnds(r) \/ ApplyResumes(r)
  PROVE  OutboxInv'
<1>t. petition[r] \in PetitionRows /\ applying \in Petitions \union {NoParty} /\ NoParty \notin Petitions
  BY OutboxAssumption DEF OutboxInv, OutboxTypes, NoParty
<1>r. repairs \in 0 .. MaxRepairs BY DEF OutboxInv, OutboxTypes
<1>o. ~IsOutcome("none") /\ ~IsOutcome("pending") /\ ~IsOutcome("applying") /\ ~IsOutcome("failed")
  BY DEF IsOutcome, Closed
<1>a. applying = r => petition[r].status = "applying" BY DEF OutboxInv, ApplyingIsOpen
<1>s. \A s \in {"none", "pending", "applying", "failed"} \union Closed :
        /\ [petition[r] EXCEPT !.status = s] \in PetitionRows
        /\ [petition[r] EXCEPT !.status = s].status = s
  BY <1>t DEF PetitionRows
<1>y. \A a \in Parties \union {"human"} :
        /\ [petition[r] EXCEPT !.yes = petition[r].yes \union {a}] \in PetitionRows
        /\ [petition[r] EXCEPT !.yes = petition[r].yes \union {a}].status = petition[r].status
  BY <1>t DEF PetitionRows
<1>1. CASE CreatePetition(r)
  <2> PICK p : p = [NoPetition EXCEPT !.status = "pending", !.yes = {Initiator}] OBVIOUS
  <2>1. {Initiator} \in SUBSET (Parties \union {"human"}) BY DEF Parties
  <2>2. p \in PetitionRows BY <2>1, NoPetitionIs DEF PetitionRows
  <2>3. Store(r, p) /\ petition[r].status = "none" BY <1>1 DEF CreatePetition
  <2> QED BY <1>1, <1>r, <1>o, <1>a, <2>2, <2>3, Moving DEF CreatePetition
<1>2. CASE AgentDecides(r)
  <2>1. PICK a \in Approvers, ok \in BOOLEAN :
          Store(r, IF ok THEN [petition[r] EXCEPT !.yes = @ \union {a}] ELSE [petition[r] EXCEPT !.status = "rejected"])
    BY <1>2 DEF AgentDecides
  <2>2. PICK p : p = IF ok THEN [petition[r] EXCEPT !.yes = petition[r].yes \union {a}]
                     ELSE [petition[r] EXCEPT !.status = "rejected"]
    OBVIOUS
  <2>3. a \in Parties /\ "rejected" \in Closed BY DEF Parties, Closed
  <2>4. p \in PetitionRows BY <1>s, <1>y, <2>2, <2>3
  <2>5. Store(r, p)
    <3>1. CASE ok BY <3>1, <2>1, <2>2
    <3>2. CASE ~ok BY <3>2, <2>1, <2>2
    <3> QED BY <3>1, <3>2
  <2>6. petition[r].status = "pending" BY <1>2 DEF AgentDecides
  <2> QED BY <1>2, <1>r, <1>o, <1>a, <2>4, <2>5, <2>6, Moving DEF AgentDecides
<1>3. CASE HumanDecides(r)
  <2>1. PICK ok \in BOOLEAN :
          Store(r, IF ok THEN [petition[r] EXCEPT !.yes = @ \union {"human"}] ELSE [petition[r] EXCEPT !.status = "rejected"])
    BY <1>3 DEF HumanDecides
  <2>2. PICK p : p = IF ok THEN [petition[r] EXCEPT !.yes = petition[r].yes \union {"human"}]
                     ELSE [petition[r] EXCEPT !.status = "rejected"]
    OBVIOUS
  <2>4. p \in PetitionRows BY <1>s, <1>y, <2>2 DEF Closed
  <2>5. Store(r, p)
    <3>1. CASE ok BY <3>1, <2>1, <2>2
    <3>2. CASE ~ok BY <3>2, <2>1, <2>2
    <3> QED BY <3>1, <3>2
  <2>6. petition[r].status = "pending" BY <1>3 DEF HumanDecides
  <2> QED BY <1>3, <1>r, <1>o, <1>a, <2>4, <2>5, <2>6, Moving DEF HumanDecides
<1>4. CASE Lapses(r)
  <2>1. PICK s \in {"expired", "stale", "superseded"} : Store(r, [petition[r] EXCEPT !.status = s])
    BY <1>4 DEF Lapses
  <2>2. [petition[r] EXCEPT !.status = s] \in PetitionRows BY <1>s DEF Closed
  <2>3. petition[r].status = "pending" BY <1>4 DEF Lapses
  <2> QED BY <1>4, <1>r, <1>o, <1>a, <2>1, <2>2, <2>3, Moving DEF Lapses
<1>5. CASE Repair(r)
  <2>1. petition[r].status = "failed" /\ repairs' \in 0 .. MaxRepairs /\ applying # r
    BY <1>5, <1>r, <1>t, <1>a, OutboxAssumption DEF Repair
  <2>2. CASE Store(r, [petition[r] EXCEPT !.status = "applying"]) /\ applying' = r
    BY <1>5, <2>1, <2>2, <1>s, <1>o, Moving DEF Repair
  <2>3. CASE Store(r, [petition[r] EXCEPT !.status = "repaired"]) /\ UNCHANGED applying
    <3>1. [petition[r] EXCEPT !.status = "repaired"] \in PetitionRows BY <1>s DEF Closed
    <3> QED BY <1>5, <2>1, <2>3, <3>1, <1>o, Moving DEF Repair
  <2> QED BY <1>5, <2>2, <2>3 DEF Repair
<1>6. CASE ApplyStarts(r)
  <2> PICK p : p = [petition[r] EXCEPT !.status = "applying", !.stage = "leased"] OBVIOUS
  <2>1. p \in PetitionRows /\ p.status = "applying" BY <1>t DEF PetitionRows
  <2>2. Store(r, p) /\ petition[r].status = "pending" BY <1>6 DEF ApplyStarts
  <2> QED BY <1>6, <2>1, <2>2, <1>r, <1>o, Moving DEF ApplyStarts
<1>7. CASE ApplyEnds(r)
  <2>0. petition[r].status = "applying" /\ applying' = NoParty /\ NoParty # r BY <1>7, <1>a, <1>t DEF ApplyEnds
  <2>1. PICK p \in PetitionRows : Store(r, p)
    <3>1. [petition[r] EXCEPT !.status = "applied"] \in PetitionRows
          /\ [petition[r] EXCEPT !.status = "stale"] \in PetitionRows
      BY <1>s DEF Closed
    <3>2. \A why \in Reasons : [petition[r] EXCEPT !.status = "failed", !.reason = why] \in PetitionRows
      BY <1>t DEF PetitionRows
    <3> QED BY <1>7, <3>1, <3>2 DEF ApplyEnds
  <2> QED BY <1>7, <2>0, <2>1, <1>r, <1>o, Moving DEF ApplyEnds
<1>8. CASE ApplyResumes(r)
  <2>1. petition' = petition /\ applying' = r /\ petition[r].status = "applying" BY <1>8 DEF ApplyResumes
  <2>2. OutboxTypes' BY <1>8, <2>1 DEF ApplyResumes, OutboxInv, OutboxTypes
  <2>3. ApplyingIsOpen' BY <2>1 DEF ApplyingIsOpen
  <2> QED BY <1>8, <2>1, <2>2, <2>3, EndStays DEF ApplyResumes
<1> QED BY <1>1, <1>2, <1>3, <1>4, <1>5, <1>6, <1>7, <1>8

\* The work a pass is at, and what it does next
LEMMA NextWork ==
  ASSUME OutboxTypes, pass.pc # "idle"
  PROVE  /\ Job \in Petitions \X Tellings
         /\ NextJob \in PassRows /\ NextJob.pc \in {"idle", "check"} /\ (NextJob.pc # "idle" => NextJob.todo # <<>>)
<1>1. pass.todo \in Seq(Petitions \X Tellings) /\ pass.todo # <<>> BY DEF OutboxTypes, PassRows
<1>2. /\ Head(pass.todo) \in Petitions \X Tellings /\ Tail(pass.todo) \in Seq(Petitions \X Tellings)
      /\ Len(Tail(pass.todo)) = Len(pass.todo) - 1 /\ Len(pass.todo) \in Nat
  BY <1>1, HeadTailProperties, LenProperties
<1>3. CASE Len(pass.todo) > 1
  <2>1. NextJob = [pc |-> "check", todo |-> Tail(pass.todo), text |-> ""] BY <1>3 DEF NextJob
  <2>2. Len(<<>>) = 0 BY EmptySeq
  <2>6. Len(Tail(pass.todo)) # 0 BY <1>2, <1>3
  <2>3. Tail(pass.todo) # <<>> BY <2>2, <2>6
  <2>4. "" \in Texts BY DEF Texts
  <2>5. [pc |-> "check", todo |-> Tail(pass.todo), text |-> ""] \in PassRows BY <1>2, <2>4 DEF PassRows
  <2> QED BY <1>2, <2>1, <2>3, <2>5 DEF Job
<1>4. CASE ~(Len(pass.todo) > 1)
  <2>1. NextJob = NoPass BY <1>4 DEF NextJob
  <2>2. <<>> \in Seq(Petitions \X Tellings) /\ "" \in Texts BY EmptySeq DEF Texts
  <2>3. NoPass \in PassRows /\ NoPass.pc = "idle" BY <2>2 DEF NoPass, PassRows
  <2> QED BY <1>2, <2>1, <2>3 DEF Job
<1> QED BY <1>3, <1>4

LEMMA NoPassIs == NoPass \in PassRows /\ NoPass.pc = "idle"
<1>2. <<>> \in Seq(Petitions \X Tellings) /\ "" \in Texts BY EmptySeq DEF Texts
<1> QED BY <1>2 DEF NoPass, PassRows

\* The requests keep their statuses, and the pass begins, ends or goes on to its next piece of work
LEMMA PassMoves ==
  ASSUME OutboxInv, petition' \in [Petitions -> PetitionRows],
         \A r \in Petitions : petition'[r].status = petition[r].status,
         pass' \in PassRows, pass'.pc \in {"idle", "check"}, pass'.pc # "idle" => pass'.todo # <<>>,
         UNCHANGED <<notices, repairs>>, applying' \in {applying, NoParty}, outboxFalls' \in 0 .. OutboxCrashes
  PROVE  OutboxInv'
<1>0. NoParty \notin Petitions BY OutboxAssumption DEF NoParty
<1>1. OutboxTypes' BY DEF OutboxInv, OutboxTypes
<1>2. ApplyingIsOpen' BY <1>0 DEF OutboxInv, ApplyingIsOpen
<1>3. NoticesFinal' BY DEF OutboxInv, NoticesFinal, TellsTheEnd, OutcomeEvent
<1>4. NoticesOnce' BY DEF OutboxInv, NoticesOnce
<1>5. ChosenIsFinal' BY DEF ChosenIsFinal
<1> QED BY <1>1, <1>2, <1>3, <1>4, <1>5 DEF OutboxInv

LEMMA PassSteps ==
  ASSUME OutboxInv, PassStep \/ OutboxCrash
  PROVE  OutboxInv'
<1>t. /\ petition \in [Petitions -> PetitionRows] /\ pass \in PassRows /\ OutboxTypes
      /\ outboxFalls \in 0 .. OutboxCrashes
  BY DEF OutboxInv, OutboxTypes
<1>1. CASE PassStart
  <2>1. /\ petition' \in [Petitions -> PetitionRows]
        /\ \A r \in Petitions : petition'[r].status = petition[r].status
    BY <1>1, <1>t, ProjectedIs DEF PassStart
  <2>2. SetToSeq(PendingPetitions) \in Seq(Petitions \X Tellings) /\ SetToSeq(PendingPetitions) # <<>>
    BY <1>1, <1>t, WorkIsFinite, WorkIsListed DEF PassStart
  <2> PICK work : work = SetToSeq(PendingPetitions) OBVIOUS
  <2>3. pass' = [pc |-> "check", todo |-> work, text |-> ""] BY <1>1 DEF PassStart
  <2>4. "" \in Texts BY DEF Texts
  <2>5. pass' \in PassRows /\ pass'.pc = "check" /\ pass'.todo = work BY <2>2, <2>3, <2>4 DEF PassRows
  <2> QED BY <1>1, <1>t, <2>1, <2>2, <2>5, PassMoves DEF PassStart
<1>2. CASE PassCheck
  <2>0. pass.pc = "check" /\ UNCHANGED <<notices, applying, repairs, outboxFalls>> BY <1>2 DEF PassCheck
  <2>1. /\ Job \in Petitions \X Tellings
        /\ NextJob \in PassRows /\ NextJob.pc \in {"idle", "check"} /\ (NextJob.pc # "idle" => NextJob.todo # <<>>)
    BY <1>t, <2>0, NextWork
  <2> DEFINE now == {d \in Desired(petition[Job[1]]) : SameKey(d, Job[2])}
  <2>2. CASE now = {}
    <3>1. pass' = NextJob /\ petition' = petition BY <1>2, <2>2 DEF PassCheck
    <3> QED BY <1>t, <2>0, <2>1, <3>1, PassMoves
  <2>3. CASE now # {}
    <3>1. PICK text : text = (CHOOSE d \in now : TRUE).text OBVIOUS
    <3>2. pass' = [pass EXCEPT !.pc = "queue", !.text = text] /\ petition' = petition
      BY <1>2, <2>3, <3>1 DEF PassCheck, AsChecked
    <3>3. petition[Job[1]] \in PetitionRows BY <1>t, <2>1
    <3>4. \A d \in now : /\ d.text \in Texts /\ SameKey(d, Job[2])
                         /\ d.event[1] = "terminal" => /\ IsOutcome(petition[Job[1]].status)
                                                       /\ d.event = OutcomeEvent(petition[Job[1]])
      BY <3>3, DesiredAre DEF Tellings
    <3>5. (CHOOSE d \in now : TRUE) \in now BY <2>3
    <3> HIDE DEF now
    <3>6. text \in Texts BY <3>1, <3>4, <3>5
    <3>7. pass' \in PassRows /\ pass'.pc = "queue" /\ pass'.todo = pass.todo BY <1>t, <3>2, <3>6 DEF PassRows
    <3>8. OutboxTypes' BY <1>t, <2>0, <3>2, <3>7 DEF OutboxTypes
    <3>9. Job' = Job BY <3>7 DEF Job
    <3>10. ChosenIsFinal'
      <4>1. Job[2].event[1] = "terminal" => TellsTheEnd(Job[1], Job[2].event)
        BY <3>4, <3>5 DEF SameKey, TellsTheEnd
      <4> QED BY <4>1, <3>2, <3>9 DEF ChosenIsFinal, TellsTheEnd, OutcomeEvent
    <3>11. ApplyingIsOpen' /\ NoticesFinal' /\ NoticesOnce'
      BY <2>0, <3>2 DEF OutboxInv, ApplyingIsOpen, NoticesFinal, NoticesOnce, TellsTheEnd, OutcomeEvent
    <3> QED BY <3>8, <3>10, <3>11 DEF OutboxInv
  <2> QED BY <2>2, <2>3
<1>3. CASE PassQueue
  <2>0. pass.pc = "queue" /\ UNCHANGED <<petition, applying, repairs, outboxFalls>> BY <1>3 DEF PassQueue
  <2>1. Job \in Petitions \X Tellings BY <1>t, <2>0, NextWork
  <2> PICK row : row = [from |-> Job[1], event |-> Job[2].event, to |-> Job[2].to, text |-> pass.text] OBVIOUS
  <2>r. row.from = Job[1] /\ row.event = Job[2].event /\ row.to = Job[2].to OBVIOUS
  <2>2. CASE pass' = NoPass /\ UNCHANGED notices
    BY <1>t, <2>0, <2>2, NoPassIs, PassMoves
  <2>3. CASE pass' = [pass EXCEPT !.pc = "mark"] /\ notices' = AddOnce(row)
    <3>1. pass' \in PassRows /\ pass'.pc = "mark" /\ pass'.todo = pass.todo BY <1>t, <2>3 DEF PassRows
    <3>2. OutboxTypes' BY <1>t, <2>0, <3>1 DEF OutboxTypes
    <3>3. Job' = Job BY <3>1 DEF Job
    <3>4. Job[2].event[1] = "terminal" => TellsTheEnd(Job[1], Job[2].event)
      BY <2>0 DEF OutboxInv, ChosenIsFinal
    <3>5. ChosenIsFinal' BY <3>3, <3>4, <2>0 DEF ChosenIsFinal, TellsTheEnd, OutcomeEvent
    <3>6. \/ notices' = notices
          \/ notices' = notices \union {row} /\ \A n \in notices : ~(n.from = row.from /\ SameKey(n, row))
      BY <2>3 DEF AddOnce
    <3>7. NoticesFinal'
      <4>1. \A n \in notices' : n \in notices \/ n = row BY <3>6
      <4> QED BY <4>1, <2>0, <2>1, <2>r, <3>4 DEF OutboxInv, NoticesFinal, TellsTheEnd, OutcomeEvent
    <3>8. NoticesOnce' BY <3>6 DEF OutboxInv, NoticesOnce, SameKey
    <3>9. ApplyingIsOpen' BY <2>0 DEF OutboxInv, ApplyingIsOpen
    <3> QED BY <3>2, <3>5, <3>7, <3>8, <3>9 DEF OutboxInv
  <2> QED BY <1>3, <2>2, <2>3 DEF PassQueue
<1>4. CASE PassMark
  <2>0. pass.pc = "mark" /\ UNCHANGED <<notices, applying, repairs, outboxFalls>> /\ pass' = NextJob
    BY <1>4 DEF PassMark
  <2>1. /\ Job \in Petitions \X Tellings
        /\ NextJob \in PassRows /\ NextJob.pc \in {"idle", "check"} /\ (NextJob.pc # "idle" => NextJob.todo # <<>>)
    BY <1>t, <2>0, NextWork
  <2> PICK r, n : r = Job[1] /\ n = Job[2] OBVIOUS
  <2>2. r \in Petitions /\ petition[r] \in PetitionRows BY <1>t, <2>1
  <2> DEFINE marked == {IF SameKey(i, n) THEN [i EXCEPT !.queued = TRUE] ELSE i : i \in petition[r].intents}
  <2>3. marked \subseteq Intents
    <3> SUFFICES ASSUME NEW i \in petition[r].intents
                 PROVE  (IF SameKey(i, n) THEN [i EXCEPT !.queued = TRUE] ELSE i) \in Intents
      OBVIOUS
    <3>1. i \in Intents BY <2>2 DEF PetitionRows
    <3>2. [i EXCEPT !.queued = TRUE] \in Intents BY <3>1 DEF Intents
    <3> QED BY <3>1, <3>2
  <2>4. petition' = [petition EXCEPT ![r] = [petition[r] EXCEPT !.intents = marked]]
    BY <1>4, <1>t, <2>2 DEF PassMark, Mark
  <2> HIDE DEF marked
  <2>5. /\ [petition[r] EXCEPT !.intents = marked] \in PetitionRows
        /\ [petition[r] EXCEPT !.intents = marked].status = petition[r].status
    BY <2>2, <2>3 DEF PetitionRows
  <2>6. /\ petition' \in [Petitions -> PetitionRows]
        /\ \A q \in Petitions : petition'[q].status = petition[q].status
    BY <1>t, <2>2, <2>4, <2>5
  <2> QED BY <1>t, <2>0, <2>1, <2>6, PassMoves
<1>5. CASE OutboxCrash
  <2>1. outboxFalls' \in 0 .. OutboxCrashes BY <1>5, <1>t, OutboxAssumption DEF OutboxCrash
  <2> QED BY <1>5, <1>t, <2>1, NoPassIs, PassMoves DEF OutboxCrash
<1> QED BY <1>1, <1>2, <1>3, <1>4, <1>5 DEF PassStep

\* desired_reparent_notifications and reconcile_reparent_notifications: whatever is decided, repaired
\* or lost in a crash between the choice of a notice and its queueing, a party hears of one ending of
\* a request only, once, and it is the ending the request has.
THEOREM OutcomesToldOnce == OutboxSpec => [](OutboxTypeOK /\ OutcomeToldOnce)
<1>1. OutboxInit => OutboxInv
  <2> SUFFICES ASSUME OutboxInit PROVE OutboxInv OBVIOUS
  <2>2. petition \in [Petitions -> PetitionRows] BY NoPetitionIs DEF OutboxInit
  <2>3. OutboxTypes BY <2>2, NoPassIs, OutboxAssumption DEF OutboxInit, OutboxTypes
  <2>4. ApplyingIsOpen BY OutboxAssumption DEF OutboxInit, ApplyingIsOpen, NoParty
  <2>5. NoticesFinal /\ NoticesOnce BY DEF OutboxInit, NoticesFinal, NoticesOnce
  <2>6. ChosenIsFinal BY NoPassIs DEF OutboxInit, ChosenIsFinal
  <2> QED BY <2>3, <2>4, <2>5, <2>6 DEF OutboxInv
<1>2. OutboxInv /\ [OutboxNext]_outboxVars => OutboxInv'
  <2> SUFFICES ASSUME OutboxInv, [OutboxNext]_outboxVars PROVE OutboxInv' OBVIOUS
  <2>1. CASE UNCHANGED outboxVars
    <3>1. UNCHANGED <<petition, notices, pass, applying, repairs, outboxFalls>> BY <2>1 DEF outboxVars
    <3>2. OutboxTypes' /\ ApplyingIsOpen' BY <3>1 DEF OutboxInv, OutboxTypes, ApplyingIsOpen
    <3> QED BY <3>1, <3>2, EndStays
  <2>2. CASE OutboxNext BY <2>2, PetitionSteps, PassSteps DEF OutboxNext, ApplyStep
  <2> QED BY <2>1, <2>2
<1>3. OutboxInv => OutboxTypeOK /\ OutcomeToldOnce
  <2> SUFFICES ASSUME OutboxInv PROVE OutboxTypeOK /\ OutcomeToldOnce OBVIOUS
  <2>1. OutcomeToldOnce
    BY DEF OutboxInv, NoticesFinal, NoticesOnce, TellsTheEnd, SameKey, OutcomeToldOnce
  <2>2. ASSUME NEW r \in Petitions
        PROVE  /\ petition[r].status \in {"none", "pending", "applying", "failed"} \union Closed
               /\ petition[r].yes \subseteq Parties \union {"human"}
               /\ \A i \in petition[r].intents : i.to \in Parties /\ i.queued \in BOOLEAN
    <3>1. petition[r] \in PetitionRows BY DEF OutboxInv, OutboxTypes
    <3>2. petition[r].intents \subseteq Intents BY <3>1 DEF PetitionRows
    <3>3. \A i \in Intents : i.to \in Parties /\ i.queued \in BOOLEAN BY DEF Intents
    <3> QED BY <3>1, <3>2, <3>3 DEF PetitionRows
  <2>3. pass.pc \in {"idle", "check", "queue", "mark"} BY DEF OutboxInv, OutboxTypes, PassRows
  <2> QED BY <2>1, <2>2, <2>3 DEF OutboxTypeOK, OutboxInv, OutboxTypes
<1> QED BY <1>1, <1>2, <1>3, PTL DEF OutboxSpec

-----------------------------------------------------------------------------
(* Codex reviews: CodexReview *)

ReviewStates == {"active", "superseded", "cancelled", "completed"}
Registrations == [owner : Owners, head : Int, since : Int, state : ReviewStates]
Watchers == [pc : {"none", "failed", "read", "find", "post", "retry"}, since : Int, posted : Int]
Creators == [pc : {"none", "head", "post", "register"}, head : Int, posted : Int]
Hubs == [head : 1 .. MaxHeads, now : Int, asked : Int, reviews : SUBSET [head : Int, at : Int]]

ReviewTypes ==
  /\ github \in Hubs /\ registry \in Seq(Registrations) /\ Len(registry) <= MaxRequests
  /\ creator \in [Owners -> Creators] /\ watcher \in [1 .. MaxRequests -> Watchers]
  /\ landed \subseteq DOMAIN registry

\* One request is created at a time, and there is room for it
OneCreator ==
  \A o \in Owners : creator[o].pc # "none" =>
    creating /\ Len(registry) < MaxRequests /\ \A p \in Owners : creator[p].pc # "none" => p = o

OneActive == \A i, j \in Active : i = j
ActiveWatched == \A i \in Active : watcher[i].pc # "none"

ReviewInv == ReviewTypes /\ OneCreator /\ OneActive /\ ActiveWatched

LEMMA RegistryIs ==
  ASSUME ReviewTypes
  PROVE  /\ DOMAIN registry = 1 .. Len(registry) /\ Len(registry) \in Nat /\ Active \subseteq 1 .. MaxRequests
         /\ \A i \in DOMAIN registry : registry[i] \in Registrations
<1>1. DOMAIN registry = 1 .. Len(registry) /\ Len(registry) \in Nat BY LenProperties DEF ReviewTypes
<1>2. \A i \in DOMAIN registry : registry[i] \in Registrations BY <1>1, ElementOfSeq DEF ReviewTypes
<1>3. Active \subseteq 1 .. MaxRequests BY <1>1, ReviewAssumption DEF Active, ReviewTypes
<1> QED BY <1>1, <1>2, <1>3

\* The requests that are active do not change, and those that had a watcher keep one
LEMMA RequestsRest ==
  ASSUME ReviewInv, ReviewTypes', OneCreator', Active' \subseteq Active,
         \A i \in Active' : watcher[i].pc # "none" => watcher'[i].pc # "none"
  PROVE  ReviewInv'
BY DEF ReviewInv, OneActive, ActiveWatched

\* The state of a request is changed: it is no longer active
LEMMA RequestEnds ==
  ASSUME ReviewTypes, NEW i \in DOMAIN registry, NEW s \in ReviewStates \ {"active"},
         registry' = [registry EXCEPT ![i].state = s]
  PROVE  registry' \in Seq(Registrations) /\ Len(registry') = Len(registry) /\ DOMAIN registry' = DOMAIN registry
         /\ Active' = Active \ {i}
<1>0. /\ DOMAIN registry = 1 .. Len(registry) /\ Len(registry) \in Nat
      /\ \A k \in DOMAIN registry : registry[k] \in Registrations
  BY RegistryIs
<1> PICK row : row = [registry[i] EXCEPT !.state = s] OBVIOUS
<1>1. row \in Registrations /\ row.state = s BY <1>0 DEF Registrations
<1>2. registry' = [registry EXCEPT ![i] = row] BY <1>0 DEF ReviewTypes
<1>3. registry' \in Seq(Registrations) /\ Len(registry') = Len(registry) BY <1>0, <1>1, <1>2, ExceptSeq DEF ReviewTypes
<1>4. DOMAIN registry' = DOMAIN registry /\ registry'[i] = row /\ \A k \in DOMAIN registry \ {i} : registry'[k] = registry[k]
  BY <1>2
<1>5. Active' = Active \ {i} BY <1>1, <1>4 DEF Active
<1> QED BY <1>3, <1>4, <1>5

\* A watcher is started unless there is one
LEMMA WatchedIs ==
  ASSUME ReviewTypes, NEW i \in 1 .. MaxRequests
  PROVE  /\ Watched(i) \in [1 .. MaxRequests -> Watchers]
         /\ \A k \in 1 .. MaxRequests : watcher[k].pc # "none" => Watched(i)[k].pc # "none"
<1>1. NewWatcher \in Watchers /\ NewWatcher.pc = "read"
  <2>1. NewWatcher = [pc |-> "read", since |-> 0, posted |-> 0] BY DEF NewWatcher, NoWatcher
  <2> QED BY <2>1 DEF Watchers
<1> QED BY <1>1 DEF Watched, ReviewTypes

LEMMA PostedIs ==
  ASSUME github \in Hubs PROVE Posted \in Hubs
<1>1. github.now + 1 \in Int /\ github.asked + 1 \in Int BY DEF Hubs
<1> QED BY <1>1 DEF Posted, Hubs

LEMMA CreatorSteps ==
  ASSUME ReviewInv, NEW o \in Owners, CreateStep(o)
  PROVE  ReviewInv'
<1> USE ReviewAssumption
<1>t. ReviewTypes BY DEF ReviewInv
<1>r. /\ DOMAIN registry = 1 .. Len(registry) /\ Len(registry) \in Nat /\ Active \subseteq 1 .. MaxRequests
      /\ \A i \in DOMAIN registry : registry[i] \in Registrations
  BY <1>t, RegistryIs
<1>c. creator[o] \in Creators /\ NoCreator \in Creators /\ NoCreator.pc = "none"
  BY <1>t DEF ReviewTypes, NoCreator, Creators
<1>k. ASSUME creator' = [creator EXCEPT ![o] = NoCreator], Len(registry') <= MaxRequests, Len(registry') \in Nat
      PROVE  creator' \in [Owners -> Creators]
  BY <1>k, <1>c, <1>t DEF ReviewTypes
\* The handler gives up, or finds what it wanted
<1>g. ASSUME creator' = [creator EXCEPT ![o] = NoCreator], creator[o].pc # "none", registry' = registry, landed' = landed,
             github' \in Hubs, watcher' \in [1 .. MaxRequests -> Watchers],
             \A i \in 1 .. MaxRequests : watcher[i].pc # "none" => watcher'[i].pc # "none"
      PROVE  ReviewInv'
  <2>1. ReviewTypes' BY <1>g, <1>c, <1>t DEF ReviewTypes
  <2>2. OneCreator' BY <1>g, <1>c, <1>t DEF ReviewInv, ReviewTypes, OneCreator
  <2>3. Active' = Active BY <1>g DEF Active
  <2> QED BY <1>g, <1>r, <2>1, <2>2, <2>3, RequestsRest
<1>1. CASE ReviewBegin(o)
  <2> PICK c : c = [creator[o] EXCEPT !.pc = "head"] OBVIOUS
  <2>1. c \in Creators /\ c.pc = "head" BY <1>c DEF Creators
  <2>2. creator' = [creator EXCEPT ![o] = c] /\ creating' = TRUE /\ ~creating /\ Len(registry) < MaxRequests
        /\ UNCHANGED <<github, registry, watcher, landed>>
    BY <1>1, <1>t DEF ReviewBegin, ReviewTypes
  <2>3. ReviewTypes' BY <2>1, <2>2, <1>t DEF ReviewTypes
  <2>4. OneCreator' BY <2>1, <2>2, <1>t DEF ReviewInv, ReviewTypes, OneCreator
  <2>5. Active' = Active BY <2>2 DEF Active
  <2> QED BY <2>2, <2>3, <2>4, <2>5, RequestsRest
<1>2. CASE CreateCheck(o)
  <2>0. creator[o].pc = "head" /\ UNCHANGED <<github, registry, landed>> BY <1>2 DEF CreateCheck
  <2> DEFINE same == {i \in Active : registry[i].head = github.head}
  <2>1. CASE OwnedByOther(o) \/ same # {}
    <3>1. creator' = [creator EXCEPT ![o] = NoCreator]
          /\ watcher' = IF OwnedByOther(o) THEN watcher ELSE Watched(Min(same))
      BY <1>2, <2>1 DEF CreateCheck
    <3>2. CASE OwnedByOther(o) BY <1>g, <2>0, <3>1, <3>2, <1>t DEF ReviewTypes
    <3>3. CASE ~OwnedByOther(o)
      <4>1. Min(same) \in same
        <5>1. same # {} /\ same \subseteq Active BY <2>1, <3>3
        <5>2. PICK i : i \in same BY <5>1
        <5>3. same = {i} BY <5>1, <5>2 DEF ReviewInv, OneActive
        <5>4. i \in Int BY <5>1, <5>2, <1>r
        <5>5. \A y \in same : i <= y BY <5>3, <5>4
        <5> QED BY <5>2, <5>5 DEF Min
      <4>2. Min(same) \in 1 .. MaxRequests BY <4>1, <1>r
      <4> QED BY <4>2, <1>g, <1>t, <2>0, <3>1, <3>3, WatchedIs DEF ReviewTypes
    <3> QED BY <3>2, <3>3
  <2>2. CASE ~(OwnedByOther(o) \/ same # {})
    <3>1. PICK h : h = github.head OBVIOUS
    <3>2. PICK c : c = [pc |-> "post", head |-> h, posted |-> 0] OBVIOUS
    <3>3. creator' = [creator EXCEPT ![o] = c] /\ UNCHANGED <<creating, watcher>>
      BY <1>2, <2>2, <3>1, <3>2 DEF CreateCheck
    <3>4. h \in Int BY <3>1, <1>t DEF ReviewTypes, Hubs
    <3>5. c \in Creators /\ c.pc = "post" BY <3>2, <3>4 DEF Creators
    <3>6. ReviewTypes' BY <2>0, <3>3, <3>5, <1>t DEF ReviewTypes
    <3>7. OneCreator' BY <2>0, <3>3, <3>5, <1>t DEF ReviewInv, ReviewTypes, OneCreator
    <3>8. Active' = Active BY <2>0 DEF Active
    <3> QED BY <3>3, <3>6, <3>7, <3>8, RequestsRest
  <2> QED BY <2>1, <2>2
<1>3. CASE CreatePost(o)
  <2>0. creator[o].pc = "post" /\ UNCHANGED <<registry, watcher, landed>> BY <1>3 DEF CreatePost
  <2>1. CASE creator' = [creator EXCEPT ![o] = NoCreator] /\ UNCHANGED github
    BY <2>0, <2>1, <1>g, <1>t DEF ReviewTypes
  <2>2. CASE /\ github' = Posted /\ UNCHANGED creating
             /\ creator' = [creator EXCEPT ![o].pc = "register", ![o].posted = Posted.now]
    <3>1. Posted \in Hubs BY <1>t, PostedIs DEF ReviewTypes
    <3>2. PICK now : now = Posted.now OBVIOUS
    <3>3. now \in Int BY <3>1, <3>2 DEF Hubs
    <3>4. PICK c : c = [creator[o] EXCEPT !.pc = "register", !.posted = now] OBVIOUS
    <3>5. c \in Creators /\ c.pc = "register" BY <1>c, <3>3, <3>4 DEF Creators
    <3>6. creator' = [creator EXCEPT ![o] = c] BY <2>2, <3>2, <3>4, <1>t DEF ReviewTypes
    <3>7. ReviewTypes' BY <2>0, <2>2, <3>1, <3>5, <3>6, <1>t DEF ReviewTypes
    <3>8. OneCreator' BY <2>0, <2>2, <3>5, <3>6, <1>t DEF ReviewInv, ReviewTypes, OneCreator
    <3>9. Active' = Active BY <2>0 DEF Active
    <3> QED BY <2>0, <3>7, <3>8, <3>9, RequestsRest
  <2> QED BY <1>3, <2>1, <2>2 DEF CreatePost
<1>4. CASE CreateRegister(o)
  <2>0. creator[o].pc = "register" /\ creator' = [creator EXCEPT ![o] = NoCreator] /\ UNCHANGED <<github, landed>>
    BY <1>4 DEF CreateRegister
  <2> DEFINE same == {i \in Active : registry[i].head = creator[o].head}
  <2>1. CASE OwnedByOther(o)
    <3>1. UNCHANGED <<registry, watcher>> BY <1>4, <2>1 DEF CreateRegister
    <3> QED BY <2>0, <3>1, <1>g, <1>t DEF ReviewTypes
  <2>2. CASE ~OwnedByOther(o) /\ same # {}
    <3>1. registry' = registry /\ watcher' = Watched(Min(same)) BY <1>4, <2>2 DEF CreateRegister
    <3>2. Min(same) \in same
      <4>1. same # {} /\ same \subseteq Active BY <2>2
      <4>2. PICK i : i \in same BY <4>1
      <4>3. same = {i} BY <4>1, <4>2 DEF ReviewInv, OneActive
      <4>4. i \in Int BY <4>1, <4>2, <1>r
      <4>5. \A y \in same : i <= y BY <4>3, <4>4
      <4> QED BY <4>2, <4>5 DEF Min
    <3>3. Min(same) \in 1 .. MaxRequests BY <3>2, <1>r
    <3> QED BY <2>0, <3>1, <3>3, <1>g, <1>t, WatchedIs DEF ReviewTypes
  <2>3. CASE ~OwnedByOther(o) /\ same = {}
    <3> PICK row : row = [owner |-> o, head |-> creator[o].head, since |-> creator[o].posted, state |-> "active"] OBVIOUS
    <3> PICK id : id = Len(registry) + 1 OBVIOUS
    <3>1. registry' = Append(Supersede(o), row) /\ watcher' = [watcher EXCEPT ![id] = NewWatcher]
      BY <1>4, <2>3 DEF CreateRegister
    <3>2. row \in Registrations /\ row.state = "active" BY <1>c DEF Creators, Registrations, ReviewStates
    <3>3. /\ Supersede(o) \in Seq(Registrations) /\ Len(Supersede(o)) = Len(registry)
          /\ \A i \in 1 .. Len(registry) : Supersede(o)[i].state # "active"
      <4>1. ASSUME NEW i \in 1 .. Len(registry)
            PROVE  Supersede(o)[i] \in Registrations /\ Supersede(o)[i].state # "active"
        <5>1. CASE i \in Active /\ registry[i].owner = o
          <6>1. Supersede(o)[i] = [registry[i] EXCEPT !.state = "superseded"] BY <5>1, <1>r DEF Supersede
          <6> QED BY <6>1, <1>r DEF Registrations, ReviewStates
        <5>2. CASE ~(i \in Active /\ registry[i].owner = o)
          <6>1. Supersede(o)[i] = registry[i] BY <5>2, <1>r DEF Supersede
          <6>2. i \notin Active BY <5>2, <2>3 DEF OwnedByOther
          <6> QED BY <6>1, <6>2, <1>r DEF Active
        <5> QED BY <5>1, <5>2
      <4>2. Supersede(o) \in [1 .. Len(registry) -> Registrations] BY <4>1, <1>r DEF Supersede
      <4>3. Supersede(o) \in Seq(Registrations) BY <4>2, <1>r, SeqDef
      <4>4. Len(Supersede(o)) = Len(registry) BY <4>2, <4>3, <1>r, LenProperties
      <4> QED BY <4>1, <4>3, <4>4
    <3>4. /\ registry' \in Seq(Registrations) /\ Len(registry') = Len(registry) + 1 /\ registry'[id] = row
          /\ \A i \in 1 .. Len(registry) : registry'[i].state # "active"
      BY <3>1, <3>2, <3>3, AppendProperties
    <3>5. DOMAIN registry' = 1 .. id BY <3>4, LenProperties
    <3>6. Active' = {id} BY <3>2, <3>4, <3>5, <1>r DEF Active
    <3>7. Len(registry) < MaxRequests BY <2>0 DEF ReviewInv, OneCreator
    <3>8. NewWatcher \in Watchers /\ NewWatcher.pc = "read"
      <4>1. NewWatcher = [pc |-> "read", since |-> 0, posted |-> 0] BY DEF NewWatcher, NoWatcher
      <4> QED BY <4>1 DEF Watchers
    <3>9. id \in 1 .. MaxRequests BY <3>7, <1>r
    <3>10. ReviewTypes' BY <2>0, <3>1, <3>4, <3>5, <3>7, <3>8, <3>9, <1>c, <1>r, <1>t DEF ReviewTypes
    <3>11. OneCreator' BY <2>0, <1>c, <1>t DEF ReviewInv, ReviewTypes, OneCreator
    <3>12. OneActive' /\ ActiveWatched' BY <3>1, <3>6, <3>8, <3>9, <1>t DEF OneActive, ActiveWatched, ReviewTypes
    <3> QED BY <3>10, <3>11, <3>12 DEF ReviewInv
  <2> QED BY <2>1, <2>2, <2>3
<1> QED BY <1>1, <1>2, <1>3, <1>4 DEF CreateStep

LEMMA WatcherSteps ==
  ASSUME ReviewInv, NEW i \in 1 .. MaxRequests, WatchStep(i)
  PROVE  ReviewInv'
<1> USE ReviewAssumption
<1>t. ReviewTypes BY DEF ReviewInv
<1>r. /\ DOMAIN registry = 1 .. Len(registry) /\ Len(registry) \in Nat /\ Active \subseteq 1 .. MaxRequests
      /\ \A k \in DOMAIN registry : registry[k] \in Registrations
  BY <1>t, RegistryIs
<1>c. UNCHANGED <<creator, creating>> BY DEF WatchStep, WatchRead, WatchFind, WatchPost, WatchRetry
<1>w. watcher[i] \in Watchers /\ NoWatcher \in Watchers /\ NoWatcher.pc = "none"
  BY <1>t DEF ReviewTypes, NoWatcher, Watchers
\* The watcher goes on, or ends because the request is over
<1>g. ASSUME NEW w \in Watchers, watcher' = [watcher EXCEPT ![i] = w], w.pc = "none" => i \notin Active',
             github' \in Hubs, registry' \in Seq(Registrations), Len(registry') = Len(registry),
             DOMAIN registry' = DOMAIN registry, Active' \subseteq Active, landed' \subseteq DOMAIN registry
      PROVE  ReviewInv'
  <2>1. ReviewTypes' BY <1>g, <1>c, <1>t DEF ReviewTypes
  <2>2. OneCreator' BY <1>g, <1>c DEF ReviewInv, OneCreator
  <2>3. \A k \in Active' : watcher[k].pc # "none" => watcher'[k].pc # "none"
    BY <1>g, <1>r, <1>t DEF ReviewTypes
  <2> QED BY <1>g, <2>1, <2>2, <2>3, RequestsRest
<1>p. \A pc \in {"none", "failed", "read", "find", "post", "retry"} :
        [watcher[i] EXCEPT !.pc = pc] \in Watchers /\ [watcher[i] EXCEPT !.pc = pc].pc = pc
  BY <1>w DEF Watchers
<1>a. registry' = registry => Active' = Active BY DEF Active
<1>1. CASE WatchRead(i)
  <2>0. UNCHANGED <<github, registry, landed>> BY <1>1 DEF WatchRead
  <2>1. CASE i \in Active
    <3> PICK since : since = registry[i].since OBVIOUS
    <3> PICK w : w = [pc |-> "find", since |-> since, posted |-> 0] OBVIOUS
    <3>1. watcher' = [watcher EXCEPT ![i] = w] BY <1>1, <2>1, <1>t DEF WatchRead, ReviewTypes
    <3>2. since \in Int BY <2>1, <1>r DEF Active, Registrations
    <3>3. w \in Watchers /\ w.pc = "find" BY <3>2 DEF Watchers
    <3> QED BY <1>g, <1>a, <1>t, <2>0, <3>1, <3>3 DEF ReviewTypes
  <2>2. CASE i \notin Active
    <3>1. watcher' = [watcher EXCEPT ![i] = NoWatcher] BY <1>1, <2>2, <1>t DEF WatchRead, ReviewTypes
    <3> QED BY <1>g, <1>a, <1>t, <1>w, <2>0, <2>2, <3>1 DEF ReviewTypes
  <2> QED BY <2>1, <2>2
<1>2. CASE WatchFind(i)
  <2>0. UNCHANGED github BY <1>2 DEF WatchFind
  <2>1. CASE watcher' = [watcher EXCEPT ![i] = PollError(i)] /\ UNCHANGED <<registry, landed>>
    <3>1. PollError(i) \in Watchers /\ PollError(i).pc = "read" BY <1>p DEF PollError
    <3> QED BY <1>g, <1>a, <1>t, <2>0, <2>1, <3>1 DEF ReviewTypes
  <2>2. CASE watcher' = [watcher EXCEPT ![i] = NoWatcher] /\ Complete(i)
    <3>1. CASE i \in Active
      <4>1. registry' = [registry EXCEPT ![i].state = "completed"] /\ landed' = landed \union {i}
        BY <2>2, <3>1 DEF Complete
      <4>2. i \in DOMAIN registry BY <3>1 DEF Active
      <4>3. registry' \in Seq(Registrations) /\ Len(registry') = Len(registry) /\ DOMAIN registry' = DOMAIN registry
            /\ Active' = Active \ {i}
        BY <1>t, <4>1, <4>2, RequestEnds DEF ReviewStates
      <4> QED BY <1>g, <1>t, <1>w, <2>0, <2>2, <4>1, <4>2, <4>3 DEF ReviewTypes
    <3>2. CASE i \notin Active
      <4>1. UNCHANGED <<registry, landed>> BY <2>2, <3>2 DEF Complete
      <4> QED BY <1>g, <1>a, <1>t, <1>w, <2>0, <2>2, <3>2, <4>1 DEF ReviewTypes
    <3> QED BY <3>1, <3>2
  <2>3. CASE /\ \E pc \in {"read"} \union (IF MayPost THEN {"post"} ELSE {}) : watcher' = [watcher EXCEPT ![i].pc = pc]
             /\ UNCHANGED <<registry, landed>>
    <3>1. PICK pc \in {"read", "post"} : watcher' = [watcher EXCEPT ![i].pc = pc] BY <2>3
    <3>2. watcher' = [watcher EXCEPT ![i] = [watcher[i] EXCEPT !.pc = pc]] BY <3>1, <1>t DEF ReviewTypes
    <3> QED BY <1>g, <1>a, <1>p, <1>t, <2>0, <2>3, <3>2 DEF ReviewTypes
  <2> QED BY <1>2, <2>1, <2>2, <2>3 DEF WatchFind
<1>3. CASE WatchPost(i)
  <2>0. UNCHANGED <<registry, landed>> BY <1>3 DEF WatchPost
  <2>1. CASE github' = Posted /\ watcher' = [watcher EXCEPT ![i].pc = "retry", ![i].posted = Posted.now]
    <3>1. Posted \in Hubs BY <1>t, PostedIs DEF ReviewTypes
    <3>2. PICK now : now = Posted.now OBVIOUS
    <3>3. now \in Int BY <3>1, <3>2 DEF Hubs
    <3>4. PICK w : w = [watcher[i] EXCEPT !.pc = "retry", !.posted = now] OBVIOUS
    <3>5. w \in Watchers /\ w.pc = "retry" BY <1>w, <3>3, <3>4 DEF Watchers
    <3>6. watcher' = [watcher EXCEPT ![i] = w] BY <2>1, <3>2, <3>4, <1>t DEF ReviewTypes
    <3> QED BY <1>g, <1>a, <1>t, <2>0, <2>1, <3>1, <3>5, <3>6 DEF ReviewTypes
  <2>2. CASE watcher' = [watcher EXCEPT ![i] = [NoWatcher EXCEPT !.pc = "failed"]] /\ UNCHANGED github
    <3>1. [NoWatcher EXCEPT !.pc = "failed"] \in Watchers /\ [NoWatcher EXCEPT !.pc = "failed"].pc = "failed"
      BY <1>w DEF Watchers
    <3> QED BY <1>g, <1>a, <1>t, <2>0, <2>2, <3>1 DEF ReviewTypes
  <2> QED BY <1>3, <2>1, <2>2 DEF WatchPost
<1>4. CASE WatchRetry(i)
  <2>0. UNCHANGED <<github, landed>> BY <1>4 DEF WatchRetry
  <2>1. watcher' = [watcher EXCEPT ![i] = [watcher[i] EXCEPT !.pc = "read"]] BY <1>4, <1>t DEF WatchRetry, ReviewTypes
  <2>2. CASE i \in Active
    <3> PICK at : at = watcher[i].posted OBVIOUS
    <3> PICK row : row = [registry[i] EXCEPT !.since = at] OBVIOUS
    <3>1. i \in DOMAIN registry /\ registry[i].state = "active" BY <2>2 DEF Active
    <3>2. at \in Int BY <1>w DEF Watchers
    <3>3. row \in Registrations /\ row.state = registry[i].state BY <3>1, <3>2, <1>r DEF Registrations
    <3>4. registry' = [registry EXCEPT ![i] = row] BY <1>4, <2>2, <3>1, <1>r DEF WatchRetry
    <3>5. registry' \in Seq(Registrations) /\ Len(registry') = Len(registry)
      BY <3>1, <3>3, <3>4, <1>r, <1>t, ExceptSeq DEF ReviewTypes
    <3>6. DOMAIN registry' = DOMAIN registry /\ \A k \in DOMAIN registry : registry'[k].state = registry[k].state
      BY <3>3, <3>4
    <3>7. Active' = Active BY <3>6 DEF Active
    <3> QED BY <1>g, <1>p, <1>t, <2>0, <2>1, <3>5, <3>6, <3>7 DEF ReviewTypes
  <2>3. CASE i \notin Active
    <3>1. registry' = registry BY <1>4, <2>3 DEF WatchRetry
    <3> QED BY <1>g, <1>a, <1>p, <1>t, <2>0, <2>1, <3>1 DEF ReviewTypes
  <2> QED BY <2>2, <2>3
<1> QED BY <1>1, <1>2, <1>3, <1>4 DEF WatchStep

\* create_codex_review_request, the watchers, retries, cancels and recover_codex_review_request_watchers:
\* the pull request never has two active requests, and an active one always has a watcher, or one that
\* ended because the comment could not be posted again.
THEOREM ReviewsWatched == ReviewSpec => [](ReviewTypeOK /\ ReviewIsWatched)
<1> USE ReviewAssumption
<1>1. ReviewInit => ReviewInv
  <2> SUFFICES ASSUME ReviewInit PROVE ReviewInv OBVIOUS
  <2>1. NoCreator \in Creators /\ NoCreator.pc = "none" /\ NoWatcher \in Watchers
    BY DEF NoCreator, NoWatcher, Creators, Watchers
  <2>2. github \in Hubs
    <3>1. 1 \in 1 .. MaxHeads /\ {} \in SUBSET [head : Int, at : Int] OBVIOUS
    <3> QED BY <3>1 DEF ReviewInit, Hubs
  <2>3. registry \in Seq(Registrations) /\ Len(registry) = 0 /\ DOMAIN registry = {}
    BY EmptySeq DEF ReviewInit
  <2>4. ReviewTypes BY <2>1, <2>2, <2>3 DEF ReviewInit, ReviewTypes
  <2>5. OneCreator BY <2>1 DEF ReviewInit, OneCreator
  <2>6. OneActive /\ ActiveWatched BY <2>3 DEF OneActive, ActiveWatched, Active
  <2> QED BY <2>4, <2>5, <2>6 DEF ReviewInv
<1>2. ReviewInv /\ [ReviewNext]_reviewVars => ReviewInv'
  <2> SUFFICES ASSUME ReviewInv, [ReviewNext]_reviewVars PROVE ReviewInv' OBVIOUS
  <2>t. ReviewTypes /\ github \in Hubs BY DEF ReviewInv, ReviewTypes
  <2>r. /\ DOMAIN registry = 1 .. Len(registry) /\ Len(registry) \in Nat /\ Active \subseteq 1 .. MaxRequests
    BY <2>t, RegistryIs
  <2>a. registry' = registry => Active' = Active BY DEF Active
  <2>h. github' \in Hubs /\ UNCHANGED <<registry, creator, creating, watcher, landed>> => ReviewInv'
    <3> SUFFICES ASSUME github' \in Hubs, UNCHANGED <<registry, creator, creating, watcher, landed>> PROVE ReviewInv'
      OBVIOUS
    <3>1. ReviewTypes' BY <2>t DEF ReviewTypes
    <3>2. OneCreator' BY DEF ReviewInv, OneCreator
    <3> QED BY <3>1, <3>2, <2>a, RequestsRest
  <2>1. CASE Push
    <3>1. github.head + 1 \in 1 .. MaxHeads BY <2>1, <2>t DEF Push, Hubs
    <3>2. github' \in Hubs BY <2>1, <2>t, <3>1 DEF Push, Hubs
    <3> QED BY <2>1, <2>h, <3>2 DEF Push
  <2>2. CASE CodexReviews
    <3> PICK row : row = [head |-> github.head, at |-> github.now + 1] OBVIOUS
    <3>1. github.head \in Int /\ github.now + 1 \in Int BY <2>t DEF Hubs
    <3>2. row \in [head : Int, at : Int] BY <3>1
    <3>3. github' = [github EXCEPT !.now = github.now + 1, !.reviews = github.reviews \union {row}]
      BY <2>2, <2>t DEF CodexReviews
    <3>4. github.reviews \union {row} \in SUBSET [head : Int, at : Int] BY <2>t, <3>2 DEF Hubs
    <3>5. github' \in Hubs BY <2>t, <3>1, <3>3, <3>4 DEF Hubs
    <3> QED BY <2>2, <2>h, <3>5 DEF CodexReviews
  <2>3. CASE ReviewCrash
    <3>1. NoCreator \in Creators /\ NoCreator.pc = "none" BY DEF NoCreator, Creators
    <3>2. NewWatcher = [pc |-> "read", since |-> 0, posted |-> 0] BY DEF NewWatcher, NoWatcher
    <3>3. NewWatcher \in Watchers /\ NewWatcher.pc = "read" /\ NoWatcher \in Watchers BY <3>2 DEF Watchers, NoWatcher
    <3>4. /\ creator' = [o \in Owners |-> NoCreator] /\ UNCHANGED <<github, registry, landed>>
          /\ watcher' = [k \in 1 .. MaxRequests |-> IF k \in Active THEN NewWatcher ELSE NoWatcher]
      BY <2>3, <2>t DEF ReviewCrash, ReviewTypes
    <3>5. ReviewTypes' BY <3>1, <3>3, <3>4, <2>t DEF ReviewTypes
    <3>6. OneCreator' BY <3>1, <3>4 DEF OneCreator
    <3>7. \A k \in Active' : watcher'[k].pc # "none" BY <3>3, <3>4, <2>a, <2>r
    <3> QED BY <3>4, <3>5, <3>6, <3>7, <2>a, RequestsRest
  <2>4. ASSUME NEW o \in Owners, CreateStep(o) PROVE ReviewInv' BY <2>4, CreatorSteps
  <2>5. ASSUME NEW i \in DOMAIN registry, CancelReview(i) PROVE ReviewInv'
    <3>1. registry' = [registry EXCEPT ![i].state = "cancelled"]
          /\ UNCHANGED <<github, creator, creating, watcher, landed>>
      BY <2>5 DEF CancelReview
    <3>2. registry' \in Seq(Registrations) /\ Len(registry') = Len(registry) /\ DOMAIN registry' = DOMAIN registry
          /\ Active' = Active \ {i}
      BY <2>t, <3>1, RequestEnds DEF ReviewStates
    <3>3. ReviewTypes' BY <3>1, <3>2, <2>t DEF ReviewTypes
    <3>4. OneCreator' BY <3>1, <3>2 DEF ReviewInv, OneCreator
    <3> QED BY <3>1, <3>2, <3>3, <3>4, RequestsRest
  <2>6. ASSUME NEW i \in DOMAIN watcher, WatchStep(i) PROVE ReviewInv'
    <3>1. i \in 1 .. MaxRequests BY <2>t DEF ReviewTypes
    <3> QED BY <2>6, <3>1, WatcherSteps
  <2>7. CASE UNCHANGED reviewVars BY <2>7, <2>h, <2>t DEF reviewVars
  <2> QED BY <2>1, <2>2, <2>3, <2>4, <2>5, <2>6, <2>7 DEF ReviewNext
<1>3. ReviewInv => ReviewTypeOK /\ ReviewIsWatched
  <2> SUFFICES ASSUME ReviewInv PROVE ReviewTypeOK /\ ReviewIsWatched OBVIOUS
  <2>t. ReviewTypes BY DEF ReviewInv
  <2>1. \A i \in DOMAIN registry : registry[i].state \in ReviewStates BY <2>t, RegistryIs DEF Registrations
  <2>2. \A i \in DOMAIN watcher : watcher[i].pc \in {"none", "failed", "read", "find", "post", "retry"}
    BY <2>t DEF ReviewTypes, Watchers
  <2>3. github.head \in 1 .. MaxHeads BY <2>t DEF ReviewTypes, Hubs
  <2>4. ReviewTypeOK BY <2>t, <2>1, <2>2, <2>3 DEF ReviewTypeOK, ReviewTypes, ReviewStates
  <2>5. Cardinality(Active) <= 1
    <3>1. CASE Active = {}
      <4>1. Cardinality(Active) = 0 BY <3>1, FS_EmptySet
      <4> QED BY <4>1
    <3>2. CASE Active # {}
      <4>1. PICK i : i \in Active BY <3>2
      <4>2. Active = {i} BY <4>1 DEF ReviewInv, OneActive
      <4>3. Cardinality(Active) = 1 BY <4>2, FS_Singleton
      <4> QED BY <4>3
    <3> QED BY <3>1, <3>2
  <2> QED BY <2>4, <2>5 DEF ReviewIsWatched, ReviewInv, ActiveWatched
<1> QED BY <1>1, <1>2, <1>3, PTL DEF ReviewSpec

\* Both kinds of notices, for every number of requests and every order of the steps of the two:
\* the review watch of http.rs and the reparent outbox of sessions.rs.
THEOREM NoticesRight == ReviewSpec /\ OutboxSpec => []NoticesAreRight
<1>1. ReviewIsWatched /\ OutcomeToldOnce => NoticesAreRight
  BY DEF NoticesAreRight
<1> QED
  BY <1>1, ReviewsWatched, OutcomesToldOnce, PTL

-----------------------------------------------------------------------------
(* Side questions: SideQuestion *)

QuestionRows ==
  [status : {"none"} \union ActiveStatus \union EndStatus, asker : Askers \union {"poll"},
   mark : {"none", "waiting", "submitting", "submitted", "tmux", "stream"},
   answer : 0..MaxQuestions, delivered : BOOLEAN, lost : BOOLEAN]
Threads ==
  [pc : {"none", "begin", "start", "wait", "type", "mark", "capture", "recapture", "events", "finish", "deliver",
         "stamp", "recover"},
   found : -1..MaxQuestions]
Panes == [shows : {"idle", "busy", "thinking", "answer"}, of : 0..MaxQuestions]
Cleaners == [pc : {"none", "fail", "key"}, who : Askers \union {"target", "nobody"}, left : SUBSET Questions]

\* The types of the side questions' state, in full
BtwTypes ==
  /\ questions \in [Questions -> QuestionRows] /\ answerer \in [Questions -> Threads]
  /\ screen \in Panes /\ paneHeld \in 0..MaxQuestions /\ typedFor \in [Questions -> Nat]
  /\ replies \subseteq Questions /\ cleaner \in Cleaners /\ busyTurns \in 0..MaxBusy
  /\ btwCrashed \in BOOLEAN

\* A row of btw_requests, its thread and how often it was typed fit together: what a restart reads off
\* the row's mark is true of the typing
ThreadFits(row, thread, typed, provider) ==
  /\ typed \in {0, 1}
  /\ thread.pc # "none" => row.status # "none"
  /\ row.status = "none" => typed = 0
  /\ provider # "codex-fork" /\ thread.pc \in {"begin", "start", "wait", "type"} => typed = 0
  /\ provider # "codex-fork" /\ row.status = "pending" => typed = 0
  /\ provider # "codex-fork" /\ row.status = "running" /\ row.mark = "waiting" => typed = 0
  /\ thread.pc \in {"start", "wait", "type", "mark"} => row.status # "pending"
  /\ thread.pc \in {"type", "mark"} /\ row.status = "running" => row.mark = "submitting"
  /\ thread.pc \in {"wait", "type", "mark"} => provider = "claude"
  /\ thread.pc = "events" => provider = "codex-fork"
  /\ row.status = "completed" => thread.pc \in {"deliver", "stamp", "none", "recover"}
  /\ thread.pc = "recover" => thread.found = 0 /\ btwCrashed

ThreadsFit == \A q \in Questions : ThreadFits(questions[q], answerer[q], typedFor[q], Provider)

\* Questions are asked one after another
InOrder == \A p, q \in Questions : p < q /\ questions[q].status # "none" => questions[p].status \in EndStatus

\* The threads that are at the pane hold its lock
Holding == {"type", "mark"} \union Capturing
PaneIsHeld == \A q \in Questions : answerer[q].pc \in Holding => paneHeld = q

\* What the pane shows is of a question that has no answer yet
Shows(pane) == pane.shows \in {"thinking", "answer"}
ShownIsOpen ==
  Shows(screen) =>
    /\ screen.of \in Questions /\ questions[screen.of].status \notin {"none", "completed"}
    /\ answerer[screen.of].pc = "finish" => answerer[screen.of].found <= 0
    /\ Provider # "codex-fork"

\* The answer of p, over without one, that question q is given by a restart
OverEarlier(rows, q, p) == p \in 1..(q - 1) /\ rows[p].status \in {"failed", "timed_out"}
LeftOpen(rows, q, p) == Provider = "claude" /\ btwCrashed /\ OverEarlier(rows, q, p)

\* Whose answer a thread at the pane can see
CapturesOwn ==
  \A q \in Questions :
    /\ answerer[q].pc \in {"mark", "capture"} /\ Shows(screen) => screen.of = q
    /\ answerer[q].pc = "recapture" => btwCrashed /\ (Shows(screen) => screen.of = q \/ OverEarlier(questions, q, screen.of))

FindsOwn == \A q \in Questions : answerer[q].found \in {-1, 0, q} \/ LeftOpen(questions, q, answerer[q].found)

AnswersOwn == \A q \in Questions : questions[q].answer \in {0, q} \/ LeftOpen(questions, q, questions[q].answer)

\* The inductive invariant of the side questions
BtwInv ==
  BtwTypes /\ ThreadsFit /\ InOrder /\ PaneIsHeld /\ ShownIsOpen /\ CapturesOwn /\ FindsOwn /\ AnswersOwn

\* A row moves on: it is asked after the others are over, run, or ended
MovesOn(q, row) ==
  \/ row.status = questions[q].status
  \/ questions[q].status = "pending" /\ row.status = "running"
  \/ questions[q].status \in ActiveStatus /\ row.status \in EndStatus
  \/ /\ questions[q].status = "none" /\ row.status = "pending"
     /\ \A p \in Questions : p < q => questions[p].status \in EndStatus

IdlePane == [shows |-> "idle", of |-> 0]

\* A step of the thread of one question
LEMMA ThreadMoves ==
  ASSUME BtwInv, NEW q \in Questions, NEW row \in QuestionRows, NEW thread \in Threads, NEW typed \in Nat,
         questions' = [questions EXCEPT ![q] = row], answerer' = [answerer EXCEPT ![q] = thread],
         typedFor' = [typedFor EXCEPT ![q] = typed], screen' \in Panes, paneHeld' \in 0..MaxQuestions,
         replies' \subseteq Questions,
         UNCHANGED <<btwCase, cleaner, busyTurns, btwCrashed>>,
         ThreadFits(row, thread, typed, Provider), MovesOn(q, row),
         thread.pc \in Holding => paneHeld' = q,
         \/ paneHeld' = paneHeld
         \/ paneHeld = 0
         \/ paneHeld = q,
         \/ screen' = screen
         \/ screen' = IdlePane
         \/ Shows(screen') /\ screen'.of = q /\ paneHeld' = q /\ row.status \notin {"none", "completed"}
            /\ thread.pc \in Holding /\ Provider # "codex-fork",
         Shows(screen') /\ screen'.of = q => row.status # "completed" /\ (thread.pc = "finish" => thread.found <= 0),
         thread.pc \in {"mark", "capture"} /\ Shows(screen') => screen'.of = q,
         thread.pc = "recapture" =>
           btwCrashed /\ (Shows(screen') => screen'.of = q \/ OverEarlier(questions, q, screen'.of)),
         thread.found \in {-1, 0, q} \/ LeftOpen(questions, q, thread.found),
         row.answer \in {0, q} \/ LeftOpen(questions, q, row.answer)
  PROVE  BtwInv'
<1>q. questions \in [Questions -> QuestionRows] /\ answerer \in [Questions -> Threads] /\ typedFor \in [Questions -> Nat]
  BY DEF BtwInv, BtwTypes
<1>n. Questions \subseteq Int /\ 0 \notin Questions
  BY SideQuestionAssumption DEF Questions
<1>a. /\ questions'[q] = row /\ answerer'[q] = thread /\ typedFor'[q] = typed
      /\ \A p \in Questions : p # q => questions'[p] = questions[p] /\ answerer'[p] = answerer[p] /\ typedFor'[p] = typedFor[p]
  BY <1>q
<1>t. BtwTypes'
  BY <1>q DEF BtwInv, BtwTypes
<1>p. Provider' = Provider
  BY DEF Provider
<1>1. ThreadsFit'
  <2> SUFFICES ASSUME NEW p \in Questions PROVE ThreadFits(questions'[p], answerer'[p], typedFor'[p], Provider)
    BY <1>p DEF ThreadsFit, ThreadFits
  <2>1. CASE p = q
    BY <2>1, <1>a
  <2>2. CASE p # q
    <3>1. ThreadFits(questions[p], answerer[p], typedFor[p], Provider)
      BY DEF BtwInv, ThreadsFit
    <3> QED
      BY <3>1, <2>2, <1>a
  <2> QED
    BY <2>1, <2>2
<1>s. \A p \in Questions : questions[p].status \in EndStatus => questions'[p].status = questions[p].status
  BY <1>a DEF MovesOn, ActiveStatus, EndStatus
<1>m. \A p \in Questions : questions'[p].status # "none" =>
        questions[p].status # "none" \/ (p = q /\ \A o \in Questions : o < q => questions[o].status \in EndStatus)
  BY <1>a DEF MovesOn, ActiveStatus, EndStatus
<1>2. InOrder'
  <2> SUFFICES ASSUME NEW p \in Questions, NEW r \in Questions, p < r, questions'[r].status # "none"
               PROVE  questions'[p].status \in EndStatus
    BY DEF InOrder
  <2>1. questions[p].status \in EndStatus
    <3>1. CASE questions[r].status # "none"
      BY <3>1 DEF BtwInv, InOrder
    <3>2. CASE questions[r].status = "none"
      BY <3>2, <1>m
    <3> QED
      BY <3>1, <3>2
  <2> QED
    BY <2>1, <1>s
<1>3. PaneIsHeld'
  <2> SUFFICES ASSUME NEW p \in Questions, answerer'[p].pc \in Holding PROVE paneHeld' = p
    BY DEF PaneIsHeld, Holding, Capturing
  <2>1. CASE p = q
    BY <2>1, <1>a
  <2>2. CASE p # q
    <3>1. paneHeld = p
      BY <2>2, <1>a DEF BtwInv, PaneIsHeld
    <3> QED
      BY <3>1, <2>2, <1>n
  <2> QED
    BY <2>1, <2>2
<1>h. \A p \in Questions : p # q /\ answerer[p].pc \in Holding => paneHeld' # q
  BY <1>n DEF BtwInv, PaneIsHeld
<1>4. ShownIsOpen'
  <2> SUFFICES ASSUME Shows(screen')
               PROVE  /\ screen'.of \in Questions /\ questions'[screen'.of].status \notin {"none", "completed"}
                      /\ answerer'[screen'.of].pc = "finish" => answerer'[screen'.of].found <= 0
                      /\ Provider # "codex-fork"
    BY <1>p DEF ShownIsOpen, Shows
  <2>1. CASE screen' = screen
    <3>1. /\ screen.of \in Questions /\ questions[screen.of].status \notin {"none", "completed"}
          /\ answerer[screen.of].pc = "finish" => answerer[screen.of].found <= 0
          /\ Provider # "codex-fork"
      BY <2>1 DEF BtwInv, ShownIsOpen
    <3>2. CASE screen.of = q
      <4>1. row.status # "none"
        BY <3>1, <3>2, <1>q DEF MovesOn, ActiveStatus, EndStatus
      <4> QED
        BY <3>1, <3>2, <2>1, <4>1, <1>a
    <3>3. CASE screen.of # q
      BY <3>1, <3>3, <2>1, <1>a
    <3> QED
      BY <3>2, <3>3
  <2>2. CASE screen' = IdlePane
    BY <2>2 DEF IdlePane, Shows
  <2>3. CASE Shows(screen') /\ screen'.of = q /\ paneHeld' = q /\ row.status \notin {"none", "completed"}
             /\ thread.pc \in Holding /\ Provider # "codex-fork"
    BY <2>3, <1>a DEF Holding, Capturing
  <2> QED
    BY <2>1, <2>2, <2>3
<1>o. \A p \in Questions, o \in Int : OverEarlier(questions, p, o) => o \in Questions /\ questions'[o].status \in {"failed", "timed_out"}
  <2> SUFFICES ASSUME NEW p \in Questions, NEW o \in Int, OverEarlier(questions, p, o)
               PROVE  o \in Questions /\ questions'[o].status \in {"failed", "timed_out"}
    OBVIOUS
  <2>1. o \in Questions /\ questions[o].status \in {"failed", "timed_out"}
    BY SideQuestionAssumption DEF OverEarlier, Questions
  <2> QED
    BY <2>1, <1>s DEF EndStatus
<1>5. CapturesOwn'
  <2> SUFFICES ASSUME NEW p \in Questions
               PROVE  /\ answerer'[p].pc \in {"mark", "capture"} /\ Shows(screen') => screen'.of = p
                      /\ answerer'[p].pc = "recapture" =>
                           btwCrashed /\ (Shows(screen') => screen'.of = p \/ OverEarlier(questions', p, screen'.of))
    BY DEF CapturesOwn, Shows, OverEarlier
  <2>e. \A o \in Int : OverEarlier(questions, p, o) => OverEarlier(questions', p, o)
    BY <1>o DEF OverEarlier
  <2>i. screen'.of \in Int /\ screen.of \in Int
    BY DEF Panes, BtwInv, BtwTypes
  <2>1. CASE p = q
    <3> QED
      BY <2>1, <1>a, <2>e, <2>i
  <2>2. CASE p # q
    <3>0. answerer'[p] = answerer[p]
      BY <2>2, <1>a
    <3>1. CASE screen' = screen
      BY <3>0, <3>1, <2>e, <2>i DEF BtwInv, CapturesOwn
    <3>2. CASE screen' = IdlePane
      <4>1. ~Shows(screen')
        BY <3>2 DEF IdlePane, Shows
      <4> QED
        BY <3>0, <4>1 DEF BtwInv, CapturesOwn
    <3>3. CASE paneHeld' = q
      BY <3>0, <3>3, <2>2, <1>h DEF Holding, Capturing
    <3> QED
      BY <3>1, <3>2, <3>3
  <2> QED
    BY <2>1, <2>2
<1>l. \A p \in Questions, o \in Int : LeftOpen(questions, p, o) => LeftOpen(questions', p, o)
  BY <1>o DEF LeftOpen, OverEarlier
<1>6. FindsOwn'
  <2> SUFFICES ASSUME NEW p \in Questions
               PROVE  answerer'[p].found \in {-1, 0, p} \/ LeftOpen(questions', p, answerer'[p].found)
    BY <1>p DEF FindsOwn, LeftOpen, OverEarlier
  <2>1. answerer'[p].found \in Int
    BY <1>t DEF BtwTypes, Threads
  <2>2. answerer'[p].found \in {-1, 0, p} \/ LeftOpen(questions, p, answerer'[p].found)
    <3>1. CASE p = q
      BY <3>1, <1>a
    <3>2. CASE p # q
      BY <3>2, <1>a DEF BtwInv, FindsOwn
    <3> QED
      BY <3>1, <3>2
  <2> QED
    BY <2>1, <2>2, <1>l
<1>7. AnswersOwn'
  <2> SUFFICES ASSUME NEW p \in Questions
               PROVE  questions'[p].answer \in {0, p} \/ LeftOpen(questions', p, questions'[p].answer)
    BY <1>p DEF AnswersOwn, LeftOpen, OverEarlier
  <2>1. questions'[p].answer \in Int
    BY <1>t DEF BtwTypes, QuestionRows
  <2>2. questions'[p].answer \in {0, p} \/ LeftOpen(questions, p, questions'[p].answer)
    <3>1. CASE p = q
      BY <3>1, <1>a
    <3>2. CASE p # q
      BY <3>2, <1>a DEF BtwInv, AnswersOwn
    <3> QED
      BY <3>1, <3>2
  <2> QED
    BY <2>1, <2>2, <1>l
<1> QED
  BY <1>t, <1>1, <1>2, <1>3, <1>4, <1>5, <1>6, <1>7 DEF BtwInv

\* The steps of a thread up to its answer, for every provider
LEMMA AnswererMoves ==
  ASSUME BtwInv, NEW q \in Questions, BtwStep(q)
  PROVE  BtwInv'
<1> DEFINE row == questions[q]
           thread == answerer[q]
           typed == typedFor[q]
<1>q. questions \in [Questions -> QuestionRows] /\ answerer \in [Questions -> Threads] /\ typedFor \in [Questions -> Nat]
  BY DEF BtwInv, BtwTypes
<1>n. q \in Int /\ q > 0 /\ q <= MaxQuestions /\ MaxQuestions \in Nat /\ -1 \in -1..MaxQuestions /\ 0 \in -1..MaxQuestions
      /\ q \in -1..MaxQuestions /\ q \in 0..MaxQuestions /\ 0 \in 0..MaxQuestions
  BY SideQuestionAssumption DEF Questions
<1>r. row \in QuestionRows /\ thread \in Threads /\ typed \in Nat
  BY <1>q
<1>f. ThreadFits(row, thread, typed, Provider)
  BY DEF BtwInv, ThreadsFit
<1>s. screen \in Panes /\ paneHeld \in 0..MaxQuestions /\ replies \subseteq Questions /\ IdlePane \in Panes
  BY <1>n DEF BtwInv, BtwTypes, Panes, IdlePane
<1>h. thread.pc \in Holding => paneHeld = q
  BY DEF BtwInv, PaneIsHeld
<1>c. /\ thread.pc \in {"mark", "capture"} /\ Shows(screen) => screen.of = q
      /\ thread.pc = "recapture" => btwCrashed /\ (Shows(screen) => screen.of = q \/ OverEarlier(questions, q, screen.of))
  BY DEF BtwInv, CapturesOwn
<1>o. /\ thread.found \in {-1, 0, q} \/ LeftOpen(questions, q, thread.found)
      /\ row.answer \in {0, q} \/ LeftOpen(questions, q, row.answer)
  BY DEF BtwInv, FindsOwn, AnswersOwn
<1>w. Shows(screen) /\ screen.of = q => row.status # "completed" /\ (thread.pc = "finish" => thread.found <= 0)
  BY DEF BtwInv, ShownIsOpen
<1>i. ~Shows(IdlePane)
  BY DEF Shows, IdlePane
<1>u. /\ questions' = questions => questions' = [questions EXCEPT ![q] = row]
      /\ typedFor' = typedFor => typedFor' = [typedFor EXCEPT ![q] = typed]
      /\ answerer' = answerer => answerer' = [answerer EXCEPT ![q] = thread]
  BY <1>q
<1>a. ASSUME NEW pc \in {"none", "begin", "start", "wait", "type", "mark", "capture", "recapture", "events", "finish",
                         "deliver", "stamp", "recover"}
      PROVE  \E t \in Threads : t.pc = pc /\ t.found = thread.found /\ At(q, pc) = [answerer EXCEPT ![q] = t]
  <2>1. [thread EXCEPT !.pc = pc] \in Threads /\ [thread EXCEPT !.pc = pc].pc = pc /\ [thread EXCEPT !.pc = pc].found = thread.found
    BY <1>r DEF Threads
  <2>2. At(q, pc) = [answerer EXCEPT ![q] = [thread EXCEPT !.pc = pc]]
    BY <1>q DEF At
  <2> QED
    BY <2>1, <2>2
<1>b. ASSUME NEW what \in -1..MaxQuestions
      PROVE  \E t \in Threads : t.pc = "finish" /\ t.found = what /\ Found(q, what) = [answerer EXCEPT ![q] = t]
  <2>1. [pc |-> "finish", found |-> what] \in Threads
    BY DEF Threads
  <2> QED
    BY <2>1 DEF Found
<1>d. ASSUME NEW mark \in {"none", "waiting", "submitting", "submitted", "tmux", "stream"}
      PROVE  \E r \in QuestionRows : /\ r.status = row.status /\ r.answer = row.answer
                                     /\ r.mark = IF row.status = "running" THEN mark ELSE row.mark
                                     /\ Marked(q, mark) = [questions EXCEPT ![q] = r]
  <2> DEFINE to == IF row.status = "running" THEN mark ELSE row.mark
  <2>1. /\ [row EXCEPT !.mark = to] \in QuestionRows /\ [row EXCEPT !.mark = to].status = row.status
        /\ [row EXCEPT !.mark = to].answer = row.answer /\ [row EXCEPT !.mark = to].mark = to
    BY <1>r DEF QuestionRows
  <2>2. Marked(q, mark) = [questions EXCEPT ![q] = [row EXCEPT !.mark = to]]
    BY <1>q DEF Marked
  <2> QED
    BY <2>1, <2>2
<1>z. MovesOn(q, row)
  BY DEF MovesOn
<1>y. ASSUME NEW r \in QuestionRows, r.status = row.status PROVE MovesOn(q, r)
  BY <1>y DEF MovesOn
<1> HIDE DEF row, thread, typed
<1>e. ASSUME NEW what \in -1..MaxQuestions, what \in {-1, 0, q} \/ LeftOpen(questions, q, what),
             thread.pc \in {"start", "wait", "type", "mark", "capture", "recapture", "events"},
             answerer' = Found(q, what), questions' = questions, typedFor' = typedFor,
             UNCHANGED <<btwCase, replies, cleaner, busyTurns, btwCrashed>>,
             paneHeld' = paneHeld \/ (paneHeld' = 0 /\ paneHeld = q),
             screen' = screen \/ screen' = IdlePane, Shows(screen') => what <= 0
      PROVE  BtwInv'
  <2>2. PICK t \in Threads : t.pc = "finish" /\ t.found = what /\ Found(q, what) = [answerer EXCEPT ![q] = t]
    BY <1>b
  <2>4. ThreadFits(row, t, typed, Provider)
    BY <2>2, <1>e, <1>f DEF ThreadFits
  <2>5. t.pc \notin Holding
    BY <2>2 DEF Holding, Capturing
  <2>6. Shows(screen') /\ screen'.of = q => row.status # "completed" /\ (t.pc = "finish" => t.found <= 0)
    BY <1>e, <2>2, <1>i, <1>w
  <2>7. screen' \in Panes /\ paneHeld' \in 0..MaxQuestions /\ replies' \subseteq Questions
    BY <1>e, <1>s, <1>n
  <2> QED
    BY <1>e, <2>2, <2>4, <2>5, <2>6, <2>7, <1>r, <1>o, <1>u, <1>z, ThreadMoves
<1>1. CASE BtwBegin(q)
  <2>1. PICK r \in QuestionRows :
          /\ r.status = (IF row.status = "pending" THEN "running" ELSE row.status) /\ r.answer = row.answer /\ r.mark = row.mark
          /\ questions' = [questions EXCEPT ![q] = r]
    <3> DEFINE to == IF row.status = "pending" THEN "running" ELSE row.status
    <3>1. /\ [row EXCEPT !.status = to] \in QuestionRows /\ [row EXCEPT !.status = to].status = to
          /\ [row EXCEPT !.status = to].answer = row.answer /\ [row EXCEPT !.status = to].mark = row.mark
      BY <1>r DEF QuestionRows, ActiveStatus
    <3>2. questions' = [questions EXCEPT ![q] = [row EXCEPT !.status = to]]
      BY <1>1, <1>q DEF BtwBegin, row
    <3> QED
      BY <3>1, <3>2
  <2>2. PICK t \in Threads : t.pc = "start" /\ t.found = thread.found /\ At(q, "start") = [answerer EXCEPT ![q] = t]
    BY <1>a
  <2>3. thread.pc = "begin"
    BY <1>1 DEF BtwBegin, thread
  <2>4. ThreadFits(r, t, typed, Provider)
    BY <2>1, <2>2, <2>3, <1>f DEF ThreadFits
  <2>5. t.pc \notin Holding
    BY <2>2 DEF Holding, Capturing
  <2>6. MovesOn(q, r)
    BY <2>1 DEF MovesOn, row
  <2>7. Shows(screen) /\ screen.of = q => r.status # "completed"
    BY <2>1, <1>w
  <2> QED
    BY <1>1, <2>1, <2>2, <2>4, <2>5, <2>6, <2>7, <1>r, <1>s, <1>o, <1>u, ThreadMoves DEF BtwBegin
<1>2. CASE ClaudeWaits(q)
  <2>1. PICK r \in QuestionRows : /\ r.status = row.status /\ r.answer = row.answer
                                  /\ r.mark = (IF row.status = "running" THEN "waiting" ELSE row.mark)
                                  /\ Marked(q, "waiting") = [questions EXCEPT ![q] = r]
    BY <1>d
  <2>2. PICK t \in Threads : t.pc = "wait" /\ t.found = thread.found /\ At(q, "wait") = [answerer EXCEPT ![q] = t]
    BY <1>a
  <2>3. thread.pc = "start" /\ Provider = "claude"
    BY <1>2 DEF ClaudeWaits, thread
  <2>4. ThreadFits(r, t, typed, Provider)
    BY <2>1, <2>2, <2>3, <1>f DEF ThreadFits
  <2>5. t.pc \notin Holding
    BY <2>2 DEF Holding, Capturing
  <2> QED
    BY <1>2, <2>1, <2>2, <2>4, <2>5, <1>r, <1>s, <1>o, <1>w, <1>u, <1>y, ThreadMoves DEF ClaudeWaits
<1>3. CASE ClaudeLooks(q)
  <2>3. thread.pc = "wait" /\ Provider = "claude"
    BY <1>3, <1>f DEF ClaudeLooks, thread, ThreadFits
  <2>4. CASE /\ "target" \in present /\ screen.shows = "idle" /\ paneHeld = 0
             /\ paneHeld' = q /\ questions' = Marked(q, "submitting") /\ answerer' = At(q, "type")
    <3>1. PICK r \in QuestionRows : /\ r.status = row.status /\ r.answer = row.answer
                                    /\ r.mark = (IF row.status = "running" THEN "submitting" ELSE row.mark)
                                    /\ Marked(q, "submitting") = [questions EXCEPT ![q] = r]
      BY <1>d
    <3>2. PICK t \in Threads : t.pc = "type" /\ t.found = thread.found /\ At(q, "type") = [answerer EXCEPT ![q] = t]
      BY <1>a
    <3>4. ThreadFits(r, t, typed, Provider)
      BY <3>1, <3>2, <2>3, <1>f DEF ThreadFits
    <3> QED
      BY <1>3, <2>4, <3>1, <3>2, <3>4, <1>r, <1>s, <1>o, <1>w, <1>u, <1>y, <1>n, ThreadMoves DEF ClaudeLooks
  <2>5. CASE answerer' = Found(q, 0) /\ UNCHANGED <<questions, paneHeld>>
    BY <1>3, <2>3, <2>5, <1>e, <1>n DEF ClaudeLooks
  <2>6. CASE answerer' = Found(q, -1) /\ UNCHANGED <<questions, paneHeld>>
    BY <1>3, <2>3, <2>6, <1>e, <1>n DEF ClaudeLooks
  <2> QED
    BY <1>3, <2>4, <2>5, <2>6 DEF ClaudeLooks
<1>4. CASE ClaudeTypes(q)
  <2>3. thread.pc = "type" /\ Provider = "claude" /\ paneHeld = q
    BY <1>4, <1>f, <1>h DEF ClaudeTypes, thread, ThreadFits, Holding
  <2>4. CASE "target" \in present
    <3>2. PICK t \in Threads : t.pc = "mark" /\ t.found = thread.found /\ At(q, "mark") = [answerer EXCEPT ![q] = t]
      BY <1>a
    <3>4. typed = 0 /\ ThreadFits(row, t, 1, Provider)
      BY <3>2, <2>3, <1>f DEF ThreadFits
    <3>5. typedFor' = [typedFor EXCEPT ![q] = 1]
      BY <1>4, <2>4, <3>4, <1>q DEF ClaudeTypes, typed
    <3>6. screen' \in Panes /\ Shows(screen') /\ screen'.of = q
      BY <1>4, <2>4, <1>n DEF ClaudeTypes, Panes, Shows
    <3>7. row.status \notin {"none", "completed"}
      BY <1>f, <2>3 DEF ThreadFits
    <3>8. t.pc \in Holding /\ paneHeld' = q /\ answerer' = [answerer EXCEPT ![q] = t] /\ questions' = [questions EXCEPT ![q] = row]
      BY <3>2, <1>4, <2>4, <2>3, <1>u DEF Holding, ClaudeTypes
    <3> QED
      BY <1>4, <2>3, <3>2, <3>4, <3>5, <3>6, <3>7, <3>8, <1>r, <1>s, <1>o, <1>z, <1>n, ThreadMoves DEF ClaudeTypes
  <2>5. CASE "target" \notin present
    BY <1>4, <2>3, <2>5, <1>e, <1>n DEF ClaudeTypes
  <2> QED
    BY <2>4, <2>5
<1>5. CASE ClaudeMarks(q)
  <2>1. PICK r \in QuestionRows : /\ r.status = row.status /\ r.answer = row.answer
                                  /\ r.mark = (IF row.status = "running" THEN "submitted" ELSE row.mark)
                                  /\ Marked(q, "submitted") = [questions EXCEPT ![q] = r]
    BY <1>d
  <2>2. PICK t \in Threads : t.pc = "capture" /\ t.found = thread.found /\ At(q, "capture") = [answerer EXCEPT ![q] = t]
    BY <1>a
  <2>3. thread.pc = "mark" /\ paneHeld = q
    BY <1>5, <1>h DEF ClaudeMarks, thread, Holding
  <2>4. ThreadFits(r, t, typed, Provider)
    BY <2>1, <2>2, <2>3, <1>f DEF ThreadFits
  <2>5. Shows(screen) => screen.of = q
    BY <2>3, <1>c
  <2> QED
    BY <1>5, <2>1, <2>2, <2>3, <2>4, <2>5, <1>r, <1>s, <1>o, <1>w, <1>u, <1>y, ThreadMoves DEF ClaudeMarks
<1>6. CASE ClaudeCaptures(q)
  <2>3. thread.pc \in Capturing /\ Provider = "claude" /\ paneHeld = q
    BY <1>6, <1>h DEF ClaudeCaptures, thread, Holding
  <2>4. CASE /\ screen.shows = "answer" /\ "target" \in present
             /\ screen' = [shows |-> "idle", of |-> 0]
             /\ answerer' \in {Found(q, screen.of)} \union (IF May("fault") THEN {Found(q, 0)} ELSE {})
    <3>1. screen.of = q \/ LeftOpen(questions, q, screen.of)
      BY <2>3, <2>4, <1>c DEF Capturing, Shows, LeftOpen
    <3>2. screen' = IdlePane /\ screen.of \in -1..MaxQuestions
      BY <2>4, <1>s, <1>n DEF IdlePane, Panes
    <3>3. CASE answerer' = Found(q, screen.of)
      BY <1>6, <2>3, <3>1, <3>2, <3>3, <1>e, <1>i DEF ClaudeCaptures, Capturing
    <3>4. CASE answerer' = Found(q, 0)
      BY <1>6, <2>3, <3>2, <3>4, <1>e, <1>i, <1>n DEF ClaudeCaptures, Capturing
    <3> QED
      BY <2>4, <3>3, <3>4
  <2>5. CASE answerer' = Found(q, 0) /\ UNCHANGED screen
    BY <1>6, <2>3, <2>5, <1>e, <1>n DEF ClaudeCaptures, Capturing
  <2> QED
    BY <1>6, <2>4, <2>5 DEF ClaudeCaptures
<1>7. CASE CodexTypes(q)
  <2>1. PICK r \in QuestionRows : /\ r.status = row.status /\ r.answer = row.answer
                                  /\ r.mark = (IF row.status = "running" THEN "tmux" ELSE row.mark)
                                  /\ Marked(q, "tmux") = [questions EXCEPT ![q] = r]
    BY <1>d
  <2>3. thread.pc = "start" /\ Provider = "codex" /\ paneHeld = 0
    BY <1>7 DEF CodexTypes, thread
  <2>4. CASE "target" \in present
    <3>2. PICK t \in Threads : t.pc = "capture" /\ t.found = thread.found /\ At(q, "capture") = [answerer EXCEPT ![q] = t]
      BY <1>a
    <3>4. typed = 0 /\ ThreadFits(r, t, 1, Provider)
      BY <2>1, <3>2, <2>3, <1>f DEF ThreadFits
    <3>5. typedFor' = [typedFor EXCEPT ![q] = 1]
      BY <1>7, <2>4, <3>4, <1>q DEF CodexTypes, typed
    <3>6. screen' \in Panes /\ Shows(screen') /\ screen'.of = q
      BY <1>7, <2>4, <1>n DEF CodexTypes, Panes, Shows
    <3>7. r.status \notin {"none", "completed"}
      BY <1>f, <2>1, <2>3 DEF ThreadFits
    <3>8. t.pc \in Holding /\ paneHeld' = q /\ answerer' = [answerer EXCEPT ![q] = t] /\ questions' = [questions EXCEPT ![q] = r]
      BY <2>1, <3>2, <1>7, <2>4 DEF Holding, Capturing, CodexTypes
    <3> QED
      BY <1>7, <2>1, <2>3, <3>2, <3>4, <3>5, <3>6, <3>7, <3>8, <1>r, <1>s, <1>o, <1>y, <1>n, ThreadMoves DEF CodexTypes
  <2>5. CASE "target" \notin present
    <3>2. PICK t \in Threads : t.pc = "finish" /\ t.found = 0 /\ Found(q, 0) = [answerer EXCEPT ![q] = t]
      BY <1>b, <1>n
    <3>4. ThreadFits(r, t, typed, Provider)
      BY <2>1, <3>2, <2>3, <1>f DEF ThreadFits
    <3>5. t.pc \notin Holding
      BY <3>2 DEF Holding, Capturing
    <3>6. Shows(screen) /\ screen.of = q => r.status # "completed"
      BY <2>1, <1>w
    <3> QED
      BY <1>7, <2>1, <2>5, <3>2, <3>4, <3>5, <3>6, <1>r, <1>s, <1>o, <1>u, <1>y, ThreadMoves DEF CodexTypes
  <2> QED
    BY <2>4, <2>5
<1>8. CASE CodexCaptures(q)
  <2>3. thread.pc \in Capturing /\ paneHeld = q /\ screen' = IdlePane
    BY <1>8, <1>h DEF CodexCaptures, thread, Holding, IdlePane
  <2>4. PICK what \in {-1, 0, q} : answerer' = Found(q, what)
    BY <1>8 DEF CodexCaptures
  <2> QED
    BY <1>8, <2>3, <2>4, <1>e, <1>i, <1>n DEF CodexCaptures, Capturing
<1>9. CASE ForkSubmits(q)
  <2>3. thread.pc = "start" /\ Provider = "codex-fork"
    BY <1>9 DEF ForkSubmits, thread
  <2>4. CASE "target" \in present
    <3>1. PICK r \in QuestionRows : /\ r.status = row.status /\ r.answer = row.answer
                                    /\ r.mark = (IF row.status = "running" THEN "stream" ELSE row.mark)
                                    /\ Marked(q, "stream") = [questions EXCEPT ![q] = r]
      BY <1>d
    <3>2. PICK t \in Threads : t.pc = "events" /\ t.found = thread.found /\ At(q, "events") = [answerer EXCEPT ![q] = t]
      BY <1>a
    <3>4. ThreadFits(r, t, 1, Provider)
      BY <3>1, <3>2, <2>3, <1>f DEF ThreadFits
    <3>5. t.pc \notin Holding
      BY <3>2 DEF Holding, Capturing
    <3>6. Shows(screen) /\ screen.of = q => r.status # "completed"
      BY <3>1, <1>w
    <3> QED
      BY <1>9, <2>4, <3>1, <3>2, <3>4, <3>5, <3>6, <1>r, <1>s, <1>o, <1>y, ThreadMoves DEF ForkSubmits
  <2>5. CASE "target" \notin present
    BY <1>9, <2>3, <2>5, <1>e, <1>n DEF ForkSubmits
  <2> QED
    BY <2>4, <2>5
<1>10. CASE ForkEvents(q)
  <2>3. thread.pc = "events"
    BY <1>10 DEF ForkEvents, thread
  <2>4. PICK what \in {-1, 0, q} : answerer' = Found(q, what)
    BY <1>10 DEF ForkEvents
  <2>5. ~Shows(screen)
    BY <2>3, <1>f DEF ThreadFits, BtwInv, ShownIsOpen
  <2> QED
    BY <1>10, <2>3, <2>4, <2>5, <1>e, <1>n DEF ForkEvents
<1>11. CASE BtwFinish(q)
  <2>3. thread.pc = "finish" /\ row.status \notin {"none", "completed"}
    BY <1>11, <1>f DEF BtwFinish, thread, ThreadFits
  <2>2. PICK t \in Threads : t.pc = "deliver" /\ t.found = thread.found /\ At(q, "deliver") = [answerer EXCEPT ![q] = t]
    BY <1>a
  <2>5. t.pc \notin Holding
    BY <2>2 DEF Holding, Capturing
  <2>4. CASE row.status \in ActiveStatus
    <3> DEFINE status == IF thread.found > 0 THEN "completed" ELSE IF thread.found = 0 THEN "failed" ELSE "timed_out"
               answer == IF thread.found > 0 THEN thread.found ELSE 0
    <3>i. thread.found \in -1..MaxQuestions /\ thread.found \in Int
      BY <1>r DEF Threads
    <3>j. status \in EndStatus /\ answer \in 0..MaxQuestions
      BY <3>i, <1>n DEF EndStatus
    <3> HIDE DEF status, answer
    <3>1. /\ [row EXCEPT !.status = status, !.answer = answer] \in QuestionRows
          /\ [row EXCEPT !.status = status, !.answer = answer].status = status
          /\ [row EXCEPT !.status = status, !.answer = answer].answer = answer
      BY <1>r, <3>j DEF QuestionRows
    <3>2. questions' = [questions EXCEPT ![q] = [row EXCEPT !.status = status, !.answer = answer]]
      BY <1>11, <2>4, <1>q DEF BtwFinish, row, status, answer, thread
    <3>3. PICK r \in QuestionRows : r.status = status /\ r.answer = answer /\ questions' = [questions EXCEPT ![q] = r]
      BY <3>1, <3>2
    <3>4. ThreadFits(r, t, typed, Provider)
      BY <3>3, <3>j, <2>2, <2>3, <1>f DEF ThreadFits, EndStatus
    <3>5. MovesOn(q, r)
      BY <2>4, <3>3, <3>j DEF MovesOn, row
    <3>6. Shows(screen) /\ screen.of = q => r.status # "completed"
      BY <3>3, <3>i, <1>w, <2>3 DEF status
    <3>7. r.answer \in {0, q} \/ LeftOpen(questions, q, r.answer)
      BY <3>3, <3>i, <1>o, <1>n DEF answer
    <3> QED
      BY <1>11, <2>2, <2>5, <3>3, <3>4, <3>5, <3>6, <3>7, <1>r, <1>s, <1>o, <1>u, ThreadMoves DEF BtwFinish
  <2>6. CASE row.status \notin ActiveStatus
    <3>1. questions' = questions
      BY <1>11, <2>6 DEF BtwFinish, row
    <3>4. ThreadFits(row, t, typed, Provider)
      BY <2>2, <2>3, <1>f DEF ThreadFits
    <3> QED
      BY <1>11, <2>2, <2>5, <3>1, <3>4, <1>r, <1>s, <1>o, <1>u, <1>z, <1>w, ThreadMoves DEF BtwFinish
  <2> QED
    BY <2>4, <2>6
<1>g. PICK none \in Threads : none.pc = "none" /\ none.found = 0 /\ NoAnswerer(q) = none
  BY <1>n DEF NoAnswerer, Threads
<1>k. none.pc \notin Holding
  BY <1>g DEF Holding, Capturing
<1>12. CASE BtwDeliver(q)
  <2>3. thread.pc = "deliver"
    BY <1>12 DEF BtwDeliver, thread
  <2>f. ThreadFits(row, none, typed, Provider)
    BY <2>3, <1>g, <1>f DEF ThreadFits
  <2>4. CASE answerer' = [answerer EXCEPT ![q] = NoAnswerer(q)] /\ UNCHANGED <<questions, replies>>
    BY <1>12, <2>4, <2>f, <1>g, <1>k, <1>r, <1>s, <1>o, <1>u, <1>z, <1>w, ThreadMoves DEF BtwDeliver
  <2>5. CASE /\ questions' = [questions EXCEPT ![q].lost = TRUE]
             /\ answerer' = [answerer EXCEPT ![q] = NoAnswerer(q)] /\ UNCHANGED replies
    <3>1. /\ [row EXCEPT !.lost = TRUE] \in QuestionRows /\ [row EXCEPT !.lost = TRUE].status = row.status
          /\ [row EXCEPT !.lost = TRUE].answer = row.answer /\ [row EXCEPT !.lost = TRUE].mark = row.mark
      BY <1>r DEF QuestionRows
    <3>2. questions' = [questions EXCEPT ![q] = [row EXCEPT !.lost = TRUE]]
      BY <2>5, <1>q DEF row
    <3>3. PICK r \in QuestionRows : r.status = row.status /\ r.answer = row.answer /\ r.mark = row.mark
                                    /\ questions' = [questions EXCEPT ![q] = r]
      BY <3>1, <3>2
    <3>4. ThreadFits(r, none, typed, Provider)
      BY <3>3, <2>f DEF ThreadFits
    <3> QED
      BY <1>12, <2>5, <3>3, <3>4, <1>g, <1>k, <1>r, <1>s, <1>o, <1>u, <1>y, <1>w, ThreadMoves DEF BtwDeliver
  <2>6. CASE replies' = replies \union {q} /\ answerer' = At(q, "stamp") /\ UNCHANGED questions
    <3>2. PICK t \in Threads : t.pc = "stamp" /\ t.found = thread.found /\ At(q, "stamp") = [answerer EXCEPT ![q] = t]
      BY <1>a
    <3>4. ThreadFits(row, t, typed, Provider)
      BY <3>2, <2>3, <1>f DEF ThreadFits
    <3>5. t.pc \notin Holding
      BY <3>2 DEF Holding, Capturing
    <3> QED
      BY <1>12, <2>6, <3>2, <3>4, <3>5, <1>r, <1>s, <1>o, <1>u, <1>z, <1>w, ThreadMoves DEF BtwDeliver
  <2> QED
    BY <1>12, <2>4, <2>5, <2>6 DEF BtwDeliver
<1>13. CASE BtwStamp(q)
  <2>3. thread.pc = "stamp"
    BY <1>13 DEF BtwStamp, thread
  <2>1. /\ [row EXCEPT !.delivered = TRUE] \in QuestionRows /\ [row EXCEPT !.delivered = TRUE].status = row.status
        /\ [row EXCEPT !.delivered = TRUE].answer = row.answer /\ [row EXCEPT !.delivered = TRUE].mark = row.mark
    BY <1>r DEF QuestionRows
  <2>2. questions' = [questions EXCEPT ![q] = [row EXCEPT !.delivered = TRUE]]
    BY <1>13, <1>q DEF BtwStamp, row
  <2>4. PICK r \in QuestionRows : r.status = row.status /\ r.answer = row.answer /\ r.mark = row.mark
                                  /\ questions' = [questions EXCEPT ![q] = r]
    BY <2>1, <2>2
  <2>5. ThreadFits(r, none, typed, Provider)
    BY <2>3, <2>4, <1>g, <1>f DEF ThreadFits
  <2> QED
    BY <1>13, <2>4, <2>5, <1>g, <1>k, <1>r, <1>s, <1>o, <1>u, <1>y, <1>w, ThreadMoves DEF BtwStamp
<1>14. CASE BtwRecover(q)
  <2>3. thread.pc = "recover" /\ thread.found = 0 /\ btwCrashed
    BY <1>14, <1>f DEF BtwRecover, thread, ThreadFits
  <2>4. RecoverTo(q) \in {"deliver", "begin", "recapture", "finish"}
    BY DEF RecoverTo
  <2>5. PICK t \in Threads : t.pc = RecoverTo(q) /\ t.found = thread.found /\ At(q, RecoverTo(q)) = [answerer EXCEPT ![q] = t]
    BY <1>a, <2>4
  <2>6. /\ t.pc = "begin" /\ Provider # "codex-fork" => row.status = "pending" \/ (row.status = "running" /\ row.mark = "waiting")
        /\ t.pc # "deliver" => row.status \in ActiveStatus
        /\ t.pc = "recapture" => Shows(screen) /\ Provider # "codex-fork"
    BY <2>5, <1>r DEF RecoverTo, SafeToRetry, SideVisible, row, ActiveStatus, EndStatus, Shows, QuestionRows
  <2>7. ThreadFits(row, t, typed, Provider)
    BY <2>3, <2>4, <2>5, <2>6, <1>f DEF ThreadFits, ActiveStatus
  <2>8. t.pc = "recapture" => screen.of = q \/ OverEarlier(questions, q, screen.of)
    <3> SUFFICES ASSUME t.pc = "recapture", screen.of # q PROVE OverEarlier(questions, q, screen.of)
      OBVIOUS
    <3>1. screen.of \in Questions /\ questions[screen.of].status \notin {"none", "completed"} /\ row.status \in ActiveStatus
      BY <2>6 DEF BtwInv, ShownIsOpen
    <3>2. screen.of \in Int /\ screen.of >= 1
      BY <3>1, <1>n DEF Questions
    <3>3. ~(q < screen.of)
      BY <3>1 DEF BtwInv, InOrder, row, ActiveStatus, EndStatus
    <3>4. screen.of < q
      BY <3>2, <3>3, <1>n
    <3>5. questions[screen.of].status \in EndStatus
      BY <3>1, <3>4 DEF BtwInv, InOrder, row, ActiveStatus
    <3> QED
      BY <3>1, <3>2, <3>4, <3>5, <1>n DEF OverEarlier, EndStatus
  <2>9. /\ screen' = screen \/ screen' = IdlePane
        /\ t.pc = "recapture" => screen' = screen
        /\ t.pc \in Holding => paneHeld' = q
        /\ paneHeld' = paneHeld \/ paneHeld = 0
        /\ paneHeld' \in 0..MaxQuestions
    BY <1>14, <2>4, <2>5, <1>s, <1>n DEF BtwRecover, IdlePane, Holding, Capturing
  <2>10. Shows(screen') /\ screen'.of = q => row.status # "completed" /\ (t.pc = "finish" => t.found <= 0)
    BY <2>3, <2>5, <2>9, <1>w, <1>i
  <2>11. screen' \in Panes /\ t.pc \notin {"mark", "capture"}
    BY <2>4, <2>5, <2>9, <1>s
  <2>12. t.pc = "recapture" => btwCrashed /\ (Shows(screen') => screen'.of = q \/ OverEarlier(questions, q, screen'.of))
    BY <2>3, <2>8, <2>9
  <2> QED
    BY <1>14, <2>5, <2>7, <2>9, <2>10, <2>11, <2>12, <1>r, <1>s, <1>o, <1>u, <1>z, ThreadMoves DEF BtwRecover
<1> QED
  BY <1>1, <1>2, <1>3, <1>4, <1>5, <1>6, <1>7, <1>8, <1>9, <1>10, <1>11, <1>12, <1>13, <1>14 DEF BtwStep

\* A question is asked, once the others of the target are over
LEMMA Asking ==
  ASSUME BtwInv, NEW q \in Questions, NEW asker \in Askers \union {"poll"}, Ask(q, asker)
  PROVE  BtwInv'
<1>q. questions \in [Questions -> QuestionRows] /\ answerer \in [Questions -> Threads] /\ typedFor \in [Questions -> Nat]
  BY DEF BtwInv, BtwTypes
<1>n. q \in Int /\ q <= MaxQuestions /\ MaxQuestions \in Nat
  BY SideQuestionAssumption DEF Questions
<1>0. NoQuestion \in QuestionRows /\ NoQuestion.answer = 0
  BY <1>n DEF NoQuestion, QuestionRows
<1>1. /\ [NoQuestion EXCEPT !.status = "pending", !.asker = asker] \in QuestionRows
      /\ [NoQuestion EXCEPT !.status = "pending", !.asker = asker].status = "pending"
      /\ [NoQuestion EXCEPT !.status = "pending", !.asker = asker].answer = 0
  BY <1>0 DEF QuestionRows, ActiveStatus
<1>2. PICK row \in QuestionRows : row.status = "pending" /\ row.answer = 0 /\ questions' = [questions EXCEPT ![q] = row]
  BY <1>1 DEF Ask
<1>3. PICK thread \in Threads : /\ thread.pc = "begin" /\ thread.found = answerer[q].found
                                /\ answerer' = [answerer EXCEPT ![q] = thread]
  <2>1. /\ [answerer[q] EXCEPT !.pc = "begin"] \in Threads /\ [answerer[q] EXCEPT !.pc = "begin"].pc = "begin"
        /\ [answerer[q] EXCEPT !.pc = "begin"].found = answerer[q].found
    BY <1>q DEF Threads
  <2>2. answerer' = [answerer EXCEPT ![q] = [answerer[q] EXCEPT !.pc = "begin"]]
    BY <1>q DEF Ask, At
  <2> QED
    BY <2>1, <2>2
<1>4. typedFor[q] = 0 /\ ThreadFits(row, thread, typedFor[q], Provider)
  BY <1>2, <1>3 DEF BtwInv, ThreadsFit, ThreadFits, Ask
<1>5. MovesOn(q, row)
  <2>1. \A p \in Questions : p < q => questions[p].status \in EndStatus
    <3> SUFFICES ASSUME NEW p \in Questions, p < q PROVE questions[p].status \in EndStatus
      OBVIOUS
    <3>1. p \in 1..(q - 1)
      BY <1>n DEF Questions
    <3>2. questions[p].status # "none" /\ questions[p].status \notin ActiveStatus /\ questions[p] \in QuestionRows
      BY <3>1, <1>q DEF Ask, NoActive
    <3> QED
      BY <3>2 DEF QuestionRows
  <2> QED
    BY <2>1, <1>2 DEF MovesOn, Ask
<1>6. thread.pc \notin Holding
  BY <1>3 DEF Holding, Capturing
<1>7. thread.found \in {-1, 0, q} \/ LeftOpen(questions, q, thread.found)
  BY <1>3 DEF BtwInv, FindsOwn
<1> QED
  BY <1>q, <1>2, <1>3, <1>4, <1>5, <1>6, <1>7, ThreadMoves DEF Ask, BtwInv, BtwTypes

\* The target answers, turns, or is closed by hand: what it shows stays of the question it was of
LEMMA PaneMoves ==
  ASSUME BtwInv, PaneAnswers \/ PaneCloses \/ PaneTurns
  PROVE  BtwInv'
<1>s. screen \in Panes /\ busyTurns \in 0..MaxBusy /\ MaxBusy \in Nat /\ MaxQuestions \in Nat
  BY SideQuestionAssumption DEF BtwInv, BtwTypes
<1>1. screen' \in Panes /\ busyTurns' \in 0..MaxBusy /\ (Shows(screen') => Shows(screen) /\ screen'.of = screen.of)
  <2>1. CASE PaneAnswers
    BY <1>s, <2>1 DEF PaneAnswers, Panes, Shows
  <2>2. CASE PaneCloses
    BY <1>s, <2>2 DEF PaneCloses, Panes, Shows
  <2>3. CASE PaneTurns
    BY <1>s, <2>3 DEF PaneTurns, Panes, Shows
  <2> QED
    BY <2>1, <2>2, <2>3
<1>2. UNCHANGED <<btwCase, questions, answerer, paneHeld, typedFor, present, replies, cleaner, btwCrashed>>
  BY DEF PaneAnswers, PaneCloses, PaneTurns
<1>3. BtwTypes' /\ ThreadsFit' /\ InOrder' /\ PaneIsHeld'
  BY <1>1, <1>2 DEF BtwInv, BtwTypes, ThreadsFit, ThreadFits, InOrder, PaneIsHeld, Provider
<1>4. ShownIsOpen' /\ CapturesOwn'
  BY <1>1, <1>2 DEF BtwInv, ShownIsOpen, CapturesOwn, Provider, OverEarlier
<1>5. FindsOwn' /\ AnswersOwn'
  BY <1>2 DEF BtwInv, FindsOwn, AnswersOwn, LeftOpen, OverEarlier, Provider
<1> QED
  BY <1>3, <1>4, <1>5 DEF BtwInv

\* A retirement ends questions in the table; their threads are left where they are
LEMMA RowsEnd ==
  ASSUME BtwInv, questions' \in [Questions -> QuestionRows],
         \A p \in Questions :
           /\ questions'[p].mark = questions[p].mark /\ questions'[p].answer = questions[p].answer
           /\ \/ questions'[p].status = questions[p].status
              \/ questions[p].status \in ActiveStatus /\ questions'[p].status = "failed",
         screen' = screen \/ screen' = IdlePane,
         cleaner' \in Cleaners, replies' \subseteq Questions,
         UNCHANGED <<btwCase, answerer, paneHeld, typedFor, busyTurns, btwCrashed>>
  PROVE  BtwInv'
<1>n. Questions \subseteq Int /\ MaxQuestions \in Nat /\ IdlePane \in Panes /\ ~Shows(IdlePane)
  BY SideQuestionAssumption DEF Questions, IdlePane, Panes, Shows
<1>t. BtwTypes'
  BY <1>n DEF BtwInv, BtwTypes
<1>p. Provider' = Provider
  BY DEF Provider
<1>s. \A p \in Questions : /\ questions[p].status \in EndStatus => questions'[p].status = questions[p].status
                           /\ questions'[p].status = "none" <=> questions[p].status = "none"
                           /\ questions'[p].status = "completed" <=> questions[p].status = "completed"
  BY DEF ActiveStatus, EndStatus
<1>1. ThreadsFit'
  <2> SUFFICES ASSUME NEW p \in Questions PROVE ThreadFits(questions'[p], answerer[p], typedFor[p], Provider)
    BY <1>p DEF ThreadsFit, ThreadFits
  <2>1. ThreadFits(questions[p], answerer[p], typedFor[p], Provider)
    BY DEF BtwInv, ThreadsFit
  <2> QED
    BY <2>1, <1>s DEF ThreadFits, ActiveStatus
<1>2. InOrder' /\ PaneIsHeld'
  BY <1>s DEF BtwInv, InOrder, PaneIsHeld
<1>3. ShownIsOpen'
  BY <1>s, <1>p, <1>n DEF BtwInv, ShownIsOpen
<1>o. \A p \in Questions, o \in Int : OverEarlier(questions, p, o) => OverEarlier(questions', p, o)
  <2> SUFFICES ASSUME NEW p \in Questions, NEW o \in Int, OverEarlier(questions, p, o) PROVE OverEarlier(questions', p, o)
    OBVIOUS
  <2>1. o \in Questions
    BY <1>n DEF OverEarlier, Questions
  <2> QED
    BY <2>1, <1>s DEF OverEarlier, EndStatus
<1>i. screen.of \in Int /\ \A p \in Questions : answerer[p].found \in Int /\ questions[p].answer \in Int
  BY DEF BtwInv, BtwTypes, Panes, Threads, QuestionRows
<1>4. CapturesOwn'
  <2>1. CASE screen' = screen
    BY <2>1, <1>o, <1>i DEF BtwInv, CapturesOwn
  <2>2. CASE screen' = IdlePane
    BY <2>2, <1>n DEF BtwInv, CapturesOwn
  <2> QED
    BY <2>1, <2>2
<1>5. FindsOwn' /\ AnswersOwn'
  BY <1>o, <1>i, <1>p DEF BtwInv, FindsOwn, AnswersOwn, LeftOpen
<1> QED
  BY <1>t, <1>1, <1>2, <1>3, <1>4, <1>5 DEF BtwInv

\* fail_for_session and what follows it, and the retirement itself
LEMMA Retiring ==
  ASSUME BtwInv, CleanFail \/ CleanKey \/ \E who \in Askers \union {"target"} : RetireSession(who)
  PROVE  BtwInv'
<1>q. questions \in [Questions -> QuestionRows] /\ cleaner \in Cleaners /\ replies \subseteq Questions
  BY DEF BtwInv, BtwTypes
<1>c. NoCleaner \in Cleaners
  BY DEF NoCleaner, Cleaners
<1>1. CASE CleanFail
  <2> DEFINE hit == {q \in Questions : Concerns(q, cleaner.who)}
             row(q) == [questions[q] EXCEPT !.status = "failed", !.lost = @ \/ questions[q].asker = cleaner.who]
  <2>1. \A q \in Questions : /\ row(q) \in QuestionRows /\ row(q).mark = questions[q].mark
                             /\ row(q).answer = questions[q].answer /\ row(q).status = "failed"
    <3> SUFFICES ASSUME NEW q \in Questions
                 PROVE  /\ row(q) \in QuestionRows /\ row(q).mark = questions[q].mark
                        /\ row(q).answer = questions[q].answer /\ row(q).status = "failed"
      OBVIOUS
    <3>1. (questions[q].lost \/ questions[q].asker = cleaner.who) \in BOOLEAN
      OBVIOUS
    <3> QED
      BY <3>1, <1>q, ZenonT(60) DEF QuestionRows, EndStatus
  <2>2. questions' = [q \in Questions |-> IF q \in hit THEN row(q) ELSE questions[q]]
    BY <1>1 DEF CleanFail
  <2>3. \A q \in hit : q \in Questions /\ questions[q].status \in ActiveStatus
    BY DEF Concerns
  <2>4. cleaner' \in Cleaners
    <3>1. hit \in SUBSET Questions
      OBVIOUS
    <3>2. cleaner' = IF hit = {} THEN NoCleaner ELSE [cleaner EXCEPT !.pc = "key", !.left = hit]
      BY <1>1 DEF CleanFail
    <3> HIDE DEF hit
    <3>3. [cleaner EXCEPT !.pc = "key", !.left = hit] \in Cleaners
      BY <3>1, <1>q DEF Cleaners
    <3> QED
      BY <3>2, <3>3, <1>c
  <2> HIDE DEF hit, row
  <2>5. questions' \in [Questions -> QuestionRows]
    BY <2>1, <2>2, <1>q
  <2>6. \A p \in Questions : /\ questions'[p].mark = questions[p].mark /\ questions'[p].answer = questions[p].answer
                             /\ \/ questions'[p].status = questions[p].status
                                \/ questions[p].status \in ActiveStatus /\ questions'[p].status = "failed"
    BY <2>1, <2>2, <2>3
  <2> QED
    BY <1>1, <2>4, <2>5, <2>6, <1>q, RowsEnd DEF CleanFail
<1>2. CASE CleanKey
  <2> DEFINE told == {q \in cleaner.left : Undelivered(q)}
             row(q) == IF q \notin told THEN questions[q]
                       ELSE IF questions[q].asker \in present THEN [questions[q] EXCEPT !.delivered = TRUE]
                       ELSE [questions[q] EXCEPT !.lost = TRUE]
  <2>1. \A q \in Questions : /\ row(q) \in QuestionRows /\ row(q).mark = questions[q].mark
                             /\ row(q).answer = questions[q].answer /\ row(q).status = questions[q].status
    <3> SUFFICES ASSUME NEW q \in Questions
                 PROVE  /\ row(q) \in QuestionRows /\ row(q).mark = questions[q].mark
                        /\ row(q).answer = questions[q].answer /\ row(q).status = questions[q].status
      OBVIOUS
    <3> HIDE DEF told
    <3>1. questions[q] \in QuestionRows
      BY <1>q
    <3>2. /\ [questions[q] EXCEPT !.delivered = TRUE] \in QuestionRows
          /\ [questions[q] EXCEPT !.delivered = TRUE].mark = questions[q].mark
          /\ [questions[q] EXCEPT !.delivered = TRUE].answer = questions[q].answer
          /\ [questions[q] EXCEPT !.delivered = TRUE].status = questions[q].status
      BY <3>1 DEF QuestionRows
    <3>3. /\ [questions[q] EXCEPT !.lost = TRUE] \in QuestionRows
          /\ [questions[q] EXCEPT !.lost = TRUE].mark = questions[q].mark
          /\ [questions[q] EXCEPT !.lost = TRUE].answer = questions[q].answer
          /\ [questions[q] EXCEPT !.lost = TRUE].status = questions[q].status
      BY <3>1 DEF QuestionRows
    <3> QED
      BY <3>1, <3>2, <3>3
  <2>2. questions' = [q \in Questions |-> row(q)]
    BY <1>2 DEF CleanKey
  <2>3. replies' \subseteq Questions
    <3>1. cleaner.left \subseteq Questions
      BY <1>q DEF Cleaners
    <3> QED
      BY <3>1, <1>2, <1>q DEF CleanKey
  <2> HIDE DEF told, row
  <2>5. questions' \in [Questions -> QuestionRows]
    BY <2>1, <2>2
  <2>6. \A p \in Questions : questions'[p].mark = questions[p].mark /\ questions'[p].answer = questions[p].answer
                             /\ questions'[p].status = questions[p].status
    BY <2>1, <2>2
  <2>7. screen' = screen \/ screen' = IdlePane
    BY <1>2 DEF CleanKey, IdlePane
  <2> QED
    BY <1>2, <2>3, <2>5, <2>6, <2>7, <1>c, RowsEnd DEF CleanKey
<1>3. CASE \E who \in Askers \union {"target"} : RetireSession(who)
  <2>1. cleaner' \in Cleaners
    BY <1>3 DEF RetireSession, Cleaners
  <2>2. UNCHANGED <<btwCase, questions, answerer, screen, paneHeld, typedFor, replies, busyTurns, btwCrashed>>
    BY <1>3 DEF RetireSession
  <2> QED
    BY <2>1, <2>2, <1>q, RowsEnd
<1> QED
  BY <1>1, <1>2, <1>3

\* A restart leaves the rows and the pane, and a thread for every row that is not settled
LEMMA Restarted ==
  ASSUME BtwInv, BtwCrash
  PROVE  BtwInv'
<1>n. MaxQuestions \in Nat /\ 0 \in -1..MaxQuestions
  BY SideQuestionAssumption
<1>1. \A q \in Questions : answerer'[q].pc \in {"recover", "none"} /\ answerer'[q].found = 0
                           /\ (answerer'[q].pc = "recover" => questions[q].status # "none")
  BY DEF BtwCrash, ToRecover, ActiveStatus, EndStatus
<1>2. answerer' \in [Questions -> Threads]
  BY <1>n DEF BtwCrash, Threads
<1>3. UNCHANGED <<btwCase, questions, screen, typedFor, present, replies, busyTurns>> /\ paneHeld' = 0 /\ btwCrashed' = TRUE
      /\ cleaner' \in Cleaners
  BY DEF BtwCrash, NoCleaner, Cleaners
<1>t. BtwTypes'
  BY <1>2, <1>3, <1>n DEF BtwInv, BtwTypes
<1>p. Provider' = Provider
  BY <1>3 DEF Provider
<1>4. ThreadsFit'
  <2> SUFFICES ASSUME NEW q \in Questions PROVE ThreadFits(questions[q], answerer[q], typedFor[q], Provider)'
    BY DEF ThreadsFit
  <2>1. ThreadFits(questions[q], answerer[q], typedFor[q], Provider)
    BY DEF BtwInv, ThreadsFit
  <2> QED
    BY <2>1, <1>1, <1>3, <1>p DEF ThreadFits
<1>5. InOrder' /\ PaneIsHeld'
  BY <1>1, <1>3 DEF BtwInv, InOrder, PaneIsHeld, Holding, Capturing
<1>6. ShownIsOpen' /\ CapturesOwn'
  BY <1>1, <1>3, <1>p DEF BtwInv, ShownIsOpen, CapturesOwn
<1>7. FindsOwn' /\ AnswersOwn'
  BY <1>1, <1>3, <1>p DEF BtwInv, FindsOwn, AnswersOwn, LeftOpen
<1> QED
  BY <1>t, <1>4, <1>5, <1>6, <1>7 DEF BtwInv

\* A side question is typed at the target once, whenever a restart falls between the marks of
\* run_claude_btw and the typing, and gets its own answer or none: recover_btw_requests, the threads that
\* a retirement or a deadline overtook and the prompt check of extract_stock_codex_answer never hand over
\* another's, but for what recover_claude_btw finds open after a restart
THEOREM QuestionsSafe == BtwSpec => [](BtwTypeOK /\ BtwIsSafe)
<1>1. BtwInit => BtwInv
  <2> SUFFICES ASSUME BtwInit PROVE BtwInv
    OBVIOUS
  <2>n. MaxQuestions \in Nat /\ MaxBusy \in Nat /\ 0 \in -1..MaxQuestions /\ 0 \in 0..MaxQuestions /\ 0 \in 0..MaxBusy
    BY SideQuestionAssumption
  <2>1. NoQuestion \in QuestionRows /\ NoQuestion.status = "none" /\ NoQuestion.answer = 0
    BY <2>n DEF NoQuestion, QuestionRows
  <2>2. \A q \in Questions : NoAnswerer(q) \in Threads /\ NoAnswerer(q).pc = "none" /\ NoAnswerer(q).found = 0
    BY <2>n DEF NoAnswerer, Threads
  <2>3. questions \in [Questions -> QuestionRows] /\ answerer \in [Questions -> Threads] /\ typedFor \in [Questions -> Nat]
    BY <2>1, <2>2 DEF BtwInit
  <2>4. \A q \in Questions : /\ questions[q].status = "none" /\ questions[q].answer = 0 /\ typedFor[q] = 0
                             /\ answerer[q].pc = "none" /\ answerer[q].found = 0
    BY <2>1, <2>2 DEF BtwInit
  <2>5. screen \in Panes /\ ~Shows(screen) /\ cleaner \in Cleaners
    BY <2>n DEF BtwInit, Panes, Shows, NoCleaner, Cleaners
  <2>6. BtwTypes
    BY <2>n, <2>3, <2>5 DEF BtwTypes, BtwInit
  <2>7. ThreadsFit /\ InOrder /\ PaneIsHeld
    BY <2>4 DEF ThreadsFit, ThreadFits, InOrder, PaneIsHeld, Holding, Capturing
  <2>8. ShownIsOpen /\ CapturesOwn /\ FindsOwn /\ AnswersOwn
    BY <2>4, <2>5 DEF ShownIsOpen, CapturesOwn, FindsOwn, AnswersOwn
  <2> QED
    BY <2>6, <2>7, <2>8 DEF BtwInv
<1>2. BtwInv /\ [BtwNext]_btwVars => BtwInv'
  <2> SUFFICES ASSUME BtwInv, [BtwNext]_btwVars PROVE BtwInv'
    OBVIOUS
  <2>1. CASE \E q \in Questions : BtwStep(q)
    BY <2>1, AnswererMoves
  <2>2. CASE \E q \in Questions : \E asker \in Askers \union {"poll"} : Ask(q, asker)
    BY <2>2, Asking
  <2>3. CASE PaneAnswers \/ PaneCloses \/ PaneTurns
    BY <2>3, PaneMoves
  <2>4. CASE CleanFail \/ CleanKey \/ \E who \in Askers \union {"target"} : RetireSession(who)
    BY <2>4, Retiring
  <2>5. CASE BtwCrash
    BY <2>5, Restarted
  <2>6. CASE UNCHANGED btwVars
    <3>1. questions' \in [Questions -> QuestionRows] /\ cleaner' \in Cleaners /\ replies' \subseteq Questions
      BY <2>6 DEF BtwInv, BtwTypes, btwVars
    <3> QED
      BY <2>6, <3>1, RowsEnd DEF btwVars
  <2> QED
    BY <2>1, <2>2, <2>3, <2>4, <2>5, <2>6 DEF BtwNext
<1>3. BtwInv => BtwTypeOK /\ BtwIsSafe
  <2> SUFFICES ASSUME BtwInv PROVE BtwTypeOK /\ BtwIsSafe
    OBVIOUS
  <2>1. BtwTypeOK
    BY DEF BtwInv, BtwTypes, BtwTypeOK, QuestionRows, Threads, Panes
  <2>2. QuestionTypedOnce
    BY DEF BtwInv, ThreadsFit, ThreadFits, QuestionTypedOnce
  <2>3. AnswerIsOwn
    BY DEF BtwInv, AnswersOwn, AnswerIsOwn, LeftOpen, OverEarlier
  <2> QED
    BY <2>1, <2>2, <2>3 DEF BtwIsSafe
<1> QED
  BY <1>1, <1>2, <1>3, PTL DEF BtwSpec
=============================================================================
