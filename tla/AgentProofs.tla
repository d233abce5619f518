---------------------------- MODULE AgentProofs ----------------------------
(***************************************************************************)
(* Theorems about an agent's turns and conversations.  Of Handoff, for any *)
(* number of turns, handoffs, tool calls, faults and crashes: no handoff is*)
(* carried out twice or before its clear, no reservation is left without   *)
(* somebody who ends it, and a seat is shown in the turn it is in.  Of     *)
(* SeatSessions, for any seats, transcripts, faults and crashes: the scan  *)
(* of the start-up charges no conversation to the wrong registered seat.   *)
(* Of ChildLaunch, for any children, briefs, faults, crashes and whatever a*)
(* person does at the terminals: no brief runs twice, and a review that is *)
(* reported as started is the one that was asked for.                      *)
(***************************************************************************)
EXTENDS Handoff, SeatSessions, ChildLaunch, FiniteSetTheorems, SequenceTheorems, TLAPS

-----------------------------------------------------------------------------
(* The inductive invariant *)

Hooks == [kind : {"prompt", "tool", "stop", "reset"}, at : Nat]
Stops == [at : Nat, received : Nat]
Pcs == {"none", "read", "ready", "clear", "confirm", "prompt", "done", "released",
        "notready", "failed", "leave", "check"}
Workers == [pc : Pcs, pend : Nat, resv : Nat, reset : Nat]

\* The hooks on their way; by their stamps they are in the order in which they were sent
Flying == {flight[i] : i \in DOMAIN flight}
InOrder == \A i, j \in DOMAIN flight : i < j => flight[i].at < flight[j].at

\* What may stand in the composer
Empty == <<>>
ClearTyped == <<"clear">>
PromptTyped == <<"prompt">>

Numbers ==
  /\ clock \in Nat /\ hookAt \in Nat /\ hookEmit \in Nat /\ pend \in Nat /\ resv \in Nat
  /\ resetEmit \in Nat /\ starting \in Nat /\ cleared \in Nat
  /\ turns \in Nat /\ tools \in Nat /\ handoffCrashes \in Nat /\ handoffFaults \in Nat

Shapes ==
  /\ turn \in {"idle", "running", "clearing"} /\ status \in {"idle", "running"}
  /\ composer \in {Empty, ClearTyped, PromptTyped}
  /\ flight \in Seq(Hooks) /\ waiting \subseteq Stops /\ hworker \in Workers
  /\ prompts \in [DOMAIN prompts -> Nat]

HandoffTypes == Numbers /\ Shapes

\* Every stamp comes from the clock
RecordStamped ==
  hookAt <= clock /\ hookEmit <= clock /\ pend <= clock /\ resv <= clock /\ resetEmit <= clock

Stamped ==
  /\ RecordStamped /\ InOrder
  /\ \A h \in Flying : h.at >= 1 /\ h.at <= clock
  /\ \A w \in waiting : w.at <= clock /\ w.received <= clock
  /\ \A h \in DOMAIN prompts : h \in Nat /\ h >= 1 /\ h <= clock

\* What a worker holds was a reservation of the handoff it names.  Stamps are fresh, so a
\* reservation that was lost never becomes the current one again.
Reserved ==
  /\ pend = 0 => resv = 0
  /\ resv # 0 => pend < resv
  /\ pend # 0 => pend \in DOMAIN prompts
  /\ hworker.pc = "none" => hworker = NoWorker
  /\ hworker.pc \notin {"none", "leave", "check"} => pend # 0
  /\ hworker.pc # "none" =>
       /\ hworker.pend # 0 /\ hworker.pend < hworker.resv /\ hworker.resv <= clock
       /\ hworker.pend \in DOMAIN prompts
       /\ resv = hworker.resv => pend = hworker.pend

Owned ==
  /\ ReservationOwned
  /\ hworker.pc \in {"leave", "check"} /\ resv = hworker.resv => cleared > 0
  /\ hworker.pc \in {"confirm", "prompt", "failed", "done"} => cleared > 0
  /\ hworker.pc = "released" => resv # hworker.resv

\* The prompt of the pending handoff has not been typed, but for crashes, until its worker is done
Once ==
  \A h \in DOMAIN prompts :
    /\ prompts[h] <= 1 + handoffCrashes
    /\ h = pend /\ ~(hworker.pc = "done" /\ hworker.pend = h) => prompts[h] <= handoffCrashes

\* No clear is on its way
Clean == composer # ClearTyped /\ turn # "clearing"

\* The stamps newer than every reset
AfterResets == {x \in Nat : resetEmit < x /\ \A h \in Flying : h.kind = "reset" => h.at < x}

Cleared ==
  /\ hworker.pc \in {"clear", "prompt"} => composer = Empty
  /\ cleared = 0 \/ hworker.pc = "done" => composer # ClearTyped
  /\ pend # 0 /\ (cleared = 0 \/ (hworker.pc = "done" /\ pend # hworker.pend)) =>
       Clean /\ pend \in AfterResets
  /\ cleared = 1 /\ hworker.pc \in {"confirm", "prompt"} /\ Current =>
       /\ resv + 1 \in AfterResets \/ Clean
       /\ turn = "clearing" => composer # ClearTyped
       /\ hworker.pc = "prompt" => turn # "clearing"

HandoffInv == HandoffTypes /\ Stamped /\ Reserved /\ Owned /\ Once /\ Cleared

\* What the registry makes of the agent: a reservation is made at the end of a turn
Effective == IF resv # 0 THEN "idle" ELSE status

\* The start of the running turn has been seen, or is the last word on its way
StartComing(h) ==
  /\ h.kind = "prompt" /\ hookEmit < h.at
  /\ \A g \in Flying : g.kind \in {"prompt", "stop"} => g.at <= h.at
  /\ \A w \in waiting : w.at < h.at
StartSeen ==
  /\ Effective = "running"
  /\ \A g \in Flying : g.kind = "stop" => g.at < hookEmit
  /\ \A w \in waiting : w.at < hookEmit
StartKnown == turn = "running" => StartSeen \/ \E h \in Flying : StartComing(h)

\* The end of the last turn has been seen, is the last word on its way, or waits to be applied
OnlyStops == \A g \in Flying : g.kind \in {"stop", "reset"}
EndComing(h) ==
  /\ h.kind = "stop" /\ hookEmit < h.at
  /\ \A g \in Flying : g.at > h.at => g.kind = "reset"
  /\ \A w \in waiting : w.at < h.at
EndWaits(w) == hookEmit <= w.at /\ hookAt <= w.received
EndKnown ==
  turn # "running" /\ composer # PromptTyped =>
    \/ Effective = "idle" /\ OnlyStops
    \/ \E h \in Flying : EndComing(h)
    \/ OnlyStops /\ \E w \in waiting : EndWaits(w)

\* While the worker is about to set the status, the turn its prompt starts has not been seen
DoneKnown ==
  hworker.pc = "done" /\ (resv = hworker.resv \/ status = "idle") =>
    composer = PromptTyped \/ \E h \in Flying : h.kind = "prompt" /\ hookEmit < h.at

Known == StartKnown /\ EndKnown /\ DoneKnown

-----------------------------------------------------------------------------
(* What the steps do to the hooks on their way, the composer and the worker *)

LEMMA FlightGrows ==
  ASSUME HandoffTypes, NEW kind \in {"prompt", "tool", "stop", "reset"}, Emit(kind)
  PROVE  /\ flight' \in Seq(Hooks) /\ clock' = clock + 1
         /\ Len(flight') = Len(flight) + 1 /\ DOMAIN flight' = 1 .. (Len(flight) + 1)
         /\ DOMAIN flight = 1 .. Len(flight) /\ Len(flight) \in Nat
         /\ \A i \in DOMAIN flight : i \in DOMAIN flight' /\ flight'[i] = flight[i]
         /\ flight'[Len(flight) + 1] = [kind |-> kind, at |-> clock + 1]
<1>1. [kind |-> kind, at |-> clock + 1] \in Hooks
  BY DEF HandoffTypes, Numbers, Shapes, Hooks
<1> QED
  BY <1>1, AppendProperties DEF HandoffTypes, Numbers, Shapes, Emit

LEMMA FlightShrinks ==
  ASSUME HandoffTypes, NEW i \in DOMAIN flight, Arrives(i)
  PROVE  /\ flight' \in Seq(Hooks) /\ Len(flight') = Len(flight) - 1
         /\ DOMAIN flight' = 1 .. (Len(flight) - 1) /\ DOMAIN flight = 1 .. Len(flight) /\ Len(flight) \in Nat
         /\ \A j \in DOMAIN flight' : flight'[j] = IF j < i THEN flight[j] ELSE flight[j + 1]
<1>1. /\ flight \in Seq(Hooks) /\ i \in 1 .. Len(flight) /\ Len(flight) \in Nat
      /\ DOMAIN flight = 1 .. Len(flight)
  BY DEF HandoffTypes, Numbers, Shapes
<1>2. PICK n \in Nat : n = Len(flight)
  BY <1>1
<1>0. i \in Int /\ i >= 1 /\ i <= n /\ \A j \in 1 .. n : flight[j] \in Hooks
  BY <1>1, <1>2
<1>p. PICK f : f = flight
  OBVIOUS
<1>k. PICK k \in Int : k = i - 1
  BY <1>0
<1>m. PICK m \in Int : m = i + 1
  BY <1>0
<1>3. PICK a : a = SubSeq(f, 1, k)
  OBVIOUS
<1>4. PICK b : b = SubSeq(f, m, n)
  OBVIOUS
<1>5. a \in Seq(Hooks) /\ Len(a) = i - 1 /\ \A j \in 1 .. (i - 1) : a[j] = flight[j]
  <2>1. 1 \in Int /\ k \in Int /\ \A j \in 1 .. k : f[j] \in Hooks
    BY <1>0, <1>p, <1>k
  <2>2. /\ a \in Seq(Hooks) /\ Len(a) = IF 1 <= k THEN k - 1 + 1 ELSE 0
        /\ \A j \in 1 .. (k - 1 + 1) : a[j] = f[1 + j - 1]
    <3>1. /\ SubSeq(f, 1, k) \in Seq(Hooks)
          /\ Len(SubSeq(f, 1, k)) = IF 1 <= k THEN k - 1 + 1 ELSE 0
          /\ \A j \in 1 .. k - 1 + 1 : SubSeq(f, 1, k)[j] = f[1 + j - 1]
      BY <2>1, SubSeqProperties
    <3> QED
      BY <3>1, <1>3
  <2> QED
    BY <2>2, <1>0, <1>p, <1>k
<1>6. b \in Seq(Hooks) /\ Len(b) = n - i /\ \A j \in 1 .. (n - i) : b[j] = flight[i + j]
  <2>1. m \in Int /\ n \in Int /\ \A j \in m .. n : f[j] \in Hooks
    BY <1>0, <1>p, <1>m
  <2>2. /\ b \in Seq(Hooks) /\ Len(b) = IF m <= n THEN n - m + 1 ELSE 0
        /\ \A j \in 1 .. (n - m + 1) : b[j] = f[m + j - 1]
    <3>1. /\ SubSeq(f, m, n) \in Seq(Hooks)
          /\ Len(SubSeq(f, m, n)) = IF m <= n THEN n - m + 1 ELSE 0
          /\ \A j \in 1 .. n - m + 1 : SubSeq(f, m, n)[j] = f[m + j - 1]
      BY <2>1, SubSeqProperties
    <3> QED
      BY <3>1, <1>4
  <2>3. \A j \in 1 .. (n - i) : j \in 1 .. (n - m + 1) /\ m + j - 1 = i + j
    BY <1>0, <1>m
  <2> QED
    BY <2>2, <2>3, <1>0, <1>p, <1>m
<1>7. flight' = a \o b
  BY <1>2, <1>3, <1>4, <1>p, <1>k, <1>m DEF Arrives, RemoveAt
<1>8. /\ flight' \in Seq(Hooks) /\ Len(flight') = n - 1
      /\ \A j \in 1 .. (n - 1) : flight'[j] = IF j <= i - 1 THEN a[j] ELSE b[j - (i - 1)]
  BY <1>0, <1>5, <1>6, <1>7, ConcatProperties
<1>9. ASSUME NEW j \in 1 .. (n - 1) PROVE flight'[j] = IF j < i THEN flight[j] ELSE flight[j + 1]
  <2>1. CASE j < i
    BY <1>0, <1>5, <1>8, <2>1
  <2>2. CASE ~(j < i)
    <3>1. j - (i - 1) \in 1 .. (n - i) /\ i + (j - (i - 1)) = j + 1
      BY <1>0, <2>2
    <3>2. b[j - (i - 1)] = flight[j + 1]
      BY <1>6, <3>1
    <3> QED
      BY <1>0, <1>8, <2>2, <3>2
  <2> QED
    BY <2>1, <2>2
<1>10. DOMAIN flight' = 1 .. (n - 1)
  <2>1. PICK size \in Nat : size = n - 1
    BY <1>0
  <2>2. flight' \in Seq(Hooks) /\ Len(flight') = size
    BY <1>8, <2>1
  <2> QED
    BY <2>1, <2>2
<1> QED
  BY <1>1, <1>2, <1>8, <1>9, <1>10

LEMMA FlyingGrows ==
  ASSUME HandoffTypes, Stamped, NEW kind \in {"prompt", "tool", "stop", "reset"}, Emit(kind)
  PROVE  /\ flight' \in Seq(Hooks) /\ InOrder' /\ clock' = clock + 1
         /\ Flying' = Flying \union {[kind |-> kind, at |-> clock + 1]}
<1>1. PICK n \in Nat : n = Len(flight)
  BY DEF HandoffTypes, Numbers, Shapes
<1>2. /\ flight' \in Seq(Hooks) /\ clock' = clock + 1
      /\ DOMAIN flight' = 1 .. (n + 1) /\ DOMAIN flight = 1 .. n
      /\ \A i \in DOMAIN flight : i \in DOMAIN flight' /\ flight'[i] = flight[i]
      /\ flight'[n + 1] = [kind |-> kind, at |-> clock + 1]
  BY <1>1, FlightGrows
<1>3. Flying' = Flying \union {[kind |-> kind, at |-> clock + 1]}
  <2>1. ASSUME NEW h \in Flying' PROVE h \in Flying \union {[kind |-> kind, at |-> clock + 1]}
    <3>1. PICK i \in 1 .. (n + 1) : h = flight'[i]
      BY <1>2 DEF Flying
    <3>2. i = n + 1 \/ i \in 1 .. n
      BY <3>1
    <3> QED
      BY <1>2, <3>1, <3>2 DEF Flying
  <2>2. ASSUME NEW h \in Flying PROVE h \in Flying'
    BY <1>2 DEF Flying
  <2>3. [kind |-> kind, at |-> clock + 1] \in Flying'
    <3>1. n + 1 \in 1 .. (n + 1)
      BY <1>1
    <3> QED
      BY <1>2, <3>1 DEF Flying
  <2> QED
    BY <2>1, <2>2, <2>3
<1>4. ASSUME NEW i \in DOMAIN flight', NEW j \in DOMAIN flight', i < j
      PROVE  flight'[i].at < flight'[j].at
  <2>1. i \in 1 .. n /\ (j = n + 1 \/ j \in 1 .. n)
    BY <1>1, <1>2, <1>4
  <2>2. flight'[i] = flight[i] /\ flight[i] \in Flying /\ flight[i].at <= clock /\ flight[i].at \in Nat
    <3>1. flight'[i] = flight[i] /\ flight[i] \in Flying
      BY <1>2, <2>1 DEF Flying
    <3>2. flight[i] \in Hooks
      BY <1>2, <2>1 DEF HandoffTypes, Numbers, Shapes
    <3>3. flight[i].at <= clock
      BY <3>1 DEF Stamped
    <3>4. flight[i].at \in Nat
      BY <3>2 DEF Hooks
    <3> QED
      BY <3>1, <3>3, <3>4
  <2>3. CASE j = n + 1
    <3>1. flight'[j].at = clock + 1
      BY <1>2, <2>3
    <3> QED
      BY <2>2, <3>1 DEF HandoffTypes, Numbers, Shapes
  <2>4. CASE j \in 1 .. n
    BY <1>2, <1>4, <2>1, <2>2, <2>4 DEF Stamped, InOrder
  <2> QED
    BY <2>1, <2>3, <2>4
<1>5. InOrder'
  BY <1>4 DEF InOrder
<1> QED
  BY <1>2, <1>3, <1>5

LEMMA FlyingShrinks ==
  ASSUME HandoffTypes, Stamped, NEW i \in DOMAIN flight, Arrives(i)
  PROVE  /\ flight' \in Seq(Hooks) /\ InOrder'
         /\ flight[i] \in Flying /\ Flying' = Flying \ {flight[i]}
         /\ \A h \in Flying : h.at < flight[i].at => h.kind \in Overtaken
<1>1. PICK n \in Nat : n = Len(flight)
  BY DEF HandoffTypes, Numbers, Shapes
<1>2. /\ flight' \in Seq(Hooks) /\ DOMAIN flight' = 1 .. (n - 1) /\ DOMAIN flight = 1 .. n
      /\ \A j \in DOMAIN flight' : flight'[j] = IF j < i THEN flight[j] ELSE flight[j + 1]
  BY <1>1, FlightShrinks
<1>0. i \in 1 .. n /\ \A j \in 1 .. n : flight[j].at \in Nat /\ flight[j] \in Flying
  <2>1. i \in 1 .. n /\ \A j \in 1 .. n : flight[j] \in Hooks
    BY <1>2 DEF HandoffTypes, Numbers, Shapes
  <2>2. \A j \in 1 .. n : flight[j].at \in Nat
    BY <2>1 DEF Hooks
  <2>3. \A j \in 1 .. n : flight[j] \in Flying
    BY <1>2 DEF Flying
  <2> QED
    BY <2>1, <2>2, <2>3
<1>3. \A j, k \in 1 .. n : j < k => flight[j].at < flight[k].at
  BY <1>2 DEF Stamped, InOrder
<1>4. ASSUME NEW j \in 1 .. n, j # i PROVE flight[j] # flight[i]
  BY <1>0, <1>3, <1>4
<1>5. ASSUME NEW h \in Flying' PROVE h \in Flying /\ h # flight[i]
  <2>1. PICK j \in 1 .. (n - 1) : h = flight'[j]
    BY <1>2 DEF Flying
  <2>2. PICK k \in 1 .. n : k # i /\ h = flight[k]
    <3>1. CASE j < i
      <4>1. j \in 1 .. n /\ j # i
        BY <1>1, <2>1, <3>1, <1>0
      <4> QED
        BY <1>2, <2>1, <3>1, <4>1
    <3>2. CASE ~(j < i)
      <4>1. j + 1 \in 1 .. n /\ j + 1 # i
        BY <1>1, <2>1, <3>2, <1>0
      <4> QED
        BY <1>2, <2>1, <3>2, <4>1
    <3> QED
      BY <3>1, <3>2
  <2> QED
    BY <1>0, <1>4, <2>2
<1>6. ASSUME NEW h \in Flying, h # flight[i] PROVE h \in Flying'
  <2>1. PICK k \in 1 .. n : k # i /\ h = flight[k]
    BY <1>2, <1>6 DEF Flying
  <2>2. CASE k < i
    <3>1. k \in 1 .. (n - 1)
      BY <1>0, <2>1, <2>2
    <3>2. flight'[k] = h
      BY <1>2, <2>1, <2>2, <3>1
    <3> QED
      BY <1>2, <3>1, <3>2 DEF Flying
  <2>3. CASE ~(k < i)
    <3>1. PICK j \in Int : j = k - 1
      BY <2>1
    <3>2. j \in 1 .. (n - 1) /\ ~(j < i) /\ j + 1 = k
      BY <1>0, <2>1, <2>3, <3>1
    <3>3. flight'[j] = h
      BY <1>2, <2>1, <3>2
    <3> QED
      BY <1>2, <3>2, <3>3 DEF Flying
  <2> QED
    BY <2>2, <2>3
<1>7. Flying' = Flying \ {flight[i]}
  BY <1>5, <1>6
<1>8. ASSUME NEW h \in Flying, h.at < flight[i].at PROVE h.kind \in Overtaken
  <2>1. PICK k \in 1 .. n : h = flight[k]
    BY <1>2 DEF Flying
  <2>2. k < i
    BY <1>0, <1>3, <1>8, <2>1
  <2>3. k \in 1 .. (i - 1)
    BY <1>0, <2>1, <2>2
  <2> QED
    BY <2>1, <2>3 DEF Arrives
<1>9. ASSUME NEW j \in DOMAIN flight', NEW k \in DOMAIN flight', j < k
      PROVE  flight'[j].at < flight'[k].at
  <2>1. PICK a \in 1 .. n : flight'[j] = flight[a] /\ a = IF j < i THEN j ELSE j + 1
    <3>1. CASE j < i
      BY <1>2, <3>1
    <3>2. CASE ~(j < i)
      <4>1. j + 1 \in 1 .. n
        BY <1>1, <1>2
      <4> QED
        BY <1>2, <3>2, <4>1
    <3> QED
      BY <3>1, <3>2
  <2>2. PICK b \in 1 .. n : flight'[k] = flight[b] /\ b = IF k < i THEN k ELSE k + 1
    <3>1. CASE k < i
      BY <1>2, <3>1
    <3>2. CASE ~(k < i)
      <4>1. k + 1 \in 1 .. n
        BY <1>1, <1>2
      <4> QED
        BY <1>2, <3>2, <4>1
    <3> QED
      BY <3>1, <3>2
  <2>3. a < b
    BY <1>0, <1>1, <1>2, <1>9, <2>1, <2>2
  <2> QED
    BY <1>3, <2>1, <2>2, <2>3
<1>10. InOrder'
  BY <1>9 DEF InOrder
<1> QED
  BY <1>0, <1>2, <1>7, <1>8, <1>10

LEMMA FlyingKept ==
  ASSUME HandoffTypes, Stamped, UNCHANGED flight
  PROVE  flight' \in Seq(Hooks) /\ InOrder' /\ Flying' = Flying
BY DEF HandoffTypes, Numbers, Shapes, Stamped, InOrder, Flying

\* Different hooks have different stamps
LEMMA FlyingTyped ==
  ASSUME HandoffTypes, Stamped
  PROVE  /\ \A h \in Flying : h \in Hooks /\ h.at \in Nat /\ h.kind \in {"prompt", "tool", "stop", "reset"}
         /\ \A g, h \in Flying : g.at = h.at => g = h
<1>1. \A h \in Flying : h \in Hooks
  BY DEF HandoffTypes, Numbers, Shapes, Flying
<1>2. \A h \in Hooks : h.at \in Nat /\ h.kind \in {"prompt", "tool", "stop", "reset"}
  BY DEF Hooks
<1>3. ASSUME NEW g \in Flying, NEW h \in Flying, g.at = h.at PROVE g = h
  <2>1. PICK i \in DOMAIN flight, j \in DOMAIN flight : g = flight[i] /\ h = flight[j]
    BY DEF Flying
  <2>2. i \in Nat /\ j \in Nat
    BY DEF HandoffTypes, Numbers, Shapes
  <2>3. i = j
    BY <1>1, <1>2, <1>3, <2>1, <2>2 DEF Stamped, InOrder
  <2> QED
    BY <2>1, <2>3
<1> QED
  BY <1>1, <1>2, <1>3

LEMMA Composers ==
  /\ Append(Empty, "clear") = ClearTyped /\ Append(Empty, "prompt") = PromptTyped
  /\ Tail(ClearTyped) = Empty /\ Tail(PromptTyped) = Empty
  /\ Head(ClearTyped) = "clear" /\ Head(PromptTyped) = "prompt"
  /\ ClearTyped # Empty /\ PromptTyped # Empty /\ ClearTyped # PromptTyped /\ Empty = <<>>
<1>1. <<"clear">>[1] = "clear" /\ <<"prompt">>[1] = "prompt" /\ "clear" # "prompt"
  OBVIOUS
<1>2. <<"clear">> # <<"prompt">>
  BY <1>1
<1> QED
  BY <1>2 DEF Empty, ClearTyped, PromptTyped

LEMMA HandoffTyped ==
  ASSUME HandoffTypes, Stamped
  PROVE  /\ hworker.pc \in Pcs /\ hworker.pend \in Nat /\ hworker.resv \in Nat /\ hworker.reset \in Nat
         /\ \A w \in waiting : w.at \in Nat /\ w.received \in Nat
         /\ \A h \in Flying : h.at \in Nat
<1>1. hworker.pc \in Pcs /\ hworker.pend \in Nat /\ hworker.resv \in Nat /\ hworker.reset \in Nat
  BY DEF HandoffTypes, Numbers, Shapes, Workers
<1>2. \A w \in waiting : w.at \in Nat /\ w.received \in Nat
  BY DEF HandoffTypes, Numbers, Shapes, Stops
<1> QED
  BY <1>1, <1>2, FlyingTyped

LEMMA WorkerNone ==
  /\ NoWorker.pc = "none" /\ NoWorker.pend = 0 /\ NoWorker.resv = 0 /\ NoWorker.reset = 0
  /\ NoWorker \in Workers
BY DEF NoWorker, Workers, Pcs

LEMMA WorkerGoes ==
  ASSUME HandoffTypes
  PROVE  \A p \in Pcs : Goes(p) =>
           /\ hworker'.pc = p /\ hworker'.pend = hworker.pend /\ hworker'.resv = hworker.resv
           /\ hworker'.reset = hworker.reset
           /\ hworker' \in Workers /\ (p # "none" => hworker' # NoWorker)
<1> SUFFICES ASSUME NEW p \in Pcs, Goes(p)
             PROVE  /\ hworker'.pc = p /\ hworker'.pend = hworker.pend /\ hworker'.resv = hworker.resv
                    /\ hworker'.reset = hworker.reset
                    /\ hworker' \in Workers /\ (p # "none" => hworker' # NoWorker)
  OBVIOUS
<1>1. hworker \in Workers
  BY DEF HandoffTypes, Numbers, Shapes
<1>2. /\ hworker'.pc = p /\ hworker'.pend = hworker.pend /\ hworker'.resv = hworker.resv
      /\ hworker'.reset = hworker.reset
  BY <1>1 DEF Goes, Workers
<1>3. hworker' \in Workers
  BY <1>1 DEF Goes, Workers
<1> QED
  BY <1>2, <1>3, WorkerNone

LEMMA WorkerSame ==
  ASSUME HandoffTypes, Reserved
  PROVE  hworker.pc # "none" <=> hworker # NoWorker
BY WorkerNone DEF Reserved

LEMMA StampsKept ==
  ASSUME HandoffTypes, Stamped, clock' \in Nat, clock' >= clock, RecordStamped', InOrder',
         \A h \in Flying' : h \in Flying \/ h.at = clock + 1,
         \A w \in waiting' : w \in waiting \/ (w.at <= clock /\ w.received = clock + 1),
         \A p \in DOMAIN prompts' : p \in DOMAIN prompts \/ p = clock + 1,
         clock' = clock =>
           Flying' \subseteq Flying /\ waiting' \subseteq waiting /\ DOMAIN prompts' \subseteq DOMAIN prompts,
         \A w \in waiting' : w.at \in Nat
  PROVE  Stamped'
<1>1. clock \in Nat
  BY DEF HandoffTypes, Numbers
<1>2. ASSUME NEW h \in Flying' PROVE h.at >= 1 /\ h.at <= clock'
  BY <1>1, HandoffTyped DEF Stamped
<1>3. ASSUME NEW w \in waiting' PROVE w.at <= clock' /\ w.received <= clock'
  BY <1>1, HandoffTyped DEF Stamped
<1>4. ASSUME NEW p \in DOMAIN prompts' PROVE p \in Nat /\ p >= 1 /\ p <= clock'
  BY <1>1 DEF Stamped
<1> QED
  BY <1>2, <1>3, <1>4 DEF Stamped

\* A step that leaves the worker alone may lose the reservation, make a new one or schedule
\* a new handoff
LEMMA ReservedKept ==
  ASSUME HandoffTypes, Stamped, Reserved, clock' \in Nat, clock' >= clock, UNCHANGED hworker,
         DOMAIN prompts \subseteq DOMAIN prompts',
         \/ pend' = pend /\ (resv' = resv \/ resv' = 0 \/ (pend # 0 /\ resv' = clock + 1))
         \/ pend' = clock + 1 /\ resv' = 0 /\ pend' \in DOMAIN prompts'
  PROVE  Reserved'
<1>1. clock \in Nat /\ pend \in Nat /\ resv \in Nat /\ pend <= clock /\ resv <= clock
  BY DEF HandoffTypes, Numbers, Stamped, RecordStamped
<1>2. hworker.pc \in Pcs /\ hworker.pend \in Nat /\ hworker.resv \in Nat
  BY HandoffTyped
<1> QED
  BY <1>1, <1>2 DEF Reserved

\* No step but the end of a clear makes a reset
LEMMA ResetsKept ==
  ASSUME HandoffTypes, Stamped,
         \A h \in Flying' : h.kind = "reset" => h \in Flying,
         resetEmit' = resetEmit \/ \E h \in Flying : h.kind = "reset" /\ resetEmit' = h.at
  PROVE  AfterResets \subseteq AfterResets'
BY DEF AfterResets

LEMMA ClockAfterResets ==
  ASSUME HandoffTypes, Stamped
  PROVE  \A x \in Nat : x > clock => x \in AfterResets
<1>1. clock \in Nat /\ resetEmit \in Nat /\ resetEmit <= clock
  BY DEF HandoffTypes, Numbers, Stamped, RecordStamped
<1>2. \A h \in Flying : h.at \in Nat /\ h.at <= clock
  BY HandoffTyped DEF Stamped
<1> QED
  BY <1>1, <1>2 DEF AfterResets

LEMMA AfterResetsUp ==
  ASSUME HandoffTypes, Stamped
  PROVE  \A x \in AfterResets : \A y \in Nat : x < y => y \in AfterResets
<1>1. resetEmit \in Nat /\ \A h \in Flying : h.at \in Nat
  BY HandoffTyped DEF HandoffTypes, Numbers
<1> QED
  BY <1>1 DEF AfterResets

LEMMA TurnsKept ==
  ASSUME Known, Flying' = Flying, waiting' = waiting, hookEmit' = hookEmit, hookAt' = hookAt,
         Effective' = Effective, turn' = turn, composer' # PromptTyped => composer # PromptTyped
  PROVE  StartKnown' /\ EndKnown'
<1>1. StartSeen => StartSeen'
  BY DEF StartSeen
<1>2. \A h \in Flying : StartComing(h) => StartComing(h)'
  BY DEF StartComing
<1>3. OnlyStops => OnlyStops'
  BY DEF OnlyStops
<1>4. \A h \in Flying : EndComing(h) => EndComing(h)'
  BY DEF EndComing
<1>5. \A w \in waiting : EndWaits(w) => EndWaits(w)'
  BY DEF EndWaits
<1> QED
  BY <1>1, <1>2, <1>3, <1>4, <1>5 DEF Known, StartKnown, EndKnown

-----------------------------------------------------------------------------
(* The steps keep the invariant *)


LEMMA UserPromptKeeps ==
  ASSUME HandoffInv, UserPrompt
  PROVE  HandoffInv' /\ (Overtaken \subseteq {"stop"} /\ Known => Known')
<1>0. /\ HandoffTypes /\ Stamped /\ Reserved /\ Owned /\ Once /\ Cleared
      /\ Numbers /\ Shapes /\ RecordStamped
  BY DEF HandoffInv, HandoffTypes, Stamped
<1>a. /\ Emit("prompt")
      /\ turn = "idle" /\ composer = Empty /\ turn' = "running" /\ turns' = turns + 1
      /\ composer' = composer /\ waiting' = waiting /\ status' = status /\ hookAt' = hookAt
      /\ hookEmit' = hookEmit /\ pend' = pend /\ resv' = resv /\ resetEmit' = resetEmit
      /\ starting' = starting /\ hworker' = hworker /\ cleared' = cleared
      /\ prompts' = prompts /\ tools' = tools /\ handoffCrashes' = handoffCrashes
      /\ handoffFaults' = handoffFaults
  BY <1>0, Composers, WorkerGoes DEF UserPrompt, recordVars, agentVars
<1>f. /\ flight' \in Seq(Hooks) /\ InOrder' /\ clock' = clock + 1
      /\ Flying' = Flying \union {[kind |-> "prompt", at |-> clock + 1]}
  BY <1>0, <1>a, FlyingGrows
<1>g. \A h \in Flying' : h \in Flying \/ (h.kind = "prompt" /\ h.at = clock + 1)
  BY <1>f
<1>t. /\ hworker.pc \in Pcs /\ hworker.pend \in Nat /\ hworker.resv \in Nat
      /\ \A x \in waiting : x.at \in Nat /\ x.received \in Nat
  BY <1>0, HandoffTyped
<1>r. AfterResets \subseteq AfterResets'
  BY <1>0, <1>a, <1>f, <1>g, ResetsKept
<1>1. Numbers'
  BY <1>0, <1>a, <1>f DEF Numbers
<1>2. Shapes'
  BY <1>0, <1>a, <1>f, <1>g DEF Shapes
<1>3. RecordStamped'
  BY <1>0, <1>1, <1>a, <1>f DEF Numbers, RecordStamped
<1>4. Stamped'
  BY <1>0, <1>1, <1>3, <1>a, <1>f, <1>g, <1>t, StampsKept DEF Numbers
<1>5. Reserved'
  BY <1>0, <1>1, <1>a, <1>f, <1>g, ReservedKept DEF Numbers
<1>6. Owned'
  BY <1>0, <1>1, <1>a, <1>t DEF Owned, ReservationOwned, Numbers, Reserved, RecordStamped
<1>7. Once'
  BY <1>0, <1>a, <1>t DEF Once, Numbers
<1>8. Cleared'
  BY <1>0, <1>a, <1>t, <1>r, Composers
  DEF Cleared, Clean, Current, Numbers, Shapes, RecordStamped, Reserved
<1>9. ASSUME Overtaken \subseteq {"stop"}, Known PROVE Known'
  <2>n. PICK n : n = [kind |-> "prompt", at |-> clock + 1]
    OBVIOUS
  <2>1. n \in Flying' /\ n.kind = "prompt" /\ n.at = clock + 1
    BY <1>f, <2>n
  <2>2. hookEmit' < n.at /\ turn' = "running"
    BY <1>0, <1>a, <2>1 DEF Numbers, RecordStamped
  <2>3. \A g \in Flying' : g.at <= n.at
    BY <1>0, <1>g, <2>1, HandoffTyped DEF Stamped, Numbers
  <2>4. \A x \in waiting' : x.at < n.at
    BY <1>0, <1>a, <1>t, <2>1 DEF Stamped, Numbers
  <2>5. StartComing(n)'
    BY <2>1, <2>2, <2>3, <2>4 DEF StartComing
  <2>6. StartKnown'
    BY <2>1, <2>5 DEF StartKnown
  <2>7. EndKnown'
    BY <2>2 DEF EndKnown
  <2>8. DoneKnown'
    BY <2>1, <2>2 DEF DoneKnown
  <2> QED
    BY <2>6, <2>7, <2>8 DEF Known
<1> QED
  BY <1>1, <1>2, <1>4, <1>5, <1>6, <1>7, <1>8, <1>9 DEF HandoffInv, HandoffTypes

LEMMA UseToolKeeps ==
  ASSUME HandoffInv, UseTool
  PROVE  HandoffInv' /\ (Overtaken \subseteq {"stop"} /\ Known => Known')
<1>0. /\ HandoffTypes /\ Stamped /\ Reserved /\ Owned /\ Once /\ Cleared
      /\ Numbers /\ Shapes /\ RecordStamped
  BY DEF HandoffInv, HandoffTypes, Stamped
<1>a. /\ Emit("tool")
      /\ turn = "running" /\ tools' = tools + 1
      /\ turn' = turn /\ composer' = composer /\ waiting' = waiting /\ status' = status
      /\ hookAt' = hookAt /\ hookEmit' = hookEmit /\ pend' = pend /\ resv' = resv
      /\ resetEmit' = resetEmit /\ starting' = starting /\ hworker' = hworker
      /\ cleared' = cleared /\ prompts' = prompts /\ turns' = turns
      /\ handoffCrashes' = handoffCrashes /\ handoffFaults' = handoffFaults
  BY <1>0, Composers, WorkerGoes DEF UseTool, recordVars, agentVars
<1>f. /\ flight' \in Seq(Hooks) /\ InOrder' /\ clock' = clock + 1
      /\ Flying' = Flying \union {[kind |-> "tool", at |-> clock + 1]}
  BY <1>0, <1>a, FlyingGrows
<1>g. \A h \in Flying' : h \in Flying \/ (h.kind = "tool" /\ h.at = clock + 1)
  BY <1>f
<1>t. /\ hworker.pc \in Pcs /\ hworker.pend \in Nat /\ hworker.resv \in Nat
      /\ \A x \in waiting : x.at \in Nat /\ x.received \in Nat
  BY <1>0, HandoffTyped
<1>r. AfterResets \subseteq AfterResets'
  BY <1>0, <1>a, <1>f, <1>g, ResetsKept
<1>1. Numbers'
  BY <1>0, <1>a, <1>f DEF Numbers
<1>2. Shapes'
  BY <1>0, <1>a, <1>f, <1>g DEF Shapes
<1>3. RecordStamped'
  BY <1>0, <1>1, <1>a, <1>f DEF Numbers, RecordStamped
<1>4. Stamped'
  BY <1>0, <1>1, <1>3, <1>a, <1>f, <1>g, <1>t, StampsKept DEF Numbers
<1>5. Reserved'
  BY <1>0, <1>1, <1>a, <1>f, <1>g, ReservedKept DEF Numbers
<1>6. Owned'
  BY <1>0, <1>1, <1>a, <1>t DEF Owned, ReservationOwned, Numbers, Reserved, RecordStamped
<1>7. Once'
  BY <1>0, <1>a, <1>t DEF Once, Numbers
<1>8. Cleared'
  BY <1>0, <1>a, <1>t, <1>r, Composers
  DEF Cleared, Clean, Current, Numbers, Shapes, RecordStamped, Reserved
<1>9. ASSUME Overtaken \subseteq {"stop"}, Known PROVE Known'
  <2>e. Effective' = Effective
    BY <1>a DEF Effective
  <2>1. \A h \in Flying : h \in Flying' /\ (StartComing(h) => StartComing(h)')
    BY <1>a, <1>f, <1>g DEF StartComing
  <2>2. StartSeen => StartSeen'
    BY <1>a, <1>g, <2>e DEF StartSeen
  <2>3. StartKnown'
    BY <1>9, <1>a, <2>1, <2>2 DEF Known, StartKnown
  <2>4. EndKnown'
    BY <1>a DEF EndKnown
  <2>5. DoneKnown'
    BY <1>9, <1>a, <2>1 DEF Known, DoneKnown
  <2> QED
    BY <2>3, <2>4, <2>5 DEF Known
<1> QED
  BY <1>1, <1>2, <1>4, <1>5, <1>6, <1>7, <1>8, <1>9 DEF HandoffInv, HandoffTypes

LEMMA EndTurnKeeps ==
  ASSUME HandoffInv, EndTurn
  PROVE  HandoffInv' /\ (Overtaken \subseteq {"stop"} /\ Known => Known')
<1>0. /\ HandoffTypes /\ Stamped /\ Reserved /\ Owned /\ Once /\ Cleared
      /\ Numbers /\ Shapes /\ RecordStamped
  BY DEF HandoffInv, HandoffTypes, Stamped
<1>a. /\ Emit("stop")
      /\ turn = "running" /\ turn' = "idle"
      /\ composer' = composer /\ waiting' = waiting /\ status' = status /\ hookAt' = hookAt
      /\ hookEmit' = hookEmit /\ pend' = pend /\ resv' = resv /\ resetEmit' = resetEmit
      /\ starting' = starting /\ hworker' = hworker /\ cleared' = cleared
      /\ prompts' = prompts /\ turns' = turns /\ tools' = tools
      /\ handoffCrashes' = handoffCrashes /\ handoffFaults' = handoffFaults
  BY <1>0, Composers, WorkerGoes DEF EndTurn, recordVars, agentVars
<1>f. /\ flight' \in Seq(Hooks) /\ InOrder' /\ clock' = clock + 1
      /\ Flying' = Flying \union {[kind |-> "stop", at |-> clock + 1]}
  BY <1>0, <1>a, FlyingGrows
<1>g. \A h \in Flying' : h \in Flying \/ (h.kind = "stop" /\ h.at = clock + 1)
  BY <1>f
<1>t. /\ hworker.pc \in Pcs /\ hworker.pend \in Nat /\ hworker.resv \in Nat
      /\ \A x \in waiting : x.at \in Nat /\ x.received \in Nat
  BY <1>0, HandoffTyped
<1>r. AfterResets \subseteq AfterResets'
  BY <1>0, <1>a, <1>f, <1>g, ResetsKept
<1>1. Numbers'
  BY <1>0, <1>a, <1>f DEF Numbers
<1>2. Shapes'
  BY <1>0, <1>a, <1>f, <1>g DEF Shapes
<1>3. RecordStamped'
  BY <1>0, <1>1, <1>a, <1>f DEF Numbers, RecordStamped
<1>4. Stamped'
  BY <1>0, <1>1, <1>3, <1>a, <1>f, <1>g, <1>t, StampsKept DEF Numbers
<1>5. Reserved'
  BY <1>0, <1>1, <1>a, <1>f, <1>g, ReservedKept DEF Numbers
<1>6. Owned'
  BY <1>0, <1>1, <1>a, <1>t DEF Owned, ReservationOwned, Numbers, Reserved, RecordStamped
<1>7. Once'
  BY <1>0, <1>a, <1>t DEF Once, Numbers
<1>8. Cleared'
  BY <1>0, <1>a, <1>t, <1>r, Composers
  DEF Cleared, Clean, Current, Numbers, Shapes, RecordStamped, Reserved
<1>9. ASSUME Overtaken \subseteq {"stop"}, Known PROVE Known'
  <2>n. PICK n : n = [kind |-> "stop", at |-> clock + 1]
    OBVIOUS
  <2>1. n \in Flying' /\ n.kind = "stop" /\ n.at = clock + 1
    BY <1>f, <2>n
  <2>2. hookEmit' < n.at /\ turn' # "running"
    BY <1>0, <1>a, <2>1 DEF Numbers, RecordStamped
  <2>3. \A g \in Flying' : ~(g.at > n.at)
    BY <1>0, <1>g, <2>1, HandoffTyped DEF Stamped, Numbers
  <2>4. \A x \in waiting' : x.at < n.at
    BY <1>0, <1>a, <1>t, <2>1 DEF Stamped, Numbers
  <2>5. EndComing(n)'
    BY <2>1, <2>2, <2>3, <2>4 DEF EndComing
  <2>6. EndKnown'
    BY <2>1, <2>5 DEF EndKnown
  <2>7. StartKnown'
    BY <2>2 DEF StartKnown
  <2>8. DoneKnown'
    BY <1>9, <1>a, <1>f DEF Known, DoneKnown
  <2> QED
    BY <2>6, <2>7, <2>8 DEF Known
<1> QED
  BY <1>1, <1>2, <1>4, <1>5, <1>6, <1>7, <1>8, <1>9 DEF HandoffInv, HandoffTypes

LEMMA TakeUpClearKeeps ==
  ASSUME HandoffInv, TakeUp, composer = ClearTyped
  PROVE  HandoffInv' /\ (Overtaken \subseteq {"stop"} /\ Known => Known')
<1>0. /\ HandoffTypes /\ Stamped /\ Reserved /\ Owned /\ Once /\ Cleared
      /\ Numbers /\ Shapes /\ RecordStamped
  BY DEF HandoffInv, HandoffTypes, Stamped
<1>a. /\ turn = "idle" /\ composer' = Empty /\ turn' = "clearing" /\ clock' = clock
      /\ clock' = clock /\ waiting' = waiting /\ status' = status /\ hookAt' = hookAt
      /\ hookEmit' = hookEmit /\ pend' = pend /\ resv' = resv /\ resetEmit' = resetEmit
      /\ starting' = starting /\ hworker' = hworker /\ cleared' = cleared
      /\ prompts' = prompts /\ turns' = turns /\ tools' = tools
      /\ handoffCrashes' = handoffCrashes /\ handoffFaults' = handoffFaults
      /\ flight' = flight
  BY <1>0, Composers, WorkerGoes DEF TakeUp, recordVars, agentVars
<1>f. flight' \in Seq(Hooks) /\ InOrder' /\ Flying' = Flying
  BY <1>0, <1>a, FlyingKept
<1>t. /\ hworker.pc \in Pcs /\ hworker.pend \in Nat /\ hworker.resv \in Nat
      /\ \A x \in waiting : x.at \in Nat /\ x.received \in Nat
  BY <1>0, HandoffTyped
<1>r. AfterResets \subseteq AfterResets'
  BY <1>0, <1>a, <1>f, ResetsKept
<1>1. Numbers'
  BY <1>0, <1>a DEF Numbers
<1>2. Shapes'
  BY <1>0, <1>a, <1>f DEF Shapes
<1>3. RecordStamped'
  BY <1>0, <1>1, <1>a DEF Numbers, RecordStamped
<1>4. Stamped'
  BY <1>0, <1>1, <1>3, <1>a, <1>f, <1>t, StampsKept DEF Numbers
<1>5. Reserved'
  BY <1>0, <1>1, <1>a, <1>f, ReservedKept DEF Numbers
<1>6. Owned'
  BY <1>0, <1>1, <1>a, <1>t DEF Owned, ReservationOwned, Numbers, Reserved, RecordStamped
<1>7. Once'
  BY <1>0, <1>a, <1>t DEF Once, Numbers
<1>8. Cleared'
  BY <1>0, <1>a, <1>t, <1>r, Composers
  DEF Cleared, Clean, Current, Numbers, Shapes, RecordStamped, Reserved
<1>9. ASSUME Overtaken \subseteq {"stop"}, Known PROVE Known'
  <2>e. Effective' = Effective
    BY <1>a DEF Effective
  <2>1. OnlyStops => OnlyStops'
    BY <1>f DEF OnlyStops
  <2>2. \A h \in Flying : h \in Flying' /\ (EndComing(h) => EndComing(h)')
    BY <1>a, <1>f DEF EndComing
  <2>3. \A x \in waiting : x \in waiting' /\ (EndWaits(x) => EndWaits(x)')
    BY <1>a DEF EndWaits
  <2>4. EndKnown'
    BY <1>9, <1>a, <2>e, <2>1, <2>2, <2>3, Composers DEF Known, EndKnown
  <2>5. StartKnown'
    BY <1>a DEF StartKnown
  <2>6. DoneKnown'
    BY <1>9, <1>a, <2>2, Composers DEF Known, DoneKnown
  <2> QED
    BY <2>4, <2>5, <2>6 DEF Known
<1> QED
  BY <1>1, <1>2, <1>4, <1>5, <1>6, <1>7, <1>8, <1>9 DEF HandoffInv, HandoffTypes

LEMMA TakeUpPromptKeeps ==
  ASSUME HandoffInv, TakeUp, composer = PromptTyped
  PROVE  HandoffInv' /\ (Overtaken \subseteq {"stop"} /\ Known => Known')
<1>0. /\ HandoffTypes /\ Stamped /\ Reserved /\ Owned /\ Once /\ Cleared
      /\ Numbers /\ Shapes /\ RecordStamped
  BY DEF HandoffInv, HandoffTypes, Stamped
<1>a. /\ turn = "idle" /\ composer' = Empty /\ turn' = "running" /\ Emit("prompt")
      /\ waiting' = waiting /\ status' = status /\ hookAt' = hookAt /\ hookEmit' = hookEmit
      /\ pend' = pend /\ resv' = resv /\ resetEmit' = resetEmit /\ starting' = starting
      /\ hworker' = hworker /\ cleared' = cleared /\ prompts' = prompts /\ turns' = turns
      /\ tools' = tools /\ handoffCrashes' = handoffCrashes /\ handoffFaults' = handoffFaults
  BY <1>0, Composers, WorkerGoes DEF TakeUp, recordVars, agentVars
<1>f. /\ flight' \in Seq(Hooks) /\ InOrder' /\ clock' = clock + 1
      /\ Flying' = Flying \union {[kind |-> "prompt", at |-> clock + 1]}
  BY <1>0, <1>a, FlyingGrows
<1>g. \A h \in Flying' : h \in Flying \/ (h.kind = "prompt" /\ h.at = clock + 1)
  BY <1>f
<1>t. /\ hworker.pc \in Pcs /\ hworker.pend \in Nat /\ hworker.resv \in Nat
      /\ \A x \in waiting : x.at \in Nat /\ x.received \in Nat
  BY <1>0, HandoffTyped
<1>r. AfterResets \subseteq AfterResets'
  BY <1>0, <1>a, <1>f, <1>g, ResetsKept
<1>1. Numbers'
  BY <1>0, <1>a, <1>f DEF Numbers
<1>2. Shapes'
  BY <1>0, <1>a, <1>f, <1>g DEF Shapes
<1>3. RecordStamped'
  BY <1>0, <1>1, <1>a, <1>f DEF Numbers, RecordStamped
<1>4. Stamped'
  BY <1>0, <1>1, <1>3, <1>a, <1>f, <1>g, <1>t, StampsKept DEF Numbers
<1>5. Reserved'
  BY <1>0, <1>1, <1>a, <1>f, <1>g, ReservedKept DEF Numbers
<1>6. Owned'
  BY <1>0, <1>1, <1>a, <1>t DEF Owned, ReservationOwned, Numbers, Reserved, RecordStamped
<1>7. Once'
  BY <1>0, <1>a, <1>t DEF Once, Numbers
<1>8. Cleared'
  BY <1>0, <1>a, <1>t, <1>r, Composers
  DEF Cleared, Clean, Current, Numbers, Shapes, RecordStamped, Reserved
<1>9. ASSUME Overtaken \subseteq {"stop"}, Known PROVE Known'
  <2>n. PICK n : n = [kind |-> "prompt", at |-> clock + 1]
    OBVIOUS
  <2>1. n \in Flying' /\ n.kind = "prompt" /\ n.at = clock + 1
    BY <1>f, <2>n
  <2>2. hookEmit' < n.at /\ turn' = "running"
    BY <1>0, <1>a, <2>1 DEF Numbers, RecordStamped
  <2>3. \A g \in Flying' : g.at <= n.at
    BY <1>0, <1>g, <2>1, HandoffTyped DEF Stamped, Numbers
  <2>4. \A x \in waiting' : x.at < n.at
    BY <1>0, <1>a, <1>t, <2>1 DEF Stamped, Numbers
  <2>5. StartComing(n)'
    BY <2>1, <2>2, <2>3, <2>4 DEF StartComing
  <2>6. StartKnown'
    BY <2>1, <2>5 DEF StartKnown
  <2>7. EndKnown'
    BY <2>2 DEF EndKnown
  <2>8. DoneKnown'
    BY <2>1, <2>2 DEF DoneKnown
  <2> QED
    BY <2>6, <2>7, <2>8 DEF Known
<1> QED
  BY <1>1, <1>2, <1>4, <1>5, <1>6, <1>7, <1>8, <1>9 DEF HandoffInv, HandoffTypes

LEMMA FinishClearKeeps ==
  ASSUME HandoffInv, FinishClear
  PROVE  HandoffInv' /\ (Overtaken \subseteq {"stop"} /\ Known => Known')
<1>0. /\ HandoffTypes /\ Stamped /\ Reserved /\ Owned /\ Once /\ Cleared
      /\ Numbers /\ Shapes /\ RecordStamped
  BY DEF HandoffInv, HandoffTypes, Stamped
<1>a. /\ Emit("reset")
      /\ turn = "clearing" /\ turn' = "idle"
      /\ composer' = composer /\ waiting' = waiting /\ status' = status /\ hookAt' = hookAt
      /\ hookEmit' = hookEmit /\ pend' = pend /\ resv' = resv /\ resetEmit' = resetEmit
      /\ starting' = starting /\ hworker' = hworker /\ cleared' = cleared
      /\ prompts' = prompts /\ turns' = turns /\ tools' = tools
      /\ handoffCrashes' = handoffCrashes /\ handoffFaults' = handoffFaults
  BY <1>0, Composers, WorkerGoes DEF FinishClear, recordVars, agentVars
<1>f. /\ flight' \in Seq(Hooks) /\ InOrder' /\ clock' = clock + 1
      /\ Flying' = Flying \union {[kind |-> "reset", at |-> clock + 1]}
  BY <1>0, <1>a, FlyingGrows
<1>g. \A h \in Flying' : h \in Flying \/ (h.kind = "reset" /\ h.at = clock + 1)
  BY <1>f
<1>t. /\ hworker.pc \in Pcs /\ hworker.pend \in Nat /\ hworker.resv \in Nat
      /\ \A x \in waiting : x.at \in Nat /\ x.received \in Nat
  BY <1>0, HandoffTyped
<1>1. Numbers'
  BY <1>0, <1>a, <1>f DEF Numbers
<1>2. Shapes'
  BY <1>0, <1>a, <1>f, <1>g DEF Shapes
<1>3. RecordStamped'
  BY <1>0, <1>1, <1>a, <1>f DEF Numbers, RecordStamped
<1>4. Stamped'
  BY <1>0, <1>1, <1>3, <1>a, <1>f, <1>g, <1>t, StampsKept DEF Numbers
<1>5. Reserved'
  BY <1>0, <1>1, <1>a, <1>f, <1>g, ReservedKept DEF Numbers
<1>6. Owned'
  BY <1>0, <1>1, <1>a, <1>t DEF Owned, ReservationOwned, Numbers, Reserved, RecordStamped
<1>7. Once'
  BY <1>0, <1>a, <1>t DEF Once, Numbers
<1>8. Cleared'
  BY <1>0, <1>a, <1>t, Composers DEF Cleared, Clean, Current, Numbers
<1>9. ASSUME Overtaken \subseteq {"stop"}, Known PROVE Known'
  <2>e. Effective' = Effective
    BY <1>a DEF Effective
  <2>1. OnlyStops => OnlyStops'
    BY <1>g DEF OnlyStops
  <2>2. \A h \in Flying : h \in Flying' /\ (EndComing(h) => EndComing(h)')
    BY <1>a, <1>f, <1>g DEF EndComing
  <2>3. \A x \in waiting : x \in waiting' /\ (EndWaits(x) => EndWaits(x)')
    BY <1>a DEF EndWaits
  <2>4. EndKnown'
    BY <1>9, <1>a, <2>e, <2>1, <2>2, <2>3 DEF Known, EndKnown
  <2>5. StartKnown'
    BY <1>a DEF StartKnown
  <2>6. DoneKnown'
    BY <1>9, <1>a, <2>2 DEF Known, DoneKnown
  <2> QED
    BY <2>4, <2>5, <2>6 DEF Known
<1> QED
  BY <1>1, <1>2, <1>4, <1>5, <1>6, <1>7, <1>8, <1>9 DEF HandoffInv, HandoffTypes

LEMMA ScheduleHandoffKeeps ==
  ASSUME HandoffInv, ScheduleHandoff
  PROVE  HandoffInv' /\ (Overtaken \subseteq {"stop"} /\ Known => Known')
<1>0. /\ HandoffTypes /\ Stamped /\ Reserved /\ Owned /\ Once /\ Cleared
      /\ Numbers /\ Shapes /\ RecordStamped
  BY DEF HandoffInv, HandoffTypes, Stamped
<1>a. /\ turn = "running" /\ clock' = clock + 1 /\ pend' = clock + 1 /\ resv' = 0
      /\ prompts' = [h \in DOMAIN prompts \union {clock + 1} |-> IF h \in DOMAIN prompts THEN prompts[h] ELSE 0]
      /\ turn' = turn /\ composer' = composer /\ waiting' = waiting /\ status' = status
      /\ hookAt' = hookAt /\ hookEmit' = hookEmit /\ resetEmit' = resetEmit
      /\ starting' = starting /\ hworker' = hworker /\ cleared' = cleared /\ turns' = turns
      /\ tools' = tools /\ handoffCrashes' = handoffCrashes /\ handoffFaults' = handoffFaults
      /\ flight' = flight
  BY <1>0, Composers, WorkerGoes DEF ScheduleHandoff, recordVars, agentVars
<1>f. flight' \in Seq(Hooks) /\ InOrder' /\ Flying' = Flying
  BY <1>0, <1>a, FlyingKept
<1>t. /\ hworker.pc \in Pcs /\ hworker.pend \in Nat /\ hworker.resv \in Nat
      /\ \A x \in waiting : x.at \in Nat /\ x.received \in Nat
  BY <1>0, HandoffTyped
<1>r. AfterResets \subseteq AfterResets'
  BY <1>0, <1>a, <1>f, ResetsKept
<1>1. Numbers'
  BY <1>0, <1>a DEF Numbers
<1>2. Shapes'
  BY <1>0, <1>a, <1>f DEF Shapes
<1>3. RecordStamped'
  BY <1>0, <1>1, <1>a DEF Numbers, RecordStamped
<1>4. Stamped'
  BY <1>0, <1>1, <1>3, <1>a, <1>f, <1>t, StampsKept DEF Numbers
<1>5. Reserved'
  BY <1>0, <1>1, <1>a, <1>f, ReservedKept DEF Numbers
<1>6. Owned'
  BY <1>0, <1>1, <1>a, <1>t DEF Owned, ReservationOwned, Numbers, Reserved, RecordStamped
<1>7. Once'
  <2>1. clock + 1 \notin DOMAIN prompts /\ clock + 1 # pend
    BY <1>0 DEF Stamped, RecordStamped, Numbers
  <2> SUFFICES ASSUME NEW h \in DOMAIN prompts'
               PROVE  /\ prompts'[h] <= 1 + handoffCrashes
                      /\ h = clock + 1 => prompts'[h] <= handoffCrashes
    BY <1>a DEF Once
  <2>2. CASE h \in DOMAIN prompts
    BY <1>0, <1>a, <2>1, <2>2 DEF Once
  <2>3. CASE h \notin DOMAIN prompts
    BY <1>0, <1>a, <2>3 DEF Numbers
  <2> QED
    BY <2>2, <2>3
<1>8. Cleared'
  <2>1. ~(hworker.pc \in {"confirm", "prompt"} /\ resv' = hworker.resv)
    BY <1>0, <1>a, <1>t DEF Reserved
  <2>2. pend' \in AfterResets'
    BY <1>0, <1>a, <1>r, ClockAfterResets DEF Numbers
  <2> QED
    BY <1>0, <1>a, <2>1, <2>2, Composers DEF Cleared, Clean, Current
<1>9. ASSUME Overtaken \subseteq {"stop"}, Known PROVE Known'
  <2>1. StartSeen => StartSeen'
    BY <1>a, <1>f DEF StartSeen, Effective
  <2>2. \A h \in Flying : h \in Flying' /\ (StartComing(h) => StartComing(h)')
    BY <1>a, <1>f DEF StartComing
  <2>3. StartKnown'
    BY <1>9, <1>a, <2>1, <2>2 DEF Known, StartKnown
  <2>4. EndKnown'
    BY <1>a DEF EndKnown
  <2>5. hworker.pc = "done" => resv' # hworker.resv
    BY <1>0, <1>a, <1>t DEF Reserved
  <2>6. DoneKnown'
    BY <1>9, <1>a, <2>2, <2>5 DEF Known, DoneKnown
  <2> QED
    BY <2>3, <2>4, <2>6 DEF Known
<1> QED
  BY <1>1, <1>2, <1>4, <1>5, <1>6, <1>7, <1>8, <1>9 DEF HandoffInv, HandoffTypes

LEMMA PromptHookKeeps ==
  ASSUME HandoffInv, NEW i \in DOMAIN flight, PromptHook(i)
  PROVE  HandoffInv' /\ (Overtaken \subseteq {"stop"} /\ Known => Known')
<1>0. /\ HandoffTypes /\ Stamped /\ Reserved /\ Owned /\ Once /\ Cleared
      /\ Numbers /\ Shapes /\ RecordStamped
  BY DEF HandoffInv, HandoffTypes, Stamped
<1>a. /\ flight[i].kind = "prompt"
      /\ \/ /\ clock' = clock /\ status' = status /\ hookAt' = hookAt /\ hookEmit' = hookEmit /\ resv' = resv
            /\ hookEmit > flight[i].at
         \/ /\ clock' = clock + 1 /\ status' = "running" /\ hookAt' = clock + 1
            /\ hookEmit' = flight[i].at /\ resv' = 0
            /\ hookEmit = 0 \/ ~(hookEmit > flight[i].at)
      /\ turn' = turn /\ composer' = composer /\ waiting' = waiting /\ pend' = pend
      /\ resetEmit' = resetEmit /\ starting' = starting /\ hworker' = hworker
      /\ cleared' = cleared /\ prompts' = prompts /\ turns' = turns /\ tools' = tools
      /\ handoffCrashes' = handoffCrashes /\ handoffFaults' = handoffFaults
  BY <1>0, Composers, WorkerGoes DEF PromptHook, recordVars, agentVars
<1>f. /\ flight' \in Seq(Hooks) /\ InOrder'
      /\ flight[i] \in Flying /\ Flying' = Flying \ {flight[i]}
      /\ \A h \in Flying : h.at < flight[i].at => h.kind \in Overtaken
  BY <1>0, FlyingShrinks DEF PromptHook
<1>g. flight[i].at \in Nat /\ flight[i].at >= 1 /\ flight[i].at <= clock
  BY <1>0, <1>f, FlyingTyped DEF Stamped
<1>t. /\ hworker.pc \in Pcs /\ hworker.pend \in Nat /\ hworker.resv \in Nat
      /\ \A x \in waiting : x.at \in Nat /\ x.received \in Nat
  BY <1>0, HandoffTyped
<1>r. AfterResets \subseteq AfterResets'
  BY <1>0, <1>a, <1>f, <1>g, ResetsKept
<1>1. Numbers'
  BY <1>0, <1>a, <1>g DEF Numbers
<1>2. Shapes'
  BY <1>0, <1>a, <1>f, <1>g DEF Shapes
<1>3. RecordStamped'
  BY <1>0, <1>1, <1>a, <1>g DEF Numbers, RecordStamped
<1>4. Stamped'
  <2>1. clock' \in Nat /\ clock' >= clock
    BY <1>0, <1>a DEF Numbers
  <2>2. Flying' \subseteq Flying /\ waiting' = waiting /\ prompts' = prompts
    BY <1>a, <1>f
  <2>3. \A w \in waiting' : w.at \in Nat
    BY <1>t, <2>2
  <2> QED
    BY <1>0, <1>3, <1>f, <2>1, <2>2, <2>3, StampsKept
<1>5. Reserved'
  BY <1>0, <1>1, <1>a, <1>f, <1>g, ReservedKept DEF Numbers
<1>6. Owned'
  BY <1>0, <1>1, <1>a, <1>t DEF Owned, ReservationOwned, Numbers, Reserved, RecordStamped
<1>7. Once'
  BY <1>0, <1>a, <1>t DEF Once, Numbers
<1>8. Cleared'
  <2>1. hworker.pc \in {"confirm", "prompt"} /\ resv' = hworker.resv => resv' = resv
    BY <1>0, <1>a, <1>t DEF Reserved, Numbers, RecordStamped
  <2> QED
    BY <1>0, <1>a, <1>t, <1>r, <2>1, Composers DEF Cleared, Clean, Current, Numbers
<1>9. ASSUME Overtaken \subseteq {"stop"}, Known PROVE Known'
  <2>p. PICK p \in Flying : p = flight[i] /\ p.kind = "prompt" /\ p.at \in Nat /\ p.at >= 1
    BY <1>a, <1>f, <1>g
  <2>q. \A h \in Flying : h.at \in Nat /\ (h.at = p.at => h = p)
    BY <1>0, FlyingTyped
  <2>o. ~OnlyStops
    BY <2>p DEF OnlyStops
  <2>d. Flying' = Flying \ {p} /\ hookEmit \in Nat
    BY <1>0, <1>f, <2>p DEF Numbers
  <2>1. CASE /\ status' = status /\ hookAt' = hookAt /\ hookEmit' = hookEmit /\ resv' = resv
             /\ hookEmit > p.at
    <3>1. \A h \in Flying : hookEmit < h.at => h \in Flying'
      BY <2>1, <2>d, <2>p
    <3>2. \A h \in Flying : /\ StartComing(h) => StartComing(h)' /\ hookEmit < h.at
                            /\ EndComing(h) => EndComing(h)' /\ hookEmit < h.at
      BY <1>a, <2>1, <2>d DEF StartComing, EndComing
    <3>3. StartSeen => StartSeen'
      BY <1>a, <2>1, <2>d DEF StartSeen, Effective
    <3>4. StartKnown'
      BY <1>9, <1>a, <3>1, <3>2, <3>3 DEF Known, StartKnown
    <3>5. EndKnown'
      BY <1>9, <1>a, <3>1, <3>2, <2>o DEF Known, EndKnown
    <3>6. DoneKnown'
      BY <1>9, <1>a, <2>1, <3>1 DEF Known, DoneKnown
    <3> QED
      BY <3>4, <3>5, <3>6 DEF Known
  <2>2. CASE /\ status' = "running" /\ hookEmit' = p.at /\ resv' = 0
             /\ hookEmit = 0 \/ ~(hookEmit > p.at)
    <3>0. hookEmit <= p.at /\ Effective' = "running"
      BY <2>2, <2>d, <2>p DEF Effective
    <3>1. StartSeen => StartSeen'
      BY <1>a, <1>t, <2>2, <2>d, <2>q, <3>0 DEF StartSeen
    <3>2. StartComing(p) => StartSeen'
      BY <1>a, <2>2, <2>d, <2>p, <2>q, <3>0 DEF StartComing, StartSeen
    <3>3. \A h \in Flying : StartComing(h) /\ h # p => h \in Flying' /\ StartComing(h)'
      BY <1>a, <2>2, <2>d, <2>p, <2>q DEF StartComing
    <3>4. StartKnown'
      BY <1>9, <1>a, <3>1, <3>2, <3>3, <2>p DEF Known, StartKnown
    <3>5. \A h \in Flying : EndComing(h) => h \in Flying' /\ EndComing(h)'
      BY <1>a, <2>2, <2>d, <2>p, <2>q DEF EndComing
    <3>6. EndKnown'
      BY <1>9, <1>a, <3>5, <2>o DEF Known, EndKnown
    <3>7. hworker.pc = "done" => resv' # hworker.resv
      BY <1>0, <1>a, <1>t, <2>2 DEF Reserved
    <3>8. DoneKnown'
      BY <1>a, <2>2, <3>7 DEF DoneKnown
    <3> QED
      BY <3>4, <3>6, <3>8 DEF Known
  <2> QED
    BY <1>a, <2>p, <2>1, <2>2
<1> QED
  BY <1>1, <1>2, <1>4, <1>5, <1>6, <1>7, <1>8, <1>9 DEF HandoffInv, HandoffTypes

LEMMA ToolHookKeeps ==
  ASSUME HandoffInv, NEW i \in DOMAIN flight, ToolHook(i)
  PROVE  HandoffInv' /\ (Overtaken \subseteq {"stop"} /\ Known => Known')
<1>0. /\ HandoffTypes /\ Stamped /\ Reserved /\ Owned /\ Once /\ Cleared
      /\ Numbers /\ Shapes /\ RecordStamped
  BY DEF HandoffInv, HandoffTypes, Stamped
<1>a. /\ flight[i].kind = "tool"
      /\ clock' = clock + 1 /\ status' = "running" /\ hookAt' = clock + 1 /\ resv' = 0
      /\ turn' = turn /\ composer' = composer /\ waiting' = waiting /\ hookEmit' = hookEmit
      /\ pend' = pend /\ resetEmit' = resetEmit /\ starting' = starting /\ hworker' = hworker
      /\ cleared' = cleared /\ prompts' = prompts /\ turns' = turns /\ tools' = tools
      /\ handoffCrashes' = handoffCrashes /\ handoffFaults' = handoffFaults
  BY <1>0, Composers, WorkerGoes DEF ToolHook, recordVars, agentVars
<1>f. /\ flight' \in Seq(Hooks) /\ InOrder'
      /\ flight[i] \in Flying /\ Flying' = Flying \ {flight[i]}
      /\ \A h \in Flying : h.at < flight[i].at => h.kind \in Overtaken
  BY <1>0, FlyingShrinks DEF ToolHook
<1>g. flight[i].at \in Nat /\ flight[i].at >= 1 /\ flight[i].at <= clock
  BY <1>0, <1>f, FlyingTyped DEF Stamped
<1>t. /\ hworker.pc \in Pcs /\ hworker.pend \in Nat /\ hworker.resv \in Nat
      /\ \A x \in waiting : x.at \in Nat /\ x.received \in Nat
  BY <1>0, HandoffTyped
<1>r. AfterResets \subseteq AfterResets'
  BY <1>0, <1>a, <1>f, <1>g, ResetsKept
<1>1. Numbers'
  BY <1>0, <1>a, <1>g DEF Numbers
<1>2. Shapes'
  BY <1>0, <1>a, <1>f, <1>g DEF Shapes
<1>3. RecordStamped'
  BY <1>0, <1>1, <1>a, <1>g DEF Numbers, RecordStamped
<1>4. Stamped'
  BY <1>0, <1>1, <1>3, <1>a, <1>f, <1>g, <1>t, StampsKept DEF Numbers
<1>5. Reserved'
  BY <1>0, <1>1, <1>a, <1>f, <1>g, ReservedKept DEF Numbers
<1>6. Owned'
  BY <1>0, <1>1, <1>a, <1>t DEF Owned, ReservationOwned, Numbers, Reserved, RecordStamped
<1>7. Once'
  BY <1>0, <1>a, <1>t DEF Once, Numbers
<1>8. Cleared'
  <2>1. hworker.pc \in {"confirm", "prompt"} /\ resv' = hworker.resv => resv' = resv
    BY <1>0, <1>a, <1>t DEF Reserved, Numbers, RecordStamped
  <2> QED
    BY <1>0, <1>a, <1>t, <1>r, <2>1, Composers DEF Cleared, Clean, Current, Numbers
<1>9. ASSUME Overtaken \subseteq {"stop"}, Known PROVE Known'
  <2>1. \A h \in Flying : h.kind # "tool" =>
          /\ h \in Flying'
          /\ StartComing(h) => StartComing(h)'
          /\ EndComing(h) => EndComing(h)'
    BY <1>a, <1>f DEF StartComing, EndComing
  <2>2. StartSeen => StartSeen'
    BY <1>a, <1>f DEF StartSeen, Effective
  <2>3. ~OnlyStops
    BY <1>a, <1>f DEF OnlyStops
  <2>4. \A h \in Flying : (StartComing(h) => h.kind = "prompt") /\ (EndComing(h) => h.kind = "stop")
    BY DEF StartComing, EndComing
  <2>5. StartKnown'
    BY <1>9, <1>a, <2>1, <2>2, <2>4 DEF Known, StartKnown
  <2>6. EndKnown'
    BY <1>9, <1>a, <2>1, <2>3, <2>4 DEF Known, EndKnown
  <2>7. hworker.pc = "done" => resv' # hworker.resv
    BY <1>0, <1>a, <1>t DEF Reserved
  <2>8. DoneKnown'
    BY <1>a, <2>7 DEF DoneKnown
  <2> QED
    BY <2>5, <2>6, <2>8 DEF Known
<1> QED
  BY <1>1, <1>2, <1>4, <1>5, <1>6, <1>7, <1>8, <1>9 DEF HandoffInv, HandoffTypes

LEMMA StopHookKeeps ==
  ASSUME HandoffInv, NEW i \in DOMAIN flight, StopHook(i)
  PROVE  HandoffInv' /\ (Overtaken \subseteq {"stop"} /\ Known => Known')
<1>0. /\ HandoffTypes /\ Stamped /\ Reserved /\ Owned /\ Once /\ Cleared
      /\ Numbers /\ Shapes /\ RecordStamped
  BY DEF HandoffInv, HandoffTypes, Stamped
<1>a. /\ flight[i].kind = "stop"
      /\ clock' = clock + 1 /\ waiting' = waiting \union {[at |-> flight[i].at, received |-> clock + 1]}
      /\ turn' = turn /\ composer' = composer /\ status' = status /\ hookAt' = hookAt
      /\ hookEmit' = hookEmit /\ pend' = pend /\ resv' = resv /\ resetEmit' = resetEmit
      /\ starting' = starting /\ hworker' = hworker /\ cleared' = cleared
      /\ prompts' = prompts /\ turns' = turns /\ tools' = tools
      /\ handoffCrashes' = handoffCrashes /\ handoffFaults' = handoffFaults
  BY <1>0, Composers, WorkerGoes DEF StopHook, recordVars, agentVars
<1>f. /\ flight' \in Seq(Hooks) /\ InOrder'
      /\ flight[i] \in Flying /\ Flying' = Flying \ {flight[i]}
      /\ \A h \in Flying : h.at < flight[i].at => h.kind \in Overtaken
  BY <1>0, FlyingShrinks DEF StopHook
<1>g. flight[i].at \in Nat /\ flight[i].at >= 1 /\ flight[i].at <= clock
  BY <1>0, <1>f, FlyingTyped DEF Stamped
<1>t. /\ hworker.pc \in Pcs /\ hworker.pend \in Nat /\ hworker.resv \in Nat
      /\ \A x \in waiting : x.at \in Nat /\ x.received \in Nat
  BY <1>0, HandoffTyped
<1>r. AfterResets \subseteq AfterResets'
  BY <1>0, <1>a, <1>f, <1>g, ResetsKept
<1>1. Numbers'
  BY <1>0, <1>a, <1>g DEF Numbers
<1>2. Shapes'
  <2>1. [at |-> flight[i].at, received |-> clock + 1] \in Stops
    BY <1>0, <1>g DEF Stops, Numbers
  <2> QED
    BY <1>0, <1>a, <1>f, <2>1 DEF Shapes
<1>3. RecordStamped'
  BY <1>0, <1>1, <1>a, <1>g DEF Numbers, RecordStamped
<1>4. Stamped'
  BY <1>0, <1>1, <1>3, <1>a, <1>f, <1>g, <1>t, StampsKept DEF Numbers
<1>5. Reserved'
  BY <1>0, <1>1, <1>a, <1>f, <1>g, ReservedKept DEF Numbers
<1>6. Owned'
  BY <1>0, <1>1, <1>a, <1>t DEF Owned, ReservationOwned, Numbers, Reserved, RecordStamped
<1>7. Once'
  BY <1>0, <1>a, <1>t DEF Once, Numbers
<1>8. Cleared'
  BY <1>0, <1>a, <1>t, <1>r, Composers
  DEF Cleared, Clean, Current, Numbers, Shapes, RecordStamped, Reserved
<1>9. ASSUME Overtaken \subseteq {"stop"}, Known PROVE Known'
  <2>p. PICK p \in Flying : p = flight[i] /\ p.kind = "stop" /\ p.at \in Nat /\ p.at >= 1
    BY <1>a, <1>f, <1>g
  <2>q. \A h \in Flying : h.at \in Nat /\ (h.at = p.at => h = p)
    BY <1>0, FlyingTyped
  <2>d. /\ Flying' = Flying \ {p} /\ \A h \in Flying : h.at < p.at => h.kind = "stop"
    BY <1>9, <1>f, <2>p
  <2>x. PICK x : x = [at |-> p.at, received |-> clock + 1]
    OBVIOUS
  <2>w. /\ waiting' = waiting \union {x} /\ x.at = p.at /\ x.received = clock + 1
        /\ hookAt <= clock /\ clock \in Nat /\ hookAt \in Nat
    BY <1>0, <1>a, <2>p, <2>x DEF Numbers, RecordStamped
  <2>e. Effective' = Effective
    BY <1>a DEF Effective
  <2>1. StartSeen => StartSeen'
    BY <1>a, <2>d, <2>e, <2>p, <2>w DEF StartSeen
  <2>2. \A h \in Flying : StartComing(h) => h \in Flying' /\ StartComing(h)'
    BY <1>a, <2>d, <2>p, <2>q, <2>w DEF StartComing
  <2>3. StartKnown'
    BY <1>9, <1>a, <2>1, <2>2 DEF Known, StartKnown
  <2>4. OnlyStops => OnlyStops'
    BY <2>d DEF OnlyStops
  <2>5. \A y \in waiting : y \in waiting' /\ (EndWaits(y) => EndWaits(y)')
    BY <1>a, <2>w DEF EndWaits
  <2>6. \A h \in Flying : EndComing(h) /\ h # p => h \in Flying' /\ EndComing(h)'
    <3> SUFFICES ASSUME NEW h \in Flying, EndComing(h), h # p PROVE h \in Flying' /\ EndComing(h)'
      OBVIOUS
    <3>1. p.at < h.at
      BY <2>p, <2>q DEF EndComing
    <3> QED
      BY <1>a, <2>d, <2>w, <3>1 DEF EndComing
  <2>7. EndComing(p) => OnlyStops' /\ x \in waiting' /\ EndWaits(x)'
    <3> SUFFICES ASSUME EndComing(p) PROVE OnlyStops' /\ x \in waiting' /\ EndWaits(x)'
      OBVIOUS
    <3>1. \A h \in Flying' : h.kind \in {"stop", "reset"}
      BY <2>d, <2>p, <2>q DEF EndComing
    <3>2. hookEmit' <= x.at /\ hookAt' <= x.received
      BY <1>0, <1>a, <2>p, <2>w DEF EndComing, Numbers
    <3> QED
      BY <2>w, <3>1, <3>2 DEF OnlyStops, EndWaits
  <2>8. EndKnown'
    BY <1>9, <1>a, <2>e, <2>4, <2>5, <2>6, <2>7, <2>p DEF Known, EndKnown
  <2>9. DoneKnown'
    BY <1>9, <1>a, <2>d, <2>p DEF Known, DoneKnown
  <2> QED
    BY <2>3, <2>8, <2>9 DEF Known
<1> QED
  BY <1>1, <1>2, <1>4, <1>5, <1>6, <1>7, <1>8, <1>9 DEF HandoffInv, HandoffTypes

LEMMA ResetHookKeeps ==
  ASSUME HandoffInv, NEW i \in DOMAIN flight, ResetHook(i)
  PROVE  HandoffInv' /\ (Overtaken \subseteq {"stop"} /\ Known => Known')
<1>0. /\ HandoffTypes /\ Stamped /\ Reserved /\ Owned /\ Once /\ Cleared
      /\ Numbers /\ Shapes /\ RecordStamped
  BY DEF HandoffInv, HandoffTypes, Stamped
<1>a. /\ flight[i].kind = "reset" /\ resetEmit' = flight[i].at
      /\ clock' = clock /\ turn' = turn /\ composer' = composer /\ waiting' = waiting
      /\ status' = status /\ hookAt' = hookAt /\ hookEmit' = hookEmit /\ pend' = pend
      /\ resv' = resv /\ starting' = starting /\ hworker' = hworker /\ cleared' = cleared
      /\ prompts' = prompts /\ turns' = turns /\ tools' = tools
      /\ handoffCrashes' = handoffCrashes /\ handoffFaults' = handoffFaults
  BY <1>0, Composers, WorkerGoes DEF ResetHook, recordVars, agentVars
<1>f. /\ flight' \in Seq(Hooks) /\ InOrder'
      /\ flight[i] \in Flying /\ Flying' = Flying \ {flight[i]}
      /\ \A h \in Flying : h.at < flight[i].at => h.kind \in Overtaken
  BY <1>0, FlyingShrinks DEF ResetHook
<1>g. flight[i].at \in Nat /\ flight[i].at >= 1 /\ flight[i].at <= clock
  BY <1>0, <1>f, FlyingTyped DEF Stamped
<1>t. /\ hworker.pc \in Pcs /\ hworker.pend \in Nat /\ hworker.resv \in Nat
      /\ \A x \in waiting : x.at \in Nat /\ x.received \in Nat
  BY <1>0, HandoffTyped
<1>r. AfterResets \subseteq AfterResets'
  BY <1>0, <1>a, <1>f, <1>g, ResetsKept
<1>1. Numbers'
  BY <1>0, <1>a, <1>g DEF Numbers
<1>2. Shapes'
  BY <1>0, <1>a, <1>f, <1>g DEF Shapes
<1>3. RecordStamped'
  BY <1>0, <1>1, <1>a, <1>g DEF Numbers, RecordStamped
<1>4. Stamped'
  BY <1>0, <1>1, <1>3, <1>a, <1>f, <1>g, <1>t, StampsKept DEF Numbers
<1>5. Reserved'
  BY <1>0, <1>1, <1>a, <1>f, <1>g, ReservedKept DEF Numbers
<1>6. Owned'
  BY <1>0, <1>1, <1>a, <1>t DEF Owned, ReservationOwned, Numbers, Reserved, RecordStamped
<1>7. Once'
  BY <1>0, <1>a, <1>t DEF Once, Numbers
<1>8. Cleared'
  BY <1>0, <1>a, <1>t, <1>r, Composers
  DEF Cleared, Clean, Current, Numbers, Shapes, RecordStamped, Reserved
<1>9. ASSUME Overtaken \subseteq {"stop"}, Known PROVE Known'
  <2>e. Effective' = Effective
    BY <1>a DEF Effective
  <2>1. \A h \in Flying : h.kind # "reset" =>
          /\ h \in Flying'
          /\ StartComing(h) => StartComing(h)'
          /\ EndComing(h) => EndComing(h)'
    BY <1>a, <1>f DEF StartComing, EndComing
  <2>2. (StartSeen => StartSeen') /\ (OnlyStops => OnlyStops')
    BY <1>a, <1>f, <2>e DEF StartSeen, OnlyStops
  <2>3. \A x \in waiting : x \in waiting' /\ (EndWaits(x) => EndWaits(x)')
    BY <1>a DEF EndWaits
  <2>4. \A h \in Flying : (StartComing(h) => h.kind = "prompt") /\ (EndComing(h) => h.kind = "stop")
    BY DEF StartComing, EndComing
  <2>5. StartKnown'
    BY <1>9, <1>a, <2>1, <2>2, <2>4 DEF Known, StartKnown
  <2>6. EndKnown'
    BY <1>9, <1>a, <2>e, <2>1, <2>2, <2>3, <2>4 DEF Known, EndKnown
  <2>7. DoneKnown'
    BY <1>9, <1>a, <2>1 DEF Known, DoneKnown
  <2> QED
    BY <2>5, <2>6, <2>7 DEF Known
<1> QED
  BY <1>1, <1>2, <1>4, <1>5, <1>6, <1>7, <1>8, <1>9 DEF HandoffInv, HandoffTypes

LEMMA ApplyStopKeeps ==
  ASSUME HandoffInv, NEW w \in waiting, ApplyStop(w)
  PROVE  HandoffInv' /\ (Overtaken \subseteq {"stop"} /\ Known => Known')
<1>0. /\ HandoffTypes /\ Stamped /\ Reserved /\ Owned /\ Once /\ Cleared
      /\ Numbers /\ Shapes /\ RecordStamped
  BY DEF HandoffInv, HandoffTypes, Stamped
<1>a. /\ waiting' = waiting \ {w}
      /\ \/ /\ clock' = clock /\ status' = status /\ hookAt' = hookAt /\ hookEmit' = hookEmit /\ resv' = resv
            /\ starting' = starting /\ (hookEmit > w.at \/ hookAt > w.received)
         \/ /\ clock' = clock + 1 /\ hookAt' = clock + 1 /\ hookEmit' = w.at /\ starting' = starting + 1
            /\ hookEmit = 0 \/ ~(hookEmit > w.at)
            /\ \/ pend = 0 /\ resv' = 0 /\ status' = "idle"
               \/ pend # 0 /\ resv' = clock + 1 /\ status' = "running"
      /\ turn' = turn /\ composer' = composer /\ pend' = pend /\ resetEmit' = resetEmit
      /\ hworker' = hworker /\ cleared' = cleared /\ prompts' = prompts /\ turns' = turns
      /\ tools' = tools /\ handoffCrashes' = handoffCrashes /\ handoffFaults' = handoffFaults
      /\ flight' = flight
  BY <1>0, Composers, WorkerGoes DEF ApplyStop, recordVars, agentVars, Superseded
<1>f. flight' \in Seq(Hooks) /\ InOrder' /\ Flying' = Flying
  BY <1>0, <1>a, FlyingKept
<1>t. /\ hworker.pc \in Pcs /\ hworker.pend \in Nat /\ hworker.resv \in Nat
      /\ \A x \in waiting : x.at \in Nat /\ x.received \in Nat
  BY <1>0, HandoffTyped
<1>r. AfterResets \subseteq AfterResets'
  BY <1>0, <1>a, <1>f, ResetsKept
<1>1. Numbers'
  BY <1>0, <1>a, <1>t DEF Numbers
<1>2. Shapes'
  BY <1>0, <1>a, <1>f DEF Shapes
<1>3. RecordStamped'
  BY <1>0, <1>1, <1>a, <1>t DEF Numbers, Stamped, RecordStamped
<1>4. Stamped'
  BY <1>0, <1>1, <1>3, <1>a, <1>f, <1>t, StampsKept DEF Numbers
<1>5. Reserved'
  BY <1>0, <1>1, <1>a, <1>f, ReservedKept DEF Numbers
<1>6. Owned'
  BY <1>0, <1>1, <1>a, <1>t DEF Owned, ReservationOwned, Numbers, Reserved, RecordStamped
<1>7. Once'
  BY <1>0, <1>a, <1>t DEF Once, Numbers
<1>8. Cleared'
  <2>1. hworker.pc \in {"confirm", "prompt"} /\ resv' = hworker.resv => resv' = resv
    BY <1>0, <1>a, <1>t DEF Reserved, Numbers, RecordStamped
  <2> QED
    BY <1>0, <1>a, <1>t, <1>r, <2>1, Composers DEF Cleared, Clean, Current, Numbers
<1>9. ASSUME Overtaken \subseteq {"stop"}, Known PROVE Known'
  <2>t. w.at \in Nat /\ w.received \in Nat /\ hookEmit \in Nat /\ hookAt \in Nat /\ waiting' = waiting \ {w}
    BY <1>0, <1>a, <1>t DEF Numbers
  <2>1. CASE /\ status' = status /\ hookAt' = hookAt /\ hookEmit' = hookEmit /\ resv' = resv
             /\ hookEmit > w.at \/ hookAt > w.received
    <3>1. /\ StartSeen => StartSeen'
          /\ \A h \in Flying : StartComing(h) => StartComing(h)'
      BY <1>a, <1>f, <2>1, <2>t DEF StartSeen, Effective, StartComing
    <3>2. OnlyStops' = OnlyStops /\ \A h \in Flying : EndComing(h) => EndComing(h)'
      BY <1>a, <1>f, <2>1, <2>t DEF OnlyStops, EndComing
    <3>3. \A x \in waiting : EndWaits(x) => x \in waiting' /\ EndWaits(x)'
      BY <1>t, <2>1, <2>t DEF EndWaits
    <3>4. Effective' = Effective
      BY <2>1 DEF Effective
    <3>5. StartKnown'
      BY <1>9, <1>a, <1>f, <3>1 DEF Known, StartKnown
    <3>6. EndKnown'
      BY <1>9, <1>a, <1>f, <3>2, <3>3, <3>4 DEF Known, EndKnown
    <3>7. DoneKnown'
      BY <1>9, <1>a, <1>f, <2>1 DEF Known, DoneKnown
    <3> QED
      BY <3>5, <3>6, <3>7 DEF Known
  <2>2. CASE /\ hookEmit' = w.at /\ (hookEmit = 0 \/ ~(hookEmit > w.at))
             /\ \/ pend = 0 /\ resv' = 0 /\ status' = "idle"
                \/ pend # 0 /\ resv' = clock + 1 /\ status' = "running"
    <3>1. ~StartSeen
      BY <2>2, <2>t DEF StartSeen
    <3>2. \A h \in Flying : StartComing(h) => StartComing(h)'
      BY <1>a, <1>f, <2>2, <2>t DEF StartComing
    <3>3. Effective' = "idle" /\ OnlyStops' = OnlyStops
      BY <1>0, <1>f, <2>2 DEF Effective, OnlyStops, Numbers
    <3>4. \A h \in Flying : EndComing(h) => EndComing(h)'
      BY <1>a, <1>f, <2>2, <2>t DEF EndComing
    <3>5. StartKnown'
      BY <1>9, <1>a, <1>f, <3>1, <3>2 DEF Known, StartKnown
    <3>6. EndKnown'
      BY <1>9, <1>a, <1>f, <3>3, <3>4 DEF Known, EndKnown
    <3>7. hworker.pc = "done" => pend # 0 /\ resv' # hworker.resv
      BY <1>0, <1>a, <1>t, <2>2 DEF Reserved, Numbers
    <3>8. DoneKnown'
      BY <1>a, <2>2, <3>7 DEF DoneKnown
    <3> QED
      BY <3>5, <3>6, <3>8 DEF Known
  <2> QED
    BY <1>a, <2>1, <2>2
<1> QED
  BY <1>1, <1>2, <1>4, <1>5, <1>6, <1>7, <1>8, <1>9 DEF HandoffInv, HandoffTypes

LEMMA StartPendingKeeps ==
  ASSUME HandoffInv, StartPending
  PROVE  HandoffInv' /\ (Overtaken \subseteq {"stop"} /\ Known => Known')
<1>0. /\ HandoffTypes /\ Stamped /\ Reserved /\ Owned /\ Once /\ Cleared
      /\ Numbers /\ Shapes /\ RecordStamped
  BY DEF HandoffInv, HandoffTypes, Stamped
<1>a. /\ starting > 0 /\ starting' = starting - 1
      /\ \/ clock' = clock /\ resv' = resv /\ status' = status
         \/ pend # 0 /\ resv = 0 /\ status = "idle" /\ clock' = clock + 1 /\ resv' = clock + 1 /\ status' = "running"
      /\ \/ hworker' = hworker /\ (pend = 0 \/ resv' = 0 \/ hworker.pc # "none")
         \/ /\ pend # 0 /\ resv' # 0 /\ hworker.pc = "none"
            /\ hworker' = [pc |-> "read", pend |-> pend, resv |-> resv', reset |-> 0]
      /\ turn' = turn /\ composer' = composer /\ waiting' = waiting /\ hookAt' = hookAt
      /\ hookEmit' = hookEmit /\ pend' = pend /\ resetEmit' = resetEmit /\ cleared' = cleared
      /\ prompts' = prompts /\ turns' = turns /\ tools' = tools
      /\ handoffCrashes' = handoffCrashes /\ handoffFaults' = handoffFaults
      /\ flight' = flight
  BY <1>0, Composers, WorkerGoes DEF StartPending, recordVars, agentVars, Started
<1>f. flight' \in Seq(Hooks) /\ InOrder' /\ Flying' = Flying
  BY <1>0, <1>a, FlyingKept
<1>t. /\ hworker.pc \in Pcs /\ hworker.pend \in Nat /\ hworker.resv \in Nat
      /\ \A x \in waiting : x.at \in Nat /\ x.received \in Nat
  BY <1>0, HandoffTyped
<1>w. \/ hworker' = hworker /\ (pend = 0 \/ resv' = 0 \/ hworker.pc # "none")
      \/ /\ pend # 0 /\ resv' # 0 /\ hworker.pc = "none" /\ hworker' # NoWorker
         /\ hworker'.pc = "read" /\ hworker'.pend = pend /\ hworker'.resv = resv' /\ hworker' \in Workers
  BY <1>0, <1>a, WorkerNone DEF Numbers, Workers, Pcs
<1>r. AfterResets \subseteq AfterResets'
  BY <1>0, <1>a, <1>f, <1>w, ResetsKept
<1>1. Numbers'
  BY <1>0, <1>a DEF Numbers
<1>2. Shapes'
  BY <1>0, <1>a, <1>f, <1>w DEF Shapes
<1>3. RecordStamped'
  BY <1>0, <1>1, <1>a DEF Numbers, RecordStamped
<1>4. Stamped'
  BY <1>0, <1>1, <1>3, <1>a, <1>f, <1>t, StampsKept DEF Numbers
<1>5. Reserved'
  BY <1>0, <1>1, <1>a, <1>t, <1>w, WorkerNone DEF Reserved, Numbers, RecordStamped
<1>6. Owned'
  BY <1>0, <1>1, <1>a, <1>t, <1>w, WorkerNone
  DEF Owned, ReservationOwned, Numbers, Reserved, RecordStamped
<1>7. Once'
  BY <1>0, <1>a, <1>t, <1>w, WorkerNone DEF Once, Numbers
<1>8. Cleared'
  <2>1. hworker.pc \in {"confirm", "prompt"} /\ resv' = hworker.resv => resv' = resv
    BY <1>0, <1>a, <1>t DEF Reserved, Numbers, RecordStamped
  <2>2. hworker'.pc # "read" => hworker' = hworker
    BY <1>w
  <2> QED
    BY <1>0, <1>a, <1>t, <1>r, <2>1, <2>2, Composers DEF Cleared, Clean, Current, Numbers
<1>9. ASSUME Overtaken \subseteq {"stop"}, Known PROVE Known'
  <2>1. Effective' = Effective
    BY <1>0, <1>a DEF Effective, Numbers
  <2>2. StartKnown' /\ EndKnown'
    BY <1>0, <1>a, <1>f, <1>9, <2>1, TurnsKept
  <2>3. hworker.pc = "done" =>
          (resv' = resv /\ status' = status) \/ (resv' # hworker.resv /\ status' # "idle")
    BY <1>0, <1>a, <1>t DEF Reserved, Numbers, RecordStamped
  <2>4. hworker'.pc = "done" =>
          /\ hworker' = hworker
          /\ (resv' = resv /\ status' = status) \/ (resv' # hworker.resv /\ status' # "idle")
    BY <1>a, <1>w, <2>3
  <2>5. DoneKnown'
    BY <1>9, <1>a, <1>f, <2>4 DEF Known, DoneKnown
  <2> QED
    BY <2>2, <2>5 DEF Known
<1> QED
  BY <1>1, <1>2, <1>4, <1>5, <1>6, <1>7, <1>8, <1>9 DEF HandoffInv, HandoffTypes

LEMMA WorkerReadKeeps ==
  ASSUME HandoffInv, WorkerRead
  PROVE  HandoffInv' /\ (Overtaken \subseteq {"stop"} /\ Known => Known')
<1>0. /\ HandoffTypes /\ Stamped /\ Reserved /\ Owned /\ Once /\ Cleared
      /\ Numbers /\ Shapes /\ RecordStamped
  BY DEF HandoffInv, HandoffTypes, Stamped
<1>a. /\ hworker.pc = "read"
      /\ \/ (pend = 0 \/ resv = 0) /\ Goes("leave")
         \/ /\ pend # 0 /\ resv # 0
            /\ hworker' = [pc |-> "ready", pend |-> pend, resv |-> resv, reset |-> resetEmit]
      /\ clock' = clock /\ turn' = turn /\ composer' = composer /\ waiting' = waiting
      /\ status' = status /\ hookAt' = hookAt /\ hookEmit' = hookEmit /\ pend' = pend
      /\ resv' = resv /\ resetEmit' = resetEmit /\ starting' = starting /\ cleared' = cleared
      /\ prompts' = prompts /\ turns' = turns /\ tools' = tools
      /\ handoffCrashes' = handoffCrashes /\ handoffFaults' = handoffFaults
      /\ flight' = flight
  BY <1>0, Composers, WorkerGoes DEF WorkerRead, recordVars, agentVars
<1>f. flight' \in Seq(Hooks) /\ InOrder' /\ Flying' = Flying
  BY <1>0, <1>a, FlyingKept
<1>t. /\ hworker.pc \in Pcs /\ hworker.pend \in Nat /\ hworker.resv \in Nat
      /\ \A x \in waiting : x.at \in Nat /\ x.received \in Nat
  BY <1>0, HandoffTyped
<1>w. /\ hworker' \in Workers /\ hworker' # NoWorker
      /\ \/ /\ hworker'.pc = "leave" /\ hworker'.pend = hworker.pend /\ hworker'.resv = hworker.resv
            /\ pend = 0 \/ resv = 0
         \/ pend # 0 /\ resv # 0 /\ hworker'.pc = "ready" /\ hworker'.pend = pend /\ hworker'.resv = resv
  <2>1. CASE Goes("leave") /\ (pend = 0 \/ resv = 0)
    BY <1>0, <2>1, WorkerGoes DEF Pcs
  <2>2. CASE /\ pend # 0 /\ resv # 0
             /\ hworker' = [pc |-> "ready", pend |-> pend, resv |-> resv, reset |-> resetEmit]
    BY <1>0, <2>2, WorkerNone DEF Numbers, Workers, Pcs
  <2> QED
    BY <1>a, <2>1, <2>2
<1>r. AfterResets \subseteq AfterResets'
  BY <1>0, <1>a, <1>f, <1>w, ResetsKept
<1>1. Numbers'
  BY <1>0, <1>a DEF Numbers
<1>2. Shapes'
  BY <1>0, <1>a, <1>f, <1>w DEF Shapes
<1>3. RecordStamped'
  BY <1>0, <1>1, <1>a DEF Numbers, RecordStamped
<1>4. Stamped'
  BY <1>0, <1>1, <1>3, <1>a, <1>f, <1>t, StampsKept DEF Numbers
<1>5. Reserved'
  BY <1>0, <1>1, <1>a, <1>t, <1>w, WorkerNone DEF Reserved, Numbers, RecordStamped
<1>6. Owned'
  BY <1>0, <1>1, <1>a, <1>t, <1>w, WorkerNone
  DEF Owned, ReservationOwned, Numbers, Reserved, RecordStamped
<1>7. Once'
  BY <1>0, <1>a, <1>t, <1>w, WorkerNone DEF Once, Numbers
<1>8. Cleared'
  BY <1>0, <1>a, <1>t, <1>r, <1>w, WorkerNone, Composers
  DEF Cleared, Clean, Current, Numbers, Shapes, RecordStamped, Reserved
<1>9. ASSUME Overtaken \subseteq {"stop"}, Known PROVE Known'
  <2>1. Effective' = Effective
    BY <1>0, <1>a DEF Effective
  <2>2. StartKnown' /\ EndKnown'
    BY <1>0, <1>a, <1>f, <1>9, <2>1, TurnsKept
  <2>3. DoneKnown'
    BY <1>w DEF DoneKnown
  <2> QED
    BY <2>2, <2>3 DEF Known
<1> QED
  BY <1>1, <1>2, <1>4, <1>5, <1>6, <1>7, <1>8, <1>9 DEF HandoffInv, HandoffTypes

LEMMA WorkerReadyKeeps ==
  ASSUME HandoffInv, WorkerReady
  PROVE  HandoffInv' /\ (Overtaken \subseteq {"stop"} /\ Known => Known')
<1>0. /\ HandoffTypes /\ Stamped /\ Reserved /\ Owned /\ Once /\ Cleared
      /\ Numbers /\ Shapes /\ RecordStamped
  BY DEF HandoffInv, HandoffTypes, Stamped
<1>a. /\ hworker.pc = "ready" /\ (handoffFaults' = handoffFaults \/ handoffFaults' = handoffFaults + 1)
      /\ \/ ~Current /\ Goes("released")
         \/ composer = Empty /\ Goes("clear")
         \/ Goes("notready")
      /\ clock' = clock /\ turn' = turn /\ composer' = composer /\ waiting' = waiting
      /\ status' = status /\ hookAt' = hookAt /\ hookEmit' = hookEmit /\ pend' = pend
      /\ resv' = resv /\ resetEmit' = resetEmit /\ starting' = starting /\ cleared' = cleared
      /\ prompts' = prompts /\ turns' = turns /\ tools' = tools
      /\ handoffCrashes' = handoffCrashes /\ flight' = flight
  BY <1>0, Composers, WorkerGoes DEF WorkerReady, recordVars, agentVars, HandoffFault
<1>f. flight' \in Seq(Hooks) /\ InOrder' /\ Flying' = Flying
  BY <1>0, <1>a, FlyingKept
<1>t. /\ hworker.pc \in Pcs /\ hworker.pend \in Nat /\ hworker.resv \in Nat
      /\ \A x \in waiting : x.at \in Nat /\ x.received \in Nat
  BY <1>0, HandoffTyped
<1>w. /\ hworker'.pend = hworker.pend /\ hworker'.resv = hworker.resv /\ hworker' \in Workers /\ hworker' # NoWorker
      /\ \/ ~Current /\ hworker'.pc = "released"
         \/ composer = Empty /\ hworker'.pc = "clear"
         \/ hworker'.pc = "notready"
  BY <1>0, <1>a, WorkerGoes DEF Pcs
<1>r. AfterResets \subseteq AfterResets'
  BY <1>0, <1>a, <1>f, <1>w, ResetsKept
<1>1. Numbers'
  BY <1>0, <1>a DEF Numbers
<1>2. Shapes'
  BY <1>0, <1>a, <1>f, <1>w DEF Shapes
<1>3. RecordStamped'
  BY <1>0, <1>1, <1>a DEF Numbers, RecordStamped
<1>4. Stamped'
  BY <1>0, <1>1, <1>3, <1>a, <1>f, <1>t, StampsKept DEF Numbers
<1>5. Reserved'
  BY <1>0, <1>1, <1>a, <1>t, <1>w, WorkerNone DEF Reserved, Numbers, RecordStamped
<1>6. Owned'
  BY <1>0, <1>1, <1>a, <1>t, <1>w, WorkerNone
  DEF Owned, ReservationOwned, Numbers, Reserved, Current
<1>7. Once'
  BY <1>0, <1>a, <1>t, <1>w, WorkerNone DEF Once, Numbers
<1>8. Cleared'
  BY <1>0, <1>a, <1>t, <1>r, <1>w, WorkerNone, Composers
  DEF Cleared, Clean, Current, Numbers, Shapes, RecordStamped, Reserved
<1>9. ASSUME Overtaken \subseteq {"stop"}, Known PROVE Known'
  <2>1. Effective' = Effective
    BY <1>0, <1>a DEF Effective
  <2>2. StartKnown' /\ EndKnown'
    BY <1>0, <1>a, <1>f, <1>9, <2>1, TurnsKept
  <2>3. DoneKnown'
    BY <1>w DEF DoneKnown
  <2> QED
    BY <2>2, <2>3 DEF Known
<1> QED
  BY <1>1, <1>2, <1>4, <1>5, <1>6, <1>7, <1>8, <1>9 DEF HandoffInv, HandoffTypes

LEMMA WorkerClearKeeps ==
  ASSUME HandoffInv, WorkerClear
  PROVE  HandoffInv' /\ (Overtaken \subseteq {"stop"} /\ Known => Known')
<1>0. /\ HandoffTypes /\ Stamped /\ Reserved /\ Owned /\ Once /\ Cleared
      /\ Numbers /\ Shapes /\ RecordStamped
  BY DEF HandoffInv, HandoffTypes, Stamped
<1>a. /\ hworker.pc = "clear"
      /\ \/ Current /\ composer' = Append(composer, "clear") /\ cleared' = cleared + 1 /\ Goes("confirm")
         \/ ~Current /\ composer' = composer /\ cleared' = cleared /\ Goes("released")
      /\ clock' = clock /\ turn' = turn /\ waiting' = waiting /\ status' = status
      /\ hookAt' = hookAt /\ hookEmit' = hookEmit /\ pend' = pend /\ resv' = resv
      /\ resetEmit' = resetEmit /\ starting' = starting /\ prompts' = prompts
      /\ turns' = turns /\ tools' = tools /\ handoffCrashes' = handoffCrashes
      /\ handoffFaults' = handoffFaults /\ flight' = flight
  BY <1>0, Composers, WorkerGoes DEF WorkerClear, recordVars, agentVars
<1>f. flight' \in Seq(Hooks) /\ InOrder' /\ Flying' = Flying
  BY <1>0, <1>a, FlyingKept
<1>t. /\ hworker.pc \in Pcs /\ hworker.pend \in Nat /\ hworker.resv \in Nat
      /\ \A x \in waiting : x.at \in Nat /\ x.received \in Nat
  BY <1>0, HandoffTyped
<1>w. /\ hworker'.pend = hworker.pend /\ hworker'.resv = hworker.resv /\ hworker' \in Workers /\ hworker' # NoWorker
      /\ \/ Current /\ composer' = ClearTyped /\ cleared' = cleared + 1 /\ hworker'.pc = "confirm"
         \/ ~Current /\ composer' = composer /\ cleared' = cleared /\ hworker'.pc = "released"
  BY <1>0, <1>a, WorkerGoes, Composers DEF Pcs, Cleared
<1>r. AfterResets \subseteq AfterResets'
  BY <1>0, <1>a, <1>f, <1>w, ResetsKept
<1>1. Numbers'
  BY <1>0, <1>a DEF Numbers
<1>2. Shapes'
  BY <1>0, <1>a, <1>f, <1>w DEF Shapes
<1>3. RecordStamped'
  BY <1>0, <1>1, <1>a DEF Numbers, RecordStamped
<1>4. Stamped'
  BY <1>0, <1>1, <1>3, <1>a, <1>f, <1>t, StampsKept DEF Numbers
<1>5. Reserved'
  BY <1>0, <1>1, <1>a, <1>t, <1>w, WorkerNone DEF Reserved, Numbers, RecordStamped
<1>6. Owned'
  BY <1>0, <1>1, <1>a, <1>t, <1>w, WorkerNone
  DEF Owned, ReservationOwned, Numbers, Reserved, Current
<1>7. Once'
  BY <1>0, <1>a, <1>t, <1>w, WorkerNone DEF Once, Numbers
<1>8. Cleared'
  <2>1. pend # 0
    BY <1>0, <1>a DEF Reserved
  <2>2. CASE Current
    <3>1. resv # 0 /\ pend < resv
      BY <1>0, <1>a, <1>t, <2>2 DEF Reserved, Current
    <3>2. cleared = 0 => Clean /\ pend \in AfterResets
      BY <1>0, <2>1 DEF Cleared
    <3>3. cleared = 0 => resv + 1 \in AfterResets
      BY <1>0, <3>1, <3>2, AfterResetsUp DEF Numbers
    <3> QED
      BY <1>0, <1>a, <1>w, <1>r, <2>2, <3>2, <3>3, Composers DEF Cleared, Clean, Current, Numbers
  <2>3. CASE ~Current
    BY <1>0, <1>a, <1>w, <1>r, <2>3, Composers DEF Cleared, Clean, Current, Numbers
  <2> QED
    BY <2>2, <2>3
<1>9. ASSUME Overtaken \subseteq {"stop"}, Known PROVE Known'
  <2>1. Effective' = Effective
    BY <1>0, <1>a DEF Effective
  <2>2. composer' # PromptTyped => composer # PromptTyped
    BY <1>0, <1>a, <1>w, Composers DEF Cleared
  <2>3. StartKnown' /\ EndKnown'
    BY <1>0, <1>a, <1>f, <1>9, <2>1, <2>2, TurnsKept
  <2>4. DoneKnown'
    BY <1>w DEF DoneKnown
  <2> QED
    BY <2>3, <2>4 DEF Known
<1> QED
  BY <1>1, <1>2, <1>4, <1>5, <1>6, <1>7, <1>8, <1>9 DEF HandoffInv, HandoffTypes

LEMMA WorkerConfirmKeeps ==
  ASSUME HandoffInv, WorkerConfirm
  PROVE  HandoffInv' /\ (Overtaken \subseteq {"stop"} /\ Known => Known')
<1>0. /\ HandoffTypes /\ Stamped /\ Reserved /\ Owned /\ Once /\ Cleared
      /\ Numbers /\ Shapes /\ RecordStamped
  BY DEF HandoffInv, HandoffTypes, Stamped
<1>a. /\ hworker.pc = "confirm" /\ (handoffFaults' = handoffFaults \/ handoffFaults' = handoffFaults + 1)
      /\ \/ ClearObserved /\ composer = Empty /\ Goes("prompt")
         \/ Goes("failed")
      /\ clock' = clock /\ turn' = turn /\ composer' = composer /\ waiting' = waiting
      /\ status' = status /\ hookAt' = hookAt /\ hookEmit' = hookEmit /\ pend' = pend
      /\ resv' = resv /\ resetEmit' = resetEmit /\ starting' = starting /\ cleared' = cleared
      /\ prompts' = prompts /\ turns' = turns /\ tools' = tools
      /\ handoffCrashes' = handoffCrashes /\ flight' = flight
  BY <1>0, Composers, WorkerGoes DEF WorkerConfirm, recordVars, agentVars, HandoffFault
<1>f. flight' \in Seq(Hooks) /\ InOrder' /\ Flying' = Flying
  BY <1>0, <1>a, FlyingKept
<1>t. /\ hworker.pc \in Pcs /\ hworker.pend \in Nat /\ hworker.resv \in Nat
      /\ \A x \in waiting : x.at \in Nat /\ x.received \in Nat
  BY <1>0, HandoffTyped
<1>w. /\ hworker'.pend = hworker.pend /\ hworker'.resv = hworker.resv /\ hworker' \in Workers /\ hworker' # NoWorker
      /\ \/ ClearObserved /\ composer = Empty /\ hworker'.pc = "prompt"
         \/ hworker'.pc = "failed"
  BY <1>0, <1>a, WorkerGoes DEF Pcs
<1>r. AfterResets \subseteq AfterResets'
  BY <1>0, <1>a, <1>f, <1>w, ResetsKept
<1>1. Numbers'
  BY <1>0, <1>a DEF Numbers
<1>2. Shapes'
  BY <1>0, <1>a, <1>f, <1>w DEF Shapes
<1>3. RecordStamped'
  BY <1>0, <1>1, <1>a DEF Numbers, RecordStamped
<1>4. Stamped'
  BY <1>0, <1>1, <1>3, <1>a, <1>f, <1>t, StampsKept DEF Numbers
<1>5. Reserved'
  BY <1>0, <1>1, <1>a, <1>t, <1>w, WorkerNone DEF Reserved, Numbers, RecordStamped
<1>6. Owned'
  BY <1>0, <1>1, <1>a, <1>t, <1>w, WorkerNone
  DEF Owned, ReservationOwned, Numbers, Reserved, RecordStamped
<1>7. Once'
  BY <1>0, <1>a, <1>t, <1>w, WorkerNone DEF Once, Numbers
<1>8. Cleared'
  <2>1. ClearObserved => Current /\ resv + 1 \notin AfterResets
    BY <1>0, <1>t DEF ClearObserved, Current, AfterResets, Numbers
  <2> QED
    BY <1>0, <1>a, <1>w, <1>r, <2>1, Composers DEF Cleared, Clean, Current, Numbers
<1>9. ASSUME Overtaken \subseteq {"stop"}, Known PROVE Known'
  <2>1. Effective' = Effective
    BY <1>0, <1>a DEF Effective
  <2>2. StartKnown' /\ EndKnown'
    BY <1>0, <1>a, <1>f, <1>9, <2>1, TurnsKept
  <2>3. DoneKnown'
    BY <1>w DEF DoneKnown
  <2> QED
    BY <2>2, <2>3 DEF Known
<1> QED
  BY <1>1, <1>2, <1>4, <1>5, <1>6, <1>7, <1>8, <1>9 DEF HandoffInv, HandoffTypes

LEMMA WorkerPromptKeeps ==
  ASSUME HandoffInv, WorkerPrompt
  PROVE  HandoffInv' /\ (Overtaken \subseteq {"stop"} /\ Known => Known')
<1>0. /\ HandoffTypes /\ Stamped /\ Reserved /\ Owned /\ Once /\ Cleared
      /\ Numbers /\ Shapes /\ RecordStamped
  BY DEF HandoffInv, HandoffTypes, Stamped
<1>a. /\ hworker.pc = "prompt"
      /\ \/ /\ Current /\ composer' = Append(composer, "prompt") /\ Goes("done")
            /\ prompts' = [prompts EXCEPT ![hworker.pend] = @ + 1]
         \/ ~Current /\ composer' = composer /\ prompts' = prompts /\ Goes("leave")
      /\ clock' = clock /\ turn' = turn /\ waiting' = waiting /\ status' = status
      /\ hookAt' = hookAt /\ hookEmit' = hookEmit /\ pend' = pend /\ resv' = resv
      /\ resetEmit' = resetEmit /\ starting' = starting /\ cleared' = cleared
      /\ turns' = turns /\ tools' = tools /\ handoffCrashes' = handoffCrashes
      /\ handoffFaults' = handoffFaults /\ flight' = flight
  BY <1>0, Composers, WorkerGoes DEF WorkerPrompt, recordVars, agentVars
<1>f. flight' \in Seq(Hooks) /\ InOrder' /\ Flying' = Flying
  BY <1>0, <1>a, FlyingKept
<1>t. /\ hworker.pc \in Pcs /\ hworker.pend \in Nat /\ hworker.resv \in Nat
      /\ \A x \in waiting : x.at \in Nat /\ x.received \in Nat
  BY <1>0, HandoffTyped
<1>w. /\ hworker'.pend = hworker.pend /\ hworker'.resv = hworker.resv /\ hworker' \in Workers /\ hworker' # NoWorker
      /\ \/ /\ Current /\ composer' = PromptTyped /\ hworker'.pc = "done"
            /\ prompts' = [prompts EXCEPT ![hworker.pend] = @ + 1]
         \/ ~Current /\ composer' = composer /\ prompts' = prompts /\ hworker'.pc = "leave"
  BY <1>0, <1>a, WorkerGoes, Composers DEF Pcs, Cleared
<1>r. AfterResets \subseteq AfterResets'
  BY <1>0, <1>a, <1>f, <1>w, ResetsKept
<1>1. Numbers'
  BY <1>0, <1>a DEF Numbers
<1>2. Shapes'
  BY <1>0, <1>a, <1>f, <1>w DEF Shapes
<1>3. RecordStamped'
  BY <1>0, <1>1, <1>a DEF Numbers, RecordStamped
<1>4. Stamped'
  BY <1>0, <1>1, <1>3, <1>a, <1>f, <1>t, StampsKept DEF Numbers
<1>5. Reserved'
  BY <1>0, <1>1, <1>a, <1>t, <1>w, WorkerNone DEF Reserved, Numbers, RecordStamped
<1>6. Owned'
  BY <1>0, <1>1, <1>a, <1>t, <1>w, WorkerNone
  DEF Owned, ReservationOwned, Numbers, Reserved, RecordStamped
<1>7. Once'
  <2> SUFFICES ASSUME NEW h \in DOMAIN prompts'
               PROVE  /\ prompts'[h] <= 1 + handoffCrashes
                      /\ h = pend /\ ~(hworker'.pc = "done" /\ hworker'.pend = h) => prompts'[h] <= handoffCrashes
    BY <1>a DEF Once
  <2>1. DOMAIN prompts' = DOMAIN prompts
    BY <1>a
  <2>2. prompts[h] \in Nat
    BY <1>0, <2>1 DEF Shapes
  <2>3. CASE Current
    <3>1. prompts'[h] = IF h = hworker.pend THEN prompts[h] + 1 ELSE prompts[h]
      BY <1>w, <2>1, <2>3
    <3> QED
      BY <1>0, <1>a, <1>w, <2>1, <2>2, <2>3, <3>1 DEF Once, Current, Numbers
  <2>4. CASE ~Current
    BY <1>0, <1>a, <1>w, <2>1, <2>4 DEF Once
  <2> QED
    BY <2>3, <2>4
<1>8. Cleared'
  BY <1>0, <1>a, <1>t, <1>r, <1>w, WorkerNone, Composers
  DEF Cleared, Clean, Current, Numbers, Shapes, RecordStamped, Reserved
<1>9. ASSUME Overtaken \subseteq {"stop"}, Known PROVE Known'
  <2>1. CASE composer' = PromptTyped
    <3>1. StartKnown'
      <4>1. /\ StartSeen => StartSeen'
            /\ \A h \in Flying : StartComing(h) => StartComing(h)'
        BY <1>a, <1>f DEF StartSeen, Effective, StartComing
      <4> QED
        BY <1>9, <1>a, <1>f, <4>1 DEF Known, StartKnown
    <3>2. EndKnown'
      BY <2>1 DEF EndKnown
    <3>3. DoneKnown'
      BY <2>1 DEF DoneKnown
    <3> QED
      BY <3>1, <3>2, <3>3 DEF Known
  <2>2. CASE composer' = composer /\ hworker'.pc = "leave"
    <3>1. Effective' = Effective
      BY <1>a DEF Effective
    <3>2. StartKnown' /\ EndKnown'
      BY <1>a, <1>f, <1>9, <2>2, <3>1, TurnsKept
    <3>3. DoneKnown'
      BY <2>2 DEF DoneKnown
    <3> QED
      BY <3>2, <3>3 DEF Known
  <2> QED
    BY <1>w, <2>1, <2>2
<1> QED
  BY <1>1, <1>2, <1>4, <1>5, <1>6, <1>7, <1>8, <1>9 DEF HandoffInv, HandoffTypes

LEMMA FinishDoneKeeps ==
  ASSUME HandoffInv, WorkerFinish, hworker.pc = "done"
  PROVE  HandoffInv' /\ (Overtaken \subseteq {"stop"} /\ Known => Known')
<1>0. /\ HandoffTypes /\ Stamped /\ Reserved /\ Owned /\ Once /\ Cleared
      /\ Numbers /\ Shapes /\ RecordStamped
  BY DEF HandoffInv, HandoffTypes, Stamped
<1>a. /\ Goes("leave") /\ cleared' = 0
      /\ status' = IF pend = hworker.pend /\ resv # 0 /\ resv # hworker.resv THEN "idle" ELSE "running"
      /\ \/ pend = hworker.pend /\ pend' = 0 /\ resv' = 0
         \/ pend # hworker.pend /\ pend' = pend /\ resv' = IF resv = hworker.resv THEN 0 ELSE resv
      /\ clock' = clock /\ turn' = turn /\ composer' = composer /\ waiting' = waiting
      /\ hookAt' = hookAt /\ hookEmit' = hookEmit /\ resetEmit' = resetEmit
      /\ starting' = starting /\ prompts' = prompts /\ turns' = turns /\ tools' = tools
      /\ handoffCrashes' = handoffCrashes /\ handoffFaults' = handoffFaults
      /\ flight' = flight
  BY <1>0, Composers, WorkerGoes DEF WorkerFinish, recordVars, agentVars, Consume
<1>f. flight' \in Seq(Hooks) /\ InOrder' /\ Flying' = Flying
  BY <1>0, <1>a, FlyingKept
<1>t. /\ hworker.pc \in Pcs /\ hworker.pend \in Nat /\ hworker.resv \in Nat
      /\ \A x \in waiting : x.at \in Nat /\ x.received \in Nat
  BY <1>0, HandoffTyped
<1>w. hworker'.pc = "leave" /\ hworker'.pend = hworker.pend /\ hworker'.resv = hworker.resv
      /\ hworker' \in Workers /\ hworker' # NoWorker
  BY <1>0, <1>a, WorkerGoes DEF Pcs
<1>r. AfterResets \subseteq AfterResets'
  BY <1>0, <1>a, <1>f, <1>w, ResetsKept
<1>1. Numbers'
  BY <1>0, <1>a DEF Numbers
<1>2. Shapes'
  BY <1>0, <1>a, <1>f, <1>w DEF Shapes
<1>3. RecordStamped'
  BY <1>0, <1>1, <1>a DEF Numbers, RecordStamped
<1>4. Stamped'
  BY <1>0, <1>1, <1>3, <1>a, <1>f, <1>t, StampsKept DEF Numbers
<1>5. Reserved'
  BY <1>0, <1>1, <1>a, <1>t, <1>w, WorkerNone DEF Reserved, Numbers, RecordStamped
<1>6. Owned'
  BY <1>0, <1>1, <1>a, <1>t, <1>w, WorkerNone
  DEF Owned, ReservationOwned, Numbers, Reserved, RecordStamped
<1>7. Once'
  <2>1. \A h \in DOMAIN prompts : h # 0
    BY <1>0 DEF Stamped
  <2> QED
    BY <1>0, <1>a, <2>1 DEF Once
<1>8. Cleared'
  BY <1>0, <1>a, <1>t, <1>r, <1>w, WorkerNone, Composers
  DEF Cleared, Clean, Current, Numbers, Shapes, RecordStamped, Reserved
<1>9. ASSUME Overtaken \subseteq {"stop"}, Known PROVE Known'
  <2>1. /\ Effective = "running" => Effective' = "running"
        /\ Effective' # Effective => status = "idle" \/ resv = hworker.resv
    BY <1>0, <1>a DEF Effective, Reserved, Shapes
  <2>2. DoneKnown'
    BY <1>w DEF DoneKnown
  <2>3. StartKnown'
    <3>1. /\ StartSeen => StartSeen'
          /\ \A h \in Flying : StartComing(h) => StartComing(h)'
      BY <1>a, <1>f, <2>1 DEF StartSeen, StartComing
    <3> QED
      BY <1>9, <1>a, <1>f, <3>1 DEF Known, StartKnown
  <2>4. CASE Effective' = Effective
    <3>1. EndKnown'
      BY <1>0, <1>a, <1>f, <1>9, <2>4, TurnsKept
    <3> QED
      BY <2>2, <2>3, <3>1 DEF Known
  <2>5. CASE Effective' # Effective
    <3>1. composer = PromptTyped \/ \E h \in Flying : h.kind = "prompt"
      BY <1>9, <2>1, <2>5 DEF Known, DoneKnown
    <3>2. composer = PromptTyped \/ ~OnlyStops
      BY <3>1 DEF OnlyStops
    <3>3. \A h \in Flying : EndComing(h) => EndComing(h)'
      BY <1>a, <1>f DEF EndComing
    <3>4. EndKnown'
      BY <1>9, <1>a, <1>f, <3>2, <3>3 DEF Known, EndKnown
    <3> QED
      BY <2>2, <2>3, <3>4 DEF Known
  <2> QED
    BY <2>4, <2>5
<1> QED
  BY <1>1, <1>2, <1>4, <1>5, <1>6, <1>7, <1>8, <1>9 DEF HandoffInv, HandoffTypes

LEMMA FinishReleasedKeeps ==
  ASSUME HandoffInv, WorkerFinish, hworker.pc = "released"
  PROVE  HandoffInv' /\ (Overtaken \subseteq {"stop"} /\ Known => Known')
<1>0. /\ HandoffTypes /\ Stamped /\ Reserved /\ Owned /\ Once /\ Cleared
      /\ Numbers /\ Shapes /\ RecordStamped
  BY DEF HandoffInv, HandoffTypes, Stamped
<1>a. /\ Goes("leave") /\ resv' = IF resv = hworker.resv THEN 0 ELSE resv
      /\ clock' = clock /\ turn' = turn /\ composer' = composer /\ waiting' = waiting
      /\ status' = status /\ hookAt' = hookAt /\ hookEmit' = hookEmit /\ pend' = pend
      /\ resetEmit' = resetEmit /\ starting' = starting /\ cleared' = cleared
      /\ prompts' = prompts /\ turns' = turns /\ tools' = tools
      /\ handoffCrashes' = handoffCrashes /\ handoffFaults' = handoffFaults
      /\ flight' = flight
  BY <1>0, Composers, WorkerGoes DEF WorkerFinish, recordVars, agentVars
<1>f. flight' \in Seq(Hooks) /\ InOrder' /\ Flying' = Flying
  BY <1>0, <1>a, FlyingKept
<1>t. /\ hworker.pc \in Pcs /\ hworker.pend \in Nat /\ hworker.resv \in Nat
      /\ \A x \in waiting : x.at \in Nat /\ x.received \in Nat
  BY <1>0, HandoffTyped
<1>w. hworker'.pc = "leave" /\ hworker'.pend = hworker.pend /\ hworker'.resv = hworker.resv
      /\ hworker' \in Workers /\ hworker' # NoWorker
  BY <1>0, <1>a, WorkerGoes DEF Pcs
<1>r. AfterResets \subseteq AfterResets'
  BY <1>0, <1>a, <1>f, <1>w, ResetsKept
<1>1. Numbers'
  BY <1>0, <1>a DEF Numbers
<1>2. Shapes'
  BY <1>0, <1>a, <1>f, <1>w DEF Shapes
<1>3. RecordStamped'
  BY <1>0, <1>1, <1>a DEF Numbers, RecordStamped
<1>4. Stamped'
  BY <1>0, <1>1, <1>3, <1>a, <1>f, <1>t, StampsKept DEF Numbers
<1>5. Reserved'
  BY <1>0, <1>1, <1>a, <1>t, <1>w, WorkerNone DEF Reserved, Numbers, RecordStamped
<1>6. Owned'
  BY <1>0, <1>1, <1>a, <1>t, <1>w, WorkerNone
  DEF Owned, ReservationOwned, Numbers, Reserved, RecordStamped
<1>7. Once'
  BY <1>0, <1>a, <1>t, <1>w, WorkerNone DEF Once, Numbers
<1>8. Cleared'
  BY <1>0, <1>a, <1>t, <1>r, <1>w, WorkerNone, Composers
  DEF Cleared, Clean, Current, Numbers, Shapes, RecordStamped, Reserved
<1>9. ASSUME Overtaken \subseteq {"stop"}, Known PROVE Known'
  <2>1. Effective' = Effective
    BY <1>0, <1>a, <1>t DEF Effective, Owned, Reserved, Current
  <2>2. StartKnown' /\ EndKnown'
    BY <1>0, <1>a, <1>f, <1>9, <2>1, TurnsKept
  <2>3. DoneKnown'
    BY <1>w DEF DoneKnown
  <2> QED
    BY <2>2, <2>3 DEF Known
<1> QED
  BY <1>1, <1>2, <1>4, <1>5, <1>6, <1>7, <1>8, <1>9 DEF HandoffInv, HandoffTypes

LEMMA FinishNotreadyKeeps ==
  ASSUME HandoffInv, WorkerFinish, hworker.pc = "notready"
  PROVE  HandoffInv' /\ (Overtaken \subseteq {"stop"} /\ Known => Known')
<1>0. /\ HandoffTypes /\ Stamped /\ Reserved /\ Owned /\ Once /\ Cleared
      /\ Numbers /\ Shapes /\ RecordStamped
  BY DEF HandoffInv, HandoffTypes, Stamped
<1>a. /\ Goes("leave") /\ resv' = IF Current THEN 0 ELSE resv
      /\ status' = IF Current THEN "idle" ELSE status
      /\ clock' = clock /\ turn' = turn /\ composer' = composer /\ waiting' = waiting
      /\ hookAt' = hookAt /\ hookEmit' = hookEmit /\ pend' = pend /\ resetEmit' = resetEmit
      /\ starting' = starting /\ cleared' = cleared /\ prompts' = prompts /\ turns' = turns
      /\ tools' = tools /\ handoffCrashes' = handoffCrashes /\ handoffFaults' = handoffFaults
      /\ flight' = flight
  BY <1>0, Composers, WorkerGoes DEF WorkerFinish, recordVars, agentVars
<1>f. flight' \in Seq(Hooks) /\ InOrder' /\ Flying' = Flying
  BY <1>0, <1>a, FlyingKept
<1>t. /\ hworker.pc \in Pcs /\ hworker.pend \in Nat /\ hworker.resv \in Nat
      /\ \A x \in waiting : x.at \in Nat /\ x.received \in Nat
  BY <1>0, HandoffTyped
<1>w. hworker'.pc = "leave" /\ hworker'.pend = hworker.pend /\ hworker'.resv = hworker.resv
      /\ hworker' \in Workers /\ hworker' # NoWorker
  BY <1>0, <1>a, WorkerGoes DEF Pcs
<1>r. AfterResets \subseteq AfterResets'
  BY <1>0, <1>a, <1>f, <1>w, ResetsKept
<1>1. Numbers'
  BY <1>0, <1>a DEF Numbers
<1>2. Shapes'
  BY <1>0, <1>a, <1>f, <1>w DEF Shapes
<1>3. RecordStamped'
  BY <1>0, <1>1, <1>a DEF Numbers, RecordStamped
<1>4. Stamped'
  BY <1>0, <1>1, <1>3, <1>a, <1>f, <1>t, StampsKept DEF Numbers
<1>5. Reserved'
  BY <1>0, <1>1, <1>a, <1>t, <1>w, WorkerNone DEF Reserved, Numbers, RecordStamped
<1>6. Owned'
  BY <1>0, <1>1, <1>a, <1>t, <1>w, WorkerNone
  DEF Owned, ReservationOwned, Numbers, Reserved, Current
<1>7. Once'
  BY <1>0, <1>a, <1>t, <1>w, WorkerNone DEF Once, Numbers
<1>8. Cleared'
  BY <1>0, <1>a, <1>t, <1>r, <1>w, WorkerNone, Composers
  DEF Cleared, Clean, Current, Numbers, Shapes, RecordStamped, Reserved
<1>9. ASSUME Overtaken \subseteq {"stop"}, Known PROVE Known'
  <2>1. Effective' = Effective
    BY <1>0, <1>a, <1>t DEF Effective, Owned, Reserved, Current
  <2>2. StartKnown' /\ EndKnown'
    BY <1>0, <1>a, <1>f, <1>9, <2>1, TurnsKept
  <2>3. DoneKnown'
    BY <1>w DEF DoneKnown
  <2> QED
    BY <2>2, <2>3 DEF Known
<1> QED
  BY <1>1, <1>2, <1>4, <1>5, <1>6, <1>7, <1>8, <1>9 DEF HandoffInv, HandoffTypes

LEMMA FinishFailedKeeps ==
  ASSUME HandoffInv, WorkerFinish, hworker.pc = "failed"
  PROVE  HandoffInv' /\ (Overtaken \subseteq {"stop"} /\ Known => Known')
<1>0. /\ HandoffTypes /\ Stamped /\ Reserved /\ Owned /\ Once /\ Cleared
      /\ Numbers /\ Shapes /\ RecordStamped
  BY DEF HandoffInv, HandoffTypes, Stamped
<1>a. /\ Goes("leave")
      /\ status' = IF Current THEN "idle" ELSE status
      /\ clock' = clock /\ turn' = turn /\ composer' = composer /\ waiting' = waiting
      /\ hookAt' = hookAt /\ hookEmit' = hookEmit /\ pend' = pend /\ resv' = resv
      /\ resetEmit' = resetEmit /\ starting' = starting /\ cleared' = cleared
      /\ prompts' = prompts /\ turns' = turns /\ tools' = tools
      /\ handoffCrashes' = handoffCrashes /\ handoffFaults' = handoffFaults
      /\ flight' = flight
  BY <1>0, Composers, WorkerGoes DEF WorkerFinish, recordVars, agentVars
<1>f. flight' \in Seq(Hooks) /\ InOrder' /\ Flying' = Flying
  BY <1>0, <1>a, FlyingKept
<1>t. /\ hworker.pc \in Pcs /\ hworker.pend \in Nat /\ hworker.resv \in Nat
      /\ \A x \in waiting : x.at \in Nat /\ x.received \in Nat
  BY <1>0, HandoffTyped
<1>w. hworker'.pc = "leave" /\ hworker'.pend = hworker.pend /\ hworker'.resv = hworker.resv
      /\ hworker' \in Workers /\ hworker' # NoWorker
  BY <1>0, <1>a, WorkerGoes DEF Pcs
<1>r. AfterResets \subseteq AfterResets'
  BY <1>0, <1>a, <1>f, <1>w, ResetsKept
<1>1. Numbers'
  BY <1>0, <1>a DEF Numbers
<1>2. Shapes'
  BY <1>0, <1>a, <1>f, <1>w DEF Shapes
<1>3. RecordStamped'
  BY <1>0, <1>1, <1>a DEF Numbers, RecordStamped
<1>4. Stamped'
  BY <1>0, <1>1, <1>3, <1>a, <1>f, <1>t, StampsKept DEF Numbers
<1>5. Reserved'
  BY <1>0, <1>1, <1>a, <1>t, <1>w, WorkerNone DEF Reserved, Numbers, RecordStamped
<1>6. Owned'
  BY <1>0, <1>1, <1>a, <1>t, <1>w, WorkerNone
  DEF Owned, ReservationOwned, Numbers, Reserved, RecordStamped
<1>7. Once'
  BY <1>0, <1>a, <1>t, <1>w, WorkerNone DEF Once, Numbers
<1>8. Cleared'
  BY <1>0, <1>a, <1>t, <1>r, <1>w, WorkerNone, Composers
  DEF Cleared, Clean, Current, Numbers, Shapes, RecordStamped, Reserved
<1>9. ASSUME Overtaken \subseteq {"stop"}, Known PROVE Known'
  <2>1. Effective' = Effective
    BY <1>0, <1>a, <1>t DEF Effective, Owned, Reserved, Current
  <2>2. StartKnown' /\ EndKnown'
    BY <1>0, <1>a, <1>f, <1>9, <2>1, TurnsKept
  <2>3. DoneKnown'
    BY <1>w DEF DoneKnown
  <2> QED
    BY <2>2, <2>3 DEF Known
<1> QED
  BY <1>1, <1>2, <1>4, <1>5, <1>6, <1>7, <1>8, <1>9 DEF HandoffInv, HandoffTypes

LEMMA WorkerLeaveKeeps ==
  ASSUME HandoffInv, WorkerLeave
  PROVE  HandoffInv' /\ (Overtaken \subseteq {"stop"} /\ Known => Known')
<1>0. /\ HandoffTypes /\ Stamped /\ Reserved /\ Owned /\ Once /\ Cleared
      /\ Numbers /\ Shapes /\ RecordStamped
  BY DEF HandoffInv, HandoffTypes, Stamped
<1>a. /\ hworker.pc = "leave" /\ Goes("check")
      /\ clock' = clock /\ turn' = turn /\ composer' = composer /\ waiting' = waiting
      /\ status' = status /\ hookAt' = hookAt /\ hookEmit' = hookEmit /\ pend' = pend
      /\ resv' = resv /\ resetEmit' = resetEmit /\ starting' = starting /\ cleared' = cleared
      /\ prompts' = prompts /\ turns' = turns /\ tools' = tools
      /\ handoffCrashes' = handoffCrashes /\ handoffFaults' = handoffFaults
      /\ flight' = flight
  BY <1>0, Composers, WorkerGoes DEF WorkerLeave, recordVars, agentVars
<1>f. flight' \in Seq(Hooks) /\ InOrder' /\ Flying' = Flying
  BY <1>0, <1>a, FlyingKept
<1>t. /\ hworker.pc \in Pcs /\ hworker.pend \in Nat /\ hworker.resv \in Nat
      /\ \A x \in waiting : x.at \in Nat /\ x.received \in Nat
  BY <1>0, HandoffTyped
<1>w. /\ hworker'.pend = hworker.pend /\ hworker'.resv = hworker.resv /\ hworker' \in Workers /\ hworker' # NoWorker
      /\ hworker'.pc = "check"
  BY <1>0, <1>a, WorkerGoes DEF Pcs
<1>r. AfterResets \subseteq AfterResets'
  BY <1>0, <1>a, <1>f, <1>w, ResetsKept
<1>1. Numbers'
  BY <1>0, <1>a DEF Numbers
<1>2. Shapes'
  BY <1>0, <1>a, <1>f, <1>w DEF Shapes
<1>3. RecordStamped'
  BY <1>0, <1>1, <1>a DEF Numbers, RecordStamped
<1>4. Stamped'
  BY <1>0, <1>1, <1>3, <1>a, <1>f, <1>t, StampsKept DEF Numbers
<1>5. Reserved'
  BY <1>0, <1>1, <1>a, <1>t, <1>w, WorkerNone DEF Reserved, Numbers, RecordStamped
<1>6. Owned'
  BY <1>0, <1>1, <1>a, <1>t, <1>w, WorkerNone
  DEF Owned, ReservationOwned, Numbers, Reserved, RecordStamped
<1>7. Once'
  BY <1>0, <1>a, <1>t, <1>w, WorkerNone DEF Once, Numbers
<1>8. Cleared'
  BY <1>0, <1>a, <1>t, <1>r, <1>w, WorkerNone, Composers
  DEF Cleared, Clean, Current, Numbers, Shapes, RecordStamped, Reserved
<1>9. ASSUME Overtaken \subseteq {"stop"}, Known PROVE Known'
  <2>1. Effective' = Effective
    BY <1>0, <1>a DEF Effective
  <2>2. StartKnown' /\ EndKnown'
    BY <1>0, <1>a, <1>f, <1>9, <2>1, TurnsKept
  <2>3. DoneKnown'
    BY <1>w DEF DoneKnown
  <2> QED
    BY <2>2, <2>3 DEF Known
<1> QED
  BY <1>1, <1>2, <1>4, <1>5, <1>6, <1>7, <1>8, <1>9 DEF HandoffInv, HandoffTypes

LEMMA WorkerCheckKeeps ==
  ASSUME HandoffInv, WorkerCheck
  PROVE  HandoffInv' /\ (Overtaken \subseteq {"stop"} /\ Known => Known')
<1>0. /\ HandoffTypes /\ Stamped /\ Reserved /\ Owned /\ Once /\ Cleared
      /\ Numbers /\ Shapes /\ RecordStamped
  BY DEF HandoffInv, HandoffTypes, Stamped
<1>a. /\ hworker.pc = "check" /\ hworker' = NoWorker
      /\ starting' = IF Replaced THEN starting + 1 ELSE starting
      /\ clock' = clock /\ turn' = turn /\ composer' = composer /\ waiting' = waiting
      /\ status' = status /\ hookAt' = hookAt /\ hookEmit' = hookEmit /\ pend' = pend
      /\ resv' = resv /\ resetEmit' = resetEmit /\ cleared' = cleared /\ prompts' = prompts
      /\ turns' = turns /\ tools' = tools /\ handoffCrashes' = handoffCrashes
      /\ handoffFaults' = handoffFaults /\ flight' = flight
  BY <1>0, Composers, WorkerGoes DEF WorkerCheck, recordVars, agentVars
<1>f. flight' \in Seq(Hooks) /\ InOrder' /\ Flying' = Flying
  BY <1>0, <1>a, FlyingKept
<1>t. /\ hworker.pc \in Pcs /\ hworker.pend \in Nat /\ hworker.resv \in Nat
      /\ \A x \in waiting : x.at \in Nat /\ x.received \in Nat
  BY <1>0, HandoffTyped
<1>w. hworker'.pc = "none" /\ hworker' \in Workers
  BY <1>a, WorkerNone
<1>r. AfterResets \subseteq AfterResets'
  BY <1>0, <1>a, <1>f, <1>w, ResetsKept
<1>1. Numbers'
  BY <1>0, <1>a DEF Numbers
<1>2. Shapes'
  BY <1>0, <1>a, <1>f, <1>w DEF Shapes
<1>3. RecordStamped'
  BY <1>0, <1>1, <1>a DEF Numbers, RecordStamped
<1>4. Stamped'
  BY <1>0, <1>1, <1>3, <1>a, <1>f, <1>t, StampsKept DEF Numbers
<1>5. Reserved'
  BY <1>0, <1>1, <1>a, <1>t, <1>w, WorkerNone DEF Reserved, Numbers, RecordStamped
<1>6. Owned'
  <2>1. resv # 0 => pend # 0
    BY <1>0 DEF Reserved, Numbers
  <2>2. resv # 0 /\ resv = hworker.resv => cleared > 0
    BY <1>0, <1>a DEF Owned
  <2>3. resv # 0 /\ resv # hworker.resv => starting' > 0
    BY <1>0, <1>a, <2>1 DEF Replaced, Numbers
  <2> QED
    BY <1>0, <1>a, <1>w, <2>2, <2>3 DEF Owned, ReservationOwned, Numbers
<1>7. Once'
  BY <1>0, <1>a, <1>t, <1>w, WorkerNone DEF Once, Numbers
<1>8. Cleared'
  BY <1>0, <1>a, <1>t, <1>r, <1>w, WorkerNone, Composers
  DEF Cleared, Clean, Current, Numbers, Shapes, RecordStamped, Reserved
<1>9. ASSUME Overtaken \subseteq {"stop"}, Known PROVE Known'
  <2>1. Effective' = Effective
    BY <1>0, <1>a DEF Effective
  <2>2. StartKnown' /\ EndKnown'
    BY <1>0, <1>a, <1>f, <1>9, <2>1, TurnsKept
  <2>3. DoneKnown'
    BY <1>w DEF DoneKnown
  <2> QED
    BY <2>2, <2>3 DEF Known
<1> QED
  BY <1>1, <1>2, <1>4, <1>5, <1>6, <1>7, <1>8, <1>9 DEF HandoffInv, HandoffTypes

LEMMA HandoffCrashKeeps ==
  ASSUME HandoffInv, HandoffCrash
  PROVE  HandoffInv'
<1>0. /\ HandoffTypes /\ Stamped /\ Reserved /\ Owned /\ Once /\ Cleared
      /\ Numbers /\ Shapes /\ RecordStamped
  BY DEF HandoffInv, HandoffTypes, Stamped
<1>a. /\ handoffCrashes' = handoffCrashes + 1 /\ waiting' = {} /\ hworker' = NoWorker
      /\ starting' = IF pend # 0 /\ (resv # 0 \/ status = "idle") THEN 1 ELSE 0
      /\ clock' = clock /\ turn' = turn /\ composer' = composer /\ status' = status
      /\ hookAt' = hookAt /\ hookEmit' = hookEmit /\ pend' = pend /\ resv' = resv
      /\ resetEmit' = resetEmit /\ cleared' = cleared /\ prompts' = prompts /\ turns' = turns
      /\ tools' = tools /\ handoffFaults' = handoffFaults /\ flight' = flight
  BY <1>0, Composers, WorkerGoes DEF HandoffCrash, recordVars, agentVars
<1>f. flight' \in Seq(Hooks) /\ InOrder' /\ Flying' = Flying
  BY <1>0, <1>a, FlyingKept
<1>t. /\ hworker.pc \in Pcs /\ hworker.pend \in Nat /\ hworker.resv \in Nat
      /\ \A x \in waiting : x.at \in Nat /\ x.received \in Nat
  BY <1>0, HandoffTyped
<1>w. hworker'.pc = "none" /\ hworker' \in Workers
  BY <1>a, WorkerNone
<1>r. AfterResets \subseteq AfterResets'
  BY <1>0, <1>a, <1>f, <1>w, ResetsKept
<1>1. Numbers'
  BY <1>0, <1>a DEF Numbers
<1>2. Shapes'
  BY <1>0, <1>a, <1>f, <1>w DEF Shapes
<1>3. RecordStamped'
  BY <1>0, <1>1, <1>a DEF Numbers, RecordStamped
<1>4. Stamped'
  BY <1>0, <1>1, <1>3, <1>a, <1>f, <1>t, StampsKept DEF Numbers
<1>5. Reserved'
  BY <1>0, <1>1, <1>a, <1>t, <1>w, WorkerNone DEF Reserved, Numbers, RecordStamped
<1>6. Owned'
  BY <1>0, <1>1, <1>a, <1>t, <1>w, WorkerNone
  DEF Owned, ReservationOwned, Numbers, Reserved, RecordStamped
<1>7. Once'
  <2>1. \A h \in DOMAIN prompts : prompts[h] \in Nat /\ prompts[h] <= 1 + handoffCrashes
    BY <1>0 DEF Once, Shapes
  <2>2. \A h \in DOMAIN prompts : prompts[h] <= 1 + (handoffCrashes + 1) /\ prompts[h] <= handoffCrashes + 1
    BY <1>0, <2>1 DEF Numbers
  <2> QED
    BY <1>a, <2>2 DEF Once
<1>8. Cleared'
  BY <1>0, <1>a, <1>t, <1>r, <1>w, WorkerNone, Composers
  DEF Cleared, Clean, Current, Numbers, Shapes, RecordStamped, Reserved
<1> QED
  BY <1>1, <1>2, <1>4, <1>5, <1>6, <1>7, <1>8 DEF HandoffInv, HandoffTypes


-----------------------------------------------------------------------------
(* The theorems *)

LEMMA HandoffStarts ==
  ASSUME HandoffInit PROVE HandoffInv /\ Known
<1>1. /\ clock = 0 /\ turn = "idle" /\ composer = Empty /\ flight = <<>> /\ waiting = {}
      /\ status = "idle" /\ hookAt = 0 /\ hookEmit = 0 /\ pend = 0 /\ resv = 0 /\ resetEmit = 0
      /\ starting = 0 /\ hworker = NoWorker /\ cleared = 0 /\ prompts = <<>>
      /\ turns = 0 /\ tools = 0 /\ handoffCrashes = 0 /\ handoffFaults = 0
  BY Composers DEF HandoffInit
<1>2. DOMAIN flight = {} /\ flight \in Seq(Hooks) /\ DOMAIN prompts = {} /\ prompts \in [DOMAIN prompts -> Nat]
  BY <1>1
<1>3. Flying = {} /\ InOrder
  BY <1>2 DEF Flying, InOrder
<1>4. hworker \in Workers /\ hworker.pc = "none" /\ composer # ClearTyped
  BY <1>1, WorkerNone, Composers
<1>5. HandoffTypes
  BY <1>1, <1>2, <1>4 DEF HandoffTypes, Numbers, Shapes
<1>6. Stamped
  BY <1>1, <1>2, <1>3 DEF Stamped, RecordStamped
<1>7. Reserved /\ Owned /\ Once
  BY <1>1, <1>2, <1>4 DEF Reserved, Owned, ReservationOwned, Once
<1>8. Cleared
  BY <1>1, <1>4 DEF Cleared
<1>9. Known
  BY <1>1, <1>3, <1>4 DEF Known, StartKnown, EndKnown, DoneKnown, Effective, OnlyStops
<1> QED
  BY <1>5, <1>6, <1>7, <1>8, <1>9 DEF HandoffInv

LEMMA HandoffStutters ==
  ASSUME HandoffInv, UNCHANGED handoffVars
  PROVE  HandoffInv' /\ (Known => Known')
<1>1. /\ clock' = clock /\ turn' = turn /\ composer' = composer /\ flight' = flight /\ waiting' = waiting
      /\ status' = status /\ hookAt' = hookAt /\ hookEmit' = hookEmit /\ pend' = pend /\ resv' = resv
      /\ resetEmit' = resetEmit /\ starting' = starting /\ hworker' = hworker /\ cleared' = cleared
      /\ prompts' = prompts /\ turns' = turns /\ tools' = tools
      /\ handoffCrashes' = handoffCrashes /\ handoffFaults' = handoffFaults
  BY DEF handoffVars
<1>2. HandoffTypes' /\ Stamped'
  BY <1>1 DEF HandoffInv, HandoffTypes, Numbers, Shapes, Stamped, RecordStamped, InOrder, Flying
<1>3. Reserved' /\ Owned' /\ Once'
  BY <1>1 DEF HandoffInv, Reserved, Owned, ReservationOwned, Once
<1>4. AfterResets' = AfterResets /\ Flying' = Flying
  BY <1>1 DEF AfterResets, Flying
<1>5. Cleared'
  BY <1>1, <1>4 DEF HandoffInv, Cleared, Clean, Current
<1>6. ASSUME Known PROVE Known'
  <2>1. Effective' = Effective
    BY <1>1 DEF Effective
  <2>2. StartKnown' /\ EndKnown'
    BY <1>1, <1>4, <1>6, <2>1, TurnsKept
  <2>3. DoneKnown'
    BY <1>1, <1>4, <1>6 DEF Known, DoneKnown
  <2> QED
    BY <2>2, <2>3 DEF Known
<1> QED
  BY <1>2, <1>3, <1>5, <1>6 DEF HandoffInv

LEMMA HandoffSteps ==
  ASSUME HandoffInv, [HandoffNext]_handoffVars
  PROVE  /\ HandoffInv'
         /\ Overtaken \subseteq {"stop"} /\ (handoffCrashes = 0 => Known) => (handoffCrashes' = 0 => Known')
<1> DEFINE Kept == HandoffInv' /\ (Overtaken \subseteq {"stop"} /\ Known => Known')
<1>0. Kept /\ handoffCrashes' = handoffCrashes =>
        /\ HandoffInv'
        /\ Overtaken \subseteq {"stop"} /\ (handoffCrashes = 0 => Known) => (handoffCrashes' = 0 => Known')
  OBVIOUS
<1>1. ASSUME AgentActs PROVE Kept /\ handoffCrashes' = handoffCrashes
  <2>1. CASE UserPrompt
    BY <2>1, UserPromptKeeps DEF UserPrompt
  <2>2. CASE UseTool
    BY <2>2, UseToolKeeps DEF UseTool
  <2>3. CASE EndTurn
    BY <2>3, EndTurnKeeps DEF EndTurn
  <2>4. CASE TakeUp
    <3>1. composer \in {Empty, ClearTyped, PromptTyped} /\ composer # Empty
      BY <2>4, Composers DEF TakeUp, HandoffInv, HandoffTypes, Shapes
    <3>2. Kept
      BY <2>4, <3>1, TakeUpClearKeeps, TakeUpPromptKeeps
    <3> QED
      BY <2>4, <3>2 DEF TakeUp
  <2>5. CASE FinishClear
    BY <2>5, FinishClearKeeps DEF FinishClear
  <2>6. CASE ScheduleHandoff
    BY <2>6, ScheduleHandoffKeeps DEF ScheduleHandoff
  <2> QED
    BY <1>1, <2>1, <2>2, <2>3, <2>4, <2>5, <2>6 DEF AgentActs
<1>2. ASSUME HookArrives PROVE Kept /\ handoffCrashes' = handoffCrashes
  <2>1. PICK i \in DOMAIN flight : PromptHook(i) \/ ToolHook(i) \/ StopHook(i) \/ ResetHook(i)
    BY <1>2 DEF HookArrives
  <2>2. CASE PromptHook(i)
    BY <2>2, PromptHookKeeps DEF PromptHook
  <2>3. CASE ToolHook(i)
    BY <2>3, ToolHookKeeps DEF ToolHook
  <2>4. CASE StopHook(i)
    BY <2>4, StopHookKeeps DEF StopHook
  <2>5. CASE ResetHook(i)
    BY <2>5, ResetHookKeeps DEF ResetHook
  <2> QED
    BY <2>1, <2>2, <2>3, <2>4, <2>5
<1>3. ASSUME NEW w \in waiting, ApplyStop(w) PROVE Kept /\ handoffCrashes' = handoffCrashes
  BY <1>3, ApplyStopKeeps DEF ApplyStop
<1>4. ASSUME StartPending PROVE Kept /\ handoffCrashes' = handoffCrashes
  BY <1>4, StartPendingKeeps DEF StartPending
<1>5. ASSUME HandoffWorker PROVE Kept /\ handoffCrashes' = handoffCrashes
  <2>1. CASE WorkerRead
    BY <2>1, WorkerReadKeeps DEF WorkerRead
  <2>2. CASE WorkerReady
    BY <2>2, WorkerReadyKeeps DEF WorkerReady
  <2>3. CASE WorkerClear
    BY <2>3, WorkerClearKeeps DEF WorkerClear
  <2>4. CASE WorkerConfirm
    BY <2>4, WorkerConfirmKeeps DEF WorkerConfirm
  <2>5. CASE WorkerPrompt
    BY <2>5, WorkerPromptKeeps DEF WorkerPrompt
  <2>6. CASE WorkerFinish
    <3>1. hworker.pc \in {"done", "released", "notready", "failed"} /\ handoffCrashes' = handoffCrashes
      BY <2>6 DEF WorkerFinish
    <3> QED
      BY <2>6, <3>1, FinishDoneKeeps, FinishReleasedKeeps, FinishNotreadyKeeps, FinishFailedKeeps
  <2>7. CASE WorkerLeave
    BY <2>7, WorkerLeaveKeeps DEF WorkerLeave
  <2>8. CASE WorkerCheck
    BY <2>8, WorkerCheckKeeps DEF WorkerCheck
  <2> QED
    BY <1>5, <2>1, <2>2, <2>3, <2>4, <2>5, <2>6, <2>7, <2>8 DEF HandoffWorker
<1>6. ASSUME HandoffCrash PROVE HandoffInv' /\ handoffCrashes' # 0
  BY <1>6, HandoffCrashKeeps DEF HandoffCrash, HandoffInv, HandoffTypes, Numbers
<1>7. ASSUME UNCHANGED handoffVars PROVE Kept /\ handoffCrashes' = handoffCrashes
  BY <1>7, HandoffStutters DEF handoffVars
<1> HIDE DEF Kept
<1> QED
  BY <1>0, <1>1, <1>2, <1>3, <1>4, <1>5, <1>6, <1>7 DEF HandoffNext

\* The prompt is typed by the worker that holds the current reservation
LEMMA PromptTypedByWorker ==
  ASSUME HandoffInv, [HandoffNext]_handoffVars, hworker.pc = "prompt", hworker'.pc = "done"
  PROVE  Current
<1>1. hworker' # hworker
  OBVIOUS
<1>2. ~AgentActs
  BY <1>1 DEF AgentActs, UserPrompt, UseTool, EndTurn, TakeUp, FinishClear, ScheduleHandoff
<1>3. ~HookArrives
  BY <1>1 DEF HookArrives, PromptHook, ToolHook, StopHook, ResetHook
<1>4. ASSUME NEW w \in waiting PROVE ~ApplyStop(w)
  BY <1>1 DEF ApplyStop
<1>5. ~StartPending
  BY <1>1 DEF StartPending, Started
<1>6. ~HandoffCrash
  BY WorkerNone DEF HandoffCrash
<1>7. HandoffWorker
  BY <1>1, <1>2, <1>3, <1>4, <1>5, <1>6 DEF HandoffNext, handoffVars
<1>8. WorkerPrompt
  BY <1>7 DEF HandoffWorker, WorkerRead, WorkerReady, WorkerClear, WorkerConfirm, WorkerFinish,
              WorkerLeave, WorkerCheck
<1>9. ASSUME ~Current PROVE FALSE
  <2>1. Goes("leave")
    BY <1>8, <1>9 DEF WorkerPrompt
  <2>2. hworker'.pc = "leave"
    BY <2>1, WorkerGoes DEF HandoffInv, Pcs
  <2> QED
    BY <2>2
<1> QED
  BY <1>9

LEMMA HandoffAgrees ==
  ASSUME HandoffInv, handoffCrashes = 0 => Known
  PROVE  StatusAgrees
<1> SUFFICES ASSUME flight = <<>>, waiting = {}, composer = <<>>, resv = 0, handoffCrashes = 0
             PROVE  status = "running" <=> turn = "running"
  BY DEF StatusAgrees
<1>1. Flying = {}
  BY DEF Flying
<1>2. composer # PromptTyped /\ Known
  BY Composers
<1>3. turn = "running" => status = "running"
  BY <1>1, <1>2 DEF Known, StartKnown, StartSeen, Effective
<1>4. turn # "running" => status = "idle"
  BY <1>1, <1>2 DEF Known, EndKnown, Effective
<1> QED
  BY <1>3, <1>4

\* Whatever hooks overtake each other: no handoff is carried out twice but for crashes, and every
\* reservation has somebody who will end it or a clear that was begun (start_pending_claude_handoff,
\* apply_claude_stop_hook, execute_pending_claude_handoff and the ends of the worker).
THEOREM HandoffsOnceAndOwned ==
  HandoffSpec => [](HandoffOnce /\ ReservationOwned)
<1>1. HandoffInit => HandoffInv
  BY HandoffStarts
<1>2. HandoffInv /\ [HandoffNext]_handoffVars => HandoffInv'
  BY HandoffSteps
<1>3. HandoffInv => HandoffOnce /\ ReservationOwned
  BY DEF HandoffInv, Once, HandoffOnce, Owned
<1> QED
  BY <1>1, <1>2, <1>3, PTL DEF HandoffSpec

\* Whatever hooks overtake each other, the prompt of a handoff is typed only after the clear before
\* it has been carried out (current_claude_handoff_clear_was_observed, wait_for_confirmed_claude_clear).
THEOREM PromptsFollowClears ==
  HandoffSpec => PromptAfterClear
<1>1. HandoffInit => HandoffInv
  BY HandoffStarts
<1>2. HandoffInv /\ [HandoffNext]_handoffVars => HandoffInv'
  BY HandoffSteps
<1>3. HandoffInv /\ [HandoffNext]_handoffVars =>
        [hworker.pc = "prompt" /\ hworker'.pc = "done" /\ cleared = 1 => turn # "clearing"]_handoffVars
  <2> SUFFICES ASSUME HandoffInv, [HandoffNext]_handoffVars, hworker.pc = "prompt", hworker'.pc = "done",
                      cleared = 1
               PROVE  turn # "clearing"
    OBVIOUS
  <2>1. Current
    BY PromptTypedByWorker
  <2> QED
    BY <2>1 DEF HandoffInv, Cleared
<1> QED
  BY <1>1, <1>2, <1>3, PTL DEF HandoffSpec, PromptAfterClear

\* When of a seat's hooks only Stop hooks are overtaken (they wait for the transcript), the
\* handoff is safe: besides the above, a seat whose hooks have all been applied is shown in
\* the turn it is in.
THEOREM HandoffsSafe ==
  ASSUME Overtaken \subseteq {"stop"}
  PROVE  HandoffSpec => HandoffIsSafe
<1> DEFINE Inv == HandoffInv /\ (handoffCrashes = 0 => Known)
<1>1. HandoffInit => Inv
  BY HandoffStarts
<1>2. Inv /\ [HandoffNext]_handoffVars => Inv'
  BY HandoffSteps
<1>3. Inv => StatusAgrees /\ HandoffOnce /\ ReservationOwned
  BY HandoffAgrees DEF HandoffInv, Once, HandoffOnce, Owned
<1>4. HandoffSpec => [](StatusAgrees /\ HandoffOnce /\ ReservationOwned)
  BY <1>1, <1>2, <1>3, PTL DEF HandoffSpec
<1> QED
  BY <1>4, PromptsFollowClears DEF HandoffIsSafe

-----------------------------------------------------------------------------
(* SeatSessions: whose a conversation is *)

States == {"none", "launching", "live", "stopped", "removed"}
Transcripts == [owner : SeatOwners, kind : OwnerKinds, start : Nat, last : Nat]
RecordFields == {"state", "born", "died", "id", "search"}
ReconFields == {"pc", "cutoff", "records", "claimed", "batch", "told"}

RecordsOK ==
  /\ DOMAIN record = SeatOwners /\ wall \in Nat
  /\ \A s \in SeatOwners :
       /\ DOMAIN record[s] = RecordFields /\ record[s].state \in States
       /\ record[s].born \in Nat /\ record[s].died \in Nat /\ record[s].born <= wall

\* A transcript lies within the life of the seat that wrote it
FilesOK ==
  /\ files \in Seq(Transcripts) /\ kindOf \in [SeatOwners -> OwnerKinds]
  /\ \A i \in DOMAIN files :
       LET f == files[i]  r == record[files[i].owner] IN
       /\ f.kind = kindOf[f.owner] /\ f.start <= f.last /\ f.start <= wall
       /\ r.state # "none"
       /\ r.state # "removed" => r.born <= f.start
       /\ r.state = "stopped" => f.start <= r.died

\* The snapshot knows the seat of every transcript that started before the cutoff
SnapshotOK ==
  /\ DOMAIN recon = ReconFields
  /\ recon.pc \in {"claims", "scan"} =>
       /\ recon.cutoff \in Nat /\ recon.cutoff <= wall
       /\ \A i \in DOMAIN files :
            LET f == files[i]  r == recon.records[files[i].owner] IN
            f.start <= recon.cutoff /\ NamedSeats(f.owner) =>
              /\ r.state \in {"live", "stopped"} /\ r.born \in Nat /\ r.born <= f.start
              /\ r.state = "live" \/ f.start <= r.died

NamesOwner(s, i) ==
  i \in DOMAIN files /\ (s # "unassigned" /\ NamedSeats(files[i].owner) => s = files[i].owner)

ToldOK ==
  /\ recon.pc = "append" => \A b \in recon.told : NamesOwner(b.s, b.i)
  /\ \A r \in history : NamesOwner(r[1], r[2])

Definite(r) == r = <<r[1], r[2]>> /\ r[1] \in SeatOwners \union {"unassigned"}

RowsOK ==
  /\ \A r \in bound : Definite(r)
  /\ \A r \in bound : r[1] # "unassigned" => <<"unassigned", r[2]>> \notin bound
  /\ \A r \in retrying : r[1] \in SeatOwners
  /\ recon.pc = "append" => \A b \in recon.batch : b.s \in SeatOwners \union {"unassigned"}

BindInv == RecordsOK /\ FilesOK /\ SnapshotOK /\ ToldOK /\ RowsOK

-----------------------------------------------------------------------------
LEMMA RecordFieldsSet ==
  ASSUME NEW r, DOMAIN r = RecordFields, NEW a, NEW b, NEW c
  PROVE  /\ LET q == [r EXCEPT !.state = a, !.id = b, !.search = c] IN
              DOMAIN q = RecordFields /\ q.state = a /\ q.born = r.born /\ q.died = r.died
         /\ LET q == [r EXCEPT !.state = a, !.id = b] IN
              DOMAIN q = RecordFields /\ q.state = a /\ q.born = r.born /\ q.died = r.died
         /\ LET q == [r EXCEPT !.state = a, !.search = b] IN
              DOMAIN q = RecordFields /\ q.state = a /\ q.born = r.born /\ q.died = r.died
         /\ LET q == [r EXCEPT !.state = a, !.died = b] IN
              DOMAIN q = RecordFields /\ q.state = a /\ q.born = r.born /\ q.died = b
         /\ LET q == [r EXCEPT !.search = a, !.id = b] IN
              DOMAIN q = RecordFields /\ q.state = r.state /\ q.born = r.born /\ q.died = r.died
         /\ LET q == [r EXCEPT !.search = a] IN
              DOMAIN q = RecordFields /\ q.state = r.state /\ q.born = r.born /\ q.died = r.died
         /\ LET q == [r EXCEPT !.id = a] IN
              DOMAIN q = RecordFields /\ q.state = r.state /\ q.born = r.born /\ q.died = r.died
BY DEF RecordFields

LEMMA NoRecordFields ==
  /\ DOMAIN NoRecord = RecordFields /\ NoRecord.state = "none" /\ NoRecord.born = 0 /\ NoRecord.died = 0
  /\ LET q == [NoRecord EXCEPT !.state = "removed"] IN
       DOMAIN q = RecordFields /\ q.state = "removed" /\ q.born = 0 /\ q.died = 0
BY DEF NoRecord, RecordFields

LEMMA ReconFieldsSet ==
  ASSUME NEW c, NEW r
  PROVE  /\ DOMAIN NoRecon = ReconFields /\ NoRecon.pc = "done"
         /\ LET q == [NoRecon EXCEPT !.pc = "down"] IN DOMAIN q = ReconFields /\ q.pc = "down"
         /\ LET q == [NoRecon EXCEPT !.pc = "claims", !.cutoff = c, !.records = r] IN
              DOMAIN q = ReconFields /\ q.pc = "claims" /\ q.cutoff = c /\ q.records = r
BY DEF NoRecon, ReconFields

-----------------------------------------------------------------------------
(* The rows *)

LEMMA RowsAppended ==
  ASSUME RowsOK, NEW s \in SeatOwners, NEW i, NEW path, Append1(s, i, path)
  PROVE  /\ \A r \in bound' : Definite(r)
         /\ \A r \in bound' : r[1] # "unassigned" => <<"unassigned", r[2]>> \notin bound'
<1>1. s # "unassigned" /\ bound' = (bound \ {<<"unassigned", i>>}) \union {<<s, i>>}
  BY SeatSessionsAssumption DEF Append1, WithIdentity
<1>2. Definite(<<s, i>>)
  BY DEF Definite
<1>3. \A r \in bound' : Definite(r)
  BY <1>1, <1>2 DEF RowsOK
<1>4. ASSUME NEW r \in bound', r[1] # "unassigned", <<"unassigned", r[2]>> \in bound' PROVE FALSE
  <2>1. <<"unassigned", r[2]>> # <<s, i>>
    BY <1>1
  <2>2. <<"unassigned", r[2]>> \in bound /\ r[2] # i
    BY <1>1, <1>4, <2>1
  <2>3. r \in bound
    BY <1>1, <2>2
  <2> QED
    BY <1>4, <2>2, <2>3 DEF RowsOK
<1> QED
  BY <1>3, <1>4

LEMMA RowsFollowSeat ==
  ASSUME RowsOK, NEW s \in SeatOwners, NEW i, NEW path, AppendSeatSession(s, i, path), recon' = recon
  PROVE  RowsOK'
<1>1. CASE bound' = bound /\ retrying' = retrying
  BY <1>1 DEF RowsOK
<1>2. CASE Append1(s, i, path) /\ retrying' = retrying
  BY <1>2, RowsAppended DEF RowsOK
<1>3. CASE bound' = bound /\ retrying' = retrying \union {<<s, i, path>>}
  BY <1>3 DEF RowsOK
<1> QED
  BY <1>1, <1>2, <1>3 DEF AppendSeatSession

LEMMA RowsBatched ==
  ASSUME RowsOK, NEW batch, \A b \in batch : b.s \in SeatOwners \union {"unassigned"}, AppendBatch(batch)
  PROVE  /\ \A r \in bound' : Definite(r)
         /\ \A r \in bound' : r[1] # "unassigned" => <<"unassigned", r[2]>> \notin bound'
<1> DEFINE Of(i) == {r \in bound : r[2] = i}
           With(b) == WithIdentity(Of(b.i), b.s, b.i)
<1>1. \A r : r \in bound' <=>
        \/ /\ \E b \in batch : r \in With(b)
           /\ \A b \in batch : b.s # "unassigned" => r # <<"unassigned", b.i>>
        \/ r \in bound /\ \A b \in batch : b.i # r[2]
  <2> HIDE DEF With
  <2>1. bound' = ((UNION {With(b) : b \in batch})
                     \ {<<"unassigned", b.i>> : b \in {c \in batch : c.s # "unassigned"}})
                   \union {x \in bound : \A b \in batch : b.i # x[2]}
    BY DEF AppendBatch, With
  <2>2. \A r : r \in UNION {With(b) : b \in batch} <=> \E b \in batch : r \in With(b)
    OBVIOUS
  <2>3. \A r : r \in {<<"unassigned", b.i>> : b \in {c \in batch : c.s # "unassigned"}} <=>
                 \E b \in batch : b.s # "unassigned" /\ r = <<"unassigned", b.i>>
    OBVIOUS
  <2>4. \A r : r \in {x \in bound : \A b \in batch : b.i # x[2]} <=> r \in bound /\ \A b \in batch : b.i # r[2]
    OBVIOUS
  <2>5. PICK A, B, C : /\ A = UNION {With(b) : b \in batch}
                       /\ B = {<<"unassigned", b.i>> : b \in {c \in batch : c.s # "unassigned"}}
                       /\ C = {x \in bound : \A b \in batch : b.i # x[2]}
    OBVIOUS
  <2>6. bound' = (A \ B) \union C
    BY <2>1, <2>5
  <2>7. \A r : r \in bound' <=> (r \in A /\ r \notin B) \/ r \in C
    BY <2>6
  <2>8. /\ \A r : r \in A <=> \E b \in batch : r \in With(b)
        /\ \A r : r \in B <=> \E b \in batch : b.s # "unassigned" /\ r = <<"unassigned", b.i>>
        /\ \A r : r \in C <=> r \in bound /\ \A b \in batch : b.i # r[2]
    BY <2>2, <2>3, <2>4, <2>5
  <2> QED
    BY <2>7, <2>8, Zenon
<1>2. ASSUME NEW b \in batch, NEW r \in With(b) PROVE Definite(r) /\ r[2] = b.i
  <2>1. r \in Of(b.i) \/ r = <<b.s, b.i>>
    BY DEF WithIdentity
  <2> QED
    BY <2>1 DEF RowsOK, Definite
<1>3. \A r \in bound' : Definite(r)
  BY <1>1, <1>2 DEF RowsOK
<1>4. ASSUME NEW r \in bound', r[1] # "unassigned", <<"unassigned", r[2]>> \in bound' PROVE FALSE
  <2>1. PICK u : u = <<"unassigned", r[2]>> /\ u \in bound' /\ u[1] = "unassigned" /\ u[2] = r[2]
    BY <1>4
  <2>2. CASE \A b \in batch : b.i # r[2]
    <3>1. r \in bound /\ u \in bound
      BY <1>1, <1>2, <2>1, <2>2
    <3> QED
      BY <1>4, <2>1, <3>1 DEF RowsOK
  <2>3. CASE \E b \in batch : b.i = r[2]
    <3>1. PICK c \in batch : r \in With(c)
      BY <1>1, <2>3
    <3>2. PICK d \in batch : u \in With(d)
      BY <1>1, <2>1, <2>3
    <3>3. c.i = r[2] /\ d.i = r[2]
      BY <1>2, <2>1, <3>1, <3>2
    <3>4. \A b \in batch : b.i = r[2] => b.s = "unassigned"
      BY <1>1, <2>1, <2>3
    <3>5. c.s = "unassigned" /\ d.s = "unassigned" /\ r # <<"unassigned", c.i>>
      BY <1>4, <3>3, <3>4
    <3>6. r \in bound
      BY <3>1, <3>5 DEF WithIdentity
    <3>7. r = <<r[1], r[2]>> /\ r[1] \in SeatOwners
      BY <1>4, <3>6 DEF RowsOK, Definite
    <3>8. \E t \in SeatOwners : <<t, d.i>> \in Of(d.i)
      BY <3>3, <3>6, <3>7
    <3>9. u \in bound
      BY <3>2, <3>5, <3>8 DEF WithIdentity
    <3> QED
      BY <1>4, <2>1, <3>6, <3>9 DEF RowsOK
  <2> QED
    BY <2>2, <2>3
<1> QED
  BY <1>3, <1>4

-----------------------------------------------------------------------------
(* The lives of the seats *)

LEMMA LivesGoOn ==
  ASSUME RecordsOK, FilesOK, SnapshotOK, ToldOK, RecordsOK', wall' >= wall,
         kindOf' = kindOf, files' = files, recon' = recon, history' = history,
         \A s \in SeatOwners :
           /\ record[s].state = "removed" => record'[s].state = "removed"
           /\ record[s].state # "none" => record'[s].state # "none" /\ record'[s].born = record[s].born
           /\ record'[s].state = "stopped" =>
                (record[s].state = "stopped" /\ record'[s].died = record[s].died) \/ record'[s].died >= wall
           /\ record'[s].state = "removed" => record[s].state = "removed"
  PROVE  FilesOK' /\ SnapshotOK' /\ ToldOK'
<1>0. /\ wall \in Nat /\ wall' \in Nat
      /\ \A s \in SeatOwners : record[s].born \in Nat /\ record'[s].died \in Nat /\ record[s].state \in States
                               /\ record'[s].state \in States
  BY DEF RecordsOK
<1>1. \A i \in DOMAIN files : files[i].owner \in SeatOwners /\ files[i].start \in Nat
  <2>1. \A i \in DOMAIN files : files[i] \in Transcripts
    BY DEF FilesOK
  <2> QED
    BY <2>1 DEF Transcripts
<1>2. \A i \in DOMAIN files : NamedSeats(files[i].owner)' => NamedSeats(files[i].owner)
  BY <1>0, <1>1 DEF FilesOK, NamedSeats, States
<1>3. FilesOK'
  BY <1>0, <1>1 DEF FilesOK
<1>4. SnapshotOK'
  BY <1>0, <1>1, <1>2 DEF SnapshotOK
<1>5. ToldOK'
  BY <1>2 DEF ToldOK, NamesOwner
<1> QED
  BY <1>3, <1>4, <1>5

LEMMA SeatGoesOn ==
  ASSUME RecordsOK, FilesOK, SnapshotOK, ToldOK, wall' \in Nat, wall' >= wall,
         kindOf' = kindOf, files' = files, recon' = recon, history' = history,
         NEW s \in SeatOwners, NEW q, record' = [record EXCEPT ![s] = q],
         DOMAIN q = RecordFields, q.state \in {"launching", "live", "stopped"},
         q.born \in Nat, q.died \in Nat, q.born <= wall', record[s].state # "removed",
         record[s].state # "none" => q.born = record[s].born,
         q.state = "stopped" => (record[s].state = "stopped" /\ q.died = record[s].died) \/ q.died >= wall
  PROVE  RecordsOK' /\ FilesOK' /\ SnapshotOK' /\ ToldOK'
<1>1. DOMAIN record' = SeatOwners /\ record'[s] = q /\ \A t \in SeatOwners : t # s => record'[t] = record[t]
  BY DEF RecordsOK
<1>2. wall \in Nat /\ \A t \in SeatOwners : record[t].born \in Nat /\ record[t].born <= wall
  BY DEF RecordsOK
<1>3. RecordsOK'
  BY <1>1, <1>2 DEF RecordsOK, States
<1>4. \A t \in SeatOwners :
        /\ record[t].state = "removed" => record'[t].state = "removed"
        /\ record[t].state # "none" => record'[t].state # "none" /\ record'[t].born = record[t].born
        /\ record'[t].state = "stopped" =>
             (record[t].state = "stopped" /\ record'[t].died = record[t].died) \/ record'[t].died >= wall
        /\ record'[t].state = "removed" => record[t].state = "removed"
  BY <1>1
<1> QED
  BY <1>3, <1>4, LivesGoOn

LEMMA RowsKept ==
  ASSUME RowsOK, bound' = bound, retrying' = retrying, recon' = recon
  PROVE  RowsOK'
BY DEF RowsOK

LEMMA BeginRecordKeeps ==
  ASSUME BindInv, NEW s \in SeatOwners, BeginRecord(s)
  PROVE  BindInv'
<1>1. PICK q : /\ q = [state |-> "launching", born |-> wall', died |-> wall',
                       id |-> 0, search |-> IF kindOf[s] = "codex" THEN Search ELSE NoSearch]
               /\ record' = [record EXCEPT ![s] = q]
  BY DEF BeginRecord
<1>2. DOMAIN q = RecordFields /\ q.state = "launching" /\ q.born = wall' /\ q.died = wall'
  BY <1>1 DEF RecordFields
<1>3. wall \in Nat /\ wall' = wall + 1 /\ record[s].state = "none"
  BY DEF BeginRecord, BindInv, RecordsOK
<1>4. RecordsOK' /\ FilesOK' /\ SnapshotOK' /\ ToldOK'
  <2>1. /\ RecordsOK /\ FilesOK /\ SnapshotOK /\ ToldOK
        /\ kindOf' = kindOf /\ files' = files /\ recon' = recon /\ history' = history
    BY DEF BindInv, BeginRecord
  <2>2. /\ wall' \in Nat /\ wall' >= wall /\ q.born \in Nat /\ q.died \in Nat /\ q.born <= wall'
        /\ q.state \in {"launching", "live", "stopped"} /\ record[s].state # "removed"
    BY <1>1, <1>2, <1>3
  <2>3. /\ record[s].state # "none" => q.born = record[s].born
        /\ q.state = "stopped" => (record[s].state = "stopped" /\ q.died = record[s].died) \/ q.died >= wall
    BY <1>1, <1>2, <1>3
  <2> QED
    BY <2>1, <2>2, <2>3, <1>1, <1>2, <1>3, SeatGoesOn
<1>5. RowsOK'
  BY RowsKept DEF BeginRecord, BindInv
<1> QED
  BY <1>4, <1>5 DEF BindInv

LEMMA CompleteRecordKeeps ==
  ASSUME BindInv, NEW s \in SeatOwners, CompleteRecord(s)
  PROVE  BindInv'
<1>0. /\ DOMAIN record[s] = RecordFields /\ record[s].born \in Nat /\ record[s].died \in Nat
      /\ record[s].born <= wall /\ wall \in Nat /\ record[s].state = "launching"
      /\ kindOf' = kindOf /\ files' = files /\ recon' = recon /\ history' = history /\ wall' = wall
  BY DEF BindInv, RecordsOK, CompleteRecord
<1>1. PICK i : /\ record' = [record EXCEPT ![s].state = "live", ![s].id = i, ![s].search = NoSearch]
               /\ IF i = 0 THEN UNCHANGED <<bound, pathed, appendKeys, retrying, bindFaults>>
                  ELSE AppendSeatSession(s, i, FALSE)
  BY DEF CompleteRecord
<1>2. PICK q : q = [record[s] EXCEPT !.state = "live", !.id = i, !.search = NoSearch]
  OBVIOUS
<1>3. DOMAIN q = RecordFields /\ q.state = "live" /\ q.born = record[s].born /\ q.died = record[s].died
  BY <1>0, <1>2, RecordFieldsSet
<1>4. record' = [record EXCEPT ![s] = q]
  BY <1>1, <1>2
<1>5. RecordsOK' /\ FilesOK' /\ SnapshotOK' /\ ToldOK'
  <2>1. /\ RecordsOK /\ FilesOK /\ SnapshotOK /\ ToldOK
        /\ kindOf' = kindOf /\ files' = files /\ recon' = recon /\ history' = history
    BY DEF BindInv, CompleteRecord
  <2>2. /\ wall' \in Nat /\ wall' >= wall /\ q.born \in Nat /\ q.died \in Nat /\ q.born <= wall'
        /\ q.state \in {"launching", "live", "stopped"} /\ record[s].state # "removed"
    BY <1>0, <1>3, <1>4
  <2>3. /\ record[s].state # "none" => q.born = record[s].born
        /\ q.state = "stopped" => (record[s].state = "stopped" /\ q.died = record[s].died) \/ q.died >= wall
    BY <1>0, <1>3, <1>4
  <2> QED
    BY <2>1, <2>2, <2>3, <1>0, <1>3, <1>4, SeatGoesOn
<1>6. RowsOK'
  BY <1>0, <1>1, RowsKept, RowsFollowSeat DEF BindInv
<1> QED
  BY <1>5, <1>6 DEF BindInv

LEMMA SeenUsingKeeps ==
  ASSUME BindInv, NEW s \in SeatOwners, SeenUsing(s)
  PROVE  BindInv'
<1>0. /\ DOMAIN record[s] = RecordFields /\ record[s].born \in Nat /\ record[s].died \in Nat
      /\ record[s].born <= wall /\ wall \in Nat /\ record[s].state = "live"
      /\ kindOf' = kindOf /\ files' = files /\ recon' = recon /\ history' = history /\ wall' = wall
  BY DEF BindInv, RecordsOK, SeenUsing
<1>1. PICK q : q = [record[s] EXCEPT !.id = current[s]]
  OBVIOUS
<1>2. DOMAIN q = RecordFields /\ q.state = "live" /\ q.born = record[s].born /\ q.died = record[s].died
  BY <1>0, <1>1, RecordFieldsSet
<1>3. record' = [record EXCEPT ![s] = q]
  BY <1>1 DEF SeenUsing
<1>4. RecordsOK' /\ FilesOK' /\ SnapshotOK' /\ ToldOK'
  <2>1. /\ RecordsOK /\ FilesOK /\ SnapshotOK /\ ToldOK
        /\ kindOf' = kindOf /\ files' = files /\ recon' = recon /\ history' = history
    BY DEF BindInv, SeenUsing
  <2>2. /\ wall' \in Nat /\ wall' >= wall /\ q.born \in Nat /\ q.died \in Nat /\ q.born <= wall'
        /\ q.state \in {"launching", "live", "stopped"} /\ record[s].state # "removed"
    BY <1>0, <1>2, <1>3
  <2>3. /\ record[s].state # "none" => q.born = record[s].born
        /\ q.state = "stopped" => (record[s].state = "stopped" /\ q.died = record[s].died) \/ q.died >= wall
    BY <1>0, <1>2, <1>3
  <2> QED
    BY <2>1, <2>2, <2>3, <1>0, <1>2, <1>3, SeatGoesOn
<1>5. RowsOK'
  <2>1. AppendSeatSession(s, current[s], TRUE)
    BY DEF SeenUsing
  <2> QED
    BY <1>0, <2>1, RowsFollowSeat DEF BindInv
<1> QED
  BY <1>4, <1>5 DEF BindInv

LEMMA ClearCodexKeeps ==
  ASSUME BindInv, NEW s \in SeatOwners, ClearCodex(s)
  PROVE  BindInv'
<1>0. /\ DOMAIN record[s] = RecordFields /\ record[s].born \in Nat /\ record[s].died \in Nat
      /\ record[s].born <= wall /\ wall \in Nat /\ record[s].state = "live" /\ wall' = wall + 1
      /\ kindOf' = kindOf /\ files' = files /\ recon' = recon /\ history' = history
  BY DEF BindInv, RecordsOK, ClearCodex
<1>1. PICK q : q = [record[s] EXCEPT !.search = Search]
  OBVIOUS
<1>2. DOMAIN q = RecordFields /\ q.state = "live" /\ q.born = record[s].born /\ q.died = record[s].died
  BY <1>0, <1>1, RecordFieldsSet
<1>3. record' = [record EXCEPT ![s] = q]
  BY <1>1 DEF ClearCodex
<1>4. RecordsOK' /\ FilesOK' /\ SnapshotOK' /\ ToldOK'
  <2>1. /\ RecordsOK /\ FilesOK /\ SnapshotOK /\ ToldOK
        /\ kindOf' = kindOf /\ files' = files /\ recon' = recon /\ history' = history
    BY DEF BindInv, ClearCodex
  <2>2. /\ wall' \in Nat /\ wall' >= wall /\ q.born \in Nat /\ q.died \in Nat /\ q.born <= wall'
        /\ q.state \in {"launching", "live", "stopped"} /\ record[s].state # "removed"
    BY <1>0, <1>2, <1>3
  <2>3. /\ record[s].state # "none" => q.born = record[s].born
        /\ q.state = "stopped" => (record[s].state = "stopped" /\ q.died = record[s].died) \/ q.died >= wall
    BY <1>0, <1>2, <1>3
  <2> QED
    BY <2>1, <2>2, <2>3, <1>0, <1>2, <1>3, SeatGoesOn
<1>5. RowsOK'
  BY RowsKept DEF BindInv, ClearCodex
<1> QED
  BY <1>4, <1>5 DEF BindInv

LEMMA RebindCodexKeeps ==
  ASSUME BindInv, NEW s \in SeatOwners, RebindCodex(s)
  PROVE  BindInv'
<1>0. /\ DOMAIN record[s] = RecordFields /\ record[s].born \in Nat /\ record[s].died \in Nat
      /\ record[s].born <= wall /\ wall \in Nat /\ record[s].state \in {"live", "stopped"}
      /\ kindOf' = kindOf /\ files' = files /\ recon' = recon /\ history' = history /\ wall' = wall
  BY DEF BindInv, RecordsOK, RebindCodex
<1>1. PICK i :
        \/ /\ record' = [record EXCEPT ![s].search = NoSearch]
           /\ UNCHANGED <<bound, pathed, appendKeys, retrying, bindFaults>>
        \/ /\ record' = [record EXCEPT ![s].search = NoSearch, ![s].id = i]
           /\ AppendSeatSession(s, i, FALSE)
  BY DEF RebindCodex
<1>2. PICK q : /\ q \in {[record[s] EXCEPT !.search = NoSearch], [record[s] EXCEPT !.search = NoSearch, !.id = i]}
               /\ record' = [record EXCEPT ![s] = q]
  <2>1. CASE record' = [record EXCEPT ![s].search = NoSearch]
    <3>1. record' = [record EXCEPT ![s] = [record[s] EXCEPT !.search = NoSearch]]
      BY <2>1
    <3> QED
      BY <3>1
  <2>2. CASE record' = [record EXCEPT ![s].search = NoSearch, ![s].id = i]
    <3>1. record' = [record EXCEPT ![s] = [record[s] EXCEPT !.search = NoSearch, !.id = i]]
      BY <2>2
    <3> QED
      BY <3>1
  <2> QED
    BY <1>1, <2>1, <2>2
<1>3. DOMAIN q = RecordFields /\ q.state = record[s].state /\ q.born = record[s].born /\ q.died = record[s].died
  <2>1. CASE q = [record[s] EXCEPT !.search = NoSearch]
    BY <1>0, <2>1, RecordFieldsSet
  <2>2. CASE q = [record[s] EXCEPT !.search = NoSearch, !.id = i]
    BY <1>0, <2>2, RecordFieldsSet
  <2> QED
    BY <1>2, <2>1, <2>2
<1>4. RecordsOK' /\ FilesOK' /\ SnapshotOK' /\ ToldOK'
  <2>1. /\ RecordsOK /\ FilesOK /\ SnapshotOK /\ ToldOK
        /\ kindOf' = kindOf /\ files' = files /\ recon' = recon /\ history' = history
    BY DEF BindInv, RebindCodex
  <2>2. /\ wall' \in Nat /\ wall' >= wall /\ q.born \in Nat /\ q.died \in Nat /\ q.born <= wall'
        /\ q.state \in {"launching", "live", "stopped"} /\ record[s].state # "removed"
    BY <1>0, <1>2, <1>3
  <2>3. /\ record[s].state # "none" => q.born = record[s].born
        /\ q.state = "stopped" => (record[s].state = "stopped" /\ q.died = record[s].died) \/ q.died >= wall
    BY <1>0, <1>2, <1>3
  <2> QED
    BY <2>1, <2>2, <2>3, <1>0, <1>2, <1>3, SeatGoesOn
<1>5. RowsOK'
  BY <1>0, <1>1, RowsKept, RowsFollowSeat DEF BindInv
<1> QED
  BY <1>4, <1>5 DEF BindInv

LEMMA StopSeatKeeps ==
  ASSUME BindInv, NEW s \in SeatOwners, StopSeat(s)
  PROVE  BindInv'
<1>0. /\ DOMAIN record[s] = RecordFields /\ record[s].born \in Nat
      /\ record[s].born <= wall /\ wall \in Nat /\ record[s].state = "live" /\ wall' = wall + 1
      /\ kindOf' = kindOf /\ files' = files /\ recon' = recon /\ history' = history
  BY DEF BindInv, RecordsOK, StopSeat
<1>1. PICK q : q = [record[s] EXCEPT !.state = "stopped", !.died = wall']
  OBVIOUS
<1>2. DOMAIN q = RecordFields /\ q.state = "stopped" /\ q.born = record[s].born /\ q.died = wall'
  BY <1>0, <1>1, RecordFieldsSet
<1>3. record' = [record EXCEPT ![s] = q]
  BY <1>1 DEF StopSeat
<1>4. RecordsOK' /\ FilesOK' /\ SnapshotOK' /\ ToldOK'
  <2>1. /\ RecordsOK /\ FilesOK /\ SnapshotOK /\ ToldOK
        /\ kindOf' = kindOf /\ files' = files /\ recon' = recon /\ history' = history
    BY DEF BindInv, StopSeat
  <2>2. /\ wall' \in Nat /\ wall' >= wall /\ q.born \in Nat /\ q.died \in Nat /\ q.born <= wall'
        /\ q.state \in {"launching", "live", "stopped"} /\ record[s].state # "removed"
    BY <1>0, <1>2, <1>3
  <2>3. /\ record[s].state # "none" => q.born = record[s].born
        /\ q.state = "stopped" => (record[s].state = "stopped" /\ q.died = record[s].died) \/ q.died >= wall
    BY <1>0, <1>2, <1>3
  <2> QED
    BY <2>1, <2>2, <2>3, <1>0, <1>2, <1>3, SeatGoesOn
<1>5. RowsOK'
  BY RowsKept DEF BindInv, StopSeat
<1> QED
  BY <1>4, <1>5 DEF BindInv

LEMMA RestoreSeatKeeps ==
  ASSUME BindInv, NEW s \in SeatOwners, RestoreSeat(s)
  PROVE  BindInv'
<1>0. /\ DOMAIN record[s] = RecordFields /\ record[s].born \in Nat /\ record[s].died \in Nat
      /\ record[s].born <= wall /\ wall \in Nat /\ record[s].state = "stopped"
      /\ kindOf' = kindOf /\ files' = files /\ recon' = recon /\ history' = history /\ wall' = wall
  BY DEF BindInv, RecordsOK, RestoreSeat
<1>1. PICK i, path :
        /\ record' = [record EXCEPT ![s].state = "live", ![s].id = i]
        /\ IF i = 0 THEN UNCHANGED <<bound, pathed, appendKeys, retrying, bindFaults>>
           ELSE AppendSeatSession(s, i, path)
  BY DEF RestoreSeat
<1>2. PICK q : q = [record[s] EXCEPT !.state = "live", !.id = i]
  OBVIOUS
<1>3. DOMAIN q = RecordFields /\ q.state = "live" /\ q.born = record[s].born /\ q.died = record[s].died
  BY <1>0, <1>2, RecordFieldsSet
<1>4. record' = [record EXCEPT ![s] = q]
  BY <1>1, <1>2
<1>5. RecordsOK' /\ FilesOK' /\ SnapshotOK' /\ ToldOK'
  <2>1. /\ RecordsOK /\ FilesOK /\ SnapshotOK /\ ToldOK
        /\ kindOf' = kindOf /\ files' = files /\ recon' = recon /\ history' = history
    BY DEF BindInv, RestoreSeat
  <2>2. /\ wall' \in Nat /\ wall' >= wall /\ q.born \in Nat /\ q.died \in Nat /\ q.born <= wall'
        /\ q.state \in {"launching", "live", "stopped"} /\ record[s].state # "removed"
    BY <1>0, <1>3, <1>4
  <2>3. /\ record[s].state # "none" => q.born = record[s].born
        /\ q.state = "stopped" => (record[s].state = "stopped" /\ q.died = record[s].died) \/ q.died >= wall
    BY <1>0, <1>3, <1>4
  <2> QED
    BY <2>1, <2>2, <2>3, <1>0, <1>3, <1>4, SeatGoesOn
<1>6. RowsOK'
  BY <1>0, <1>1, RowsKept, RowsFollowSeat DEF BindInv
<1> QED
  BY <1>5, <1>6 DEF BindInv

LEMMA TranscriptTyped ==
  ASSUME FilesOK
  PROVE  \A i \in DOMAIN files : /\ files[i].owner \in SeatOwners /\ files[i].kind \in OwnerKinds
                                 /\ files[i].start \in Nat /\ files[i].last \in Nat
<1>1. \A i \in DOMAIN files : files[i] \in Transcripts
  BY DEF FilesOK
<1> QED
  BY <1>1 DEF Transcripts

LEMMA ConverseKeeps ==
  ASSUME BindInv, NEW s \in SeatOwners, Converse(s)
  PROVE  BindInv'
<1>0. /\ RecordsOK /\ FilesOK /\ SnapshotOK /\ ToldOK /\ RowsOK
      /\ kindOf' = kindOf /\ record' = record /\ recon' = recon /\ history' = history
      /\ bound' = bound /\ retrying' = retrying
      /\ record[s].state \in {"launching", "live"} /\ wall' = wall + 1 /\ wall \in Nat
      /\ record[s].born \in Nat /\ record[s].born <= wall
  BY DEF BindInv, RecordsOK, Converse
<1>1. PICK f : f = NewFile(s)
  OBVIOUS
<1>2. /\ f \in Transcripts /\ f.owner = s /\ f.kind = kindOf[s] /\ f.start = wall + 1 /\ f.last = wall + 1
  BY <1>0, <1>1 DEF NewFile, Transcripts, FilesOK
<1>3. PICK n \in Nat : n = Len(files)
  BY <1>0 DEF FilesOK
<1>4. files' = Append(files, f) /\ files \in Seq(Transcripts) /\ DOMAIN files = 1 .. n
  BY <1>0, <1>1, <1>3 DEF Converse, FilesOK
<1>5. /\ files' \in Seq(Transcripts) /\ DOMAIN files' = 1 .. (n + 1)
      /\ \A i \in DOMAIN files : i \in DOMAIN files' /\ files'[i] = files[i]
      /\ files'[n + 1] = f
  BY <1>2, <1>3, <1>4, AppendProperties
<1>6. \A i \in DOMAIN files' : (i \in DOMAIN files /\ files'[i] = files[i]) \/ files'[i] = f
  <2> SUFFICES ASSUME NEW i \in DOMAIN files'
               PROVE  (i \in DOMAIN files /\ files'[i] = files[i]) \/ files'[i] = f
    OBVIOUS
  <2>1. i = n + 1 \/ i \in 1 .. n
    BY <1>5
  <2> QED
    BY <1>4, <1>5, <2>1
<1>7. RecordsOK'
  BY <1>0 DEF RecordsOK
<1>8. FilesOK'
  <2> SUFFICES ASSUME NEW i \in DOMAIN files'
               PROVE  LET g == files'[i]  r == record[files'[i].owner] IN
                      /\ g.kind = kindOf[g.owner] /\ g.start <= g.last /\ g.start <= wall + 1
                      /\ r.state # "none"
                      /\ r.state # "removed" => r.born <= g.start
                      /\ r.state = "stopped" => g.start <= r.died
    BY <1>0, <1>5 DEF FilesOK
  <2>1. CASE i \in DOMAIN files /\ files'[i] = files[i]
    BY <1>0, <2>1, TranscriptTyped DEF FilesOK
  <2>2. CASE files'[i] = f
    BY <1>0, <1>2, <2>2
  <2> QED
    BY <1>6, <2>1, <2>2
<1>9. SnapshotOK'
  <2>1. recon.pc \in {"claims", "scan"} => recon.cutoff \in Nat /\ recon.cutoff < f.start
    BY <1>0, <1>2 DEF SnapshotOK
  <2>2. recon.pc \in {"claims", "scan"} => \A i \in DOMAIN files' :
          ~(files'[i].start <= recon.cutoff) \/ (i \in DOMAIN files /\ files'[i] = files[i])
    <3>1. recon.pc \in {"claims", "scan"} => ~(f.start <= recon.cutoff)
      BY <1>0, <1>2, <2>1
    <3> QED
      BY <1>6, <3>1
  <2>3. \A t \in SeatOwners : NamedSeats(t)' = NamedSeats(t)
    BY <1>0 DEF NamedSeats
  <2> QED
    BY <1>0, <2>1, <2>2, <2>3, TranscriptTyped DEF SnapshotOK
<1>10. ToldOK'
  <2>1. \A t, i : NamesOwner(t, i) => NamesOwner(t, i)'
    BY <1>0, <1>5 DEF NamesOwner, NamedSeats
  <2> QED
    BY <1>0, <2>1 DEF ToldOK
<1>11. RowsOK'
  BY <1>0, RowsKept
<1> QED
  BY <1>7, <1>8, <1>9, <1>10, <1>11 DEF BindInv

LEMMA GoOnKeeps ==
  ASSUME BindInv, NEW s \in SeatOwners, GoOn(s)
  PROVE  BindInv'
<1>0. /\ RecordsOK /\ FilesOK /\ SnapshotOK /\ ToldOK /\ RowsOK
      /\ kindOf' = kindOf /\ record' = record /\ recon' = recon /\ history' = history
      /\ bound' = bound /\ retrying' = retrying /\ wall' = wall /\ wall \in Nat
  BY DEF BindInv, RecordsOK, GoOn
<1>1. PICK c : c = current[s]
  OBVIOUS
<1>2. files \in Seq(Transcripts) /\ files' = [files EXCEPT ![c].last = wall]
  BY <1>0, <1>1 DEF GoOn, FilesOK
<1>3. \A i \in DOMAIN files : /\ files[i] \in Transcripts
                              /\ [files[i] EXCEPT !.last = wall] \in Transcripts
  <2>1. \A i \in DOMAIN files : files[i] \in Transcripts
    BY <1>2
  <2>2. \A f \in Transcripts : [f EXCEPT !.last = wall] \in Transcripts
    BY <1>0 DEF Transcripts
  <2> QED
    BY <2>1, <2>2
<1>4. /\ DOMAIN files' = DOMAIN files
      /\ \A i \in DOMAIN files : files'[i] = IF i = c THEN [files[i] EXCEPT !.last = wall] ELSE files[i]
  BY <1>2
<1>5. files' \in Seq(Transcripts)
  <2>1. PICK n \in Nat : DOMAIN files = 1 .. n /\ n = Len(files)
    BY <1>2
  <2>2. files' \in [1 .. n -> Transcripts]
    BY <1>2, <1>3, <1>4, <2>1
  <2> QED
    BY <2>1, <2>2
<1>6. \A i \in DOMAIN files :
        /\ files'[i].owner = files[i].owner /\ files'[i].kind = files[i].kind
        /\ files'[i].start = files[i].start /\ files'[i].last \in {files[i].last, wall}
  BY <1>3, <1>4 DEF Transcripts
<1>7. RecordsOK'
  BY <1>0 DEF RecordsOK
<1>8. FilesOK'
  BY <1>0, <1>4, <1>5, <1>6, TranscriptTyped DEF FilesOK
<1>9. \A t \in SeatOwners : NamedSeats(t)' = NamedSeats(t)
  BY <1>0 DEF NamedSeats
<1>10. SnapshotOK'
  BY <1>0, <1>4, <1>6, <1>9, TranscriptTyped DEF SnapshotOK
<1>11. ToldOK'
  <2>1. \A t, i : NamesOwner(t, i) => NamesOwner(t, i)'
    BY <1>0, <1>4, <1>6, <1>9, TranscriptTyped DEF NamesOwner
  <2> QED
    BY <1>0, <2>1 DEF ToldOK
<1>12. RowsOK'
  BY <1>0, RowsKept
<1> QED
  BY <1>7, <1>8, <1>10, <1>11, <1>12 DEF BindInv

\* What only changes the rows leaves the lives of the seats as they were
LEMMA LivesSame ==
  ASSUME BindInv, UNCHANGED <<kindOf, record, files, recon, history, wall>>
  PROVE  RecordsOK' /\ FilesOK' /\ SnapshotOK' /\ ToldOK'
<1>1. RecordsOK'
  BY DEF BindInv, RecordsOK
<1>2. wall' >= wall
  BY DEF BindInv, RecordsOK
<1> QED
  BY <1>1, <1>2, LivesGoOn DEF BindInv

LEMMA RetryAppendKeeps ==
  ASSUME BindInv, RetryAppend
  PROVE  BindInv'
<1>1. RecordsOK' /\ FilesOK' /\ SnapshotOK' /\ ToldOK'
  BY LivesSame DEF RetryAppend
<1>2. PICK r \in retrying :
        /\ retrying' = retrying \ {r} /\ recon' = recon
        /\ Append1(r[1], r[2], r[3]) \/ bound' = bound
  BY DEF RetryAppend
<1>3. RowsOK /\ r[1] \in SeatOwners
  BY <1>2 DEF BindInv, RowsOK
<1>4. CASE Append1(r[1], r[2], r[3])
  <2>1. /\ \A x \in bound' : Definite(x)
        /\ \A x \in bound' : x[1] # "unassigned" => <<"unassigned", x[2]>> \notin bound'
    BY <1>3, <1>4, RowsAppended
  <2>2. RowsOK'
    BY <1>2, <1>3, <2>1 DEF RowsOK
  <2> QED
    BY <1>1, <2>2 DEF BindInv
<1>5. CASE bound' = bound
  <2>1. RowsOK'
    BY <1>2, <1>3, <1>5 DEF RowsOK
  <2> QED
    BY <1>1, <2>1 DEF BindInv
<1> QED
  BY <1>2, <1>4, <1>5

LEMMA RepairPathsKeeps ==
  ASSUME BindInv, RepairPaths
  PROVE  BindInv'
<1>1. RecordsOK' /\ FilesOK' /\ SnapshotOK' /\ ToldOK'
  BY LivesSame DEF RepairPaths
<1>2. PICK seats, batch :
        /\ seats \subseteq SeatOwners
        /\ batch = {[s |-> t, i |-> record[t].id, path |-> TRUE] : t \in seats}
        /\ AppendBatch(batch)
  BY DEF RepairPaths
<1>3. \A b \in batch : b.s \in SeatOwners \union {"unassigned"}
  BY <1>2
<1>4. /\ \A r \in bound' : Definite(r)
      /\ \A r \in bound' : r[1] # "unassigned" => <<"unassigned", r[2]>> \notin bound'
  BY <1>2, <1>3, RowsBatched DEF BindInv
<1>5. RowsOK /\ retrying' = retrying /\ recon' = recon
  BY DEF BindInv, RepairPaths
<1>6. RowsOK'
  BY <1>4, <1>5 DEF RowsOK
<1> QED
  BY <1>1, <1>6 DEF BindInv

LEMMA LoseServerKeeps ==
  ASSUME BindInv, LoseServer
  PROVE  BindInv'
<1>0. /\ RecordsOK /\ FilesOK /\ SnapshotOK /\ ToldOK /\ RowsOK
      /\ kindOf' = kindOf /\ files' = files /\ history' = history
      /\ bound' = bound /\ retrying' = {} /\ wall' = wall /\ wall \in Nat
      /\ recon' = [NoRecon EXCEPT !.pc = "down"]
  BY DEF BindInv, RecordsOK, LoseServer
<1>1. DOMAIN recon' = ReconFields /\ recon'.pc = "down"
  BY <1>0, ReconFieldsSet
<1>2. DOMAIN record' = SeatOwners /\ \A s \in SeatOwners :
        record'[s] = IF record[s].state = "launching" THEN record[s] ELSE [record[s] EXCEPT !.search = NoSearch]
  BY DEF LoseServer
<1>3. \A s \in SeatOwners : /\ DOMAIN record'[s] = RecordFields /\ record'[s].state = record[s].state
                            /\ record'[s].born = record[s].born /\ record'[s].died = record[s].died
  <2> SUFFICES ASSUME NEW s \in SeatOwners
               PROVE  /\ DOMAIN record'[s] = RecordFields /\ record'[s].state = record[s].state
                      /\ record'[s].born = record[s].born /\ record'[s].died = record[s].died
    OBVIOUS
  <2>1. DOMAIN record[s] = RecordFields
    BY <1>0 DEF RecordsOK
  <2>2. CASE record'[s] = record[s]
    BY <2>1, <2>2
  <2>3. CASE record'[s] = [record[s] EXCEPT !.search = NoSearch]
    BY <2>1, <2>3, RecordFieldsSet
  <2> QED
    BY <1>2, <2>2, <2>3
<1>4. RecordsOK'
  BY <1>0, <1>2, <1>3 DEF RecordsOK
<1>5. FilesOK'
  BY <1>0, <1>3, TranscriptTyped DEF FilesOK
<1>6. SnapshotOK'
  BY <1>1 DEF SnapshotOK
<1>7. ToldOK'
  <2>1. \A s, i : NamesOwner(s, i) => NamesOwner(s, i)'
    BY <1>0, <1>3, TranscriptTyped DEF NamesOwner, NamedSeats
  <2> QED
    BY <1>0, <1>1, <2>1 DEF ToldOK
<1>8. RowsOK'
  BY <1>0, <1>1 DEF RowsOK
<1> QED
  BY <1>4, <1>5, <1>6, <1>7, <1>8 DEF BindInv

\* The snapshot is taken after the launches that were left over
LEMMA StartServerKeeps ==
  ASSUME BindInv, StartServer
  PROVE  BindInv'
<1>0. /\ RecordsOK /\ FilesOK /\ SnapshotOK /\ ToldOK /\ RowsOK
      /\ kindOf' = kindOf /\ files' = files /\ history' = history
      /\ bound' = bound /\ retrying' = retrying /\ wall' = wall /\ wall \in Nat
      /\ recon' = [NoRecon EXCEPT !.pc = "claims", !.cutoff = wall, !.records = record']
  BY DEF BindInv, RecordsOK, StartServer
<1>1. DOMAIN recon' = ReconFields /\ recon'.pc = "claims" /\ recon'.cutoff = wall /\ recon'.records = record'
  BY <1>0, ReconFieldsSet
<1>2. PICK failed : record' = [s \in SeatOwners |->
                    IF s \in failed THEN [NoRecord EXCEPT !.state = "removed"]
                    ELSE IF record[s].state = "launching"
                    THEN [record[s] EXCEPT !.state = "live", !.search = NoSearch] ELSE record[s]]
  BY DEF StartServer
<1>3. \A s \in SeatOwners :
        /\ DOMAIN record'[s] = RecordFields /\ record'[s].state \in States /\ record'[s].state # "launching"
        /\ record'[s].born \in Nat /\ record'[s].died \in Nat /\ record'[s].born <= wall
        /\ \/ record'[s].state = "removed"
           \/ /\ record'[s].born = record[s].born /\ record'[s].died = record[s].died
              /\ record'[s].state = record[s].state \/ (record[s].state = "launching" /\ record'[s].state = "live")
  <2> SUFFICES ASSUME NEW s \in SeatOwners
               PROVE  /\ DOMAIN record'[s] = RecordFields /\ record'[s].state \in States /\ record'[s].state # "launching"
                      /\ record'[s].born \in Nat /\ record'[s].died \in Nat /\ record'[s].born <= wall
                      /\ \/ record'[s].state = "removed"
                         \/ /\ record'[s].born = record[s].born /\ record'[s].died = record[s].died
                            /\ \/ record'[s].state = record[s].state
                               \/ record[s].state = "launching" /\ record'[s].state = "live"
    OBVIOUS
  <2>1. /\ DOMAIN record[s] = RecordFields /\ record[s].state \in States
        /\ record[s].born \in Nat /\ record[s].died \in Nat /\ record[s].born <= wall
    BY <1>0 DEF RecordsOK
  <2>2. CASE record'[s] = [NoRecord EXCEPT !.state = "removed"]
    BY <1>0, <2>2, NoRecordFields DEF States
  <2>3. CASE record[s].state = "launching" /\ record'[s] = [record[s] EXCEPT !.state = "live", !.search = NoSearch]
    <3>1. /\ DOMAIN record'[s] = RecordFields /\ record'[s].state = "live"
          /\ record'[s].born = record[s].born /\ record'[s].died = record[s].died
      BY <2>1, <2>3, RecordFieldsSet
    <3> QED
      BY <2>1, <2>3, <3>1 DEF States
  <2>4. CASE record[s].state # "launching" /\ record'[s] = record[s]
    BY <2>1, <2>4
  <2> QED
    BY <1>2, <2>2, <2>3, <2>4
<1>4. RecordsOK'
  BY <1>0, <1>2, <1>3 DEF RecordsOK
<1>5. FilesOK'
  BY <1>0, <1>3, TranscriptTyped DEF FilesOK
<1>6. SnapshotOK'
  <2> SUFFICES ASSUME NEW i \in DOMAIN files, NamedSeats(files[i].owner)'
               PROVE  LET f == files[i]  r == record'[files[i].owner] IN
                      /\ r.state \in {"live", "stopped"} /\ r.born \in Nat /\ r.born <= f.start
                      /\ r.state = "live" \/ f.start <= r.died
    BY <1>0, <1>1 DEF SnapshotOK
  <2>1. PICK o \in SeatOwners : o = files[i].owner
    BY <1>0, TranscriptTyped
  <2>2. record'[o].state \in {"live", "stopped"}
    BY <1>0, <1>3, <2>1 DEF NamedSeats
  <2>3. /\ record'[o].born \in Nat /\ record'[o].born <= files[i].start
        /\ record'[o].state = "stopped" => files[i].start <= record'[o].died
    BY <1>0, <1>3, <2>1, <2>2 DEF FilesOK
  <2> QED
    BY <2>1, <2>2, <2>3
<1>7. ToldOK'
  <2>1. \A s \in SeatOwners : NamedSeats(s)' => NamedSeats(s)
    BY <1>3 DEF NamedSeats
  <2>2. \A s, i : NamesOwner(s, i) => NamesOwner(s, i)'
    BY <1>0, <2>1, TranscriptTyped DEF NamesOwner
  <2> QED
    BY <1>0, <1>1, <2>2 DEF ToldOK
<1>8. RowsOK'
  BY <1>0, <1>1 DEF RowsOK
<1> QED
  BY <1>4, <1>5, <1>6, <1>7, <1>8 DEF BindInv

LEMMA ReadClaimsKeeps ==
  ASSUME BindInv, ReadClaims
  PROVE  BindInv'
<1>0. /\ RecordsOK /\ FilesOK /\ SnapshotOK /\ ToldOK /\ RowsOK
      /\ kindOf' = kindOf /\ record' = record /\ files' = files /\ history' = history
      /\ bound' = bound /\ retrying' = retrying /\ wall' = wall
      /\ recon.pc = "claims" /\ recon' = [recon EXCEPT !.pc = "scan", !.claimed = {r[2] : r \in bound}]
  BY DEF BindInv, ReadClaims
<1>1. DOMAIN recon' = ReconFields /\ recon'.pc = "scan" /\ recon'.cutoff = recon.cutoff /\ recon'.records = recon.records
  BY <1>0 DEF SnapshotOK, ReconFields
<1>2. RecordsOK' /\ FilesOK'
  BY <1>0 DEF RecordsOK, FilesOK
<1>3. \A s \in SeatOwners : NamedSeats(s)' = NamedSeats(s)
  BY <1>0 DEF NamedSeats
<1>4. SnapshotOK'
  BY <1>0, <1>1, <1>3, TranscriptTyped DEF SnapshotOK
<1>5. ToldOK'
  BY <1>0, <1>1 DEF ToldOK, NamesOwner, NamedSeats
<1>6. RowsOK'
  BY <1>0, <1>1 DEF RowsOK
<1> QED
  BY <1>2, <1>4, <1>5, <1>6 DEF BindInv

\* The heart of the matter: a single seat that matches a transcript is the one that wrote it,
\* unless that one is no longer registered
LEMMA AttributedToOwner ==
  ASSUME FilesOK, SnapshotOK, recon.pc = "scan", NEW kind, NEW i \in DOMAIN files, files[i].kind = kind,
         BeforeCutoff(i), NamedSeats(files[i].owner),
         NEW seats, seats = {s \in SeatOwners : kindOf[s] = kind /\ LifetimeOverlaps(recon.records[s], i)},
         Attributed(i, seats).s # "unassigned"
  PROVE  Attributed(i, seats).s = files[i].owner
<1>1. PICK o \in SeatOwners : o = files[i].owner
  BY TranscriptTyped
<1>2. kindOf[o] = kind /\ files[i].start <= files[i].last
  BY <1>1 DEF FilesOK
<1>3. /\ recon.records[o].state \in {"live", "stopped"} /\ recon.records[o].born \in Nat
      /\ recon.records[o].born <= files[i].start
      /\ recon.records[o].state = "live" \/ files[i].start <= recon.records[o].died
  BY <1>1 DEF SnapshotOK, BeforeCutoff
<1>4. files[i].last >= recon.records[o].born
  BY <1>2, <1>3, TranscriptTyped
<1>5. o \in seats
  BY <1>2, <1>3, <1>4 DEF LifetimeOverlaps
<1>6. IsFiniteSet(seats)
  BY FS_Subset, SeatSessionsAssumption
<1>7. Cardinality(seats) = 1
  BY DEF Attributed
<1>8. seats = {o}
  BY <1>5, <1>6, <1>7, FS_Singleton
<1>9. Attributed(i, seats).s = CHOOSE s \in seats : TRUE
  BY <1>7 DEF Attributed
<1> QED
  BY <1>1, <1>8, <1>9

\* Whatever is attributed is attributed to a seat or to none
LEMMA AttributedTyped ==
  ASSUME NEW i, NEW seats, seats \subseteq SeatOwners
  PROVE  Attributed(i, seats).i = i /\ Attributed(i, seats).s \in SeatOwners \union {"unassigned"}
<1>1. Attributed(i, seats).i = i
  BY DEF Attributed
<1>2. Attributed(i, seats).s = IF Cardinality(seats) = 1 THEN CHOOSE s \in seats : TRUE ELSE "unassigned"
  BY DEF Attributed
<1>3. CASE Cardinality(seats) = 1
  <2>1. IsFiniteSet(seats)
    BY FS_Subset, SeatSessionsAssumption
  <2>2. PICK o : seats = {o}
    BY <1>3, <2>1, FS_Singleton
  <2>3. (CHOOSE s \in seats : TRUE) \in seats
    BY <2>2
  <2> QED
    BY <1>1, <1>2, <1>3, <2>3
<1>4. CASE Cardinality(seats) # 1
  BY <1>1, <1>2, <1>4
<1> QED
  BY <1>3, <1>4

\* What the scan reads from the transcripts of a provider that do not name their seat
LEMMA HistoryOfKind ==
  ASSUME FilesOK, SnapshotOK, recon.pc = "scan", NEW kind, NEW claimed, NEW b \in HistoricalOf(kind, claimed)
  PROVE  NamesOwner(b.s, b.i) /\ b.s \in SeatOwners \union {"unassigned"}
<1> DEFINE Matching(i) == {s \in SeatOwners : kindOf[s] = kind /\ LifetimeOverlaps(recon.records[s], i)}
<1>1. PICK i \in DOMAIN files : files[i].kind = kind /\ BeforeCutoff(i) /\ b = Attributed(i, Matching(i))
  BY DEF HistoricalOf, Files
<1>2. PICK seats : seats = Matching(i)
  OBVIOUS
<1>3. seats \subseteq SeatOwners /\ b = Attributed(i, seats)
  BY <1>1, <1>2
<1>4. b.i = i /\ b.s \in SeatOwners \union {"unassigned"}
  BY <1>3, AttributedTyped
<1>5. ASSUME b.s # "unassigned", NamedSeats(files[i].owner) PROVE b.s = files[i].owner
  BY <1>1, <1>2, <1>3, <1>5, AttributedToOwner
<1> QED
  BY <1>4, <1>5 DEF NamesOwner

\* The event stream of the fork is its seat's own
LEMMA HistoryOfFork ==
  ASSUME FilesOK, NEW claimed, NEW b \in HistoricalFork(claimed)
  PROVE  NamesOwner(b.s, b.i) /\ b.s \in SeatOwners \union {"unassigned"}
<1>1. PICK i \in DOMAIN files : b = [s |-> files[i].owner, i |-> i, path |-> TRUE]
  BY DEF HistoricalFork, Files
<1>2. b.s = files[i].owner /\ b.i = i /\ files[i].owner \in SeatOwners
  BY <1>1, TranscriptTyped
<1> QED
  BY <1>2 DEF NamesOwner

LEMMA CurrentTyped ==
  ASSUME NEW b \in CurrentIdentities
  PROVE  b.s \in SeatOwners \union {"unassigned"}
<1>1. PICK i : b = Attributed(i, {s \in SeatOwners : recon.records[s].id = i})
  BY DEF CurrentIdentities
<1>2. PICK seats : seats = {s \in SeatOwners : recon.records[s].id = i}
  OBVIOUS
<1> QED
  BY <1>1, <1>2, AttributedTyped

LEMMA ScanHistoryKeeps ==
  ASSUME BindInv, ScanHistory
  PROVE  BindInv'
<1>0. /\ RecordsOK /\ FilesOK /\ SnapshotOK /\ ToldOK /\ RowsOK
      /\ kindOf' = kindOf /\ record' = record /\ files' = files /\ history' = history
      /\ bound' = bound /\ retrying' = retrying /\ wall' = wall /\ recon.pc = "scan"
  BY DEF BindInv, ScanHistory
<1>1. PICK claimed, past, now :
        /\ now = CurrentIdentities
        /\ past = HistoricalOf("claude", claimed) \union HistoricalOf("codex", claimed)
                    \union HistoricalFork(claimed)
        /\ recon' = [recon EXCEPT !.pc = "append", !.batch = now \union past, !.told = past]
  BY DEF ScanHistory
<1>2. \A b \in past : NamesOwner(b.s, b.i) /\ b.s \in SeatOwners \union {"unassigned"}
  BY <1>0, <1>1, HistoryOfKind, HistoryOfFork
<1>3. \A b \in now : b.s \in SeatOwners \union {"unassigned"}
  BY <1>1, CurrentTyped
<1>4. /\ DOMAIN recon' = ReconFields /\ recon'.pc = "append"
      /\ recon'.batch = now \union past /\ recon'.told = past
  BY <1>0, <1>1 DEF SnapshotOK, ReconFields
<1>5. RecordsOK' /\ FilesOK'
  BY <1>0 DEF RecordsOK, FilesOK
<1>6. SnapshotOK'
  BY <1>4 DEF SnapshotOK
<1>7. ToldOK'
  <2>1. \A s, i : NamesOwner(s, i) => NamesOwner(s, i)'
    BY <1>0 DEF NamesOwner, NamedSeats
  <2> QED
    BY <1>0, <1>2, <1>4, <2>1 DEF ToldOK
<1>8. RowsOK'
  BY <1>0, <1>2, <1>3, <1>4 DEF RowsOK
<1> QED
  BY <1>5, <1>6, <1>7, <1>8 DEF BindInv

LEMMA AppendHistoryKeeps ==
  ASSUME BindInv, AppendHistory
  PROVE  BindInv'
<1>0. /\ RecordsOK /\ FilesOK /\ SnapshotOK /\ ToldOK /\ RowsOK
      /\ kindOf' = kindOf /\ record' = record /\ files' = files
      /\ retrying' = retrying /\ wall' = wall /\ recon.pc = "append" /\ recon' = NoRecon
  BY DEF BindInv, AppendHistory
<1>1. DOMAIN recon' = ReconFields /\ recon'.pc = "done"
  BY <1>0, ReconFieldsSet
<1>2. RecordsOK' /\ FilesOK'
  BY <1>0 DEF RecordsOK, FilesOK
<1>3. SnapshotOK'
  BY <1>1 DEF SnapshotOK
<1>4. \A s, i : NamesOwner(s, i) => NamesOwner(s, i)'
  BY <1>0 DEF NamesOwner, NamedSeats
<1>5. CASE AppendBatch(recon.batch) /\ history' = history \union {<<b.s, b.i>> : b \in recon.told}
  <2>1. PICK batch : batch = recon.batch
    OBVIOUS
  <2>2. AppendBatch(batch) /\ \A b \in batch : b.s \in SeatOwners \union {"unassigned"}
    BY <1>0, <1>5, <2>1 DEF RowsOK
  <2>3. RowsOK'
    BY <1>0, <1>1, <2>2, RowsBatched DEF RowsOK
  <2>4. \A r \in history' : NamesOwner(r[1], r[2])
    BY <1>0, <1>5 DEF ToldOK
  <2>5. ToldOK'
    BY <1>1, <1>4, <2>4 DEF ToldOK
  <2> QED
    BY <1>2, <1>3, <2>3, <2>5 DEF BindInv
<1>6. CASE bound' = bound /\ history' = history
  <2>1. ToldOK' /\ RowsOK'
    BY <1>0, <1>1, <1>4, <1>6 DEF ToldOK, RowsOK
  <2> QED
    BY <1>2, <1>3, <2>1 DEF BindInv
<1> QED
  BY <1>5, <1>6 DEF AppendHistory

LEMMA BindStarts ==
  ASSUME BindInit
  PROVE  BindInv
<1>1. /\ kindOf \in [SeatOwners -> OwnerKinds] /\ record = [s \in SeatOwners |-> NoRecord]
      /\ files = <<>> /\ bound = {} /\ retrying = {} /\ recon = NoRecon /\ history = {} /\ wall = 0
  BY DEF BindInit
<1>2. RecordsOK
  BY <1>1, NoRecordFields DEF RecordsOK, States
<1>3. FilesOK
  BY <1>1 DEF FilesOK
<1>4. recon.pc = "done" /\ DOMAIN recon = ReconFields
  BY <1>1, ReconFieldsSet
<1> QED
  BY <1>1, <1>2, <1>3, <1>4 DEF BindInv, SnapshotOK, ToldOK, RowsOK

\* Every step of a seat, of a retry thread, of the ledger's repair and of the start-up keeps
\* the invariant
LEMMA BindKept ==
  ASSUME BindInv, [BindNext]_bindVars
  PROVE  BindInv'
<1>1. CASE BindNext
  BY <1>1, BeginRecordKeeps, CompleteRecordKeeps, ConverseKeeps, GoOnKeeps, SeenUsingKeeps,
     ClearCodexKeeps, RebindCodexKeeps, StopSeatKeeps, RestoreSeatKeeps, RetryAppendKeeps,
     RepairPathsKeeps, LoseServerKeeps, StartServerKeeps, ReadClaimsKeeps, ScanHistoryKeeps,
     AppendHistoryKeeps
  DEF BindNext
<1>2. CASE UNCHANGED bindVars
  BY <1>2
  DEF BindInv, bindVars, RecordsOK, FilesOK, SnapshotOK, ToldOK, RowsOK, NamesOwner, NamedSeats
<1> QED
  BY <1>1, <1>2

\* For any seats and providers, however the live appends, their retries and the start-up scan
\* interleave and wherever the server dies: the scan charges no conversation of a registered
\* seat to another one, and no conversation with a definite owner stays an open question
THEOREM HistoryNamesOwners == BindSpec => []HistoryNamesOwner
<1>1. BindInit => BindInv
  BY BindStarts
<1>2. BindInv /\ [BindNext]_bindVars => BindInv'
  BY BindKept
<1>3. BindInv => HistoryNamesOwner
  BY DEF BindInv, ToldOK, RowsOK, NamesOwner, HistoryNamesOwner
<1> QED
  BY <1>1, <1>2, <1>3, PTL DEF BindSpec

-----------------------------------------------------------------------------
(* ChildLaunch: where the brief of a child is *)

Early == {"none", "sync", "read", "create"}
Untyped == Early \union {"client", "transcript", "composer", "recheck", "ready", "text"}
BriefPcs == {"sync", "read", "client", "transcript", "composer", "recheck", "ready", "text", "enter",
             "await", "made"}
ReviewPcs == {"settle", "keys", "started", "refused"}
LaunchPcs == Early \union Untyped \union BriefPcs \union ReviewPcs
               \union {"done", "answered", "failed", "lost"}
Modes == {"main", "topic", "uncommitted", "commit", "custom"}

Texts == Briefs \union {"none"}
IsLauncher(l) ==
  DOMAIN l = {"pc", "text", "from", "keys"} /\ l.pc \in LaunchPcs /\ l.text \in Texts /\ l.from \in Nat
Terms == [ready : BOOLEAN, trust : BOOLEAN, attached : BOOLEAN, draft : Seq(Texts \union {"human"}),
          took : Seq(Texts \union {"human", "mixed"}), shown : Nat]
ReviewFields == {"dispatching", "steer", "menu", "at", "started"}

LaunchTypes ==
  /\ DOMAIN launcher = Children /\ DOMAIN child = Children /\ DOMAIN term = Children
  /\ DOMAIN review = Children
  /\ \A c \in Children : IsLauncher(launcher[c]) /\ term[c] \in Terms /\ DOMAIN review[c] = ReviewFields
  /\ launchCase.part = "review" => launchCase.mode \in Modes

\* What is recorded was on disk for good before
LibraryOK ==
  /\ DOMAIN library = {"kept", "synced", "intents"}
  /\ library.synced \subseteq library.kept
  /\ \A i \in library.intents : DOMAIN i = {"brief", "of", "bound"} /\ i.brief \in library.synced
  /\ \A c \in Children : launcher[c].pc = "sync" => launcher[c].text \in library.kept

\* The handlers of the cases, and a child that is not there yet
Begun(c) ==
  /\ launcher[c].pc \in Early => child[c] = "none" /\ term[c] = NoTerm
  /\ launcher[c].pc \in BriefPcs => launchCase.part = "brief"
  /\ launcher[c].pc \in ReviewPcs => launchCase.part = "review"
  /\ launcher[c].pc = "create" => launchCase.part \in {"brief", "review"}

Spots(s, text) == {i \in DOMAIN s : s[i] = text}
Single(S) == \A i, j \in S : i = j

\* The brief is nowhere, or once in the composer, or was taken once
Placed(l, t) ==
  /\ Single(Spots(t.draft, l.text)) /\ Single(Spots(t.took, l.text))
  /\ Spots(t.draft, l.text) = {} \/ Spots(t.took, l.text) = {}
  /\ l.pc \in Untyped => Spots(t.draft, l.text) = {} /\ Spots(t.took, l.text) = {}
  /\ l.pc = "made" => Spots(t.took, l.text) # {}
  /\ t.shown <= Len(t.took)

\* The keys that are left
NoKeys == <<>>
Choose == <<"Enter">>
ChooseNext == <<"Down", "Enter">>
ToCommits == <<"Down", "Down", "Enter", "sha", "Enter">>
ToCommits1 == <<"Down", "Enter", "sha", "Enter">>
ToCommits2 == <<"Enter", "sha", "Enter">>
NameCommit == <<"sha", "Enter">>
ToMain == <<"Enter", "Enter">>
ToTopic == <<"Enter", "Down", "Enter">>

At(r, menu, at) == r.menu = menu /\ r.at = at

\* The keys that are left lead from the present menu to the review that was asked for
Leads(keys, r, mode) ==
  \/ keys = ReviewKeys(mode)
  \/ keys = NoKeys /\ r.started = mode
  \/ mode = "uncommitted" /\ keys = ChooseNext /\ At(r, "modes", 0)
  \/ mode = "uncommitted" /\ keys = Choose /\ At(r, "modes", 1)
  \/ mode = "commit" /\ keys = ToCommits /\ At(r, "modes", 0)
  \/ mode = "commit" /\ keys = ToCommits1 /\ At(r, "modes", 1)
  \/ mode = "commit" /\ keys = ToCommits2 /\ At(r, "modes", 2)
  \/ mode = "commit" /\ keys \in {NameCommit, Choose} /\ r.menu = "commits"
  \/ mode = "main" /\ keys = ToMain /\ At(r, "modes", 0)
  \/ mode = "main" /\ keys = Choose /\ At(r, "branches", 0)
  \/ mode = "topic" /\ keys = ToTopic /\ At(r, "modes", 0)
  \/ mode = "topic" /\ keys = ChooseNext /\ At(r, "branches", 0)
  \/ mode = "topic" /\ keys = Choose /\ At(r, "branches", 1)

Asked(c) ==
  launchCase.part = "review" =>
    /\ launcher[c].pc = "keys" => Leads(launcher[c].keys, review[c], launchCase.mode)
    /\ launcher[c].pc \in {"started", "done"} => review[c].started = launchCase.mode

HandedOut(c) ==
  launchCase.part = "brief" /\ launcher[c].pc = "done" => Spots(term[c].took, launcher[c].text) # {}

ChildOK(c) == Begun(c) /\ Placed(launcher[c], term[c]) /\ Asked(c) /\ HandedOut(c)

LaunchInv == LaunchTypes /\ LibraryOK /\ \A c \in Children : ChildOK(c)

-----------------------------------------------------------------------------
LEMMA OneRepeated ==
  ASSUME NEW e PROVE [n \in 1..1 |-> e] = <<e>>
<1>1. PICK S, s, t : S = {e} /\ s = [n \in 1..1 |-> e] /\ t = <<e>>
  OBVIOUS
<1>2. s \in Seq(S) /\ Len(s) = 1 /\ s[1] = e
  BY <1>1
<1>3. t \in Seq(S) /\ Len(t) = 1 /\ t[1] = e
  BY <1>1
<1>4. s = t
  BY <1>2, <1>3, SeqEqual
<1> QED
  BY <1>1, <1>4

LEMMA TwoAndOne ==
  ASSUME NEW a, NEW b, NEW c PROVE <<a, b>> \o <<c>> = <<a, b, c>>
<1>1. PICK S, s, t, u : S = {a, b, c} /\ s = <<a, b>> /\ t = <<c>> /\ u = <<a, b, c>>
  OBVIOUS
<1>2. s \in Seq(S) /\ Len(s) = 2 /\ s[1] = a /\ s[2] = b
  BY <1>1
<1>3. t \in Seq(S) /\ Len(t) = 1 /\ t[1] = c
  BY <1>1
<1>4. u \in Seq(S) /\ Len(u) = 3 /\ u[1] = a /\ u[2] = b /\ u[3] = c
  BY <1>1
<1>5. /\ s \o t \in Seq(S) /\ Len(s \o t) = Len(s) + Len(t)
      /\ \A i \in 1 .. Len(s) + Len(t) : (s \o t)[i] = IF i <= Len(s) THEN s[i] ELSE t[i - Len(s)]
  BY <1>2, <1>3, ConcatProperties
<1>6. PICK v : v = s \o t
  OBVIOUS
<1>7. v \in Seq(S) /\ Len(v) = 3 /\ v[1] = a /\ v[2] = b /\ v[3] = c
  BY <1>2, <1>3, <1>5, <1>6
<1>8. v = u
  BY <1>4, <1>7, SeqEqual
<1> QED
  BY <1>1, <1>6, <1>8

LEMMA ThreeAndOne ==
  ASSUME NEW a, NEW b, NEW c, NEW d PROVE <<a, b, c>> \o <<d>> = <<a, b, c, d>>
<1>1. PICK S, s, t, u : S = {a, b, c, d} /\ s = <<a, b, c>> /\ t = <<d>> /\ u = <<a, b, c, d>>
  OBVIOUS
<1>2. s \in Seq(S) /\ Len(s) = 3 /\ s[1] = a /\ s[2] = b /\ s[3] = c
  BY <1>1
<1>3. t \in Seq(S) /\ Len(t) = 1 /\ t[1] = d
  BY <1>1
<1>4. u \in Seq(S) /\ Len(u) = 4 /\ u[1] = a /\ u[2] = b /\ u[3] = c /\ u[4] = d
  BY <1>1
<1>5. /\ s \o t \in Seq(S) /\ Len(s \o t) = Len(s) + Len(t)
      /\ \A i \in 1 .. Len(s) + Len(t) : (s \o t)[i] = IF i <= Len(s) THEN s[i] ELSE t[i - Len(s)]
  BY <1>2, <1>3, ConcatProperties
<1>6. PICK v : v = s \o t
  OBVIOUS
<1>7. v \in Seq(S) /\ Len(v) = 4 /\ v[1] = a /\ v[2] = b /\ v[3] = c /\ v[4] = d
  BY <1>2, <1>3, <1>5, <1>6
<1>8. v = u
  BY <1>4, <1>7, SeqEqual
<1> QED
  BY <1>1, <1>6, <1>8

LEMMA KeysOfReview ==
  /\ Head(ReviewKeys("custom")) = "/review prompt" /\ Tail(ReviewKeys("custom")) = NoKeys
  /\ Head(ReviewKeys("uncommitted")) = "/review" /\ Tail(ReviewKeys("uncommitted")) = ChooseNext
  /\ Head(ReviewKeys("commit")) = "/review" /\ Tail(ReviewKeys("commit")) = ToCommits
  /\ Head(ReviewKeys("main")) = "/review" /\ Tail(ReviewKeys("main")) = ToMain
  /\ Head(ReviewKeys("topic")) = "/review" /\ Tail(ReviewKeys("topic")) = ToTopic
  /\ \A mode \in Modes : ReviewKeys(mode) # NoKeys
<1>0. Len(BranchList) = 2 /\ BranchList[1] = "main" /\ BranchList[2] = "topic"
  BY DEF BranchList
<1>1. BranchPosition("main") = 0
  <2>2. \A n \in 1..Len(BranchList) : BranchList[n] = "main" <=> n = 1
    BY <1>0
  <2>3. (CHOOSE n \in 1..Len(BranchList) : BranchList[n] = "main") = 1
    BY <1>0, <2>2
  <2> QED
    BY <2>3 DEF BranchPosition
<1>2. BranchPosition("topic") = 1
  <2>2. \A n \in 1..Len(BranchList) : BranchList[n] = "topic" <=> n = 2
    BY <1>0
  <2>3. (CHOOSE n \in 1..Len(BranchList) : BranchList[n] = "topic") = 2
    BY <1>0, <2>2
  <2> QED
    BY <2>3 DEF BranchPosition
<1> DEFINE Downs(k) == [n \in 1..k |-> "Down"]
<1>3. ReviewKeys("main") = <<"/review", "Enter">> \o Downs(0) \o <<"Enter">>
  BY <1>1 DEF ReviewKeys
<1>4. ReviewKeys("topic") = <<"/review", "Enter">> \o Downs(1) \o <<"Enter">>
  BY <1>2 DEF ReviewKeys
<1>5. Downs(0) = <<>>
  <2>1. Downs(0) \in Seq(STRING) /\ Len(Downs(0)) = 0
    OBVIOUS
  <2>2. PICK d : d = Downs(0)
    OBVIOUS
  <2> HIDE DEF Downs
  <2> QED
    BY <2>1, <2>2, EmptySeq
<1>6. Downs(1) = <<"Down">>
  BY OneRepeated
<1> HIDE DEF Downs
<1>7. ReviewKeys("main") = <<"/review", "Enter", "Enter">>
  <2>1. <<"/review", "Enter">> \o <<>> = <<"/review", "Enter">>
    OBVIOUS
  <2> QED
    BY <1>3, <1>5, <2>1, TwoAndOne
<1>8. ReviewKeys("topic") = <<"/review", "Enter", "Down", "Enter">>
  <2>1. <<"/review", "Enter">> \o <<"Down">> = <<"/review", "Enter", "Down">>
    BY TwoAndOne
  <2> QED
    BY <1>4, <1>6, <2>1, ThreeAndOne
<1>9. Head(ReviewKeys("custom")) = "/review prompt" /\ Tail(ReviewKeys("custom")) = NoKeys
  BY DEF ReviewKeys, NoKeys
<1>10. Head(ReviewKeys("uncommitted")) = "/review" /\ Tail(ReviewKeys("uncommitted")) = ChooseNext
  BY DEF ReviewKeys, ChooseNext
<1>11. Head(ReviewKeys("commit")) = "/review" /\ Tail(ReviewKeys("commit")) = ToCommits
  BY DEF ReviewKeys, ToCommits
<1>12. Head(ReviewKeys("main")) = "/review" /\ Tail(ReviewKeys("main")) = ToMain
  <2>1. PICK keys : keys = ReviewKeys("main")
    OBVIOUS
  <2>2. Head(keys) = "/review"
    BY <1>7, <2>1
  <2>3. Tail(keys) = ToMain
    <3>1. Tail(<<"/review", "Enter", "Enter">>) = <<"Enter", "Enter">>
      OBVIOUS
    <3>2. keys = <<"/review", "Enter", "Enter">>
      BY <1>7, <2>1, Zenon
    <3> QED
      BY <3>1, <3>2, Zenon DEF ToMain
  <2> QED
    BY <2>1, <2>2, <2>3
<1>13. Head(ReviewKeys("topic")) = "/review" /\ Tail(ReviewKeys("topic")) = ToTopic
  <2>1. PICK keys : keys = ReviewKeys("topic")
    OBVIOUS
  <2>2. Head(keys) = "/review"
    BY <1>8, <2>1
  <2>3. Tail(keys) = ToTopic
    <3>1. Tail(<<"/review", "Enter", "Down", "Enter">>) = <<"Enter", "Down", "Enter">>
      OBVIOUS
    <3>2. keys = <<"/review", "Enter", "Down", "Enter">>
      BY <1>8, <2>1, Zenon
    <3> QED
      BY <3>1, <3>2, Zenon DEF ToTopic
  <2> QED
    BY <2>1, <2>2, <2>3
<1>14. ReviewKeys("custom") # NoKeys
  BY DEF ReviewKeys, NoKeys
<1>15. ReviewKeys("uncommitted") # NoKeys
  BY DEF ReviewKeys, NoKeys
<1>16. ReviewKeys("commit") # NoKeys
  BY DEF ReviewKeys, NoKeys
<1>17. ReviewKeys("main") # NoKeys
  BY <1>7 DEF NoKeys
<1>18. ReviewKeys("topic") # NoKeys
  BY <1>8 DEF NoKeys
<1>19. \A mode \in Modes : ReviewKeys(mode) # NoKeys
  BY <1>14, <1>15, <1>16, <1>17, <1>18 DEF Modes
<1> QED
  BY <1>9, <1>10, <1>11, <1>12, <1>13, <1>19

LEMMA KeysLeft ==
  /\ Head(Choose) = "Enter" /\ Tail(Choose) = NoKeys
  /\ Head(ChooseNext) = "Down" /\ Tail(ChooseNext) = Choose
  /\ Head(ToCommits) = "Down" /\ Tail(ToCommits) = ToCommits1
  /\ Head(ToCommits1) = "Down" /\ Tail(ToCommits1) = ToCommits2
  /\ Head(ToCommits2) = "Enter" /\ Tail(ToCommits2) = NameCommit
  /\ Head(NameCommit) = "sha" /\ Tail(NameCommit) = Choose
  /\ Head(ToMain) = "Enter" /\ Tail(ToMain) = Choose
  /\ Head(ToTopic) = "Enter" /\ Tail(ToTopic) = ChooseNext
<1>1. Head(Choose) = "Enter" /\ Tail(Choose) = NoKeys
  BY DEF Choose, NoKeys
<1>2. Head(ChooseNext) = "Down" /\ Tail(ChooseNext) = Choose
  BY DEF Choose, ChooseNext
<1>3. Head(ToCommits) = "Down" /\ Tail(ToCommits) = ToCommits1
  BY DEF ToCommits, ToCommits1
<1>4. Head(ToCommits1) = "Down" /\ Tail(ToCommits1) = ToCommits2
  BY DEF ToCommits1, ToCommits2
<1>5. Head(ToCommits2) = "Enter" /\ Tail(ToCommits2) = NameCommit
  BY DEF ToCommits2, NameCommit
<1>6. Head(NameCommit) = "sha" /\ Tail(NameCommit) = Choose
  BY DEF NameCommit, Choose
<1>7. Head(ToMain) = "Enter" /\ Tail(ToMain) = Choose
  BY DEF ToMain, Choose
<1>8. Head(ToTopic) = "Enter" /\ Tail(ToTopic) = ChooseNext
  BY DEF ToTopic, ChooseNext
<1> QED
  BY <1>1, <1>2, <1>3, <1>4, <1>5, <1>6, <1>7, <1>8

LEMMA KeysKnown ==
  NoKeys \notin {Choose, ChooseNext, ToCommits, ToCommits1, ToCommits2, NameCommit, ToMain, ToTopic}
BY DEF NoKeys, Choose, ChooseNext, ToCommits, ToCommits1, ToCommits2, NameCommit, ToMain, ToTopic

\* What the keys of a review do in the menus of Codex
LEMMA KeyPressed ==
  ASSUME NEW r, DOMAIN r = ReviewFields
  PROVE  /\ \A key : DOMAIN Pressed(r, key) = ReviewFields
         /\ At(Pressed(r, "/review"), "modes", 0)
         /\ Pressed(r, "/review prompt").started = "custom"
         /\ \A menu : /\ At(r, menu, 0) => At(Pressed(r, "Down"), menu, 1)
                      /\ At(r, menu, 1) => At(Pressed(r, "Down"), menu, 2)
         /\ Pressed(r, "sha") = r
         /\ At(r, "modes", 0) => At(Pressed(r, "Enter"), "branches", 0)
         /\ At(r, "modes", 1) => Pressed(r, "Enter").started = "uncommitted"
         /\ At(r, "modes", 2) => Pressed(r, "Enter").menu = "commits"
         /\ r.menu = "commits" => Pressed(r, "Enter").started = "commit"
         /\ At(r, "branches", 0) => Pressed(r, "Enter").started = "main"
         /\ At(r, "branches", 1) => Pressed(r, "Enter").started = "topic"
<1>a. \A a, b : /\ DOMAIN [r EXCEPT !.menu = a, !.at = b] = DOMAIN r
                /\ DOMAIN [r EXCEPT !.menu = a, !.started = b] = DOMAIN r
                /\ DOMAIN [r EXCEPT !.menu = a] = DOMAIN r
                /\ DOMAIN [r EXCEPT !.started = a] = DOMAIN r
                /\ DOMAIN [r EXCEPT !.at = a] = DOMAIN r
  OBVIOUS
<1>b. DOMAIN MenuEntered(r) = DOMAIN r
  BY <1>a DEF MenuEntered
<1>c. Pressed(r, "/review") = [r EXCEPT !.menu = "modes", !.at = 0]
  BY DEF Pressed
<1>d. Pressed(r, "/review prompt") = [r EXCEPT !.started = "custom"]
  BY DEF Pressed
<1>e. Pressed(r, "Down") = [r EXCEPT !.at = r.at + 1]
  BY DEF Pressed
<1>f. Pressed(r, "sha") = r
  BY DEF Pressed
<1>g. Pressed(r, "Enter") = MenuEntered(r)
  BY DEF Pressed
<1>h. \A key : key \notin {"/review", "/review prompt", "Down", "Enter"} => Pressed(r, key) = r
  BY DEF Pressed
<1>1. ASSUME NEW key PROVE DOMAIN Pressed(r, key) = ReviewFields
  BY <1>a, <1>b, <1>c, <1>d, <1>e, <1>g, <1>h
<1>2. At(Pressed(r, "/review"), "modes", 0) /\ Pressed(r, "/review prompt").started = "custom"
  BY <1>c, <1>d DEF ReviewFields, At
<1>i. \A menu : /\ At(r, menu, 0) => At(Pressed(r, "Down"), menu, 1)
                /\ At(r, menu, 1) => At(Pressed(r, "Down"), menu, 2)
  <2>1. Pressed(r, "Down").at = r.at + 1 /\ Pressed(r, "Down").menu = r.menu
    BY <1>e DEF ReviewFields
  <2> QED
    BY <2>1 DEF At
<1>3. ASSUME At(r, "modes", 0) PROVE At(MenuEntered(r), "branches", 0)
  <2>1. MenuEntered(r) = [r EXCEPT !.menu = "branches"]
    BY <1>3 DEF MenuEntered, At
  <2> QED
    BY <1>3, <2>1 DEF ReviewFields, At
<1>4. ASSUME At(r, "modes", 1) PROVE MenuEntered(r).started = "uncommitted"
  <2>1. MenuEntered(r) = [r EXCEPT !.menu = "closed", !.started = "uncommitted"]
    BY <1>4 DEF MenuEntered, At
  <2> QED
    BY <2>1 DEF ReviewFields
<1>5. ASSUME At(r, "modes", 2) PROVE MenuEntered(r).menu = "commits"
  <2>1. MenuEntered(r) = [r EXCEPT !.menu = "commits"]
    BY <1>5 DEF MenuEntered, At
  <2> QED
    BY <2>1 DEF ReviewFields
<1>6. ASSUME r.menu = "commits" PROVE MenuEntered(r).started = "commit"
  <2>1. MenuEntered(r) = [r EXCEPT !.menu = "closed", !.started = "commit"]
    BY <1>6 DEF MenuEntered
  <2> QED
    BY <2>1 DEF ReviewFields
<1>7. Len(BranchList) = 2 /\ BranchList[0 + 1] = "main" /\ BranchList[1 + 1] = "topic"
  BY DEF BranchList
<1>j. ASSUME r.menu = "branches", r.at \in {0, 1} PROVE MenuEntered(r).started = BranchList[r.at + 1]
  <2>1. PICK branch : branch = IF r.at < Len(BranchList) THEN BranchList[r.at + 1] ELSE "none"
    OBVIOUS
  <2>2. MenuEntered(r) = [r EXCEPT !.menu = "closed", !.started = branch]
    BY <1>j, <2>1 DEF MenuEntered
  <2>3. branch = BranchList[r.at + 1]
    BY <1>7, <1>j, <2>1
  <2> QED
    BY <2>2, <2>3 DEF ReviewFields
<1>8. At(r, "branches", 0) => MenuEntered(r).started = "main"
  BY <1>7, <1>j DEF At
<1>9. At(r, "branches", 1) => MenuEntered(r).started = "topic"
  BY <1>7, <1>j DEF At
<1> QED
  BY <1>f, <1>g, <1>1, <1>2, <1>i, <1>3, <1>4, <1>5, <1>6, <1>8, <1>9

\* Every key brings the review closer to the one that was asked for
LEMMA KeysLead ==
  ASSUME NEW r, DOMAIN r = ReviewFields, NEW mode \in Modes, NEW keys, Leads(keys, r, mode), keys # NoKeys
  PROVE  Leads(Tail(keys), Pressed(r, Head(keys)), mode)
<1>1. CASE keys = ReviewKeys(mode)
  <2>1. CASE mode = "custom"
    <3>1. Head(keys) = "/review prompt" /\ Tail(keys) = NoKeys
      BY <1>1, <2>1, KeysOfReview
    <3>2. Pressed(r, "/review prompt").started = mode
      BY <2>1, KeyPressed
    <3> QED
      BY <2>1, <3>1, <3>2 DEF Leads
  <2>2. CASE mode = "uncommitted"
    <3>1. Head(keys) = "/review" /\ Tail(keys) = ChooseNext
      BY <1>1, <2>2, KeysOfReview
    <3>2. At(Pressed(r, "/review"), "modes", 0)
      BY <2>2, KeyPressed
    <3> QED
      BY <2>2, <3>1, <3>2 DEF Leads
  <2>3. CASE mode = "commit"
    <3>1. Head(keys) = "/review" /\ Tail(keys) = ToCommits
      BY <1>1, <2>3, KeysOfReview
    <3>2. At(Pressed(r, "/review"), "modes", 0)
      BY <2>3, KeyPressed
    <3> QED
      BY <2>3, <3>1, <3>2 DEF Leads
  <2>4. CASE mode = "main"
    <3>1. Head(keys) = "/review" /\ Tail(keys) = ToMain
      BY <1>1, <2>4, KeysOfReview
    <3>2. At(Pressed(r, "/review"), "modes", 0)
      BY <2>4, KeyPressed
    <3> QED
      BY <2>4, <3>1, <3>2 DEF Leads
  <2>5. CASE mode = "topic"
    <3>1. Head(keys) = "/review" /\ Tail(keys) = ToTopic
      BY <1>1, <2>5, KeysOfReview
    <3>2. At(Pressed(r, "/review"), "modes", 0)
      BY <2>5, KeyPressed
    <3> QED
      BY <2>5, <3>1, <3>2 DEF Leads
  <2> QED
    BY <2>1, <2>2, <2>3, <2>4, <2>5 DEF Modes
<1>2. CASE mode = "uncommitted" /\ keys = ChooseNext /\ At(r, "modes", 0)
  <2>1. Head(keys) = "Down" /\ Tail(keys) = Choose
    BY <1>2, KeysLeft
  <2>2. At(Pressed(r, "Down"), "modes", 1)
    BY <1>2, KeyPressed
  <2> QED
    BY <1>2, <2>1, <2>2 DEF Leads
<1>3. CASE mode = "uncommitted" /\ keys = Choose /\ At(r, "modes", 1)
  <2>1. Head(keys) = "Enter" /\ Tail(keys) = NoKeys
    BY <1>3, KeysLeft
  <2>2. Pressed(r, "Enter").started = mode
    BY <1>3, KeyPressed
  <2> QED
    BY <1>3, <2>1, <2>2 DEF Leads
<1>4. CASE mode = "commit" /\ keys = ToCommits /\ At(r, "modes", 0)
  <2>1. Head(keys) = "Down" /\ Tail(keys) = ToCommits1
    BY <1>4, KeysLeft
  <2>2. At(Pressed(r, "Down"), "modes", 1)
    BY <1>4, KeyPressed
  <2> QED
    BY <1>4, <2>1, <2>2 DEF Leads
<1>5. CASE mode = "commit" /\ keys = ToCommits1 /\ At(r, "modes", 1)
  <2>1. Head(keys) = "Down" /\ Tail(keys) = ToCommits2
    BY <1>5, KeysLeft
  <2>2. At(Pressed(r, "Down"), "modes", 2)
    BY <1>5, KeyPressed
  <2> QED
    BY <1>5, <2>1, <2>2 DEF Leads
<1>6. CASE mode = "commit" /\ keys = ToCommits2 /\ At(r, "modes", 2)
  <2>1. Head(keys) = "Enter" /\ Tail(keys) = NameCommit
    BY <1>6, KeysLeft
  <2>2. Pressed(r, "Enter").menu = "commits"
    BY <1>6, KeyPressed
  <2> QED
    BY <1>6, <2>1, <2>2 DEF Leads
<1>7. CASE mode = "commit" /\ keys = NameCommit /\ r.menu = "commits"
  <2>1. Head(keys) = "sha" /\ Tail(keys) = Choose
    BY <1>7, KeysLeft
  <2>2. Pressed(r, "sha").menu = "commits"
    BY <1>7, KeyPressed
  <2> QED
    BY <1>7, <2>1, <2>2 DEF Leads
<1>8. CASE mode = "commit" /\ keys = Choose /\ r.menu = "commits"
  <2>1. Head(keys) = "Enter" /\ Tail(keys) = NoKeys
    BY <1>8, KeysLeft
  <2>2. Pressed(r, "Enter").started = mode
    BY <1>8, KeyPressed
  <2> QED
    BY <1>8, <2>1, <2>2 DEF Leads
<1>9. CASE mode = "main" /\ keys = ToMain /\ At(r, "modes", 0)
  <2>1. Head(keys) = "Enter" /\ Tail(keys) = Choose
    BY <1>9, KeysLeft
  <2>2. At(Pressed(r, "Enter"), "branches", 0)
    BY <1>9, KeyPressed
  <2> QED
    BY <1>9, <2>1, <2>2 DEF Leads
<1>10. CASE mode = "main" /\ keys = Choose /\ At(r, "branches", 0)
  <2>1. Head(keys) = "Enter" /\ Tail(keys) = NoKeys
    BY <1>10, KeysLeft
  <2>2. Pressed(r, "Enter").started = mode
    BY <1>10, KeyPressed
  <2> QED
    BY <1>10, <2>1, <2>2 DEF Leads
<1>11. CASE mode = "topic" /\ keys = ToTopic /\ At(r, "modes", 0)
  <2>1. Head(keys) = "Enter" /\ Tail(keys) = ChooseNext
    BY <1>11, KeysLeft
  <2>2. At(Pressed(r, "Enter"), "branches", 0)
    BY <1>11, KeyPressed
  <2> QED
    BY <1>11, <2>1, <2>2 DEF Leads
<1>12. CASE mode = "topic" /\ keys = ChooseNext /\ At(r, "branches", 0)
  <2>1. Head(keys) = "Down" /\ Tail(keys) = Choose
    BY <1>12, KeysLeft
  <2>2. At(Pressed(r, "Down"), "branches", 1)
    BY <1>12, KeyPressed
  <2> QED
    BY <1>12, <2>1, <2>2 DEF Leads
<1>13. CASE mode = "topic" /\ keys = Choose /\ At(r, "branches", 1)
  <2>1. Head(keys) = "Enter" /\ Tail(keys) = NoKeys
    BY <1>13, KeysLeft
  <2>2. Pressed(r, "Enter").started = mode
    BY <1>13, KeyPressed
  <2> QED
    BY <1>13, <2>1, <2>2 DEF Leads
<1> QED
  BY <1>1, <1>2, <1>3, <1>4, <1>5, <1>6, <1>7, <1>8, <1>9, <1>10, <1>11, <1>12, <1>13 DEF Leads

\* With no keys left the review is the one that was asked for
LEMMA KeysOver ==
  ASSUME NEW r, NEW mode \in Modes, Leads(NoKeys, r, mode)
  PROVE  r.started = mode
<1>1. NoKeys # ReviewKeys(mode)
  BY KeysOfReview, Zenon
<1> QED
  BY <1>1, KeysKnown, Zenon DEF Leads

-----------------------------------------------------------------------------
(* The composer and the turns taken from it *)

LEMMA TermFields ==
  ASSUME NEW t \in Terms
  PROVE  /\ t.draft \in Seq(Texts \union {"human"}) /\ t.took \in Seq(Texts \union {"human", "mixed"})
         /\ t.shown \in Nat
BY DEF Terms

LEMMA TermSet ==
  ASSUME NEW t \in Terms, NEW b \in BOOLEAN
  PROVE  /\ LET q == [t EXCEPT !.ready = b] IN
              q \in Terms /\ q.draft = t.draft /\ q.took = t.took /\ q.shown = t.shown
         /\ LET q == [t EXCEPT !.trust = b] IN
              q \in Terms /\ q.draft = t.draft /\ q.took = t.took /\ q.shown = t.shown
         /\ LET q == [t EXCEPT !.attached = b] IN
              q \in Terms /\ q.draft = t.draft /\ q.took = t.took /\ q.shown = t.shown
<1>1. LET q == [t EXCEPT !.ready = b] IN
        q \in Terms /\ q.draft = t.draft /\ q.took = t.took /\ q.shown = t.shown
  BY DEF Terms
<1>2. LET q == [t EXCEPT !.trust = b] IN
        q \in Terms /\ q.draft = t.draft /\ q.took = t.took /\ q.shown = t.shown
  BY DEF Terms
<1>3. LET q == [t EXCEPT !.attached = b] IN
        q \in Terms /\ q.draft = t.draft /\ q.took = t.took /\ q.shown = t.shown
  BY DEF Terms
<1> QED
  BY <1>1, <1>2, <1>3

LEMMA SpotsAppended ==
  ASSUME NEW S, NEW s \in Seq(S), NEW x \in S, NEW text
  PROVE  /\ Append(s, x) \in Seq(S) /\ Len(Append(s, x)) = Len(s) + 1
         /\ x # text => Spots(Append(s, x), text) = Spots(s, text)
         /\ x = text => Spots(Append(s, x), text) = Spots(s, text) \union {Len(s) + 1}
<1>1. PICK q, n : q = Append(s, x) /\ n = Len(s)
  OBVIOUS
<1>2. /\ q \in Seq(S) /\ n \in Nat /\ Len(q) = n + 1 /\ DOMAIN s = 1..n /\ DOMAIN q = 1..(n + 1)
      /\ q[n + 1] = x /\ \A i \in 1..n : q[i] = s[i]
  BY <1>1, AppendProperties
<1>3. \A i \in DOMAIN q : i = n + 1 \/ i \in DOMAIN s
  BY <1>2
<1>4. \A i \in DOMAIN s : i \in DOMAIN q /\ i # n + 1 /\ q[i] = s[i]
  BY <1>2
<1>5. n + 1 \in DOMAIN q
  BY <1>2
<1>6. x # text => Spots(q, text) = Spots(s, text)
  BY <1>2, <1>3, <1>4, <1>5 DEF Spots
<1>7. x = text => Spots(q, text) = Spots(s, text) \union {n + 1}
  BY <1>2, <1>3, <1>4, <1>5 DEF Spots
<1> QED
  BY <1>1, <1>2, <1>6, <1>7

LEMMA DraftGrows ==
  ASSUME NEW t \in Terms, NEW x \in Texts \union {"human"}
  PROVE  LET q == [t EXCEPT !.draft = Append(t.draft, x)] IN
         /\ q \in Terms /\ q.draft = Append(t.draft, x) /\ q.took = t.took /\ q.shown = t.shown
<1>1. PICK d : d = Append(t.draft, x)
  OBVIOUS
<1>2. d \in Seq(Texts \union {"human"})
  BY <1>1, TermFields, AppendProperties
<1>3. LET q == [t EXCEPT !.draft = d] IN
        q \in Terms /\ q.draft = d /\ q.took = t.took /\ q.shown = t.shown
  BY <1>2 DEF Terms
<1> QED
  BY <1>1, <1>3

\* What is submitted is the brief only when it stands alone in the composer
LEMMA SubmittedTerm ==
  ASSUME NEW t \in Terms
  PROVE  /\ Submitted(t) \in Terms /\ Submitted(t).shown = t.shown
         /\ \/ Submitted(t) = t
            \/ /\ \A text : Spots(Submitted(t).draft, text) = {}
               /\ Len(Submitted(t).took) = Len(t.took) + 1
               /\ \A text \in Texts :
                    \/ Spots(Submitted(t).took, text) = Spots(t.took, text)
                    \/ /\ Spots(t.draft, text) # {}
                       /\ Spots(Submitted(t).took, text) = Spots(t.took, text) \union {Len(t.took) + 1}
<1>1. CASE t.draft = <<>>
  BY <1>1 DEF Submitted
<1>2. CASE t.draft # <<>>
  <2>1. PICK x, k : x = (IF Len(t.draft) = 1 THEN t.draft[1] ELSE "mixed") /\ k = Append(t.took, x)
    OBVIOUS
  <2>2. t.draft \in Seq(Texts \union {"human"}) /\ t.took \in Seq(Texts \union {"human", "mixed"}) /\ t.shown \in Nat
    BY TermFields
  <2>3. Len(t.draft) \in Nat /\ Len(t.draft) # 0 /\ DOMAIN t.draft = 1..Len(t.draft)
    BY <1>2, <2>2, EmptySeq, LenProperties
  <2>4. x = "mixed" \/ (x \in Texts \union {"human"} /\ 1 \in DOMAIN t.draft /\ x = t.draft[1])
    BY <2>1, <2>2, <2>3, ElementOfSeq
  <2>5. x \in Texts \union {"human", "mixed"}
    BY <2>4
  <2>6. k \in Seq(Texts \union {"human", "mixed"}) /\ Len(k) = Len(t.took) + 1
    BY <2>1, <2>2, <2>5, SpotsAppended
  <2>7. Submitted(t) = [t EXCEPT !.draft = <<>>, !.took = k]
    BY <1>2, <2>1 DEF Submitted
  <2>8. /\ Submitted(t) \in Terms /\ Submitted(t).draft = <<>> /\ Submitted(t).took = k
        /\ Submitted(t).shown = t.shown
    <3>1. PICK e : e = <<>>
      OBVIOUS
    <3>2. e \in Seq(Texts \union {"human"}) /\ Submitted(t) = [t EXCEPT !.draft = e, !.took = k]
      BY <2>7, <3>1, EmptySeq
    <3>3. LET q == [t EXCEPT !.draft = e, !.took = k] IN
            q \in Terms /\ q.draft = e /\ q.took = k /\ q.shown = t.shown
      BY <2>6, <3>2 DEF Terms
    <3> QED
      BY <3>1, <3>2, <3>3
  <2>9. \A text : Spots(<<>>, text) = {}
    BY DEF Spots
  <2>10. ASSUME NEW text \in Texts
         PROVE  \/ Spots(k, text) = Spots(t.took, text)
                \/ /\ Spots(t.draft, text) # {}
                   /\ Spots(k, text) = Spots(t.took, text) \union {Len(t.took) + 1}
    <3>1. text # "mixed"
      BY LaunchAssumption DEF Texts
    <3>2. CASE x # text
      BY <2>1, <2>2, <2>5, <3>2, SpotsAppended
    <3>3. CASE x = text
      <4>1. Spots(t.draft, text) # {}
        BY <2>4, <3>1, <3>3 DEF Spots
      <4>2. Spots(k, text) = Spots(t.took, text) \union {Len(t.took) + 1}
        BY <2>1, <2>2, <2>5, <3>3, SpotsAppended
      <4> QED
        BY <4>1, <4>2
    <3> QED
      BY <3>2, <3>3
  <2>11. \A text : Spots(Submitted(t).draft, text) = {}
    BY <2>8, <2>9
  <2> QED
    BY <2>6, <2>8, <2>10, <2>11
<1> QED
  BY <1>1, <1>2

\* Submitting does not run a brief twice
LEMMA PlacedSubmitted ==
  ASSUME NEW t \in Terms, NEW l, NEW m, IsLauncher(l), m.text = l.text, Placed(l, t),
         m.pc \in Untyped => l.pc \in Untyped,
         m.pc = "made" => l.pc = "made"
  PROVE  /\ Placed(m, Submitted(t))
         /\ Spots(t.took, l.text) # {} => Spots(Submitted(t).took, l.text) # {}
<1>0. l.text \in Texts /\ t.took \in Seq(Texts \union {"human", "mixed"}) /\ Len(t.took) \in Nat /\ t.shown \in Nat
  BY TermFields DEF IsLauncher
<1>1. CASE Submitted(t) = t
  BY <1>1 DEF Placed
<1>2. CASE Submitted(t) # t
  <2>1. PICK q : q = Submitted(t)
    OBVIOUS
  <2>2. /\ q.shown = t.shown /\ Spots(q.draft, l.text) = {} /\ Len(q.took) = Len(t.took) + 1
        /\ \/ Spots(q.took, l.text) = Spots(t.took, l.text)
           \/ /\ Spots(t.draft, l.text) # {}
              /\ Spots(q.took, l.text) = Spots(t.took, l.text) \union {Len(t.took) + 1}
    BY <1>0, <1>2, <2>1, SubmittedTerm
  <2>3. q.shown <= Len(q.took)
    BY <1>0, <2>2 DEF Placed
  <2>4. Single(Spots(q.draft, l.text))
    BY <2>2 DEF Single
  <2>5. Single(Spots(q.took, l.text))
    BY <2>2 DEF Placed, Single
  <2>6. m.pc \in Untyped => Spots(q.took, l.text) = {}
    BY <2>2 DEF Placed
  <2>7. Spots(t.took, l.text) # {} => Spots(q.took, l.text) # {}
    BY <2>2
  <2>8. m.pc = "made" => Spots(q.took, l.text) # {}
    BY <2>7 DEF Placed
  <2> QED
    BY <2>1, <2>2, <2>3, <2>4, <2>5, <2>6, <2>7, <2>8 DEF Placed
<1> QED
  BY <1>1, <1>2

-----------------------------------------------------------------------------
(* Steps of one child *)

\* Only this child moves
Only(c) ==
  /\ DOMAIN launcher' = Children /\ DOMAIN child' = Children /\ DOMAIN term' = Children
  /\ DOMAIN review' = Children /\ launchCase' = launchCase
  /\ \A d \in Children : d # c => /\ launcher'[d] = launcher[d] /\ child'[d] = child[d]
                                 /\ term'[d] = term[d] /\ review'[d] = review[d]

LEMMA ChildStep ==
  ASSUME LaunchInv, NEW c \in Children, Only(c), LibraryOK',
         IsLauncher(launcher'[c]), term'[c] \in Terms, DOMAIN review'[c] = ReviewFields, ChildOK(c)'
  PROVE  LaunchInv'
<1>1. LaunchTypes'
  <2>1. LaunchTypes
    BY DEF LaunchInv
  <2>2. \A d \in Children : IsLauncher(launcher'[d]) /\ term'[d] \in Terms /\ DOMAIN review'[d] = ReviewFields
    BY <2>1 DEF LaunchTypes, Only
  <2> QED
    BY <2>1, <2>2 DEF LaunchTypes, Only, IsLauncher
<1>2. ASSUME NEW d \in Children, d # c PROVE ChildOK(d)'
  <2>1. ChildOK(d)
    BY DEF LaunchInv
  <2>2. /\ launcher'[d] = launcher[d] /\ child'[d] = child[d] /\ term'[d] = term[d] /\ review'[d] = review[d]
        /\ launchCase' = launchCase
    BY <1>2 DEF Only
  <2>3. Begun(d)'
    BY <2>1, <2>2 DEF ChildOK, Begun
  <2>4. Placed(launcher[d], term[d])'
    BY <2>1, <2>2 DEF ChildOK, Placed
  <2>5. Asked(d)' /\ HandedOut(d)'
    BY <2>1, <2>2 DEF ChildOK, Asked, HandedOut, Leads, At
  <2> QED
    BY <2>3, <2>4, <2>5 DEF ChildOK
<1> QED
  BY <1>1, <1>2 DEF LaunchInv

\* The library is as it was and nobody has just published
LEMMA LibraryKept ==
  ASSUME LaunchInv, NEW c \in Children, Only(c), library' = library, launcher'[c].pc # "sync"
  PROVE  LibraryOK'
<1>1. LibraryOK
  BY DEF LaunchInv
<1> QED
  BY <1>1 DEF LibraryOK, Only

\* The handler goes on, and neither the terminal nor the menus change
LEMMA HandlerStep ==
  ASSUME LaunchInv, NEW c \in Children, Only(c), LibraryOK', term' = term, review'[c] = review[c],
         IsLauncher(launcher'[c]), launcher'[c].text = launcher[c].text,
         launcher'[c].pc \in Early => launcher[c].pc \in Early /\ child'[c] = child[c],
         launcher'[c].pc \in Untyped => launcher[c].pc \in Untyped,
         launcher'[c].pc \in BriefPcs => launchCase.part = "brief",
         launcher'[c].pc \in ReviewPcs => launchCase.part = "review",
         launcher'[c].pc = "create" => launchCase.part \in {"brief", "review"},
         launcher'[c].pc = "made" => Spots(term[c].took, launcher[c].text) # {},
         launcher'[c].pc = "done" =>
           \/ launchCase.part = "pr"
           \/ launcher[c].pc = "done"
           \/ launcher[c].pc = "made"
           \/ launcher[c].pc = "started",
         launcher'[c].pc = "started" => launcher[c].pc = "keys" /\ launcher[c].keys = NoKeys,
         launcher'[c].pc = "keys" => launcher'[c].keys = ReviewKeys(launchCase.mode)
  PROVE  LaunchInv'
<1>0. /\ LaunchTypes /\ ChildOK(c) /\ launchCase' = launchCase /\ term'[c] = term[c]
      /\ Begun(c) /\ Placed(launcher[c], term[c]) /\ Asked(c) /\ HandedOut(c)
  BY DEF LaunchInv, ChildOK, Only
<1>1. Begun(c)'
  BY <1>0 DEF Begun
<1>2. Placed(launcher[c], term[c])'
  BY <1>0 DEF Placed
<1>3. Asked(c)'
  <2> SUFFICES ASSUME launchCase.part = "review"
               PROVE  /\ launcher'[c].pc = "keys" => Leads(launcher'[c].keys, review[c], launchCase.mode)
                      /\ launcher'[c].pc \in {"started", "done"} => review[c].started = launchCase.mode
    BY <1>0 DEF Asked, Leads, At
  <2>1. launcher'[c].pc = "keys" => Leads(launcher'[c].keys, review[c], launchCase.mode)
    BY DEF Leads
  <2>2. launcher[c].pc # "made"
    BY <1>0 DEF Begun, BriefPcs
  <2>3. launcher'[c].pc = "started" => review[c].started = launchCase.mode
    <3> SUFFICES ASSUME launcher'[c].pc = "started" PROVE review[c].started = launchCase.mode
      OBVIOUS
    <3>1. Leads(NoKeys, review[c], launchCase.mode) /\ launchCase.mode \in Modes
      BY <1>0 DEF Asked, LaunchTypes
    <3> QED
      BY <3>1, KeysOver
  <2> QED
    BY <1>0, <2>1, <2>2, <2>3 DEF Asked
<1>4. HandedOut(c)'
  <2>1. launchCase.part = "brief" => launcher[c].pc # "started"
    BY <1>0 DEF Begun, ReviewPcs
  <2> QED
    BY <1>0, <2>1 DEF HandedOut, Placed
<1>5. ChildOK(c)'
  BY <1>1, <1>2, <1>3, <1>4 DEF ChildOK
<1>6. term'[c] \in Terms /\ DOMAIN review'[c] = ReviewFields
  BY <1>0 DEF LaunchTypes
<1> QED
  BY <1>5, <1>6, ChildStep

LEMMA Moved ==
  ASSUME LaunchInv, NEW c \in Children, NEW pc \in LaunchPcs, MovesOn(c, pc)
  PROVE  /\ DOMAIN launcher' = Children /\ \A d \in Children : d # c => launcher'[d] = launcher[d]
         /\ IsLauncher(launcher'[c]) /\ launcher'[c].pc = pc /\ launcher'[c].text = launcher[c].text
         /\ launcher'[c].keys = launcher[c].keys
<1>1. DOMAIN launcher = Children /\ IsLauncher(launcher[c])
  BY DEF LaunchInv, LaunchTypes
<1>2. PICK l : l = [launcher[c] EXCEPT !.pc = pc]
  OBVIOUS
<1>3. DOMAIN launcher' = Children /\ launcher'[c] = l /\ \A d \in Children : d # c => launcher'[d] = launcher[d]
  BY <1>1, <1>2 DEF MovesOn
<1>4. IsLauncher(l) /\ l.pc = pc /\ l.text = launcher[c].text /\ l.keys = launcher[c].keys
  BY <1>1, <1>2 DEF IsLauncher
<1> QED
  BY <1>3, <1>4

\* The child is as it was, or its record is changed once it is there
ChildSet(c) == child' = child \/ \E k : child' = [child EXCEPT ![c] = k]

LEMMA OnlyHandler ==
  ASSUME LaunchInv, NEW c \in Children, term' = term, review' = review, launchCase' = launchCase, ChildSet(c),
         DOMAIN launcher' = Children, \A d \in Children : d # c => launcher'[d] = launcher[d]
  PROVE  Only(c)
<1>1. DOMAIN child = Children /\ DOMAIN term = Children /\ DOMAIN review = Children
  BY DEF LaunchInv, LaunchTypes
<1>2. DOMAIN child' = Children /\ \A d \in Children : d # c => child'[d] = child[d]
  BY <1>1 DEF ChildSet
<1> QED
  BY <1>1, <1>2 DEF Only

\* The handler goes on to a point where nothing new is known
LEMMA HandlerMoves ==
  ASSUME LaunchInv, NEW c \in Children, NEW pc \in LaunchPcs, MovesOn(c, pc), ChildSet(c),
         term' = term, review' = review, launchCase' = launchCase, library' = library,
         pc \notin {"sync", "keys", "none", "read"},
         pc = "create" => child' = child /\ launcher[c].pc \in Early /\ launchCase.part \in {"brief", "review"},
         pc \in Untyped => launcher[c].pc \in Untyped,
         pc \in BriefPcs => launchCase.part = "brief",
         pc \in ReviewPcs => launchCase.part = "review",
         pc = "made" => Spots(term[c].took, launcher[c].text) # {},
         pc = "done" => launchCase.part = "pr" \/ launcher[c].pc \in {"done", "made", "started"},
         pc # "started"
  PROVE  LaunchInv'
<1>1. /\ DOMAIN launcher' = Children /\ \A d \in Children : d # c => launcher'[d] = launcher[d]
      /\ IsLauncher(launcher'[c]) /\ launcher'[c].pc = pc /\ launcher'[c].text = launcher[c].text
  BY Moved
<1>2. Only(c)
  BY <1>1, OnlyHandler
<1>3. LibraryOK'
  BY <1>1, <1>2, LibraryKept
<1>4. pc \in Early => launcher[c].pc \in Early /\ child'[c] = child[c]
  BY DEF Early
<1>5. pc = "done" => \/ launchCase.part = "pr" \/ launcher[c].pc = "done"
                    \/ launcher[c].pc = "made" \/ launcher[c].pc = "started"
  OBVIOUS
<1>6. review'[c] = review[c]
  OBVIOUS
<1>7. pc # "keys" /\ pc # "started"
  OBVIOUS
<1> QED
  BY <1>1, <1>2, <1>3, <1>4, <1>5, <1>6, <1>7, HandlerStep

LEMMA BriefSteps ==
  ASSUME LaunchInv, NEW c \in Children,
         ReadSpawnBrief(c) \/ FirstClientCheck(c) \/ AwaitComposer(c) \/ SecondClientCheck(c)
           \/ AwaitAcceptance(c) \/ HandOut(c)
  PROVE  LaunchInv'
<1>0. /\ Begun(c) /\ Placed(launcher[c], term[c]) /\ term[c] \in Terms /\ IsLauncher(launcher[c])
  BY DEF LaunchInv, ChildOK, LaunchTypes
<1>1. term' = term /\ review' = review /\ launchCase' = launchCase /\ library' = library /\ ChildSet(c)
  BY DEF ReadSpawnBrief, FirstClientCheck, AwaitComposer, SecondClientCheck, AwaitAcceptance, HandOut,
         BriefFails, WaitEnds, ChildSet
<1>2. CASE MovesOn(c, "failed")
  BY <1>1, <1>2, HandlerMoves DEF LaunchPcs, Untyped, Early, BriefPcs, ReviewPcs
<1>3. CASE ReadSpawnBrief(c)
  <2>1. CASE MovesOn(c, "create")
    <3>1. launchCase.part = "brief" /\ launcher[c].pc \in Early /\ launcher[c].pc \in Untyped /\ child' = child
      BY <1>0, <1>3 DEF ReadSpawnBrief, Begun, BriefPcs, Early, Untyped
    <3> QED
      BY <1>1, <2>1, <3>1, HandlerMoves DEF LaunchPcs, Untyped, Early, BriefPcs, ReviewPcs
  <2> QED
    BY <1>2, <1>3, <2>1 DEF ReadSpawnBrief
<1>4. CASE FirstClientCheck(c) \/ AwaitComposer(c) \/ SecondClientCheck(c)
  <2>1. PICK pc : MovesOn(c, pc) /\ pc \in {"failed", "transcript", "recheck", "text"}
    BY <1>4 DEF FirstClientCheck, AwaitComposer, SecondClientCheck, BriefFails, WaitEnds
  <2>2. launchCase.part = "brief" /\ launcher[c].pc \in Untyped
    BY <1>0, <1>4 DEF FirstClientCheck, AwaitComposer, SecondClientCheck, Begun, BriefPcs, Untyped
  <2>3. pc \in LaunchPcs /\ pc \notin Early \union ReviewPcs \union {"made", "done", "keys", "started"}
    BY <2>1 DEF LaunchPcs, Untyped, Early, BriefPcs, ReviewPcs
  <2> QED
    BY <1>1, <2>1, <2>2, <2>3, HandlerMoves DEF Early
<1>5. CASE AwaitAcceptance(c)
  <2>1. CASE Acknowledged(c) /\ MovesOn(c, "made")
    <3>1. launchCase.part = "brief"
      BY <1>0, <1>5 DEF AwaitAcceptance, Begun, BriefPcs
    <3>2. PICK n \in (launcher[c].from + 1)..term[c].shown : term[c].took[n] = launcher[c].text
      BY <2>1 DEF Acknowledged
    <3>3. /\ launcher[c].from \in Nat /\ term[c].shown \in Nat /\ Len(term[c].took) \in Nat
          /\ DOMAIN term[c].took = 1..Len(term[c].took) /\ term[c].shown <= Len(term[c].took)
      BY <1>0, TermFields DEF Placed, IsLauncher
    <3>4. n \in DOMAIN term[c].took
      BY <3>2, <3>3
    <3>5. Spots(term[c].took, launcher[c].text) # {}
      BY <3>2, <3>4 DEF Spots
    <3> QED
      BY <1>1, <2>1, <3>1, <3>5, HandlerMoves DEF LaunchPcs, Untyped, Early, BriefPcs, ReviewPcs
  <2> QED
    BY <1>2, <1>5, <2>1 DEF AwaitAcceptance, WaitEnds, BriefFails
<1>6. CASE HandOut(c)
  <2>1. MovesOn(c, "done") /\ launcher[c].pc = "made"
    BY <1>6 DEF HandOut
  <2> QED
    BY <1>1, <2>1, HandlerMoves DEF LaunchPcs, Untyped, Early, BriefPcs, ReviewPcs
<1> QED
  BY <1>3, <1>4, <1>5, <1>6

LEMMA NotingSteps ==
  ASSUME LaunchInv, NEW c \in Children, AwaitTranscript(c) \/ AwaitReadiness(c)
  PROVE  LaunchInv'
<1>0. /\ Begun(c) /\ term[c] \in Terms /\ IsLauncher(launcher[c]) /\ DOMAIN launcher = Children
  BY DEF LaunchInv, ChildOK, LaunchTypes
<1>1. term' = term /\ review' = review /\ launchCase' = launchCase /\ library' = library /\ ChildSet(c)
  BY DEF AwaitTranscript, AwaitReadiness, BriefFails, WaitEnds, ChildSet
<1>2. CASE MovesOn(c, "failed")
  BY <1>1, <1>2, HandlerMoves DEF LaunchPcs, Untyped, Early, BriefPcs, ReviewPcs
<1>3. ASSUME NEW pc \in {"composer", "text"},
             launcher' = [launcher EXCEPT ![c].pc = pc, ![c].from = term[c].shown]
      PROVE  LaunchInv'
  <2>1. PICK l : l = [launcher[c] EXCEPT !.pc = pc, !.from = term[c].shown]
    OBVIOUS
  <2>2. DOMAIN launcher' = Children /\ launcher'[c] = l /\ \A d \in Children : d # c => launcher'[d] = launcher[d]
    BY <1>0, <1>3, <2>1
  <2>3. pc \in LaunchPcs /\ pc \in Untyped /\ pc \notin Early \union ReviewPcs \union {"made", "done", "keys", "started"}
    BY <1>3 DEF LaunchPcs, Untyped, Early, ReviewPcs
  <2>4. IsLauncher(l) /\ l.pc = pc /\ l.text = launcher[c].text
    <3>1. term[c].shown \in Nat
      BY <1>0, TermFields
    <3> QED
      BY <1>0, <2>1, <2>3, <3>1 DEF IsLauncher
  <2>5. launchCase.part = "brief" /\ launcher[c].pc \in Untyped
    BY <1>0 DEF AwaitTranscript, AwaitReadiness, Begun, BriefPcs, Untyped
  <2>6. Only(c)
    BY <1>1, <2>2, OnlyHandler
  <2>7. LibraryOK'
    BY <1>1, <2>2, <2>3, <2>4, <2>6, LibraryKept DEF Early
  <2>8. review'[c] = review[c] /\ pc \notin Early /\ pc \notin ReviewPcs /\ pc \notin {"made", "done", "keys", "started", "create"}
    BY <1>1, <1>3, <2>3
  <2> QED
    BY <1>1, <2>2, <2>3, <2>4, <2>5, <2>6, <2>7, <2>8, HandlerStep
<1> QED
  BY <1>2, <1>3 DEF AwaitTranscript, AwaitReadiness, BriefFails, WaitEnds

LEMMA NoTermPlaced ==
  /\ NoTerm \in Terms /\ NoTerm.draft = <<>> /\ NoTerm.took = <<>> /\ NoTerm.shown = 0
  /\ \A b \in BOOLEAN : LET q == [NoTerm EXCEPT !.trust = b] IN
       q \in Terms /\ q.draft = <<>> /\ q.took = <<>> /\ q.shown = 0
  /\ \A l, t : t.draft = <<>> /\ t.took = <<>> /\ t.shown = 0 /\ l.pc # "made" => Placed(l, t)
<1>1. PICK e : e = <<>>
  OBVIOUS
<1>2. e \in Seq(Texts \union {"human"}) /\ e \in Seq(Texts \union {"human", "mixed"})
  BY <1>1, EmptySeq
<1>3. NoTerm = [ready |-> FALSE, trust |-> FALSE, attached |-> FALSE, draft |-> e, took |-> e, shown |-> 0]
  BY <1>1 DEF NoTerm
<1>4. NoTerm \in Terms /\ NoTerm.draft = e /\ NoTerm.took = e /\ NoTerm.shown = 0
  BY <1>2, <1>3 DEF Terms
<1>5. \A b \in BOOLEAN : LET q == [NoTerm EXCEPT !.trust = b] IN
        q \in Terms /\ q.draft = e /\ q.took = e /\ q.shown = 0
  BY <1>4 DEF Terms
<1>6. \A text : Spots(e, text) = {}
  BY <1>1 DEF Spots
<1>7. Len(e) = 0
  BY <1>1
<1>8. \A l, t : t.draft = e /\ t.took = e /\ t.shown = 0 /\ l.pc # "made" => Placed(l, t)
  BY <1>6, <1>7 DEF Placed, Single
<1> QED
  BY <1>1, <1>4, <1>5, <1>8

LEMMA SpawnSessionKeeps ==
  ASSUME LaunchInv, NEW c \in Children, NEW text \in Briefs, SpawnSession(c, text)
  PROVE  LaunchInv'
<1>0. /\ Begun(c) /\ DOMAIN launcher = Children /\ LibraryOK /\ LaunchTypes
      /\ launchCase.part = "brief" /\ launcher[c].pc = "none"
      /\ child' = child /\ term' = term /\ review' = review /\ launchCase' = launchCase
  BY DEF LaunchInv, ChildOK, LaunchTypes, SpawnSession
<1>1. PICK l : l = [NoLauncher EXCEPT !.pc = "sync", !.text = text]
  OBVIOUS
<1>2. launcher' = [launcher EXCEPT ![c] = l]
  BY <1>1 DEF SpawnSession
<1>3. launcher'[c] = l /\ Only(c)
  BY <1>0, <1>2, OnlyHandler DEF ChildSet
<1>4. IsLauncher(l) /\ l.pc = "sync" /\ l.text = text
  BY <1>1 DEF NoLauncher, IsLauncher, LaunchPcs, Early, Texts
<1>5. child[c] = "none" /\ term[c] = NoTerm
  BY <1>0 DEF Begun, Early
<1>6. /\ DOMAIN library' = {"kept", "synced", "intents"} /\ library'.kept = library.kept \union {text}
      /\ library'.synced = library.synced /\ library'.intents = library.intents
  BY <1>0 DEF SpawnSession, Published, LibraryOK
<1>7. LibraryOK'
  BY <1>0, <1>3, <1>4, <1>6 DEF LibraryOK, Only
<1>8. Begun(c)'
  BY <1>0, <1>3, <1>4, <1>5 DEF Begun, BriefPcs, ReviewPcs
<1>9. Placed(launcher[c], term[c])'
  BY <1>0, <1>3, <1>4, <1>5, NoTermPlaced
<1>10. Asked(c)' /\ HandedOut(c)'
  BY <1>0, <1>3, <1>4 DEF Asked, HandedOut
<1>11. term'[c] \in Terms /\ DOMAIN review'[c] = ReviewFields
  BY <1>0 DEF LaunchTypes
<1> QED
  BY <1>3, <1>4, <1>7, <1>8, <1>9, <1>10, <1>11, ChildStep DEF ChildOK

\* The name of the brief is on disk before the intent names it
LEMMA RecordIntentKeeps ==
  ASSUME LaunchInv, NEW c \in Children, RecordIntent(c)
  PROVE  LaunchInv'
<1>0. /\ Begun(c) /\ LibraryOK /\ LaunchTypes /\ launcher[c].pc = "sync" /\ MovesOn(c, "read")
      /\ child' = child /\ term' = term /\ review' = review /\ launchCase' = launchCase
  BY DEF LaunchInv, ChildOK, LaunchTypes, RecordIntent
<1>1. /\ DOMAIN launcher' = Children /\ \A d \in Children : d # c => launcher'[d] = launcher[d]
      /\ IsLauncher(launcher'[c]) /\ launcher'[c].pc = "read" /\ launcher'[c].text = launcher[c].text
  BY <1>0, Moved DEF LaunchPcs, Early
<1>2. Only(c)
  BY <1>0, <1>1, OnlyHandler DEF ChildSet
<1>3. /\ DOMAIN library' = {"kept", "synced", "intents"} /\ library'.kept = library.kept
      /\ library'.synced = library.synced \union {launcher[c].text}
      /\ library'.intents = library.intents \union {[brief |-> launcher[c].text, of |-> c, bound |-> FALSE]}
  BY <1>0 DEF RecordIntent, SyncDirectory, LibraryOK
<1>4. launcher[c].text \in library.kept
  BY <1>0 DEF LibraryOK
<1>5. \A i \in library'.intents : DOMAIN i = {"brief", "of", "bound"} /\ i.brief \in library'.synced
  BY <1>0, <1>3 DEF LibraryOK
<1>6. LibraryOK'
  BY <1>0, <1>1, <1>2, <1>3, <1>4, <1>5 DEF LibraryOK, Only
<1>7. launchCase.part = "brief" /\ launcher[c].pc \in Early /\ launcher[c].pc \in Untyped
  BY <1>0 DEF Begun, BriefPcs, Early, Untyped
<1>8. "read" \notin ReviewPcs
  BY DEF ReviewPcs
<1> QED
  BY <1>0, <1>1, <1>2, <1>6, <1>7, <1>8, HandlerStep

LEMMA CreateChildKeeps ==
  ASSUME LaunchInv, NEW c \in Children, CreateChild(c)
  PROVE  LaunchInv'
<1>0. /\ Begun(c) /\ LibraryOK /\ LaunchTypes /\ launcher[c].pc = "create"
      /\ review' = review /\ launchCase' = launchCase /\ child' = [child EXCEPT ![c] = "up"]
  BY DEF LaunchInv, ChildOK, LaunchTypes, CreateChild
<1>1. PICK pc : /\ MovesOn(c, pc)
                /\ pc = IF launchCase.part = "review" THEN "settle"
                        ELSE IF launchCase.provider = "claude" THEN "client" ELSE "ready"
  BY DEF CreateChild
<1>2. pc \in LaunchPcs /\ pc \in {"settle", "client", "ready"}
  BY <1>1 DEF LaunchPcs, Untyped, ReviewPcs
<1>3. /\ DOMAIN launcher' = Children /\ \A d \in Children : d # c => launcher'[d] = launcher[d]
      /\ IsLauncher(launcher'[c]) /\ launcher'[c].pc = pc
  BY <1>1, <1>2, Moved
<1>4. PICK t, b : b \in BOOLEAN /\ t = [NoTerm EXCEPT !.trust = b] /\ term' = [term EXCEPT ![c] = t]
  BY DEF CreateChild
<1>5. t \in Terms /\ t.draft = <<>> /\ t.took = <<>> /\ t.shown = 0
  BY <1>4, NoTermPlaced
<1>6. Only(c) /\ term'[c] = t
  BY <1>0, <1>3, <1>4 DEF Only, LaunchTypes
<1>7. /\ DOMAIN library' = {"kept", "synced", "intents"} /\ library'.kept = library.kept
      /\ library'.synced = library.synced
      /\ library'.intents = {IF i.of = c THEN [i EXCEPT !.bound = TRUE] ELSE i : i \in library.intents}
  BY <1>0 DEF CreateChild, BindIntent, LibraryOK
<1>8. \A i \in library'.intents : \E j \in library.intents : i = j \/ i = [j EXCEPT !.bound = TRUE]
  BY <1>7
<1>9. \A j \in library.intents : LET i == [j EXCEPT !.bound = TRUE] IN
        DOMAIN i = {"brief", "of", "bound"} /\ i.brief = j.brief
  BY <1>0 DEF LibraryOK
<1>10. LibraryOK'
  <2>1. \A i \in library'.intents : DOMAIN i = {"brief", "of", "bound"} /\ i.brief \in library'.synced
    BY <1>0, <1>7, <1>8, <1>9 DEF LibraryOK
  <2>2. \A d \in Children : launcher'[d].pc = "sync" => launcher'[d].text \in library'.kept
    BY <1>0, <1>2, <1>3, <1>7 DEF LibraryOK
  <2> QED
    BY <1>0, <1>7, <2>1, <2>2 DEF LibraryOK
<1>11. Begun(c)'
  BY <1>0, <1>1, <1>2, <1>3 DEF Begun, BriefPcs, ReviewPcs, Early
<1>12. Placed(launcher[c], term[c])'
  BY <1>2, <1>3, <1>5, <1>6, NoTermPlaced
<1>13. Asked(c)' /\ HandedOut(c)'
  BY <1>0, <1>2, <1>3 DEF Asked, HandedOut
<1>14. DOMAIN review'[c] = ReviewFields
  BY <1>0 DEF LaunchTypes
<1> QED
  BY <1>3, <1>5, <1>6, <1>10, <1>11, <1>12, <1>13, <1>14, ChildStep DEF ChildOK

\* The terminal of a child that is there changes, and the brief stays in its place
LEMMA TerminalStep ==
  ASSUME LaunchInv, NEW c \in Children, NEW t \in Terms, term' = [term EXCEPT ![c] = t],
         child' = child, review' = review, launchCase' = launchCase, library' = library,
         DOMAIN launcher' = Children, \A d \in Children : d # c => launcher'[d] = launcher[d],
         IsLauncher(launcher'[c]), launcher'[c].text = launcher[c].text,
         launcher[c].pc \notin Early,
         \/ launcher'[c] = launcher[c]
         \/ launcher'[c].pc \in {"enter", "await"} /\ launchCase.part = "brief",
         Placed(launcher'[c], t),
         Spots(term[c].took, launcher[c].text) # {} => Spots(t.took, launcher[c].text) # {}
  PROVE  LaunchInv'
<1>0. /\ LaunchTypes /\ Begun(c) /\ Asked(c) /\ HandedOut(c)
  BY DEF LaunchInv, ChildOK
<1>1. Only(c) /\ term'[c] = t /\ review'[c] = review[c]
  BY <1>0 DEF LaunchTypes, Only
<1>2. launcher'[c].pc # "sync" /\ launcher'[c].pc \notin Early
  BY DEF Early
<1>3. LibraryOK'
  BY <1>1, <1>2, LibraryKept
<1>4. Begun(c)'
  BY <1>0, <1>2 DEF Begun, BriefPcs, ReviewPcs
<1>5. Placed(launcher[c], term[c])'
  BY <1>1
<1>6. Asked(c)'
  BY <1>0, <1>1 DEF Asked, Leads, At
<1>7. HandedOut(c)'
  BY <1>0, <1>1 DEF HandedOut
<1>8. DOMAIN review'[c] = ReviewFields
  BY <1>0, <1>1 DEF LaunchTypes
<1> QED
  BY <1>1, <1>3, <1>4, <1>5, <1>6, <1>7, <1>8, ChildStep DEF ChildOK

\* A terminal with something in it is of a child that is there
LEMMA NotEarly ==
  ASSUME LaunchInv, NEW c \in Children, child[c] = "up" \/ term[c].shown < Len(term[c].took)
  PROVE  launcher[c].pc \notin Early
<1>1. Begun(c)
  BY DEF LaunchInv, ChildOK
<1>2. CASE child[c] = "up"
  BY <1>1, <1>2 DEF Begun
<1>3. CASE term[c].shown < Len(term[c].took)
  <2>1. term[c] # NoTerm
    <3>1. PICK t : t = NoTerm
      OBVIOUS
    <3>2. t.shown = 0 /\ Len(t.took) = 0
      BY <3>1, NoTermPlaced
    <3> QED
      BY <1>3, <3>1, <3>2
  <2> QED
    BY <1>1, <2>1 DEF Begun
<1> QED
  BY <1>2, <1>3

\* The provider comes up and shows what it took; the question of trust is answered
LEMMA ProviderKeeps ==
  ASSUME LaunchInv, NEW c \in Children, ProviderReady(c) \/ ProviderShows(c) \/ AcceptTrust(c)
  PROVE  LaunchInv'
<1>0. /\ Placed(launcher[c], term[c]) /\ term[c] \in Terms /\ IsLauncher(launcher[c]) /\ DOMAIN launcher = Children
      /\ launcher' = launcher /\ child' = child /\ review' = review /\ launchCase' = launchCase
      /\ library' = library
  BY DEF LaunchInv, ChildOK, LaunchTypes, ProviderReady, ProviderShows, AcceptTrust
<1>1. launcher[c].pc \notin Early
  BY NotEarly DEF ProviderReady, ProviderShows, AcceptTrust
<1>2. term[c].shown \in Nat /\ Len(term[c].took) \in Nat
  BY <1>0, TermFields
<1>3. PICK t \in Terms : /\ term' = [term EXCEPT ![c] = t] /\ t.draft = term[c].draft /\ t.took = term[c].took
                         /\ t.shown <= Len(t.took)
  <2>1. CASE ProviderReady(c) \/ AcceptTrust(c)
    <3>1. PICK t : /\ t \in {[term[c] EXCEPT !.ready = TRUE], [term[c] EXCEPT !.trust = FALSE]}
                   /\ term' = [term EXCEPT ![c] = t]
      BY <2>1 DEF ProviderReady, AcceptTrust
    <3>2. t \in Terms /\ t.draft = term[c].draft /\ t.took = term[c].took /\ t.shown = term[c].shown
      <4>1. CASE t = [term[c] EXCEPT !.ready = TRUE]
        BY <1>0, <4>1, TermSet
      <4>2. CASE t = [term[c] EXCEPT !.trust = FALSE]
        BY <1>0, <4>2, TermSet
      <4> QED
        BY <3>1, <4>1, <4>2
    <3> QED
      BY <1>0, <3>1, <3>2 DEF Placed
  <2>2. CASE ProviderShows(c)
    <3>1. PICK n, t : n = term[c].shown + 1 /\ t = [term[c] EXCEPT !.shown = n] /\ term' = [term EXCEPT ![c] = t]
      BY <2>2 DEF ProviderShows
    <3>2. n \in Nat /\ n <= Len(term[c].took)
      BY <1>2, <2>2, <3>1 DEF ProviderShows
    <3>3. t \in Terms /\ t.draft = term[c].draft /\ t.took = term[c].took /\ t.shown = n
      BY <1>0, <3>1, <3>2 DEF Terms
    <3> QED
      BY <3>1, <3>2, <3>3
  <2> QED
    BY <2>1, <2>2
<1>4. Placed(launcher[c], t)
  BY <1>0, <1>3 DEF Placed
<1> QED
  BY <1>0, <1>1, <1>3, <1>4, TerminalStep

\* The text is typed into a composer that does not hold it
LEMMA TypeBriefKeeps ==
  ASSUME LaunchInv, NEW c \in Children, TypeBrief(c)
  PROVE  LaunchInv'
<1>0. /\ Begun(c) /\ Placed(launcher[c], term[c]) /\ term[c] \in Terms /\ IsLauncher(launcher[c])
      /\ launcher[c].pc = "text" /\ review' = review /\ launchCase' = launchCase /\ library' = library
  BY DEF LaunchInv, ChildOK, LaunchTypes, TypeBrief
<1>1. CASE BriefFails(c) /\ term' = term
  <2>1. MovesOn(c, "failed") /\ ChildSet(c)
    BY <1>1 DEF BriefFails, ChildSet
  <2> QED
    BY <1>0, <1>1, <2>1, HandlerMoves DEF LaunchPcs, Untyped, Early, BriefPcs, ReviewPcs
<1>2. CASE /\ MovesOn(c, "enter") /\ child' = child
           /\ term' = [term EXCEPT ![c].draft = Append(@, launcher[c].text)]
  <2>1. /\ DOMAIN launcher' = Children /\ \A d \in Children : d # c => launcher'[d] = launcher[d]
        /\ IsLauncher(launcher'[c]) /\ launcher'[c].pc = "enter" /\ launcher'[c].text = launcher[c].text
    BY <1>2, Moved DEF LaunchPcs, BriefPcs
  <2>2. PICK x, t : x = launcher[c].text /\ t = [term[c] EXCEPT !.draft = Append(term[c].draft, x)]
    OBVIOUS
  <2>3. term' = [term EXCEPT ![c] = t]
    BY <1>2, <2>2
  <2>4. x \in Texts
    BY <1>0, <2>2 DEF IsLauncher
  <2>5. /\ t \in Terms /\ t.draft = Append(term[c].draft, x) /\ t.took = term[c].took
        /\ t.shown = term[c].shown
    BY <1>0, <2>2, <2>4, DraftGrows
  <2>6. Spots(term[c].draft, x) = {} /\ Spots(term[c].took, x) = {}
    BY <1>0, <2>2 DEF Placed, Untyped
  <2>7. Spots(t.draft, x) = {} \union {Len(term[c].draft) + 1}
    BY <1>0, <2>4, <2>5, <2>6, TermFields, SpotsAppended
  <2>8. Placed(launcher'[c], t)
    BY <1>0, <2>1, <2>2, <2>5, <2>6, <2>7 DEF Placed, Single, Untyped, Early
  <2>9. launchCase.part = "brief" /\ launcher[c].pc \notin Early
    BY <1>0 DEF Begun, BriefPcs, Early
  <2> QED
    BY <1>0, <1>2, <2>1, <2>2, <2>3, <2>5, <2>8, <2>9, TerminalStep
<1> QED
  BY <1>1, <1>2 DEF TypeBrief

LEMMA SubmitBriefKeeps ==
  ASSUME LaunchInv, NEW c \in Children, SubmitBrief(c)
  PROVE  LaunchInv'
<1>0. /\ Begun(c) /\ Placed(launcher[c], term[c]) /\ term[c] \in Terms /\ IsLauncher(launcher[c])
      /\ launcher[c].pc = "enter" /\ review' = review /\ launchCase' = launchCase /\ library' = library
  BY DEF LaunchInv, ChildOK, LaunchTypes, SubmitBrief
<1>1. CASE BriefFails(c) /\ term' = term
  <2>1. MovesOn(c, "failed") /\ ChildSet(c)
    BY <1>1 DEF BriefFails, ChildSet
  <2> QED
    BY <1>0, <1>1, <2>1, HandlerMoves DEF LaunchPcs, Untyped, Early, BriefPcs, ReviewPcs
<1>2. CASE /\ MovesOn(c, "await") /\ child' = child
           /\ term' = [term EXCEPT ![c] = Submitted(@)]
  <2>1. /\ DOMAIN launcher' = Children /\ \A d \in Children : d # c => launcher'[d] = launcher[d]
        /\ IsLauncher(launcher'[c]) /\ launcher'[c].pc = "await" /\ launcher'[c].text = launcher[c].text
    BY <1>2, Moved DEF LaunchPcs, BriefPcs
  <2>2. PICK t : t = Submitted(term[c])
    OBVIOUS
  <2>3. term' = [term EXCEPT ![c] = t] /\ t \in Terms
    BY <1>0, <1>2, <2>2, SubmittedTerm
  <2>4. "await" \notin Untyped
    BY DEF Untyped, Early
  <2>5. PICK m : m = launcher'[c]
    OBVIOUS
  <2>6. /\ Placed(m, t)
        /\ Spots(term[c].took, launcher[c].text) # {} => Spots(t.took, launcher[c].text) # {}
    BY <1>0, <2>1, <2>2, <2>4, <2>5, PlacedSubmitted
  <2>7. launchCase.part = "brief" /\ launcher[c].pc \notin Early
    BY <1>0 DEF Begun, BriefPcs, Early
  <2> QED
    BY <1>0, <1>2, <2>1, <2>3, <2>5, <2>6, <2>7, TerminalStep
<1> QED
  BY <1>1, <1>2 DEF SubmitBrief

\* Whatever a person does at the terminal, the brief is not run twice
LEMMA MeddleKeeps ==
  ASSUME LaunchInv, NEW c \in Children, Meddle(c)
  PROVE  LaunchInv'
<1>0. /\ Placed(launcher[c], term[c]) /\ term[c] \in Terms /\ IsLauncher(launcher[c]) /\ DOMAIN launcher = Children
      /\ launcher' = launcher /\ child' = child /\ review' = review /\ launchCase' = launchCase
      /\ library' = library
  BY DEF LaunchInv, ChildOK, LaunchTypes, Meddle
<1>1. launcher[c].pc \notin Early
  BY NotEarly DEF Meddle
<1>2. ASSUME NEW b \in BOOLEAN, term' = [term EXCEPT ![c].attached = b] PROVE LaunchInv'
  <2>1. PICK t : t = [term[c] EXCEPT !.attached = b] /\ term' = [term EXCEPT ![c] = t]
    BY <1>2
  <2>2. t \in Terms /\ t.draft = term[c].draft /\ t.took = term[c].took /\ t.shown = term[c].shown
    BY <1>0, <1>2, <2>1, TermSet
  <2>3. Placed(launcher[c], t)
    BY <1>0, <2>2 DEF Placed
  <2> QED
    BY <1>0, <1>1, <2>1, <2>2, <2>3, TerminalStep
<1>3. CASE term' = [term EXCEPT ![c].draft = Append(@, "human")]
  <2>1. PICK t : t = [term[c] EXCEPT !.draft = Append(term[c].draft, "human")] /\ term' = [term EXCEPT ![c] = t]
    BY <1>3
  <2>2. /\ t \in Terms /\ t.draft = Append(term[c].draft, "human") /\ t.took = term[c].took
        /\ t.shown = term[c].shown
    BY <1>0, <2>1, DraftGrows
  <2>3. launcher[c].text # "human"
    BY <1>0, LaunchAssumption DEF IsLauncher, Texts
  <2>4. Spots(t.draft, launcher[c].text) = Spots(term[c].draft, launcher[c].text)
    BY <1>0, <2>2, <2>3, TermFields, SpotsAppended
  <2>5. Placed(launcher[c], t)
    BY <1>0, <2>2, <2>4 DEF Placed
  <2> QED
    BY <1>0, <1>1, <2>1, <2>2, <2>5, TerminalStep
<1>4. CASE term' = [term EXCEPT ![c] = Submitted(@)]
  <2>1. PICK t : t = Submitted(term[c]) /\ term' = [term EXCEPT ![c] = t]
    BY <1>4
  <2>2. /\ t \in Terms /\ Placed(launcher[c], t)
        /\ Spots(term[c].took, launcher[c].text) # {} => Spots(t.took, launcher[c].text) # {}
    BY <1>0, <2>1, SubmittedTerm, PlacedSubmitted
  <2> QED
    BY <1>0, <1>1, <2>1, <2>2, TerminalStep
<1> QED
  BY <1>2, <1>3, <1>4 DEF Meddle

\* The review of a child moves, with its handler
LEMMA MenuStep ==
  ASSUME LaunchInv, NEW c \in Children, NEW r, DOMAIN r = ReviewFields, review' = [review EXCEPT ![c] = r],
         child' = child, term' = term, launchCase' = launchCase, library' = library,
         DOMAIN launcher' = Children, \A d \in Children : d # c => launcher'[d] = launcher[d],
         IsLauncher(launcher'[c]), launcher'[c].text = launcher[c].text,
         \/ launcher'[c].pc = launcher[c].pc
         \/ launcher'[c].pc \in {"keys", "started", "refused", "done"} /\ launchCase.part = "review",
         launchCase.part = "review" =>
           /\ launcher'[c].pc = "keys" => Leads(launcher'[c].keys, r, launchCase.mode)
           /\ launcher'[c].pc \in {"started", "done"} => r.started = launchCase.mode
  PROVE  LaunchInv'
<1>0. /\ LaunchTypes /\ LibraryOK /\ Begun(c) /\ Placed(launcher[c], term[c]) /\ HandedOut(c)
  BY DEF LaunchInv, ChildOK
<1>1. Only(c) /\ review'[c] = r /\ term'[c] = term[c] /\ child'[c] = child[c]
  BY <1>0 DEF LaunchTypes, Only
<1>2. LibraryOK'
  BY <1>0, <1>1 DEF LibraryOK, Only
<1>3. Begun(c)'
  BY <1>0, <1>1 DEF Begun, BriefPcs, Early
<1>4. Placed(launcher[c], term[c])'
  <2>1. launcher'[c].pc \in Untyped => launcher[c].pc \in Untyped
    BY DEF Untyped, Early
  <2>2. launcher'[c].pc = "made" => launcher[c].pc = "made"
    OBVIOUS
  <2> QED
    BY <1>0, <1>1, <2>1, <2>2 DEF Placed
<1>5. Asked(c)'
  BY <1>1 DEF Asked, Leads, At
<1>6. HandedOut(c)'
  BY <1>0, <1>1 DEF HandedOut
<1>7. term'[c] \in Terms
  BY <1>0, <1>1 DEF LaunchTypes
<1> QED
  BY <1>1, <1>2, <1>3, <1>4, <1>5, <1>6, <1>7, ChildStep DEF ChildOK

\* A review begins, is refused, or is asked for by a comment
LEMMA ReviewBegins ==
  ASSUME LaunchInv, NEW c \in Children, SpawnReviewSession(c) \/ StartPrReview(c) \/ RefuseReview(c)
  PROVE  LaunchInv'
<1>1. term' = term /\ review' = review /\ launchCase' = launchCase /\ library' = library /\ ChildSet(c)
  BY DEF SpawnReviewSession, StartPrReview, RefuseReview, RetireReviewChild, ChildSet
<1>2. CASE SpawnReviewSession(c)
  <2>1. /\ MovesOn(c, "create") /\ launchCase.part = "review" /\ launcher[c].pc = "none" /\ child' = child
    BY <1>2 DEF SpawnReviewSession, MovesOn
  <2>2. launcher[c].pc \in Early /\ launcher[c].pc \in Untyped
    BY <2>1 DEF Early, Untyped
  <2> QED
    BY <1>1, <2>1, <2>2, HandlerMoves DEF LaunchPcs, Early, BriefPcs, ReviewPcs
<1>3. CASE StartPrReview(c) \/ RefuseReview(c)
  <2>1. PICK pc \in {"done", "answered"} : MovesOn(c, pc) /\ (pc = "done" => launchCase.part = "pr")
    BY <1>3 DEF StartPrReview, RefuseReview
  <2>2. pc \in LaunchPcs /\ pc \notin Untyped /\ pc \notin BriefPcs /\ pc \notin ReviewPcs
    BY <2>1 DEF LaunchPcs, Untyped, Early, BriefPcs, ReviewPcs
  <2> QED
    BY <1>1, <2>1, <2>2, HandlerMoves
<1> QED
  BY <1>2, <1>3

LEMMA StartReviewKeeps ==
  ASSUME LaunchInv, NEW c \in Children, StartReview(c)
  PROVE  LaunchInv'
<1>0. /\ Begun(c) /\ IsLauncher(launcher[c]) /\ DOMAIN launcher = Children /\ DOMAIN review[c] = ReviewFields
      /\ launcher[c].pc = "settle" /\ child' = child /\ term' = term /\ launchCase' = launchCase /\ library' = library
  BY DEF LaunchInv, ChildOK, LaunchTypes, StartReview
<1>1. launchCase.part = "review"
  BY <1>0 DEF Begun, ReviewPcs
<1>2. CASE MovesOn(c, "refused") /\ review' = review
  <2>1. ChildSet(c)
    BY <1>0 DEF ChildSet
  <2> QED
    BY <1>0, <1>1, <1>2, <2>1, HandlerMoves DEF LaunchPcs, Untyped, Early, BriefPcs, ReviewPcs
<1>3. CASE /\ review' = [review EXCEPT ![c].dispatching = TRUE, ![c].steer = "queued"]
           /\ launcher' = [launcher EXCEPT ![c].pc = "keys", ![c].keys = ReviewKeys(launchCase.mode)]
  <2>1. PICK r : r = [review[c] EXCEPT !.dispatching = TRUE, !.steer = "queued"] /\ review' = [review EXCEPT ![c] = r]
    BY <1>3
  <2>2. DOMAIN r = ReviewFields
    BY <1>0, <2>1
  <2>3. PICK keys : keys = ReviewKeys(launchCase.mode)
    OBVIOUS
  <2>4. PICK l : l = [launcher[c] EXCEPT !.pc = "keys", !.keys = keys]
    OBVIOUS
  <2>5. DOMAIN launcher' = Children /\ launcher'[c] = l /\ \A d \in Children : d # c => launcher'[d] = launcher[d]
    BY <1>0, <1>3, <2>3, <2>4
  <2>6. IsLauncher(l) /\ l.pc = "keys" /\ l.text = launcher[c].text /\ l.keys = keys
    BY <1>0, <2>4 DEF IsLauncher, LaunchPcs, ReviewPcs
  <2>7. Leads(keys, r, launchCase.mode)
    BY <2>3 DEF Leads
  <2> QED
    BY <1>0, <1>1, <2>1, <2>2, <2>5, <2>6, <2>7, MenuStep
<1> QED
  BY <1>2, <1>3 DEF StartReview

\* A key is sent, and brings the review closer to the one that was asked for
LEMMA SendReviewKeyKeeps ==
  ASSUME LaunchInv, NEW c \in Children, SendReviewKey(c)
  PROVE  LaunchInv'
<1>0. /\ Begun(c) /\ Asked(c) /\ LaunchTypes
      /\ IsLauncher(launcher[c]) /\ DOMAIN launcher = Children /\ DOMAIN review[c] = ReviewFields
      /\ launcher[c].pc = "keys" /\ child' = child /\ term' = term /\ launchCase' = launchCase /\ library' = library
  BY DEF LaunchInv, ChildOK, LaunchTypes, SendReviewKey
<1>1. launchCase.part = "review"
  BY <1>0 DEF Begun, ReviewPcs
<1>2. launchCase.mode \in Modes /\ Leads(launcher[c].keys, review[c], launchCase.mode)
  BY <1>0, <1>1 DEF Asked, LaunchTypes
<1>3. CASE /\ launcher[c].keys # <<>>
           /\ review' = [review EXCEPT ![c] = Pressed(@, Head(launcher[c].keys))]
           /\ launcher' = [launcher EXCEPT ![c].keys = Tail(@)]
  <2>1. PICK keys, rest : keys = launcher[c].keys /\ rest = Tail(keys)
    OBVIOUS
  <2>2. PICK r : r = Pressed(review[c], Head(keys)) /\ review' = [review EXCEPT ![c] = r]
    BY <1>3, <2>1
  <2>3. keys # NoKeys
    BY <1>3, <2>1 DEF NoKeys
  <2>4. DOMAIN r = ReviewFields
    <3>1. \A key : DOMAIN Pressed(review[c], key) = ReviewFields
      BY <1>0, KeyPressed, Zenon
    <3> QED
      BY <2>2, <3>1, Zenon
  <2>5. Leads(rest, r, launchCase.mode)
    BY <1>0, <1>2, <2>1, <2>2, <2>3, KeysLead
  <2>6. PICK l : l = [launcher[c] EXCEPT !.keys = rest]
    OBVIOUS
  <2>7. DOMAIN launcher' = Children /\ launcher'[c] = l /\ \A d \in Children : d # c => launcher'[d] = launcher[d]
    BY <1>0, <1>3, <2>1, <2>6
  <2>8. IsLauncher(l) /\ l.pc = "keys" /\ l.text = launcher[c].text /\ l.keys = rest
    BY <1>0, <2>6 DEF IsLauncher
  <2> QED
    BY <1>0, <1>1, <2>2, <2>4, <2>5, <2>7, <2>8, MenuStep
<1>4. ASSUME NEW pc \in {"started", "refused"}, pc = "started" => launcher[c].keys = <<>>,
             review' = [review EXCEPT ![c].dispatching = FALSE], MovesOn(c, pc)
      PROVE  LaunchInv'
  <2>1. PICK r : r = [review[c] EXCEPT !.dispatching = FALSE] /\ review' = [review EXCEPT ![c] = r]
    BY <1>4
  <2>2. DOMAIN r = ReviewFields /\ r.started = review[c].started
    BY <1>0, <2>1 DEF ReviewFields
  <2>3. pc \in LaunchPcs
    BY <1>4 DEF LaunchPcs, ReviewPcs
  <2>4. /\ DOMAIN launcher' = Children /\ \A d \in Children : d # c => launcher'[d] = launcher[d]
        /\ IsLauncher(launcher'[c]) /\ launcher'[c].pc = pc /\ launcher'[c].text = launcher[c].text
    BY <1>4, <2>3, Moved
  <2>5. pc = "started" => r.started = launchCase.mode
    <3> SUFFICES ASSUME pc = "started" PROVE review[c].started = launchCase.mode
      BY <2>2
    <3>1. Leads(NoKeys, review[c], launchCase.mode)
      BY <1>2, <1>4 DEF NoKeys
    <3>2. launchCase.mode \in Modes
      BY <1>2
    <3> QED
      BY <3>1, <3>2, KeysOver, Zenon
  <2> QED
    BY <1>0, <1>1, <1>4, <2>1, <2>2, <2>4, <2>5, MenuStep
<1> QED
  BY <1>3, <1>4 DEF SendReviewKey

\* The steer and what is kept of a review; a pull request's review lands
LEMMA ReviewGoesOn ==
  ASSUME LaunchInv, NEW c \in Children, AnswerReview(c) \/ SendSteer(c) \/ PrReviewLands(c)
  PROVE  LaunchInv'
<1>0. /\ Begun(c) /\ Asked(c) /\ IsLauncher(launcher[c]) /\ DOMAIN launcher = Children
      /\ DOMAIN review[c] = ReviewFields
      /\ child' = child /\ term' = term /\ launchCase' = launchCase /\ library' = library
  BY DEF LaunchInv, ChildOK, LaunchTypes, AnswerReview, SendSteer, PrReviewLands
<1>1. CASE AnswerReview(c)
  <2>1. launcher[c].pc = "started" /\ MovesOn(c, "done")
    BY <1>1 DEF AnswerReview
  <2>2. PICK r : r = [review[c] EXCEPT !.steer = "timed"] /\ review' = [review EXCEPT ![c] = r]
    BY <1>1 DEF AnswerReview
  <2>3. DOMAIN r = ReviewFields /\ r.started = review[c].started
    BY <1>0, <2>2 DEF ReviewFields
  <2>4. launchCase.part = "review" /\ r.started = launchCase.mode
    BY <1>0, <2>1, <2>3 DEF Begun, ReviewPcs, Asked
  <2>5. /\ DOMAIN launcher' = Children /\ \A d \in Children : d # c => launcher'[d] = launcher[d]
        /\ IsLauncher(launcher'[c]) /\ launcher'[c].pc = "done" /\ launcher'[c].text = launcher[c].text
    BY <2>1, Moved DEF LaunchPcs
  <2> QED
    BY <1>0, <2>2, <2>3, <2>4, <2>5, MenuStep
<1>2. CASE SendSteer(c)
  <2>1. PICK steer, r : r = [review[c] EXCEPT !.steer = steer] /\ review' = [review EXCEPT ![c] = r]
    BY <1>2 DEF SendSteer
  <2>2. /\ DOMAIN r = ReviewFields /\ r.started = review[c].started /\ r.menu = review[c].menu
        /\ r.at = review[c].at
    BY <1>0, <2>1 DEF ReviewFields
  <2>3. launcher' = launcher
    BY <1>2 DEF SendSteer
  <2>4. launchCase.part = "review" =>
          /\ launcher[c].pc = "keys" => Leads(launcher[c].keys, r, launchCase.mode)
          /\ launcher[c].pc \in {"started", "done"} => r.started = launchCase.mode
    BY <1>0, <2>2 DEF Asked, Leads, At
  <2> QED
    BY <1>0, <2>1, <2>2, <2>3, <2>4, MenuStep
<1>3. CASE PrReviewLands(c)
  <2>1. PICK r : r = [review[c] EXCEPT !.started = "pr"] /\ review' = [review EXCEPT ![c] = r]
    BY <1>3 DEF PrReviewLands
  <2>2. DOMAIN r = ReviewFields
    BY <1>0, <2>1
  <2>3. launcher' = launcher /\ launchCase.part # "review"
    BY <1>3 DEF PrReviewLands
  <2> QED
    BY <1>0, <2>1, <2>2, <2>3, MenuStep
<1> QED
  BY <1>1, <1>2, <1>3

\* The child's runtime ends
LEMMA ChildEndsKeeps ==
  ASSUME LaunchInv, NEW c \in Children, ChildEnds(c)
  PROVE  LaunchInv'
<1>0. /\ LaunchTypes /\ LibraryOK /\ Begun(c) /\ Placed(launcher[c], term[c]) /\ Asked(c) /\ HandedOut(c)
      /\ launcher' = launcher /\ term' = term /\ review' = review /\ launchCase' = launchCase
      /\ library' = library /\ ChildSet(c) /\ child[c] = "up"
  BY DEF LaunchInv, ChildOK, ChildEnds, ChildSet
<1>1. launcher[c].pc \notin Early
  BY <1>0, NotEarly
<1>2. Only(c)
  BY <1>0, OnlyHandler DEF LaunchTypes
<1>3. LibraryOK'
  BY <1>0 DEF LibraryOK
<1>4. Begun(c)'
  BY <1>0, <1>1 DEF Begun
<1>5. Placed(launcher[c], term[c])' /\ Asked(c)' /\ HandedOut(c)'
  BY <1>0 DEF Placed, Asked, HandedOut, Leads, At
<1>6. IsLauncher(launcher'[c]) /\ term'[c] \in Terms /\ DOMAIN review'[c] = ReviewFields
  BY <1>0 DEF LaunchTypes
<1> QED
  BY <1>2, <1>3, <1>4, <1>5, <1>6, ChildStep DEF ChildOK

\* Nothing the invariant is about changes
LEMMA LaunchStutters ==
  ASSUME LaunchInv, launcher' = launcher, child' = child, term' = term, review' = review,
         launchCase' = launchCase, library' = library
  PROVE  LaunchInv'
<1>1. LaunchTypes /\ LibraryOK
  BY DEF LaunchInv
<1>2. LaunchTypes' /\ LibraryOK'
  BY <1>1 DEF LaunchTypes, LibraryOK, IsLauncher
<1>3. ASSUME NEW c \in Children PROVE ChildOK(c)'
  <2>1. Begun(c) /\ Placed(launcher[c], term[c]) /\ Asked(c) /\ HandedOut(c)
    BY DEF LaunchInv, ChildOK
  <2>2. Begun(c)'
    BY <2>1 DEF Begun
  <2>3. Placed(launcher[c], term[c])' /\ Asked(c)' /\ HandedOut(c)'
    BY <2>1 DEF Placed, Asked, HandedOut, Leads, At
  <2> QED
    BY <2>2, <2>3 DEF ChildOK
<1> QED
  BY <1>2, <1>3 DEF LaunchInv

\* A crash ends the handlers; what is on disk for good stays, and so does what was typed
LEMMA LaunchCrashKeeps ==
  ASSUME LaunchInv, LaunchCrash
  PROVE  LaunchInv'
<1>0. LaunchTypes /\ LibraryOK /\ term' = term /\ launchCase' = launchCase
  BY DEF LaunchInv, LaunchCrash
<1> DEFINE Kept == {"none", "done", "answered", "failed"}
<1>1. /\ DOMAIN launcher' = Children /\ DOMAIN review' = Children /\ DOMAIN child' = Children
  BY DEF LaunchCrash
<1>2. ASSUME NEW c \in Children
      PROVE  /\ IsLauncher(launcher'[c]) /\ launcher'[c].text = launcher[c].text
             /\ \/ launcher[c].pc \in Kept /\ launcher'[c].pc = launcher[c].pc
                \/ launcher[c].pc \notin Kept /\ launcher'[c].pc = "lost"
  <2>0. IsLauncher(launcher[c])
    BY <1>0 DEF LaunchTypes
  <2>1. CASE launcher[c].pc \in Kept
    <3>1. launcher'[c] = launcher[c]
      BY <2>1 DEF LaunchCrash
    <3> QED
      BY <2>0, <2>1, <3>1
  <2>2. CASE launcher[c].pc \notin Kept
    <3>1. PICK l : l = [launcher[c] EXCEPT !.pc = "lost"]
      OBVIOUS
    <3>2. launcher'[c] = l
      BY <2>2, <3>1 DEF LaunchCrash
    <3>3. IsLauncher(l) /\ l.pc = "lost" /\ l.text = launcher[c].text
      BY <2>0, <3>1 DEF IsLauncher, LaunchPcs
    <3> QED
      BY <2>2, <3>2, <3>3
  <2> QED
    BY <2>1, <2>2
<1>3. ASSUME NEW c \in Children
      PROVE  DOMAIN review'[c] = ReviewFields /\ review'[c].started = review[c].started
  <2>0. DOMAIN review[c] = ReviewFields
    BY <1>0 DEF LaunchTypes
  <2>1. PICK s, r : r = [review[c] EXCEPT !.steer = s] /\ review'[c] = r
    BY DEF LaunchCrash
  <2>2. DOMAIN r = ReviewFields /\ r.started = review[c].started
    BY <2>0, <2>1 DEF ReviewFields
  <2> QED
    BY <2>1, <2>2
<1>4. ASSUME NEW c \in Children, child[c] = "none" PROVE child'[c] = "none"
  BY <1>4 DEF LaunchCrash
<1>5. /\ DOMAIN library' = {"kept", "synced", "intents"} /\ library'.kept \in {library.kept, library.synced}
      /\ library'.synced = library.synced /\ library'.intents = library.intents
  <2>1. library' = library \/ library' = [library EXCEPT !.kept = library.synced]
    BY DEF LaunchCrash
  <2>2. CASE library' = library
    BY <1>0, <2>2 DEF LibraryOK
  <2>3. CASE library' = [library EXCEPT !.kept = library.synced]
    BY <1>0, <2>3 DEF LibraryOK
  <2> QED
    BY <2>1, <2>2, <2>3
<1>6. LibraryOK'
  <2>1. \A c \in Children : launcher'[c].pc # "sync"
    BY <1>2
  <2> QED
    BY <1>0, <1>5, <2>1 DEF LibraryOK
<1>7. LaunchTypes'
  <2>1. \A c \in Children : IsLauncher(launcher'[c]) /\ term'[c] \in Terms /\ DOMAIN review'[c] = ReviewFields
    BY <1>0, <1>2, <1>3 DEF LaunchTypes
  <2> QED
    BY <1>0, <1>1, <2>1 DEF LaunchTypes, IsLauncher
<1>8. ASSUME NEW c \in Children PROVE ChildOK(c)'
  <2>0. Begun(c) /\ Placed(launcher[c], term[c]) /\ Asked(c) /\ HandedOut(c)
    BY DEF LaunchInv, ChildOK
  <2>1. /\ launcher'[c].text = launcher[c].text
        /\ launcher'[c].pc \in Kept \union {"lost"}
        /\ launcher'[c].pc \in Kept => launcher'[c].pc = launcher[c].pc
    BY <1>2
  <2>2. Begun(c)'
    <3>1. launcher'[c].pc \in Early => launcher[c].pc \in Early
      BY <2>1 DEF Early
    <3>2. launcher'[c].pc \notin BriefPcs \union ReviewPcs \union {"create"}
      BY <2>1 DEF BriefPcs, ReviewPcs
    <3> QED
      BY <1>0, <1>4, <2>0, <3>1, <3>2 DEF Begun
  <2>3. Placed(launcher[c], term[c])'
    <3>1. launcher'[c].pc \in Untyped => launcher[c].pc \in Untyped
      BY <2>1 DEF Untyped, Early
    <3>2. launcher'[c].pc # "made"
      BY <2>1
    <3> QED
      BY <1>0, <2>0, <2>1, <3>1, <3>2 DEF Placed
  <2>4. Asked(c)'
    <3>1. launcher'[c].pc \notin {"keys", "started"}
      BY <2>1
    <3>2. launcher'[c].pc = "done" => launcher[c].pc = "done"
      BY <2>1
    <3> QED
      BY <1>0, <1>3, <2>0, <3>1, <3>2 DEF Asked
  <2>5. HandedOut(c)'
    BY <1>0, <2>0, <2>1 DEF HandedOut
  <2> QED
    BY <2>2, <2>3, <2>4, <2>5 DEF ChildOK
<1> QED
  BY <1>6, <1>7, <1>8 DEF LaunchInv

LEMMA LaunchInitOK ==
  ASSUME LaunchInit PROVE LaunchInv
<1>1. launchCase.part = "review" => launchCase.mode \in Modes
  <2>1. PICK x \in LaunchCases : launchCase = CaseOf(x)
    BY DEF LaunchInit
  <2>2. x \in {"claude", "codex-fork", "main", "topic", "uncommitted", "commit", "custom", "pr"}
    BY LaunchAssumption
  <2>3. CASE x \in {"claude", "codex-fork"}
    BY <2>1, <2>3 DEF CaseOf
  <2>4. CASE x = "pr"
    BY <2>1, <2>4 DEF CaseOf
  <2>5. CASE x \in Modes
    BY <2>1, <2>5 DEF CaseOf, Modes
  <2> QED
    BY <2>2, <2>3, <2>4, <2>5 DEF Modes
<1>2. PICK e : e = <<>>
  OBVIOUS
<1>3. PICK l : l = [pc |-> "none", text |-> "none", from |-> 0, keys |-> e]
  OBVIOUS
<1>4. IsLauncher(l) /\ l.pc = "none"
  BY <1>3 DEF IsLauncher, LaunchPcs, Early, Texts
<1>5. PICK r : r = NoReview /\ DOMAIN r = ReviewFields
  <2>1. DOMAIN NoReview = ReviewFields
    BY DEF NoReview, ReviewFields
  <2> QED
    BY <2>1, Zenon
<1>6. /\ launcher = [c \in Children |-> l] /\ child = [c \in Children |-> "none"]
      /\ term = [c \in Children |-> NoTerm] /\ review = [c \in Children |-> r]
  <2>1. NoLauncher = l
    BY <1>2, <1>3, Zenon DEF NoLauncher
  <2>2. launcher = [c \in Children |-> l]
    BY <2>1, Zenon DEF LaunchInit
  <2> QED
    BY <1>5, <2>2, Zenon DEF LaunchInit
<1>7. LaunchTypes
  BY <1>1, <1>4, <1>5, <1>6, NoTermPlaced DEF LaunchTypes
<1>8. LibraryOK
  <2>1. library = [kept |-> {}, synced |-> {}, intents |-> {}]
    BY DEF LaunchInit
  <2> QED
    BY <1>4, <1>6, <2>1 DEF LibraryOK
<1>9. ASSUME NEW c \in Children PROVE ChildOK(c)
  <2>1. launcher[c] = l /\ child[c] = "none" /\ term[c] = NoTerm
    BY <1>6
  <2>2. Begun(c)
    BY <1>4, <2>1 DEF Begun, BriefPcs, ReviewPcs
  <2>3. Placed(launcher[c], term[c])
    BY <1>4, <2>1, NoTermPlaced
  <2>4. Asked(c) /\ HandedOut(c)
    BY <1>4, <2>1 DEF Asked, HandedOut
  <2> QED
    BY <2>2, <2>3, <2>4 DEF ChildOK
<1> QED
  BY <1>7, <1>8, <1>9 DEF LaunchInv

LEMMA LaunchKeeps ==
  ASSUME LaunchInv, [LaunchNext]_launchVars
  PROVE  LaunchInv'
<1>1. CASE LaunchCrash
  BY <1>1, LaunchCrashKeeps
<1>2. CASE UNCHANGED launchVars
  BY <1>2, LaunchStutters DEF launchVars
<1>3. ASSUME NEW c \in Children, NEW text \in Briefs, SpawnSession(c, text) PROVE LaunchInv'
  BY <1>3, SpawnSessionKeeps
<1>4. ASSUME NEW c \in Children,
             SpawnReviewSession(c) \/ StartPrReview(c) \/ PrReviewLands(c) \/ CreateChild(c) \/ ReviewStep(c)
      PROVE  LaunchInv'
  BY <1>4, ReviewBegins, ReviewGoesOn, CreateChildKeeps, StartReviewKeeps, SendReviewKeyKeeps DEF ReviewStep
<1>5. ASSUME NEW c \in Children, BriefStep(c) PROVE LaunchInv'
  BY <1>5, RecordIntentKeeps, BriefSteps, NotingSteps, ProviderKeeps, TypeBriefKeeps, SubmitBriefKeeps
     DEF BriefStep
<1>6. ASSUME NEW c \in Children,
             ProviderReady(c) \/ ProviderShows(c) \/ Meddle(c) \/ ChildEnds(c)
      PROVE  LaunchInv'
  BY <1>6, ProviderKeeps, MeddleKeeps, ChildEndsKeeps
<1>7. ASSUME NEW c \in Children, PrNotifierFires(c) \/ MonitorFires(c) \/ MonitorLooks(c) \/ Moves(c)
      PROVE  LaunchInv'
  BY <1>7, LaunchStutters DEF PrNotifierFires, MonitorFires, MonitorLooks, Moves
<1> QED
  BY <1>1, <1>2, <1>3, <1>4, <1>5, <1>6, <1>7 DEF LaunchNext

\* What the invariant says of the turns a child has taken
LEMMA TurnsCounted ==
  ASSUME NEW s, DOMAIN s = 1..Len(s), NEW text, Single(Spots(s, text))
  PROVE  /\ Cardinality({i \in 1..Len(s) : s[i] = text}) <= 1
         /\ Spots(s, text) # {} => Cardinality({i \in 1..Len(s) : s[i] = text}) = 1
<1>1. PICK S : S = Spots(s, text)
  OBVIOUS
<1>2. {i \in 1..Len(s) : s[i] = text} = S
  BY <1>1 DEF Spots
<1> SUFFICES Cardinality(S) <= 1 /\ (S # {} => Cardinality(S) = 1)
  BY <1>1, <1>2, Zenon
<1>3. CASE S = {}
  <2>1. Cardinality(S) = 0
    BY <1>3, FS_EmptySet
  <2> QED
    BY <1>3, <2>1
<1>4. CASE S # {}
  <2>1. PICK i \in S : S = {i}
    BY <1>1, <1>4 DEF Single
  <2>2. Cardinality(S) = 1
    BY <2>1, FS_Singleton
  <2> QED
    BY <1>4, <2>2
<1> QED
  BY <1>3, <1>4

LEMMA LaunchInvRight ==
  ASSUME LaunchInv PROVE LaunchIsRight
<1>1. IntentHasBrief
  BY DEF LaunchInv, LibraryOK, IntentHasBrief
<1>2. BriefTakenOnce
  <2> SUFFICES ASSUME NEW c \in Children
               PROVE  LET n == Cardinality({i \in 1..Len(term[c].took) : term[c].took[i] = launcher[c].text})
                      IN n <= 1 /\ (launchCase.part = "brief" /\ launcher[c].pc \in {"made", "done"} => n = 1)
    BY DEF BriefTakenOnce
  <2>0. Placed(launcher[c], term[c]) /\ HandedOut(c) /\ term[c] \in Terms
    BY DEF LaunchInv, ChildOK, LaunchTypes
  <2>1. PICK s, text : s = term[c].took /\ text = launcher[c].text
    OBVIOUS
  <2>2. DOMAIN s = 1..Len(s) /\ Single(Spots(s, text))
    BY <2>0, <2>1, TermFields DEF Placed
  <2>3. PICK n : n = Cardinality({i \in 1..Len(s) : s[i] = text})
    OBVIOUS
  <2>4. n <= 1 /\ (Spots(s, text) # {} => n = 1)
    BY <2>2, <2>3, TurnsCounted
  <2>5. launchCase.part = "brief" /\ launcher[c].pc \in {"made", "done"} => Spots(s, text) # {}
    BY <2>0, <2>1 DEF Placed, HandedOut
  <2> QED
    BY <2>1, <2>3, <2>4, <2>5
<1>3. ReviewAsAsked
  BY DEF LaunchInv, ChildOK, Asked, ReviewAsAsked
<1> QED
  BY <1>1, <1>2, <1>3 DEF LaunchIsRight

\* A child does what it was launched for, for any number of children, briefs, crashes,
\* losses of power and things a person does at the terminals: its brief is on disk before the
\* session state names it, is taken at most once and by a child that is handed out exactly
\* once, and a review that is reported as started is the one that was asked for
THEOREM LaunchesRight == LaunchSpec => []LaunchIsRight
<1>1. LaunchInit => LaunchInv
  BY LaunchInitOK
<1>2. LaunchInv /\ [LaunchNext]_launchVars => LaunchInv'
  BY LaunchKeeps
<1>3. LaunchInv => LaunchIsRight
  BY LaunchInvRight
<1> QED
  BY <1>1, <1>2, <1>3, PTL DEF LaunchSpec
=============================================================================
